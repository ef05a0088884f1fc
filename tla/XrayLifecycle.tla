--------------------------- MODULE XrayLifecycle ---------------------------
(***************************************************************************)
(* Xray as a service of the server, and the three workers that manage it:  *)
(* unit Create/Edit (src/init/unit.rs, run_unit_apply), start, stop and    *)
(* restart (run_service_operation), and install, update and remove with    *)
(* the official script (src/xray/installer.rs), each one remote call after *)
(* the other, with the application's picture of the service               *)
(* (ApplicationService.service_state, discovery and the restart prompt).   *)
(*                                                                         *)
(* A unit file is a model value; systemd runs the copy it loaded last, a   *)
(* process the one it was started from. A command is answered, with success*)
(* or an exit code, or it breaks off and may have had its effect all the   *)
(* same; an SFTP request may also be refused. A copy and an atomic write   *)
(* are one step here: ConfigWrite has what they are made of. AppService    *)
(* has why one worker runs at a time.                                      *)
(***************************************************************************)
EXTENDS Naturals

CONSTANTS
    NoFile,      \* no unit file, no binary
    Stopped,     \* no process
    Found,       \* the unit file an administrator wrote
    Vendor,      \* a unit file of the distribution, outside /etc
    ScriptUnit,  \* the unit file the official script writes
    Authored,    \* the unit files of the Service page's form
    OldXray,     \* the binary an earlier installation left
    NewXray,     \* the binary the official script installs
    MaxJobs,     \* bound on the operations
    MaxFaults,   \* bound on the calls of one operation that fail
    MaxOutside   \* bound on what happens behind the application's back

ASSUME LifecycleAssumption ==
    /\ MaxJobs \in Nat /\ MaxFaults \in Nat /\ MaxOutside \in Nat
    /\ {NoFile, Stopped} \cap (Authored \union {Found, Vendor, ScriptUnit}) = {}
    /\ NoFile # Stopped /\ Vendor \notin Authored \union {Found, ScriptUnit}
    /\ NoFile \notin {OldXray, NewXray}

VARIABLES
    unit,     \* /etc/systemd/system/xray.service
    vendor,   \* the same name under /lib, which unit masks
    known,    \* the unit as systemd loaded it
    proc,     \* the unit the running process was started from, or Stopped
    bin,      \* the installed binary
    rights,   \* the login may write system directories
    copies,   \* what the running operation has backed up
    scratch,  \* what the running operation has in /tmp
    pc,       \* the worker's next call
    job,      \* the operation, with what it has found out
    before,   \* unit, known and bin as the operation found them
    link,     \* whether the operation's connection is up
    faults,   \* calls of the operation that broke off, requests refused
    state,    \* ApplicationService.service_state: is it running?
    seen,     \* what discovery found: the binary, the service
    prompt,   \* "Restart now?" is offered
    synced,   \* state was read and nothing uncertain has happened since
    jobs, outside

host == <<unit, vendor, known, proc, bin, rights>>
conn == <<link, faults>>
page == <<state, seen, prompt, synced>>
vars == <<host, copies, scratch, pc, job, before, conn, page, jobs, outside>>

Running(p) == IF p = Stopped THEN "stopped" ELSE "running"
InEffect == IF unit # NoFile THEN unit ELSE vendor
Unseen == [bin |-> FALSE, service |-> FALSE, ready |-> FALSE]

(* Without a binary the discovery does not look for a service.             *)
Snapshot == [bin |-> bin # NoFile, ready |-> TRUE,
             service |-> bin # NoFile /\ known # NoFile]

(* What an operation is asked to do, and what it finds out underway.       *)
Idle == [kind |-> "none", new |-> NoFile, password |-> FALSE, enable |-> FALSE,
         op |-> "none", service |-> FALSE, wasRunning |-> FALSE, since |-> 0,
         existed |-> FALSE, skipped |-> FALSE, refreshed |-> "unknown",
         error |-> "none"]

Units == Authored \union {NoFile, Found, ScriptUnit}
Binaries == {NoFile, OldXray, NewXray}
Stages == {"idle", "connect", "probe", "preflight", "exists", "copy_unit", "write",
           "sudo_tmp", "sudo_install", "sudo_drop", "reload", "restore", "enable",
           "start", "act", "refresh", "copy_bin", "fragment", "copy_config",
           "download", "verify", "script", "drop_script", "is_active", "done"}
Errors == Stages \union {"none", "rights", "backup", "refused", "broken", "not_running"}
ServiceOps == {"start", "stop", "restart", "enable"}
Jobs == [kind : {"none", "apply", "service", "install", "update", "remove"},
         new : Units, password : BOOLEAN, enable : BOOLEAN, op : ServiceOps \union {"none"},
         service : BOOLEAN, wasRunning : BOOLEAN, since : Nat,
         existed : BOOLEAN, skipped : BOOLEAN,
         refreshed : {"unknown", "running", "stopped"}, error : Errors]

Copies == {"copy_unit", "copy_bin"} \X (Units \union {Vendor} \union Binaries)
Pictures == [bin : BOOLEAN, service : BOOLEAN, ready : BOOLEAN]
Findings == [unit : Units, known : Units \union {Vendor}, bin : Binaries]

TypeOK ==
    /\ unit \in Units /\ vendor \in {NoFile, Vendor}
    /\ known \in Units \union {Vendor}
    /\ proc \in (Units \union {Vendor, Stopped}) \ {NoFile}
    /\ bin \in Binaries /\ rights \in BOOLEAN
    /\ copies \subseteq Copies
    /\ scratch \subseteq {"unit", "script"}
    /\ pc \in Stages /\ job \in Jobs
    /\ before \in Findings
    /\ link \in {"up", "lost"} /\ faults \in Nat
    /\ state \in {"unknown", "running", "stopped"}
    /\ seen \in Pictures
    /\ prompt \in BOOLEAN /\ synced \in BOOLEAN
    /\ jobs \in Nat /\ outside \in Nat

Init ==
    /\ unit \in {NoFile, Found} /\ vendor \in {NoFile, Vendor}
    /\ known = InEffect
    /\ bin \in {NoFile, OldXray}
    /\ proc \in IF NoFile \in {bin, known} THEN {Stopped} ELSE {Stopped, known}
    /\ rights \in BOOLEAN
    /\ copies = {} /\ scratch = {}
    /\ pc = "idle" /\ job = Idle
    /\ before = [unit |-> unit, known |-> known, bin |-> bin]
    /\ link = "up" /\ faults = 0
    /\ state = "unknown" /\ seen = Unseen
    /\ prompt = FALSE /\ synced = FALSE
    /\ jobs = 0 /\ outside = 0

-----------------------------------------------------------------------------
(* Remote calls.                                                           *)

At(stage) == pc = stage /\ UNCHANGED <<before, page, jobs, outside, rights, vendor>>

(* The server answers, with success or an exit code; the copy and the      *)
(* atomic write are answered as a whole.                                   *)
Answered == link = "up" /\ UNCHANGED conn

(* The call breaks off before the server has acted.                        *)
BrokenOff ==
    \/ link = "lost" /\ UNCHANGED conn
    \/ /\ link = "up" /\ faults < MaxFaults
       /\ faults' = faults + 1
       /\ link' \in {"up", "lost"}

(* The server refuses an SFTP request on a file in /tmp.                   *)
Refused ==
    /\ link = "up" /\ faults < MaxFaults
    /\ faults' = faults + 1 /\ UNCHANGED link

(* The server acts and its answer does not arrive.                         *)
AnswerLost == link = "up" /\ BrokenOff

Go(stage) == pc' = stage /\ UNCHANGED job
Noted(error) == job' = [job EXCEPT !.error = error]
Fail(error) == pc' = "done" /\ Noted(error)

(* A call that changes nothing and whose every failure ends the operation. *)
Query(stage, next) ==
    /\ At(stage)
    /\ \/ Answered /\ (Go(next) \/ Fail(stage))
       \/ BrokenOff /\ Fail(stage)
    /\ UNCHANGED <<unit, known, proc, bin, copies, scratch>>

(* create_backup puts the copy next to the original, through SFTP.         *)
Copy(stage, what, next) ==
    /\ At(stage)
    /\ \/ Answered /\ rights /\ what # NoFile /\ Go(next)
             /\ copies' = copies \union {<<stage, what>>}
       \/ Answered /\ Fail("backup") /\ UNCHANGED copies
       \/ BrokenOff /\ Fail("backup") /\ UNCHANGED copies
    /\ UNCHANGED <<unit, known, proc, bin, scratch>>

-----------------------------------------------------------------------------
(* install_or_replace_unit.                                                *)

Connect ==
    Query("connect", CASE job.kind = "apply"   -> "probe"
                       [] job.kind = "service" -> "act"
                       [] job.kind = "install" -> "download"
                       [] job.kind = "update"  -> "copy_bin"
                       [] job.kind = "remove" /\ job.service -> "fragment"
                       [] OTHER -> "copy_config")

(* id -u, test -w: without rights a password is needed.                    *)
ProbeRights ==
    /\ At("probe")
    /\ \/ Answered /\ (rights \/ job.password) /\ Go("preflight")
       \/ Answered /\ ~(rights \/ job.password) /\ Fail("rights")
       \/ BrokenOff /\ Fail("probe")
    /\ UNCHANGED <<unit, known, proc, bin, copies, scratch>>

Preflight == Query("preflight", "exists")

WriteCall == IF rights THEN "write" ELSE "sudo_tmp"

ProbeExists ==
    /\ At("exists")
    /\ \/ /\ Answered
          /\ job' = [job EXCEPT !.existed = unit # NoFile]
          /\ pc' = IF unit # NoFile THEN "copy_unit" ELSE WriteCall
       \/ BrokenOff /\ Fail("exists")
    /\ UNCHANGED <<unit, known, proc, bin, copies, scratch>>

(* MUTANT: a copy that fails is logged and the operation goes on.          *)
MutCopyUnit ==
    /\ At("copy_unit")
    /\ Go(IF job.kind = "apply" THEN WriteCall ELSE "copy_config")
    /\ \/ Answered /\ rights /\ copies' = copies \union {<<"copy_unit", unit>>}
       \/ (Answered \/ BrokenOff) /\ UNCHANGED copies
    /\ UNCHANGED <<unit, known, proc, bin, scratch>>

(* The installer copies the file systemd names, which is the one it loaded.*)
CopyUnit ==
    IF job.kind = "apply" THEN Copy("copy_unit", unit, WriteCall)
    ELSE Copy("copy_unit", IF known = Vendor THEN vendor ELSE unit, "copy_config")

(* After a failed write or reload: back to the copy, if there is one.      *)
Retreat(error) ==
    /\ pc' = IF job.existed THEN "restore" ELSE "done"
    /\ Noted(error)

(* The atomic write, with the gap its fallback may leave.                  *)
WriteUnit ==
    /\ At("write")
    /\ \/ Answered /\ unit' = job.new /\ Go("reload")
       \/ Answered /\ unit' \in {unit, NoFile} /\ Retreat("refused")
       \/ BrokenOff /\ unit' \in {unit, NoFile} /\ Retreat("broken")
       \/ AnswerLost /\ unit' = job.new /\ Retreat("broken")
    /\ UNCHANGED <<known, proc, bin, copies, scratch>>

(* An upload that fails is left as far as it got.                          *)
SudoUpload ==
    /\ At("sudo_tmp")
    /\ \/ Answered /\ scratch' = {"unit"} /\ Go("sudo_install")
       \/ (Refused \/ BrokenOff) /\ scratch' \in {{}, {"unit"}} /\ Retreat("broken")
    /\ UNCHANGED <<unit, known, proc, bin, copies>>

(* MUTANT: the exit code of sudo install is not looked at.                 *)
MutSudoInstall ==
    /\ At("sudo_install")
    /\ \/ Answered /\ unit' \in {unit, job.new} /\ Go("sudo_drop")
       \/ BrokenOff /\ unit' \in {unit, job.new} /\ Retreat("broken")
    /\ UNCHANGED <<known, proc, bin, copies, scratch>>

(* sudo install; a wrong password is an answer. Any answer is followed by  *)
(* the removal of the upload, which stays when there is none.              *)
SudoInstall ==
    /\ At("sudo_install")
    /\ \/ Answered /\ unit' = job.new /\ Go("sudo_drop")
       \/ Answered /\ UNCHANGED unit
             /\ pc' = "sudo_drop" /\ Noted("refused")
       \/ BrokenOff /\ UNCHANGED unit /\ Retreat("broken")
       \/ AnswerLost /\ unit' = job.new /\ Retreat("broken")
    /\ UNCHANGED <<known, proc, bin, copies, scratch>>

(* A removal that fails is ignored.                                        *)
SudoDrop ==
    /\ At("sudo_drop")
    /\ IF job.error = "none" THEN Go("reload") ELSE Retreat(job.error)
    /\ \/ (Answered \/ AnswerLost) /\ scratch' = {}
       \/ (Refused \/ BrokenOff) /\ UNCHANGED scratch
    /\ UNCHANGED <<unit, known, proc, bin, copies>>

Reloaded == IF job.enable THEN "enable" ELSE "done"

(* MUTANT: a failed reload is reported and the copy forgotten.             *)
MutReload ==
    /\ At("reload")
    /\ \/ Answered /\ known' = InEffect /\ Go(Reloaded)
       \/ Answered /\ UNCHANGED known /\ Fail("refused")
       \/ BrokenOff /\ known' \in {known, InEffect} /\ Fail("broken")
    /\ UNCHANGED <<unit, proc, bin, copies, scratch>>

Reload ==
    /\ At("reload")
    /\ \/ Answered /\ known' = InEffect /\ Go(Reloaded)
       \/ Answered /\ UNCHANGED known /\ Retreat("refused")
       \/ BrokenOff /\ UNCHANGED known /\ Retreat("broken")
       \/ AnswerLost /\ known' = InEffect /\ Retreat("broken")
    /\ UNCHANGED <<unit, proc, bin, copies, scratch>>

(* restore_backup, whose own failure is only logged.                       *)
Restore ==
    /\ At("restore") /\ Go("done")
    /\ \/ (Answered \/ AnswerLost) /\ \E c \in copies : c[1] = "copy_unit" /\ unit' = c[2]
       \/ BrokenOff /\ unit' \in {unit, NoFile}
    /\ UNCHANGED <<known, proc, bin, copies, scratch>>

Enable == Query("enable", "start")

-----------------------------------------------------------------------------
(* systemctl start, stop, restart, and the question that follows.          *)

(* systemd answers once it has forked: without a binary, and when Xray     *)
(* does not like its configuration, nothing runs then.                     *)
Forked == {Stopped} \cup (IF bin = NoFile THEN {} ELSE {known})

(* systemctl start leaves a running service alone. "enable" stands for     *)
(* disable and reload too.                                                 *)
Does(op) ==
    CASE op = "start"   -> known # NoFile /\ proc' \in IF proc = Stopped THEN Forked ELSE {proc}
      [] op = "stop"    -> proc' = Stopped
      [] op = "restart" -> known # NoFile /\ proc' \in Forked
      [] op = "enable"  -> UNCHANGED proc

(* Each may be refused, for lack of rights too; a stop or a restart that   *)
(* fails may have stopped the process.                                     *)
DoesNot(op) == proc' \in {proc} \cup (IF op \in {"stop", "restart"} THEN {Stopped} ELSE {})

(* run_unit_apply takes the answer for the success.                        *)
StartService ==
    /\ At("start")
    /\ \/ Answered /\ Does("start") /\ Go("done")
       \/ Answered /\ DoesNot("start") /\ Fail("start")
       \/ BrokenOff /\ UNCHANGED proc /\ Fail("start")
       \/ AnswerLost /\ Does("start") /\ Fail("start")
    /\ UNCHANGED <<unit, known, bin, copies, scratch>>

Act ==
    /\ At("act")
    /\ \/ Answered /\ Does(job.op) /\ Go("refresh")
       \/ /\ Answered /\ DoesNot(job.op)
          /\ pc' = "refresh" /\ Noted("act")
       \/ /\ BrokenOff /\ UNCHANGED proc
          /\ pc' = "refresh" /\ Noted("act")
       \/ /\ AnswerLost /\ (Does(job.op) \/ DoesNot(job.op))
          /\ pc' = "refresh" /\ Noted("act")
    /\ UNCHANGED <<unit, known, bin, copies, scratch>>

(* MUTANT: the new state is inferred from the action.                      *)
MutRefresh ==
    /\ At("refresh") /\ pc' = "done"
    /\ Answered
    /\ job' = [job EXCEPT !.refreshed = IF job.op = "stop" THEN "stopped" ELSE "running"]
    /\ UNCHANGED <<unit, known, proc, bin, copies, scratch>>

(* systemctl is-active, whether or not the action succeeded.               *)
Refresh ==
    /\ At("refresh") /\ pc' = "done"
    /\ \/ Answered /\ job' = [job EXCEPT !.refreshed = Running(proc)]
       \/ BrokenOff /\ UNCHANGED job
    /\ UNCHANGED <<unit, known, proc, bin, copies, scratch>>

-----------------------------------------------------------------------------
(* install, update, remove.                                                *)

CopyBinary == Copy("copy_bin", bin, IF job.service THEN "fragment" ELSE "copy_config")

(* A refused query skips the copy of the unit with a warning.              *)
Fragment ==
    /\ At("fragment")
    /\ \/ Answered /\ Go(IF known # NoFile THEN "copy_unit" ELSE "copy_config")
       \/ Answered /\ pc' = "copy_config" /\ job' = [job EXCEPT !.skipped = TRUE]
       \/ BrokenOff /\ Fail("fragment")
    /\ UNCHANGED <<unit, known, proc, bin, copies, scratch>>

(* The configuration files are copied too; nothing changes them here.      *)
CopyConfig == Query("copy_config", "download")

Download ==
    /\ At("download")
    /\ \/ Answered /\ scratch' = {"script"} /\ Go("verify")
       \/ Answered /\ scratch' \in {{}, {"script"}}
             /\ pc' = "drop_script" /\ Noted("download")
       \/ BrokenOff /\ scratch' \in {{}, {"script"}} /\ Fail("download")
    /\ UNCHANGED <<unit, known, proc, bin, copies>>

(* MUTANT: a script that is refused is left where it is.                   *)
MutVerify ==
    /\ At("verify")
    /\ \/ Answered /\ (Go("script") \/ Fail("verify"))
       \/ BrokenOff /\ Fail("verify")
    /\ UNCHANGED <<unit, known, proc, bin, copies, scratch>>

(* The script has to begin with #!; when it cannot be read it stays.       *)
Verify ==
    /\ At("verify")
    /\ \/ Answered /\ Go("script")
       \/ Answered /\ pc' = "drop_script" /\ Noted("verify")
       \/ (Refused \/ BrokenOff) /\ Fail("verify")
    /\ UNCHANGED <<unit, known, proc, bin, copies, scratch>>

(* What the official script has done when it ends well.                    *)
ScriptDone ==
    IF job.kind = "remove"
    THEN bin' = NoFile /\ unit' = NoFile /\ known' = vendor /\ proc' = Stopped
    ELSE /\ bin' = NewXray /\ unit' = ScriptUnit /\ known' = ScriptUnit
         /\ proc' \in {Stopped, ScriptUnit}

(* ... and when it stops halfway: each of its effects or not.              *)
ScriptHalf ==
    /\ bin' \in {bin, IF job.kind = "remove" THEN NoFile ELSE NewXray}
    /\ unit' \in {unit, IF job.kind = "remove" THEN NoFile ELSE ScriptUnit}
    /\ known' \in {known, IF unit' # NoFile THEN unit' ELSE vendor}
    /\ proc' \in {proc, Stopped, known'} \ {NoFile}

RunScript ==
    /\ At("script") /\ pc' = "drop_script"
    /\ \/ Answered /\ rights /\ ScriptDone /\ UNCHANGED job
       \/ /\ Answered \/ BrokenOff
          /\ IF rights THEN ScriptHalf ELSE UNCHANGED <<unit, known, proc, bin>>
          /\ Noted("script")
    /\ UNCHANGED <<copies, scratch>>

DropScript ==
    /\ At("drop_script")
    /\ Go(IF job.error # "none" \/ job.kind = "remove" THEN "done" ELSE "is_active")
    /\ \/ (Answered \/ AnswerLost) /\ scratch' = {}
       \/ (Refused \/ BrokenOff) /\ UNCHANGED scratch
    /\ UNCHANGED <<unit, known, proc, bin, copies>>

IsActive ==
    /\ At("is_active")
    /\ \/ Answered /\ proc # Stopped /\ Go("done")
       \/ Answered /\ proc = Stopped /\ Fail("not_running")
       \/ BrokenOff /\ Fail("is_active")
    /\ UNCHANGED <<unit, known, proc, bin, copies, scratch>>

Worker ==
    \/ Connect \/ ProbeRights \/ Preflight \/ ProbeExists \/ CopyUnit
    \/ WriteUnit \/ SudoUpload \/ SudoInstall \/ SudoDrop \/ Reload \/ Restore
    \/ Enable \/ StartService \/ Act \/ Refresh
    \/ CopyBinary \/ Fragment \/ CopyConfig \/ Download \/ Verify
    \/ RunScript \/ DropScript \/ IsActive

-----------------------------------------------------------------------------
(* The application.                                                        *)

Launch(asked) ==
    /\ pc = "idle" /\ seen.ready /\ jobs < MaxJobs
    /\ jobs' = jobs + 1
    /\ pc' = "connect" /\ job' = [asked EXCEPT !.since = outside]
    /\ before' = [unit |-> unit, known |-> known, bin |-> bin]
    /\ copies' = {} /\ scratch' = {} /\ link' = "up" /\ faults' = 0
    /\ prompt' = FALSE
    /\ UNCHANGED <<host, state, seen, synced, outside>>

StartUnitApply ==
    \E new \in Authored, password \in BOOLEAN, enable \in BOOLEAN :
        Launch([Idle EXCEPT !.kind = "apply", !.new = new, !.password = password,
                            !.enable = enable, !.wasRunning = state = "running"])

StartServiceOperation ==
    /\ seen.service
    /\ \E op \in ServiceOps :
           Launch([Idle EXCEPT !.kind = "service", !.op = op])

StartXrayLifecycle ==
    \E kind \in {"install", "update", "remove"} :
        /\ seen.bin = (kind # "install")
        /\ Launch([Idle EXCEPT !.kind = kind, !.service = seen.service])

Ok == job.error = "none"

(* start_discovery forgets the service; a pending connection test makes it *)
(* refuse, and nobody tries again.                                         *)
Rediscover ==
    /\ synced' = FALSE
    /\ \/ state' = "unknown" /\ seen' = Unseen
       \/ UNCHANGED <<state, seen>>

(* MUTANT: "Enable and start" is taken for a restart.                      *)
MutNeedsRestartPrompt == Ok /\ job.wasRunning /\ ~job.enable

NeedsRestartPrompt == Ok /\ job.wasRunning

PollUnitApply ==
    /\ job.kind = "apply"
    /\ prompt' = NeedsRestartPrompt
    /\ IF Ok THEN Rediscover
       ELSE synced' = (synced /\ faults = 0) /\ UNCHANGED <<state, seen>>

PollService ==
    /\ job.kind = "service" /\ UNCHANGED <<seen, prompt>>
    /\ IF job.refreshed = "unknown" THEN UNCHANGED state /\ synced' = FALSE
       ELSE state' = job.refreshed /\ synced' = (outside = job.since)

(* A failed operation is not followed by a discovery.                      *)
PollLifecycle ==
    /\ job.kind \in {"install", "update", "remove"} /\ UNCHANGED prompt
    /\ IF Ok THEN Rediscover ELSE synced' = FALSE /\ UNCHANGED <<state, seen>>

Poll ==
    /\ pc = "done" /\ pc' = "idle" /\ job' = Idle
    /\ PollUnitApply \/ PollService \/ PollLifecycle
    /\ UNCHANGED <<host, copies, scratch, before, conn, jobs, outside>>

(* Discovery's reading of the service, and its report.                     *)
Discover ==
    /\ pc = "idle"
    /\ seen' = Snapshot
    /\ state' = IF Snapshot.service THEN Running(proc) ELSE "unknown"
    /\ synced' = Snapshot.service
    /\ UNCHANGED <<host, copies, scratch, pc, job, before, conn, prompt, jobs, outside>>

(* The administrator edits the unit, reloads or not, starts and stops; a   *)
(* process may also end by itself.                                         *)
Outside ==
    /\ outside < MaxOutside
    /\ outside' = outside + 1 /\ synced' = FALSE
    /\ \/ unit' \in {NoFile, Found} /\ UNCHANGED <<known, proc>>
       \/ known' = InEffect /\ UNCHANGED <<unit, proc>>
       \/ proc' = Stopped /\ UNCHANGED <<unit, known>>
       \/ NoFile \notin {bin, known} /\ proc' = known /\ UNCHANGED <<unit, known>>
    /\ UNCHANGED <<vendor, bin, rights, copies, scratch, pc, job, before, conn>>
    /\ UNCHANGED <<state, seen, prompt, jobs>>

Next ==
    \/ StartUnitApply \/ StartServiceOperation \/ StartXrayLifecycle
    \/ Worker \/ Poll \/ Discover \/ Outside

Spec == Init /\ [][Next]_vars

-----------------------------------------------------------------------------
Undisturbed == outside = job.since

(* Nothing that was found is overwritten without a copy: while an apply,   *)
(* an update or a removal runs, the unit file it found is in place or in a *)
(* copy, and so is the binary an update replaces. (systemd has to have     *)
(* told of the file: a refused query skips the copy, and an unloaded file  *)
(* is not named.)                                                          *)
Kept(path, what) == what = NoFile \/ path = what \/ what \in {c[2] : c \in copies}

NothingLost ==
    Undisturbed =>
    /\ \/ job.kind = "apply"
       \/ job.kind \in {"update", "remove"} /\ job.service /\ ~job.skipped
             /\ before.known = before.unit
       => Kept(unit, before.unit)
    /\ job.kind = "update" => Kept(bin, before.bin)

(* One failure of the write or of daemon-reload on a connection that       *)
(* stays up leaves the unit file as it was found (install_or_replace_unit).*)
FailedApplyRestores ==
    /\ pc = "done" /\ job.kind = "apply" /\ job.existed /\ Undisturbed
    /\ \/ job.error = "refused" /\ faults = 0
       \/ job.error = "broken" /\ faults = 1 /\ link = "up"
    => unit = before.unit

(* A unit reported as applied is the file on disk and the one systemd      *)
(* knows. (That it runs is not promised by "Enable and start" either:      *)
(* run_unit_apply does not ask.)                                           *)
OkIsApplied ==
    pc = "done" /\ job.kind = "apply" /\ Ok /\ Undisturbed =>
    unit = job.new /\ known = job.new

(* While nothing uncertain has happened since it was read, the state on    *)
(* the page is that of the service, also after a failed start or stop.     *)
PageIsTrue == synced /\ pc = "idle" => state = Running(proc)

(* An operation leaves nothing in /tmp as long as no call breaks off and   *)
(* the requests on its file there are granted: what a failed download, an  *)
(* unusable script, a wrong password or a failed script leave is removed.  *)
(* (sudo_write_unit_file and run_official_script remove it on these paths, *)
(* and leave an upload or a script whose write, read or removal is refused.)*)
NoScratchLeft == pc = "done" /\ faults = 0 => scratch = {}

(* After an apply that succeeded, a process that still runs another unit   *)
(* is never left without the question whether to restart it, as long as    *)
(* the page knew the service (needs_restart_prompt).                       *)
OffersRestart ==
    pc = "done" /\ pc' = "idle" /\ job.kind = "apply" /\ Ok /\ synced
    /\ proc # Stopped /\ proc # known
    => prompt'

PromptWhenNeeded == [][OffersRestart]_vars
=============================================================================
