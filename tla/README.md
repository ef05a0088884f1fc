# Feldjäger: verification models

Feldjäger is a desktop panel, written in Rust, that manages one remote Xray
server at a time over SSH. This directory holds TLA+ models of the parts of it
whose correctness depends on the order in which things happen, the TLC
instances that check them, and TLAPS proofs of what matters most. Source paths
below are relative to the repository.

Contents: [the system](#the-system), [modules](#modules), [runs](#runs),
[bounds](#bounds), [fairness](#fairness), [proofs](#proofs),
[what the models found](#what-the-models-found),
[what is not modelled](#what-is-not-modelled), [plan](#plan).

## The system

    egui pages --calls--> ApplicationService (one UI thread, polled every frame)
                             | spawns one thread per operation      ^
                             v                                      | mpsc, one
    worker threads: *_ops.rs, config_write, geodata, xray_logs ------+ outcome or
                             |                                        a stream
                             v
    RemoteAdmin, BackupManager, installer, log service
                             |
                             v
    SshBackend (crate feldjaeger-ssh): exec, SFTP --> the server, which others
                                                      (administrators, Xray,
                                                      logrotate) change as well

| Component | State it keeps | Operations | Hard behaviours | Correct when |
|---|---|---|---|---|
| Safe configuration write (`app/config_write.rs`, the `*_settings_ops.rs`, `user_ops.rs`, `inbound_ops.rs`, `outbound_ops.rs`, `confdir_ops.rs`, `backup_ops.rs`, `remote/`, the SFTP file writer) | remote file, temporary and moved-aside files, backups; the loaded copy the job was started with | conflict check, backup, atomic write, `xray run -test`, restore, create and remove of a confdir member | a dozen remote calls, each of which can fail with or without effect; lost connection; crash; edits by hand between two calls | the file is replaced at once or not at all, is never torn, is backed up before, and the report is true |
| Application service (`app/service.rs`, 13 000 lines) | connection form, SSH status, discovery state, loaded configuration, edit forms, one channel per operation, the status line | `start_*` of every operation, `poll_*` from `tick_status` | workers, discoveries and clicks in any order; guards read off a status line; the host is read from the form at the click | one operation at a time, no saved change lost, nothing sent to the wrong server, never busy for ever |
| Xray logs page (`app/xray_logs.rs` and its part of `service.rs`) | UI state, generation, channels, stop flag | probe, read, follow, stop, pick a source | late events of superseded workers, stop flags handed between sessions | nothing stale is shown, no session reads for nobody, Loading ends |
| Log following (`xray/logs/service.rs`) | offset or journal cursor | tail, stat and tail again; journal after cursor | the log grows or is emptied between two commands | no line is lost but those written between the tail and the first stat |
| GeoData update (`xray/geodata.rs`) | downloads, rollback copies, plan per database | download, verify, copy, replace, rollback, cleanup | the second of two replacements fails; lost answers; crash | what was there can be recovered, nothing torn goes live |
| Target scan (`app/target_scan_ops.rs` and its part of `service.rs`) | shared index and counter, cancel flag, event channel | claim, probe, report, stop, join | workers race; reports out of order; panics | each host probed once, no candidate lost, the scan ends |
| Unit files and service control (`init/`, `app/service_control.rs`) | unit file, its backup, the service's state, the restart prompt | preflight, write with or without sudo, daemon-reload, restore, enable; start, stop, restart | calls that break off with or without effect; privilege of the write and of the restore; what systemd loaded against what is on disk | nothing found is lost, a failed apply restores what it replaced, the page and its restart question are right |
| Xray installer (`xray/installer.rs`) | temporary script, copies of binary, unit and configuration | install, update, remove, verify | failures between download, verification and script | what was replaced was copied, nothing left behind where the connection holds |
| WARP (`xray/warp/`, `app/warp.rs`) | account state file, generation of results | register, apply, remove, check | results of an older generation | account and configuration agree |
| Editors (`app/inbounds.rs`, `outbounds.rs`, `users.rs`, `share_material.rs`) | drafts, the entry they were opened on with its fingerprint, generated keys | begin, edit, save, delete, duplicate, rename, generate | a rediscovery or another window's edit between opening and confirming; keys that arrive after the editor moved on; persisting threads that overtake each other | what is saved is what was opened |
| Configuration model (`xray/config/`) | per file its JSON root; the merged lists and winning sections beside them | parse, add, replace, remove, rename, duplicate, set a section, add and remove files | two copies of the same entries kept in step by position; references from one section to another; files that override each other | the copies agree, tags stay unique, no dangling reference |
| SSH crate (`feldjaeger-ssh`) | session | connect, exec, SFTP | timeouts | see its calls in the models |
| Discovery, CLI consoles, share links, local storage, GUI | snapshots and text | queries, formats, one local file | none or little | |

`PROJECT.json` lists the components with their status and the hazards with the
line of code where each bites.

## Modules

Names follow the source: an action has the name of the function it models, or
of the step of it, and a comment where it simplifies. Operators that begin with
`Mut` are altered forms of the definition that follows them, each a mistake the
code could have made; no specification uses them. `PROJECT.json` maps every
definition to its lines and says which property refuses which altered form.

**ConfigStore** is the abstract promise of a configuration write: a file that
is replaced at once by what was asked for or not at all, and a report that is
honest; "unknown" allows a result in between the two. Others may change the
file (`Disturb`).

**ConfigWrite** is one worker thread and the file it changes, one action per
remote call: `Compare` (`write_with_conflict_check`), `ReadOriginal` and
`WriteBackup` (`BackupManager::create_backup`), `WriteTemp`, `RenameOver`,
`Displace`, `FillGap`, `DropAside`, `UndoDisplace` (the atomic write of the SSH
crate with its fallback for servers that refuse to rename onto an existing
file), `RunTest`, `ReadBackup` and the same writing steps again for the restore
(`stage = "restore"`), `Probe`, `Create`, `Unlink`, `Uncreate` for members of a
confdir. `pc` is the next call. A call can be refused, or stay without an
answer, with its effect done or not: because the connection goes (`session`),
or because an SFTP request timed out after ten seconds while the session lives
on (`lost`), so that the fallback and the cleanup still run. A request carried
out later still, behind the calls that followed it, is left out. The SFTP
server replaces or refuses when a rename meets a file (`server`). Five kinds of
job stand for the two dozen writers: they differ only in which of these calls
they make.
A content is a model value with a size; a half-uploaded file is `Torn`.
`ImplementsStore` instantiates ConfigStore over it.

**AppService** is the UI thread. `chan[k]` is the channel of the one worker of
each kind of operation, with the host and the loaded configuration it was given
when it was started. A configuration is the host it was made for and the set of
changes it carries. `AnyBusy`, `CanStartDiscovery` and `Ready` are the guards of
the code, including that three kinds are seen through `operation`, the status
line. A worker's effect on the server is one step here; ConfigWrite has what it
is made of. Polls run in any order, which is exact because workers finish at
any time. Simplified: the connection form is a host (an incomplete profile
refuses every start); discovery's reading is one step; operations that only
read (unit and backup lists, API, statistics, version checks) and GeoData are
not among the kinds; the outdated branch of WARP's generation check is
unreachable with one WARP worker and left out.

**XrayLogs** is the Logs page's runtime: `ui`, `generation`, `probe_rx`,
`event_rx`, `follow_stop`, and the workers with their phase and stop flag.
`other` is any other operation (they exclude each other through `AnyBusy`);
`known` is what the page needs of discovery; `era` counts saves of the log
settings. Lines are identified by where they were read from.

**LogFollow** is the follow worker against a log that Xray writes and that may
be emptied. A line is a number and the size of a file the number of its lines;
polls that catch half a line and the trimming of the page's buffer are left
out. `from` is the newest line at the tail, `joined` the newest when the
worker's mark was set: for a file the two differ by what was written between
the tail and the first stat.

**GeoData** is one update of any number of databases. A download can end well
and have fetched nothing, which counts as a fault. The order in which downloads
are cleaned up is free, and the temporary file an atomic write that failed may
leave is not modelled.

**TargetScan** is the scan: workers with the atomic index, counter and cancel
flag they share, the thread that joins them, the channel and the page. The
looks at the cancel flag before a claim, after a report and during the pause
are one action, since nothing happens between them. A host is its index;
whether it is a candidate is free. A probe may panic, and the system may refuse
to create a thread, which panics the joining thread before it can send `Done`.

**EditableConfig** is the configuration an operation edits, as pure operators:
the JSON root of every file and, beside them, the merged inbounds and outbounds
and the winning section (`Merged`, `Winner`, `Parse`), and what
`xray/config/modify.rs` and `editable.rs` do to both copies at once
(`AppendItem`, `ReplaceItem`, `RemoveItem`, `SetRouting`, `AddFile`,
`RemoveFile`, `CopyTag`), with the choice of the file a new entry or section
goes to. `routing` stands for the thirteen sections that occur once; an entry
is a tag and one bit. References are those of routing rules; the selectors of
balancers, which name outbounds by prefix and block more deletions, are left
out.

**ConfDir** is a configuration directory, the loaded copy and the operations on
both: dialogs and editors opened on a position (`Open`) and confirmed later
(`SaveEntry`, `Delete`, `Rename`, `Duplicate`, `AddClient`, `DropClient`), the
Add forms, routing, WARP's outbound, files created and removed, discovery
(which may be unable to read a file) and an administrator. A worker is one
step here: it edits a clone, writes one file and installs the clone, or leaves
all as it was. Settings, WARP and restore compare with the server before they
write, the workers of entries and clients do not.

**XrayLifecycle** is Xray as a service of the server, and three workers call by
call: unit Create and Edit (`run_unit_apply`: preflight, backup, the direct
write or the write through /tmp and sudo, daemon-reload, restore, enable,
start), the service operations, and install, update and remove with the
official script, whose effect is external. systemd appears as the unit on
disk, the unit it loaded and the unit the process was started from. Beside
them, the page: `service_state`, what discovery found, the restart prompt. A
call may be refused, or break off with its effect done or not; refused requests
on a file in /tmp count as faults, because they leave it there. A start that is
answered may leave nothing running (systemd reports a simple unit as started
once it forked, and nobody asks again), and a refused restart may have stopped
the process. A copy and an
atomic write are one step here; ConfigWrite has what they are made of.

`MCConfigWrite`, `MCAppService`, `MCXrayLogs`, `MCLogFollow`, `MCGeoData`,
`MCTargetScan`, `MCConfDir` and `MCXrayLifecycle` give the constants values for
TLC; the configurations are named after the module (`ConfigWrite.cfg`,
`AppServiceOne.cfg`, `AppServiceHosts.cfg`, `AppServiceRace.cfg`,
`AppServiceWrongHost.cfg`, `XrayLogs.cfg`, `LogFollow.cfg`, `GeoData.cfg`,
`TargetScan.cfg`, `ConfDir.cfg`, `ConfDirRemoval.cfg`, `XrayLifecycle.cfg`).
`*Proofs` modules hold the theorems.

How they fit together: AppService sees a ConfigWrite transaction, a ConfDir
operation, a GeoData update, an XrayLifecycle job or a scan as one operation;
ConfDir and XrayLifecycle see the write of one file as one step, which
ConfigWrite takes apart and ConfigStore promises; XrayLogs sees AppService as
`other` and `known`; and LogFollow is what a worker in phase `poll` of XrayLogs
does. Except for ConfigWrite and ConfigStore, and ConfDir and EditableConfig,
the modules share no definitions.

## Runs

| Run | Checks | Shows |
|---|---|---|
| `config_write` | `CrashAtomic`, `OutcomeTruthful`, `RefusalHarmless`, `BackedUpBeforeOverwrite`, `StaleCopyNeverWritten`, `ImplementsStore` | jobs of each kind, two in a row, on both kinds of server, up to two failing calls per job, a crash anywhere and an administrator's edit at any moment: at the path is the content found, the content asked for, or nothing with the old content in the backup; the report is true; a refusal costs nothing; what is overwritten is in a backup; writers that compare write no stale copy; every behaviour is one of ConfigStore |
| `app_one_host` | `NoLostUpdate`, `ViewIsCurrent`, `BusyEnds` | with the kinds that hold a discovery off, no saved change is lost, the pages show it, and the application never stays busy |
| `app_hosts` | `OneAtATime`, `LogFormFits`, `ComparersKeepHome` | two servers, all kinds, the form edited at will |
| `app_save_discovery_race` | `NoLostUpdate` (violated) | a settings save overlapped by a discovery |
| `app_wrong_host` | `NoForeignConfig` (violated) | a user change after the connection form was edited |
| `logs_page` | `NothingStaleShown`, `NoOrphanFollow`, `LoadingEnds`, `AbandonedFollowEnds` | probes, reads, follows, stops, source changes, a save of the log settings and rediscoveries in any order |
| `log_follow` | `OnlyJoiningSkips`, `Contiguous`, `OthersShown` | file and journal, written and emptied between any two commands: only the lines written between the tail of a file and its first stat are skipped |
| `geodata_update` | `OldRecoverable`, `NeverTorn`, `CleanAfterOneFault`, `RolledBack` | two databases, three failing calls or empty downloads, lost connection, crash: the old is recoverable, nothing torn or empty goes live, and one fault is rolled back and cleaned up |
| `confdir` | `MirrorsRoots`, `LoadedIsDisk`, `TagsStayUnique`, `DeleteKeepsReferences`, `SavesWhatWasOpened` | the merged lists stay those of the files, tags stay unique, a deletion leaves no rule naming nothing, and an editor saves the entry it was opened on |
| `confdir_removal` | `RemovedFileIsEmpty` (violated) | a file whose only section a later file overrides is removed |
| `xray_lifecycle` | `NothingLost`, `FailedApplyRestores`, `OkIsApplied`, `PageIsTrue`, `NoScratchLeft`, `PromptWhenNeeded` | two operations on every kind of server with broken calls and an administrator in between: what was found is kept, a failed apply restores, a reported one is on disk and loaded, nothing stays in /tmp without a fault, the page and its restart question are right |
| `target_scan` | `ProbedOnce`, `DoneIsLast`, `ScanComplete`, `StopBites`, `ScanEnds` | two workers race for three hosts, scan after scan |

The type invariants are not checked by runs: `TypeOK` is proved for every
module that has one, and the types of ConfDir are part of its `IInv`.

Deadlock is not checked where a bound on operations or lines or the end of the
one operation that is modelled lets the model stop; ConfigWrite, TargetScan, ConfDir and XrayLifecycle always have a
step (a discovery, a new scan) and are checked for it.

## Bounds

* ConfigWrite: three contents (two that pass the test, one that does not), two
  seconds, two jobs: enough for a job to start from the loaded copy its
  predecessor left, and for two backups with different or equal names. Two
  faults per job: one to enter the restore or the fallback, one to break it.
  One edit by an administrator at any moment; in the behaviours that have one,
  one failing call per job and the server that replaces (`Bounded`): what the
  properties say after an edit is weaker, and the proofs have no such limit.
  The two contents that pass the test are interchangeable (`Alike`), which is
  sound because nothing but safety is checked (2,963,222 states).
* AppService: two hosts are all a configuration can be confused between; three
  operations on one host (save, another save, and the change that would lose
  it), two on two hosts.
* XrayLogs: two sources, two read or follow workers, two probes, one save, two
  changes of source: every way for a worker to outlive the page's interest in
  it and meet its successor. `MaxGeneration` bounds only the picking of
  sources.
* LogFollow: six lines, a tail of two, two per poll: a backlog larger than one
  poll, and a tail shorter than the log. One truncation.
* GeoData: two databases as in the code, three faults: the replacement, its
  rollback, and the cleanup.
* TargetScan: two workers, three hosts: a worker claims twice, and both find
  the queue at its end. Scans repeat without bound.
* ConfDir: two files and room for a third, two names that differ in case, lists
  of three, starting from a directory with entries in the later file, in both,
  and with a routing section that a later file overrides. Two operations, one
  edit by an administrator, one unreadable file per discovery; discoveries and
  dialogs are unbounded. Two operations suffice for a dialog to be confirmed
  after another edit moved its entry (421,507 states).
* XrayLifecycle: two different forms of the unit, an administrator's and a
  distribution's unit, an old and a new binary, a login with and without the
  right to write system directories. Two jobs, two broken calls each (one to
  enter the restore, one to break it), one change from outside (2,000,128
  states).

## Fairness

* Frames: `tick_status` calls every poll function in every frame, so polls are
  weakly fair.
* Workers: a worker's next step is weakly fair. For the scan the code justifies
  it (DNS and TLS probes have timeouts, `netinfo/dns.rs:17`,
  `netinfo/tls_probe.rs:28`). For the SSH workers it is partly an assumption:
  connecting has a ten-second timeout, `xray run -test` and SFTP requests have
  theirs, but other commands on a connection that went silent never return
  (`feldjaeger-ssh/src/russh/client.rs:113`). `BusyEnds`, `LoadingEnds`,
  `AbandonedFollowEnds` and `OthersShown` hold for servers that answer or break
  the connection.
* ConfigWrite, GeoData, ConfDir and XrayLifecycle are checked for safety only
  and state no fairness.
* Nothing the user or an administrator does, no fault, no crash, no new log
  line and no Stop is fair.

## Proofs

TLAPS proves, for all values of the constants, under the named assumptions of
each module and nothing else:

| Module | Theorems | Argument |
|---|---|---|
| ConfigWriteProofs | `TypeCorrect`, `CrashAtomicity`, `TruthfulOutcomes`, `WorkerImplementsStore` | Neither property is inductive: whether a step is safe depends on where the previous call left the content. `Places` says for every `pc` where the old and new contents are (as long as nobody else edits), `Shape` what the worker holds. `IInv` is their conjunction with the type and the two properties. The refinement maps each step that touches the live file to a step of ConfigStore and the others to stuttering. |
| | `StaleCopyStays` | `Fresh`: past the comparison what was live at the start is the copy the job was started from. A settings writer that found no file has no such copy and stops at the backup. |
| | `OneRefusalHarmless` | The property counts faults, so the invariant says which calls are reached only by one. `Requested`: there is content to write, a dead connection or a lost answer means a fault, the temporary file is where it was put while every call was answered (true whoever edits); `Prepared`, as long as nobody edits: the backup can be put back, and the fallback of the rename is entered by a fault or by a server that refuses to replace, which leaves nothing to undo. `Places` says where the old content is while every call was answered (`Certain`), and where it may be otherwise. |
| | `AlwaysBackedUp` | A property of steps: by `Places` only four calls take something from the live path (`TakesBackedUp`), and at each the content is in a backup or the job's own. It says nothing of a file somebody else edited between the job's backup and its write. |
| AppServiceProofs | `TypeCorrect`, `OneOperation`, `ComparersStayHome`, `ComparedStaysHome` | `OneAtATime` is inductive with the type invariant: every start is guarded by `AnyBusy`, whose reading of the status line is what the proof has to get around, and a discovery drops only channels it held off for. `ComparersStayHome` is a step property from the type invariant. `ComparedStaysHome` assumes that the kinds that do not compare (`"user"`, `"bound"`) are absent: then hosts hold only configurations made for them; the run `app_wrong_host` shows that the assumption is needed. |
| | `LogFormStays` | `FormInv`: no discovery runs while the form is open, and the open form, the loaded configuration and the copy of a save in flight belong to one host. |
| | `ComparedUpdatesKept` | For any hosts, if the kinds that do not compare are absent, even where a discovery may overlap a save: `KeptInv` with `Landed`, a reported save is on the server it was sent to. A copy that lacks a change differs from the file and is refused. |
| | `UpdatesKept`, `ViewStaysCurrent` | For saves that do not compare as well, the copy itself must never lack a saved change: `CopiesInv` says this of the loaded copy, of a probe's and of those in flight, whose workers `Landed` follows to the server. It needs `SavesHoldOff`, every kind of save used holds a discovery off (`app_save_discovery_race` is what happens otherwise), and `SafeHosts`, there is one host or all kinds compare (`app_wrong_host`). |
| LogFollowProofs | `TypeCorrect`, `NoOtherLineSkipped`, `JournalContiguous` | `Knows` (before a truncation offsets are line numbers, and what lies between the tail and the first stat is what the property names; a journal cursor exists once an entry was seen) makes `OnlyJoiningSkips` inductive. `Unbroken`: the journal page ends with the entry the cursor is at, so that the next chunk continues it. |
| GeoDataProofs | `TypeCorrect`, `NothingLost`, `NothingTorn`, `CleanedUp`, `FailedUpdateRolledBack` | `OldRecoverable` needs `Copied`: by the time anything is replaced, every database that was there has its copy. `NeverTorn` needs `Whole`: what is verified was downloaded completely, and a copy that was recorded is complete. `CleanAfterOneFault` needs `Tidy`: nothing failed while the update moves forward but an empty download about to be refused, only the databases up to the current one have a download, and the cleanup has removed what it no longer lists unless another call failed. `RolledBack` needs `Rolling`: what is replaced has its copy, and the databases the rollback has passed are what they were. |
| TargetScanProofs | `TypeCorrect`, `EachHostOnce`, `NoCandidateLost` | `Ahead`: nothing at or beyond the shared index was claimed. `Reports`: a candidate found is on the page or in the channel, `Done` has nothing behind it, and it is sent only when every worker is gone. |
| | `StopTakesEffect`, `WholeScan` | Counting. `Braked`: the probes begun after Stop and the workers about to claim are together no more than there are workers. `Counted`: hosts counted and workers that hold one (or died with it) make up the hosts claimed; `Exhausted`: a worker that ended by itself found the queue empty; `Underway`: the last count is on the page, in the channel or in a worker's hands; with `Behind` and `Bounded` these are `Complete`. |
| ConfDirProofs | `Inductive`, `CopyIsDisk`, `ListsMirrorRoots` | `IInv`: the loaded configuration is `Good` (its entries of a file are, place by place, the file's array, and its routing section is the winner) and, while `synced`, the directory. Every operation is one of six edits with its save (`Appends`, `Replaces`, `Removes`, `SetsRouting`, `Creates`, `Deletes`), and each edit keeps `Good`, because the place of an entry among those of its file moves as its index in the merged list does. A discovery is `Good` because the list it concatenates holds every array whole. |
| | `TagsKept`, `ReferencesKept`, `SavesItsEntry` | Step properties, from `IInv` and the same six edits. For a duplicate, the tag `CopyTag` chooses is free because a list cannot hold every one of the candidates it looks through (pigeonhole). |
| XrayLogsProofs | `Inductive`, `TypeCorrect`, `ShowsNothingStale`, `LeavesNoOrphan` | Whether an event may change the page depends on the generation its worker was given, so `Marked`: the worker listened to is no newer than the page and, of its generation, reads with the settings now loaded. An ended channel drops the stop flag, so `Routed`: a follow that goes on is at once the one whose flag the page holds, the one it listens to and the current one, and no probe is. `Final`: a worker says that it failed or stopped only when it ends. `Reset`: while a discovery runs the page listens to nobody. |
| XrayLifecycleProofs | `Inductive`, `TypeCorrect`, `CopiesKept`, `ApplyRestores`, `AppliedMeansApplied`, `PageRight`, `ScratchGone`, `PromptOffered` | The properties speak of the end of an operation, so the invariant has to say at each call what is behind it: `Order` what the worker has found out by then, `Tidy` what is in /tmp, `Files` where unit, loaded unit and binary are relative to what was found and which of them has its copy, `Page` what the page may believe. Each call's step is one lemma. |

Every safety and every action property of the passing runs is thus proved for
all values of the constants; of `NoLostUpdate` and `ViewIsCurrent`, which the
code keeps only under conditions, under conditions on the kinds and hosts; the
runs `app_save_discovery_race` and `app_wrong_host` show what the code does
without them.

What the theorems rest on besides the modules' definitions are the named
assumptions, which TLC evaluates for the values it is given. Most say that a
bound is a number or that a constant is a set of the right things.
ConfDir's `AbsentAssumption` says that the values that stand for "no file",
"no list" and "no section" are not files, lists and sections;
`ConfDirAssumption`, that folding the case of a name twice is folding it once.

ConfDir is about sequences that are filtered and concatenated, where a proof
wants induction. The library's induction theorems take an operator as a
parameter, which the provers here cannot instantiate; ConfDirProofs proves
induction for subsets of the natural numbers instead (`SetInduction`, from the
library's well-foundedness of the numbers) and uses it to unfold the functions
that the community modules define recursively: the minimum of a set, the
concatenation of a sequence of sequences. `MirrorsRoots` is stated by the place
of an entry among those of its file (`Place`, `Mirrors`) and not by selecting
them, which says the same and can be reasoned about.

Only model-checked is liveness, which is beyond the prover: `BusyEnds`,
`LoadingEnds`, `AbandonedFollowEnds`, `OthersShown` and `ScanEnds`. The three
violated runs check the properties that their findings refute.

## What the models found

Three statements of the repository about itself are refuted by a run and listed
as findings in `PROJECT.json`: a discovery may overlap a settings save and its
stale result is then written back by the next user change
(`app_save_discovery_race`); a change is sent to whatever host stands in the
connection form (`app_wrong_host`); and a confdir file is removed with the
sections it contains when later files override them all, because
`sections_in_file` looks at the merged view (`confdir_removal`, against
`xray/config/modify.rs:2756`).

Weaknesses the models have as behaviours, where a property was stated only as
far as the code supports it:

Configuration writes and the application:

* A confdir member whose upload breaks off stays behind torn, although
  `app/config_write.rs:130` says that the file is removed again on failure.
* A rename that was carried out but not answered within ten seconds is taken for
  a failure on a session that lives on. If it put the new content in place, the
  fallback moves this content aside and back and the write is reported as
  failed with the new content live and untested. If it moved the old file
  aside, the job stops with nothing at the path, against the comment "original
  (if any) is untouched" (`feldjaeger-ssh/src/russh/sftp.rs:98`); the backup
  has it. `RefusalHarmless` is therefore about refusals.
* An edit that lands between the comparison and the rename of a restore is
  overwritten (`app/backup_ops.rs:235`).
* Backups are named by whole seconds and overwritten within one
  (`remote/backup_manager.rs:69`).
* `start_discovery` closes the log settings form and no other settings form; a
  draft cloned from one server's configuration can be saved into another's
  (`app/service.rs:9012`). `LogFormFits` is therefore about the log form.
* A rediscovery that an installation asks for is dropped when a connection
  test is pending (`app/service.rs:9864`).
* Lines written to a file between the tail that fills the page and the stat that
  follows it are shown only after a refresh (`xray/logs/service.rs:656`); the
  comment at `:207` closes this gap for the journal, where one command gives
  lines and cursor. A line written between the stat and the tail of one poll is
  shown twice (`:698`), and the first entry of an empty journal never (`:722`).
* A GeoData replacement that took effect although its call failed is not
  rolled back (`xray/geodata.rs:298`); its old content stays in the rollback
  copy, which is what `OldRecoverable` says. `RolledBack` is about the
  databases the update knows to have replaced.
* A probe worker that panics leaves the Logs page in Loading
  (`app/service.rs:11619`), and so does a follow stopped just before a save of
  the log settings; Loading blocks every other operation until a rediscovery.
  `LoadingEnds` is about readings and probes that answered.

Dialogs and files (ConfDir):

* Deletion and renaming take the entry's fingerprint when they are confirmed,
  not when the dialog was opened, and duplication takes none
  (`xray/config/modify.rs:319`, `:431`, `:1133` speak of the fingerprint "from
  delete/rename intent"). A dialog left open across a rediscovery or another
  edit acts on whatever is then at its position. `SavesWhatWasOpened` is
  therefore about editors and raw JSON.
* The removal of a confdir file is not compared with what the server holds by
  then (`modify.rs:2759`).
* A file that discovery cannot read is left out without a word and edited
  around (`xray/discovery.rs:703`); the reference check before a deletion sees
  only the routing section that was loaded. `LoadedIsDisk` and
  `DeleteKeepsReferences` are about configurations read completely (`synced`).

Unit files, service control, installer (XrayLifecycle):

* Editing an existing unit with a sudo password always fails at the backup,
  which is written over SFTP next to the unit; enable and start after a sudo
  write run without sudo (`init/unit.rs`).
* A unit that was newly written stays when daemon-reload fails; the restore of
  an old one is not followed by another reload; a failed enable or start keeps
  the new file and offers no restart.
* A unit that FragmentPath does not name, because systemd was not told of it,
  is overwritten by an update without a copy; a refused query skips the copy;
  Install copies nothing (`xray/installer.rs`).
* A read of the script that breaks off or is refused leaves it in /tmp
  (`installer.rs:487`), a refused sudo upload what was uploaded
  (`unit.rs:677`), a refused removal the file (`unit.rs:706`,
  `installer.rs:508`), a lost connection every temporary file. `NoScratchLeft`
  is about operations without such a fault.
* "Enable and start" is reported as done on the exit code of `systemctl start`,
  which a simple unit returns even if its process is missing or dies
  (`app/service_control.rs:373`). `OkIsApplied` claims the unit on disk and
  loaded, not a running process.
* An update that fails after the script ran is neither undone nor followed by a
  rediscovery (`installer.rs:233`).
* A lost answer to the status query, or a rediscovery that was refused, leaves
  `service_state` as it was; `PageIsTrue` and `PromptWhenNeeded` are about a
  state that was read (`synced`).

Share material (not modelled, read in passing): it is merged into the store
when keys are generated, before the inbound is saved, and kept when the editor
is cancelled or the save fails (`app/service.rs:3995`, `:4639`, `:7757`); an
`idx:N` entry is not moved by a deletion (`app/share_material.rs:84`).

## What is not modelled

* Pure data: the schema of the configuration, its compatibility warnings,
  share links, keys, rendering. Tested by example in the repository.
* Read-only queries (discovery's commands, CLI consoles, statistics): one
  request and one answer each.
* The local configuration file: one write by one thread, not atomic
  (`storage/config_manager.rs:99`).
* The drafts of editors, key generation and share material: the keys go to
  whichever editor is open when they arrive and the material is written by one
  thread per change; the code promises nothing there that a property could
  state beyond what the hazards say.
* Registration of WARP with its provider and the tunnel's connectivity check:
  request and response. Its outbound is in ConfDir, its worker in AppService.

## Plan

Done, in this order: ConfigStore and ConfigWrite (what is written to a server
is the most important thing the program does), AppService (when and where it
is written), XrayLogs and LogFollow, GeoData, TargetScan, EditableConfig and
ConfDir (what is written), XrayLifecycle; proofs of every safety and action
property the runs check, and of the refinement of ConfigStore.

Theorems next, most important first:

1. AppService's worker step and ConfDir's `Save` against ConfigStore, so that
   their one-step effect is what ConfigWrite was shown to implement.
2. An abstract specification of a GeoData update (old, new, or recoverable from
   its copy) and of a scan (a set of hosts taken one by one), with their
   refinement as the properties now stated one by one.
3. A follow of LogFollow as a worker of XrayLogs, so that the lines the page
   shows are known to be both complete and its own.

Modules that could follow: the editors' drafts with the share material
(properties once the code gives an answer the name of the editor that asked),
WARP's account state against the configuration, and the pure algorithms
(`json_diff.rs`, version comparison, the enumeration of a network) as
operators checked over bounded inputs.
