------------------------ MODULE XrayLifecycleProofs ------------------------
(***************************************************************************)
(* Proofs about XrayLifecycle for any unit files, numbers of operations,   *)
(* broken calls and changes from outside. None of the properties is        *)
(* inductive: each speaks of the end of an operation. What is known at     *)
(* every call before the end is added: which operation makes it (Order),   *)
(* what is in /tmp (Tidy), what has been overwritten and copied (Files,    *)
(* with Safe), and what the page says meanwhile (Page).                    *)
(***************************************************************************)
EXTENDS XrayLifecycle, TLAPS

Applying == {"probe", "preflight", "exists", "write", "sudo_tmp", "sudo_install",
             "sudo_drop", "reload", "restore", "enable", "start"}
Installing == {"download", "verify", "script", "drop_script", "is_active"}

(* Which operation makes which calls, and what its failures count.         *)
Order ==
    /\ link = "lost" => faults > 0
    /\ job.since <= outside
    /\ pc = "idle" => job = Idle
    /\ job.kind = "apply" => \A c \in copies : c[2] \in Units
    /\ pc # "done" => job.refreshed = "unknown"
    /\ pc \in Applying => job.kind = "apply"
    /\ job.kind = "apply" => job.new \in Authored
    /\ pc \in {"enable", "start"} => job.enable
    /\ pc # "idle" => job.kind # "none"
    /\ job.kind = "service" => job.op \in ServiceOps
    /\ pc \in {"act", "refresh"} => job.kind = "service"
    /\ pc = "copy_bin" => job.kind = "update"
    /\ pc = "fragment" => job.kind \in {"update", "remove"} /\ job.service
    /\ pc = "copy_config" => job.kind \in {"update", "remove"}
    /\ pc \in Installing => job.kind \in {"install", "update", "remove"}
    /\ pc = "copy_unit" => job.kind \in {"apply", "update", "remove"}
    /\ pc # "done" /\ pc \notin {"restore", "sudo_drop", "drop_script", "refresh"}
          => job.error = "none"
    /\ pc \in {"restore", "sudo_drop"} /\ job.error = "broken" => faults > 0
    /\ pc = "sudo_drop" => job.error \in {"none", "refused"}
    /\ pc = "restore" => job.error \in {"refused", "broken"} /\ job.existed

(* What /tmp holds at each call of an operation of which all were answered.*)
Tidy ==
    faults = 0 /\ pc \notin {"sudo_install", "sudo_drop", "verify", "script", "drop_script"}
        => scratch = {}

(* Until something is overwritten everything is as it was found.           *)
Untouched == {"connect", "probe", "preflight", "exists", "copy_unit", "write",
              "sudo_tmp", "sudo_install", "copy_bin", "fragment", "copy_config",
              "download", "verify", "script"}

Written == {"write", "sudo_tmp", "sudo_install", "sudo_drop", "reload", "restore",
            "enable", "start"}

UnitTold == job.service /\ ~job.skipped /\ before.known = before.unit /\ before.unit # NoFile

Safe ==
    Undisturbed =>
    /\ pc \in Untouched =>
          unit = before.unit /\ known = before.known /\ bin = before.bin
    /\ job.kind = "apply" => copies \subseteq {<<"copy_unit", before.unit>>}
    /\ job.kind = "apply" /\ pc = "copy_unit" => job.existed /\ before.unit # NoFile
    /\ job.kind = "apply" /\ pc \in Written => (job.existed <=> before.unit # NoFile)
    /\ job.kind = "apply" /\ pc \in Written /\ job.existed
          => <<"copy_unit", before.unit>> \in copies
    /\ job.kind \in {"update", "remove"} /\ UnitTold /\ pc \in Installing \union {"copy_config"}
          => <<"copy_unit", before.unit>> \in copies
    /\ job.kind = "update" /\ pc \in Installing \union {"fragment", "copy_unit", "copy_config"}
          => <<"copy_bin", before.bin>> \in copies
    /\ pc \in {"reload", "enable", "start"} \/ (pc = "sudo_drop" /\ Ok) => unit = job.new
    /\ pc \in {"enable", "start"} => known = job.new

(* What the page knows, and what it will make of the operation's outcome.  *)
Page ==
    /\ synced /\ pc = "idle" => state = Running(proc)
    /\ job.kind = "apply" /\ synced /\ faults = 0 /\ ~(pc = "done" /\ Ok)
          => state = Running(proc)
    /\ job.kind = "apply" /\ synced
          => job.wasRunning \/ proc = Stopped \/ (pc = "done" /\ proc = known)
    /\ job.kind = "service" /\ Undisturbed /\ job.refreshed # "unknown"
          => job.refreshed = Running(proc)

-----------------------------------------------------------------------------
(* Calls and records.                                                      *)

(* A result changes the error and nothing else of the operation.           *)
LEMMA ErrorSet ==
    ASSUME job \in Jobs, NEW e \in Errors, Noted(e)
    PROVE  /\ job' \in Jobs /\ job'.error = e
           /\ job'.kind = job.kind /\ job'.new = job.new /\ job'.enable = job.enable
           /\ job'.op = job.op /\ job'.password = job.password
           /\ job'.service = job.service /\ job'.wasRunning = job.wasRunning
           /\ job'.since = job.since /\ job'.existed = job.existed
           /\ job'.skipped = job.skipped /\ job'.refreshed = job.refreshed
BY DEF Jobs, Noted

LEMMA SkippedSet ==
    ASSUME job \in Jobs, job' = [job EXCEPT !.skipped = TRUE]
    PROVE  /\ job' \in Jobs /\ job'.error = job.error
           /\ job'.kind = job.kind /\ job'.new = job.new /\ job'.enable = job.enable
           /\ job'.op = job.op /\ job'.password = job.password
           /\ job'.service = job.service /\ job'.wasRunning = job.wasRunning
           /\ job'.since = job.since /\ job'.existed = job.existed
           /\ job'.skipped /\ job'.refreshed = job.refreshed
BY DEF Jobs

LEMMA ExistedSet ==
    ASSUME job \in Jobs, NEW b \in BOOLEAN, job' = [job EXCEPT !.existed = b]
    PROVE  /\ job' \in Jobs /\ job'.error = job.error
           /\ job'.kind = job.kind /\ job'.new = job.new /\ job'.enable = job.enable
           /\ job'.op = job.op /\ job'.password = job.password
           /\ job'.service = job.service /\ job'.wasRunning = job.wasRunning
           /\ job'.since = job.since /\ job'.existed = b
           /\ job'.skipped = job.skipped /\ job'.refreshed = job.refreshed
BY DEF Jobs

LEMMA RefreshedSet ==
    ASSUME job \in Jobs, NEW r \in {"unknown", "running", "stopped"},
           job' = [job EXCEPT !.refreshed = r]
    PROVE  /\ job' \in Jobs /\ job'.error = job.error
           /\ job'.kind = job.kind /\ job'.new = job.new /\ job'.enable = job.enable
           /\ job'.op = job.op /\ job'.password = job.password
           /\ job'.service = job.service /\ job'.wasRunning = job.wasRunning
           /\ job'.since = job.since /\ job'.existed = job.existed
           /\ job'.skipped = job.skipped /\ job'.refreshed = r
BY DEF Jobs

(* A call leaves the connection well typed, and one that broke off counts. *)
LEMMA CallCounts ==
    ASSUME TypeOK, Order, Answered \/ BrokenOff
    PROVE  /\ link' \in {"up", "lost"} /\ faults' \in Nat /\ faults' >= faults
           /\ link' = "lost" => faults' > 0
           /\ BrokenOff => faults' > 0 /\ (faults' > faults \/ link' = "lost")
           /\ Answered => link' = link /\ faults' = faults
BY DEF TypeOK, Order, Answered, BrokenOff, conn

(* What becomes of a refused request is among what becomes of one that     *)
(* breaks off on a connection that stays up.                               *)
LEMMA RefusedBreaks == Refused => BrokenOff
BY DEF Refused, BrokenOff

-----------------------------------------------------------------------------
(* Types.                                                                  *)

LEMMA InitType == Init => TypeOK
<1> SUFFICES ASSUME Init PROVE TypeOK
    OBVIOUS
<1>1. Idle \in Jobs
    BY DEF Idle, Jobs, Units, Errors
<1>2. before \in Findings
    BY DEF Init, InEffect, Units, Binaries, Findings
<1>3. proc \in (Units \union {Vendor, Stopped}) \ {NoFile}
    BY LifecycleAssumption DEF Init, InEffect, Units
<1>4. Unseen \in Pictures
    BY DEF Unseen, Pictures
<1>5. /\ unit \in Units /\ vendor \in {NoFile, Vendor}
      /\ known \in Units \union {Vendor} /\ bin \in Binaries
    BY DEF Init, InEffect, Units, Binaries
<1>6. /\ job \in Jobs /\ seen \in Pictures
      /\ pc \in Stages /\ synced \in BOOLEAN /\ prompt \in BOOLEAN /\ rights \in BOOLEAN
    BY <1>1, <1>4 DEF Init, Stages
<1> QED
    BY <1>2, <1>3, <1>5, <1>6 DEF Init, TypeOK

(* What a call leaves alone keeps its type.                                *)
LEMMA CallType ==
    ASSUME TypeOK, Order, NEW stage, At(stage), Answered \/ BrokenOff,
           unit' \in Units, known' \in Units \union {Vendor},
           proc' \in (Units \union {Vendor, Stopped}) \ {NoFile},
           bin' \in Binaries,
           copies' \subseteq Copies,
           scratch' \subseteq {"unit", "script"}, pc' \in Stages, job' \in Jobs
    PROVE  TypeOK'
<1>1. /\ before' = before /\ jobs' = jobs /\ outside' = outside /\ rights' = rights
      /\ vendor' = vendor /\ state' = state /\ seen' = seen
      /\ prompt' = prompt /\ synced' = synced
    BY DEF At, page
<1>2. link' \in {"up", "lost"} /\ faults' \in Nat
    BY CallCounts
<1> QED
    BY <1>1, <1>2 DEF TypeOK

(* Where a call leads, and what becomes of the operation.                  *)
LEMMA GoType == ASSUME TypeOK, NEW stage \in Stages, Go(stage)
                PROVE  pc' \in Stages /\ job' \in Jobs
BY DEF Go, TypeOK

LEMMA FailType == ASSUME TypeOK, NEW e \in Errors, Fail(e) \/ Retreat(e)
                  PROVE  pc' \in Stages /\ job' \in Jobs
<1>1. Noted(e) /\ pc' \in {"done", "restore"}
    BY DEF Fail, Retreat
<1>2. job \in Jobs
    BY DEF TypeOK
<1> QED
    BY <1>1, <1>2, ErrorSet DEF Stages

LEMMA QueryType ==
    ASSUME TypeOK, Order, NEW stage \in Stages, NEW next \in Stages, Query(stage, next)
    PROVE  TypeOK'
<1>1. pc' \in Stages /\ job' \in Jobs
    BY GoType, FailType DEF Query, Errors
<1>2. Answered \/ BrokenOff
    BY DEF Query
<1>3. At(stage) /\ UNCHANGED <<unit, known, proc, bin, copies, scratch>>
    BY DEF Query
<1>4. unit' = unit /\ known' = known /\ proc' = proc /\ bin' = bin
      /\ copies' = copies /\ scratch' = scratch
    BY <1>3
<1> QED
    BY <1>1, <1>2, <1>3, <1>4, CallType DEF TypeOK

LEMMA CopyType ==
    ASSUME TypeOK, Order, NEW stage \in {"copy_unit", "copy_bin"}, NEW next \in Stages,
           NEW what \in Units \union {Vendor} \union Binaries, Copy(stage, what, next)
    PROVE  TypeOK'
<1>1. pc' \in Stages /\ job' \in Jobs
    BY GoType, FailType DEF Copy, Errors
<1>2. copies' \subseteq Copies
    <2>1. copies' = copies \/ copies' = copies \union {<<stage, what>>}
        BY DEF Copy
    <2>2. <<stage, what>> \in Copies
        BY DEF Copies
    <2> QED
        BY <2>1, <2>2 DEF TypeOK
<1>3. At(stage) /\ (Answered \/ BrokenOff)
    BY DEF Copy
<1>4. unit' = unit /\ known' = known /\ proc' = proc /\ bin' = bin /\ scratch' = scratch
    BY DEF Copy
<1> QED
    BY <1>1, <1>2, <1>3, <1>4, CallType DEF TypeOK

(* The script leaves files of the kinds there were, and a process of them. *)
LEMMA ScriptType ==
    ASSUME TypeOK, ScriptDone \/ ScriptHalf
    PROVE  /\ unit' \in Units /\ known' \in Units \union {Vendor}
           /\ proc' \in (Units \union {Vendor, Stopped}) \ {NoFile}
           /\ bin' \in Binaries
BY LifecycleAssumption DEF TypeOK, ScriptDone, ScriptHalf, Units, Binaries

(* What systemd does to the process on each of the actions.                *)
LEMMA DoesWhat ==
    ASSUME NEW op \in ServiceOps, Does(op) \/ DoesNot(op)
    PROVE  proc' \in {proc, Stopped} \/ (known # NoFile /\ proc' = known)
<1>1. CASE DoesNot(op)
    BY <1>1 DEF DoesNot
<1>2. CASE Does(op)
    <2>1. CASE op = "start"
        BY <1>2, <2>1 DEF Does, Forked
    <2>2. CASE op = "stop"
        BY <1>2, <2>2 DEF Does
    <2>3. CASE op = "restart"
        BY <1>2, <2>3 DEF Does, Forked
    <2>4. CASE op = "enable"
        BY <1>2, <2>4 DEF Does
    <2> QED
        BY <2>1, <2>2, <2>3, <2>4 DEF ServiceOps
<1> QED
    BY <1>1, <1>2

(* A refused start leaves the process alone, a start leaves a running one. *)
LEMMA StartWhat ==
    /\ Does("start") => \/ proc' = proc
                        \/ known # NoFile /\ proc = Stopped /\ proc' = known
    /\ DoesNot("start") => proc' = proc
BY DEF Does, DoesNot, Forked

LEMMA WorkerType == ASSUME TypeOK, Order, Worker PROVE TypeOK'
<1>0. /\ unit \in Units /\ known \in Units \union {Vendor} /\ bin \in Binaries
      /\ proc \in (Units \union {Vendor, Stopped}) \ {NoFile}
      /\ copies \subseteq Copies /\ scratch \subseteq {"unit", "script"}
      /\ job \in Jobs
    BY DEF TypeOK
<1> USE <1>0
<1>1. CASE Connect
    BY <1>1, QueryType DEF Connect, Stages
<1>2. CASE ProbeRights
    BY <1>2, GoType, FailType, CallType DEF ProbeRights, Stages, Errors
<1>3. CASE Preflight
    BY <1>3, QueryType DEF Preflight, Stages
<1>4. CASE ProbeExists
    BY <1>4, ExistedSet, FailType, CallType DEF ProbeExists, WriteCall, Stages, Errors
<1>5. CASE CopyUnit
    BY <1>5, CopyType DEF CopyUnit, WriteCall, Stages, TypeOK, Units
<1>6. CASE WriteUnit
    BY <1>6, GoType, FailType, CallType DEF WriteUnit, AnswerLost, Stages, Errors, Jobs, Units
<1>7. CASE SudoUpload
    BY <1>7, RefusedBreaks, GoType, FailType, CallType DEF SudoUpload, Stages, Errors
<1>8. CASE SudoInstall
    <2>1. unit' \in Units
        BY <1>8 DEF SudoInstall, Jobs
    <2>2. pc' \in Stages /\ job' \in Jobs
        BY <1>8, GoType, FailType, ErrorSet DEF SudoInstall, Stages, Errors
    <2>3. At("sudo_install") /\ (Answered \/ BrokenOff)
          /\ UNCHANGED <<known, proc, bin, copies, scratch>>
        BY <1>8 DEF SudoInstall, AnswerLost
    <2> QED
        BY <2>1, <2>2, <2>3, CallType
<1>9. CASE SudoDrop
    <2>1. pc' \in Stages /\ job' \in Jobs
        <3>1. job.error \in Errors
            BY DEF Jobs
        <3> QED
            BY <1>9, <3>1, GoType, FailType DEF SudoDrop, Stages
    <2>2. scratch' \subseteq {"unit", "script"}
        BY <1>9 DEF SudoDrop
    <2>3. At("sudo_drop") /\ (Answered \/ BrokenOff)
          /\ UNCHANGED <<unit, known, proc, bin, copies>>
        BY <1>9, RefusedBreaks DEF SudoDrop, AnswerLost
    <2> QED
        BY <2>1, <2>2, <2>3, CallType
<1>10. CASE Reload
    <2>1. InEffect \in Units \union {Vendor}
        BY DEF InEffect, TypeOK
    <2> QED
        BY <1>10, <2>1, GoType, FailType, CallType DEF Reload, Reloaded, AnswerLost, Stages, Errors
<1>11. CASE Restore
    <2>1. unit' \in Units
        BY <1>11 DEF Restore, At, Order, Applying, Units
    <2> QED
        BY <1>11, <2>1, GoType, CallType DEF Restore, AnswerLost, Stages
<1>12. CASE Enable
    BY <1>12, QueryType DEF Enable, Stages
<1>13. CASE StartService
    <2>1. proc' \in (Units \union {Vendor, Stopped}) \ {NoFile}
        <3>1. proc' = proc \/ (known # NoFile /\ proc' = known)
            BY <1>13, StartWhat DEF StartService
        <3> QED
            BY <3>1
    <2> QED
        BY <1>13, <2>1, GoType, FailType, CallType DEF StartService, AnswerLost, Stages, Errors
<1>14. CASE Act
    <2>1. proc' \in (Units \union {Vendor, Stopped}) \ {NoFile}
        <3>1. CASE UNCHANGED proc
            BY <3>1
        <3>2. CASE Does(job.op) \/ DoesNot(job.op)
            <4>1. job.op \in ServiceOps
                BY <1>14 DEF Act, At, Order
            <4>2. proc' \in {proc, Stopped} \/ (known # NoFile /\ proc' = known)
                BY <3>2, <4>1, DoesWhat
            <4>3. known \in Units \union {Vendor} /\ NoFile # Stopped
                BY LifecycleAssumption DEF TypeOK
            <4> QED
                BY <4>2, <4>3 DEF TypeOK
        <3> QED
            BY <1>14, <3>1, <3>2 DEF Act
    <2> QED
        BY <1>14, <2>1, GoType, ErrorSet, CallType DEF Act, AnswerLost, Stages, Errors
<1>15. CASE Refresh
    BY <1>15, RefreshedSet, CallType DEF Refresh, Running, Stages
<1>16. CASE CopyBinary
    BY <1>16, CopyType DEF CopyBinary, Stages
<1>17. CASE Fragment
    BY <1>17, GoType, FailType, SkippedSet, CallType DEF Fragment, Stages, Errors
<1>18. CASE CopyConfig
    BY <1>18, QueryType DEF CopyConfig, Stages
<1>19. CASE Download
    BY <1>19, GoType, FailType, ErrorSet, CallType DEF Download, Stages, Errors
<1>20. CASE Verify
    BY <1>20, RefusedBreaks, GoType, FailType, ErrorSet, CallType DEF Verify, Stages, Errors
<1>21. CASE RunScript
    BY <1>21, ErrorSet, ScriptType, CallType DEF RunScript, Stages, Errors
<1>22. CASE DropScript
    BY <1>22, RefusedBreaks, GoType, CallType DEF DropScript, AnswerLost, Stages
<1>23. CASE IsActive
    BY <1>23, GoType, FailType, CallType DEF IsActive, Stages, Errors
<1> QED
    BY <1>1, <1>2, <1>3, <1>4, <1>5, <1>6, <1>7, <1>8, <1>9, <1>10, <1>11, <1>12,
       <1>13, <1>14, <1>15, <1>16, <1>17, <1>18, <1>19, <1>20, <1>21, <1>22, <1>23
       DEF Worker

LEMMA IdleJob == Idle \in Jobs
BY DEF Idle, Jobs, Units, Errors

(* An operation starts with what was asked, and nothing found out yet.     *)
LEMMA LaunchType ==
    ASSUME TypeOK, NEW asked \in Jobs, Launch(asked)
    PROVE  TypeOK'
<1>1. job' \in Jobs
    BY DEF Launch, TypeOK, Jobs
<1>2. before' \in Findings
    BY DEF Launch, TypeOK, Findings
<1>3. /\ copies' = {} /\ scratch' = {} /\ link' = "up" /\ faults' = 0
      /\ prompt' = FALSE /\ pc' = "connect" /\ jobs' = jobs + 1
    BY DEF Launch
<1>4. /\ unit' = unit /\ vendor' = vendor /\ known' = known /\ proc' = proc
      /\ bin' = bin /\ rights' = rights /\ state' = state /\ seen' = seen
      /\ synced' = synced /\ outside' = outside
    BY DEF Launch, host
<1>5. "connect" \in Stages
    BY DEF Stages
<1>6. jobs' \in Nat
    BY <1>3 DEF TypeOK
<1> QED
    BY <1>1, <1>2, <1>3, <1>4, <1>5, <1>6 DEF TypeOK

LEMMA PollType == ASSUME TypeOK, Order, Poll PROVE TypeOK'
<1>1. job' \in Jobs
    BY IdleJob DEF Poll
<1>2. /\ pc' = "idle" /\ unit' = unit /\ vendor' = vendor /\ known' = known
      /\ proc' = proc /\ bin' = bin /\ rights' = rights /\ copies' = copies
      /\ scratch' = scratch /\ before' = before /\ link' = link /\ faults' = faults
      /\ jobs' = jobs /\ outside' = outside
    BY DEF Poll, host, conn
<1>3. seen' \in Pictures
    <2>1. seen' \in {seen, Unseen}
        BY DEF Poll, PollUnitApply, PollService, PollLifecycle, Rediscover
    <2>2. Unseen \in Pictures
        BY DEF Unseen, Pictures
    <2> QED
        BY <2>1, <2>2 DEF TypeOK
<1>4. state' \in {"unknown", "running", "stopped"}
    <2>1. job.refreshed \in {"unknown", "running", "stopped"}
        BY DEF TypeOK, Jobs
    <2> QED
        BY <2>1 DEF Poll, PollUnitApply, PollService, PollLifecycle, Rediscover, TypeOK
<1>5. prompt' \in BOOLEAN /\ synced' \in BOOLEAN
    <2>1. prompt \in BOOLEAN /\ synced \in BOOLEAN /\ job.wasRunning \in BOOLEAN
        BY DEF TypeOK, Jobs
    <2>2. CASE PollUnitApply
        BY <2>1, <2>2 DEF PollUnitApply, Rediscover, NeedsRestartPrompt, Ok
    <2>3. CASE PollService
        BY <2>1, <2>3 DEF PollService
    <2>4. CASE PollLifecycle
        BY <2>1, <2>4 DEF PollLifecycle, Rediscover
    <2> QED
        BY <2>2, <2>3, <2>4 DEF Poll
<1>6. "idle" \in Stages
    BY DEF Stages
<1> QED
    BY <1>1, <1>2, <1>3, <1>4, <1>5, <1>6 DEF TypeOK

LEMMA DiscoverType == ASSUME TypeOK, Discover PROVE TypeOK'
<1>1. seen' \in Pictures
    BY DEF Discover, Snapshot, Pictures
<1>2. state' \in {"unknown", "running", "stopped"}
    BY DEF Discover, Running
<1>3. synced' \in BOOLEAN
    BY DEF Discover, Snapshot
<1>4. /\ pc' = pc /\ unit' = unit /\ vendor' = vendor /\ known' = known
      /\ proc' = proc /\ bin' = bin /\ rights' = rights /\ copies' = copies
      /\ scratch' = scratch /\ before' = before /\ link' = link /\ faults' = faults
      /\ jobs' = jobs /\ outside' = outside /\ job' = job /\ prompt' = prompt
    BY DEF Discover, host, conn
<1> QED
    BY <1>1, <1>2, <1>3, <1>4 DEF TypeOK

LEMMA OutsideType == ASSUME TypeOK, Outside PROVE TypeOK'
<1>1. /\ unit' \in Units /\ known' \in Units \union {Vendor}
      /\ proc' \in (Units \union {Vendor, Stopped}) \ {NoFile}
    BY LifecycleAssumption DEF Outside, InEffect, TypeOK, Units
<1>2. /\ pc' = pc /\ vendor' = vendor /\ bin' = bin /\ rights' = rights /\ copies' = copies
      /\ scratch' = scratch /\ before' = before /\ link' = link /\ faults' = faults
      /\ jobs' = jobs /\ job' = job /\ prompt' = prompt /\ state' = state /\ seen' = seen
      /\ synced' = FALSE /\ outside' = outside + 1
    BY DEF Outside, conn
<1>3. outside' \in Nat
    BY <1>2 DEF TypeOK
<1> QED
    BY <1>1, <1>2, <1>3 DEF TypeOK

(* Filling in the fields of an operation one by one.                       *)
LEMMA ApplyJob ==
    ASSUME NEW new \in Units, NEW password \in BOOLEAN, NEW enable \in BOOLEAN,
           NEW running \in BOOLEAN
    PROVE  [Idle EXCEPT !.kind = "apply", !.new = new, !.password = password,
                        !.enable = enable, !.wasRunning = running] \in Jobs
<1> DEFINE a == [Idle EXCEPT !.kind = "apply"]
           b == [a EXCEPT !.new = new]
           c == [b EXCEPT !.password = password]
           d == [c EXCEPT !.enable = enable]
           e == [d EXCEPT !.wasRunning = running]
<1>1. a \in Jobs
    BY IdleJob DEF Jobs
<1> HIDE DEF a
<1>2. b \in Jobs
    BY <1>1 DEF Jobs
<1> HIDE DEF b
<1>3. c \in Jobs
    BY <1>2 DEF Jobs
<1> HIDE DEF c
<1>4. d \in Jobs
    BY <1>3 DEF Jobs
<1> HIDE DEF d
<1>5. e \in Jobs
    BY <1>4 DEF Jobs
<1>6. e = [Idle EXCEPT !.kind = "apply", !.new = new, !.password = password,
                        !.enable = enable, !.wasRunning = running]
    BY DEF a, b, c, d, e
<1> QED
    BY <1>5, <1>6

(* What the three operations ask for.                                      *)
LEMMA AskedType ==
    ASSUME TypeOK, StartUnitApply \/ StartServiceOperation \/ StartXrayLifecycle
    PROVE  \E asked \in Jobs :
              /\ Launch(asked)
              /\ asked.existed = FALSE /\ asked.skipped = FALSE
              /\ asked.refreshed = "unknown" /\ asked.error = "none"
              /\ \/ /\ asked.kind = "apply" /\ asked.new \in Authored
                    /\ asked.wasRunning = (state = "running")
                 \/ asked.kind = "service" /\ asked.op \in ServiceOps
                 \/ asked.kind \in {"install", "update", "remove"}
<1>1. CASE StartUnitApply
    <2>1. PICK new \in Authored, password \in BOOLEAN, enable \in BOOLEAN :
              Launch([Idle EXCEPT !.kind = "apply", !.new = new, !.password = password,
                                  !.enable = enable, !.wasRunning = state = "running"])
        BY <1>1 DEF StartUnitApply
    <2> DEFINE asked == [Idle EXCEPT !.kind = "apply", !.new = new, !.password = password,
                                  !.enable = enable, !.wasRunning = state = "running"]
    <2>2. asked \in Jobs
        <3>1. new \in Units /\ (state = "running") \in BOOLEAN
            BY DEF Units
        <3> QED
            BY <3>1, ApplyJob
    <2>3. /\ asked.existed = FALSE /\ asked.skipped = FALSE
          /\ asked.refreshed = "unknown" /\ asked.error = "none"
          /\ asked.kind = "apply" /\ asked.wasRunning = (state = "running")
          /\ asked.new \in Authored
        BY DEF Idle
    <2> QED
        BY <2>1, <2>2, <2>3
<1>2. CASE StartServiceOperation
    <2>1. PICK op \in ServiceOps : Launch([Idle EXCEPT !.kind = "service", !.op = op])
        BY <1>2 DEF StartServiceOperation
    <2> DEFINE asked == [Idle EXCEPT !.kind = "service", !.op = op]
    <2>2. asked \in Jobs
        BY IdleJob DEF Jobs
    <2>3. /\ asked.existed = FALSE /\ asked.skipped = FALSE
          /\ asked.refreshed = "unknown" /\ asked.error = "none"
          /\ asked.kind = "service" /\ asked.op \in ServiceOps
        BY DEF Idle
    <2> QED
        BY <2>1, <2>2, <2>3
<1>3. CASE StartXrayLifecycle
    <2>1. PICK kind \in {"install", "update", "remove"} :
              Launch([Idle EXCEPT !.kind = kind, !.service = seen.service])
        BY <1>3 DEF StartXrayLifecycle
    <2> DEFINE asked == [Idle EXCEPT !.kind = kind, !.service = seen.service]
    <2>2. asked \in Jobs
        BY IdleJob DEF Jobs, TypeOK, Pictures
    <2>3. /\ asked.existed = FALSE /\ asked.skipped = FALSE
          /\ asked.refreshed = "unknown" /\ asked.error = "none"
          /\ asked.kind \in {"install", "update", "remove"}
        BY DEF Idle
    <2> QED
        BY <2>1, <2>2, <2>3
<1> QED
    BY <1>1, <1>2, <1>3

LEMMA NextType == ASSUME TypeOK, Order, [Next]_vars PROVE TypeOK'
<1>1. CASE StartUnitApply \/ StartServiceOperation \/ StartXrayLifecycle
    BY <1>1, AskedType, LaunchType
<1>2. CASE Worker
    BY <1>2, WorkerType
<1>3. CASE Poll
    BY <1>3, PollType
<1>4. CASE Discover
    BY <1>4, DiscoverType
<1>5. CASE Outside
    BY <1>5, OutsideType
<1>6. CASE UNCHANGED vars
    <2>1. /\ pc' = pc /\ unit' = unit /\ vendor' = vendor /\ known' = known
          /\ proc' = proc /\ bin' = bin /\ rights' = rights /\ copies' = copies
          /\ scratch' = scratch /\ before' = before /\ link' = link /\ faults' = faults
          /\ jobs' = jobs /\ outside' = outside /\ job' = job /\ prompt' = prompt
          /\ state' = state /\ seen' = seen /\ synced' = synced
        BY <1>6 DEF vars, host, conn, page
    <2> QED
        BY <2>1 DEF TypeOK
<1> QED
    BY <1>1, <1>2, <1>3, <1>4, <1>5, <1>6 DEF Next

-----------------------------------------------------------------------------
(* The order of the calls.                                                 *)

LEMMA InitOrder == Init => Order
BY DEF Init, Order, Idle, Applying, Installing

LEMMA QueryOrder ==
    ASSUME TypeOK, Order, NEW stage \in Stages, NEW next \in Stages, Query(stage, next),
           job.error = "none", job.kind # "none", pc # "done", next \notin {"done", "idle"},
           next \in Applying => job.kind = "apply" /\ next \notin {"sudo_drop", "restore"},
           next \in {"enable", "start"} => job.enable,
           next \notin {"refresh", "copy_unit"}, next = "act" => job.kind = "service",
           next = "copy_bin" => job.kind = "update",
           next = "fragment" => job.kind \in {"update", "remove"} /\ job.service,
           next = "copy_config" => job.kind \in {"update", "remove"},
           next \in Installing => job.kind \in {"install", "update", "remove"}
    PROVE  Order'
<1>1. Answered \/ BrokenOff
    BY DEF Query
<1>2. copies' = copies /\ outside' = outside
    BY DEF Query, At
<1>3. CASE Go(next)
    BY <1>1, <1>2, <1>3, CallCounts DEF Go, Order, Applying, Installing
<1>4. CASE Fail(stage)
    <2>1. job \in Jobs /\ stage \in Errors
        BY DEF TypeOK, Errors
    <2>2. /\ job'.kind = job.kind /\ job'.since = job.since /\ job'.op = job.op
          /\ job'.refreshed = job.refreshed /\ job'.new = job.new /\ job'.enable = job.enable
        BY <1>4, <2>1, ErrorSet DEF Fail
    <2> QED
        BY <1>1, <1>2, <1>4, <2>2, CallCounts DEF Fail, Order, Applying, Installing
<1> QED
    BY <1>3, <1>4 DEF Query

(* A copy of an apply is one of the unit file it found.                    *)
LEMMA CopyOrder ==
    ASSUME TypeOK, Order, NEW stage \in {"copy_unit", "copy_bin"},
           NEW next \in {"write", "sudo_tmp", "fragment", "copy_config"},
           NEW what, Copy(stage, what, next),
           job.error = "none", job.kind # "none",
           job.kind = "apply" => what \in Units /\ next \in {"write", "sudo_tmp"},
           next \in Applying => job.kind = "apply",
           next = "fragment" => job.kind \in {"update", "remove"} /\ job.service,
           next = "copy_config" => job.kind \in {"update", "remove"}
    PROVE  Order'
<1>1. Answered \/ BrokenOff
    BY DEF Copy
<1>2. outside' = outside /\ pc = stage
    BY DEF Copy, At
<1>3. job.kind = "apply" => \A c \in copies' : c[2] \in Units
    BY DEF Copy, Order
<1>4. CASE Go(next)
    BY <1>1, <1>2, <1>3, <1>4, CallCounts DEF Go, Order, Applying, Installing
<1>5. CASE Fail("backup")
    <2>1. job \in Jobs /\ "backup" \in Errors
        BY DEF TypeOK, Errors
    <2>2. /\ job'.kind = job.kind /\ job'.since = job.since /\ job'.op = job.op
          /\ job'.refreshed = job.refreshed /\ job'.new = job.new /\ job'.enable = job.enable
        BY <1>5, <2>1, ErrorSet DEF Fail
    <2> QED
        BY <1>1, <1>2, <1>3, <1>5, <2>2, CallCounts DEF Fail, Order, Applying, Installing
<1> QED
    BY <1>4, <1>5 DEF Copy

LEMMA WorkerOrder == ASSUME TypeOK, Order, Worker PROVE Order'
<1>0. job \in Jobs
    BY DEF TypeOK
<1>1. CASE Connect
    <2> DEFINE next == CASE job.kind = "apply"   -> "probe"
                         [] job.kind = "service" -> "act"
                         [] job.kind = "install" -> "download"
                         [] job.kind = "update"  -> "copy_bin"
                         [] job.kind = "remove" /\ job.service -> "fragment"
                         [] OTHER -> "copy_config"
    <2>1. Query("connect", next)
        BY <1>1 DEF Connect
    <2>2. pc = "connect" /\ job.error = "none" /\ job.kind # "none"
        BY <1>1 DEF Connect, Query, At, Order
    <2>3. next \in {"probe", "act", "download", "copy_bin", "fragment", "copy_config"}
        BY DEF next
    <2>4. /\ next = "probe" => job.kind = "apply"
          /\ next = "act" => job.kind = "service"
          /\ next = "copy_bin" => job.kind = "update"
          /\ next = "fragment" => job.kind \in {"update", "remove"} /\ job.service
          /\ next = "copy_config" => job.kind \in {"update", "remove"}
          /\ next = "download" => job.kind \in {"install", "update", "remove"}
        BY <1>0, <2>2 DEF next, Jobs
    <2> HIDE DEF next
    <2> QED
        BY <2>1, <2>2, <2>3, <2>4, QueryOrder DEF Stages, Applying, Installing
<1>2. CASE ProbeRights
    BY <1>0, <1>2, CallCounts, ErrorSet
       DEF ProbeRights, Stages, At, Go, Retreat, Fail, AnswerLost, Errors, Order,
           Applying, Installing
<1>3. CASE Preflight
    BY <1>3, QueryOrder DEF Preflight, Query, At, Order, Stages, Applying, Installing
<1>4. CASE ProbeExists
    BY <1>0, <1>4, CallCounts, ErrorSet, ExistedSet
       DEF ProbeExists, WriteCall, Stages, At, Go, Retreat, Fail, AnswerLost, Errors, Order,
           Applying, Installing
<1>5. CASE CopyUnit
    BY <1>5, CopyOrder DEF CopyUnit, WriteCall, Copy, At, Order, Applying, TypeOK
<1>6. CASE WriteUnit
    BY <1>0, <1>6, CallCounts, ErrorSet
       DEF WriteUnit, At, Go, Retreat, Fail, AnswerLost, Errors, Order,
           Applying, Installing
<1>7. CASE SudoUpload
    BY <1>0, <1>7, RefusedBreaks, CallCounts, ErrorSet
       DEF SudoUpload, At, Go, Retreat, Fail, AnswerLost, Errors, Order,
           Applying, Installing
<1>8. CASE SudoInstall
    BY <1>0, <1>8, CallCounts, ErrorSet
       DEF SudoInstall, At, Go, Retreat, Fail, AnswerLost, Errors, Order,
           Applying, Installing
<1>9. CASE SudoDrop
    BY <1>0, <1>9, RefusedBreaks, CallCounts, ErrorSet
       DEF SudoDrop, Jobs, At, Go, Retreat, Fail, AnswerLost, Errors, Order,
           Applying, Installing
<1>10. CASE Reload
    BY <1>0, <1>10, CallCounts, ErrorSet
       DEF Reload, Reloaded, At, Go, Retreat, Fail, AnswerLost, Errors, Order,
           Applying, Installing
<1>11. CASE Restore
    BY <1>0, <1>11, CallCounts, ErrorSet
       DEF Restore, At, Go, Retreat, Fail, AnswerLost, Errors, Order,
           Applying, Installing
<1>12. CASE Enable
    BY <1>12, QueryOrder DEF Enable, Query, At, Order, Stages, Applying, Installing
<1>13. CASE StartService
    BY <1>0, <1>13, CallCounts, ErrorSet
       DEF StartService, Stages, At, Go, Retreat, Fail, AnswerLost, Errors, Order,
           Applying, Installing
<1>14. CASE Act
    BY <1>0, <1>14, CallCounts, ErrorSet
       DEF Act, Stages, At, Go, Retreat, Fail, AnswerLost, Errors, Order,
           Applying, Installing
<1>15. CASE Refresh
    BY <1>0, <1>15, CallCounts, ErrorSet, RefreshedSet
       DEF Refresh, Running, At, Go, Retreat, Fail, AnswerLost, Errors, Order,
           Applying, Installing
<1>16. CASE CopyBinary
    BY <1>16, CopyOrder DEF CopyBinary, Copy, At, Order, Applying, TypeOK
<1>17. CASE Fragment
    BY <1>0, <1>17, CallCounts, ErrorSet, SkippedSet
       DEF Fragment, Stages, At, Go, Retreat, Fail, AnswerLost, Errors, Order,
           Applying, Installing
<1>18. CASE CopyConfig
    BY <1>18, QueryOrder DEF CopyConfig, Query, At, Order, Stages, Applying, Installing
<1>19. CASE Download
    BY <1>0, <1>19, CallCounts, ErrorSet
       DEF Download, Stages, At, Go, Retreat, Fail, AnswerLost, Errors, Order,
           Applying, Installing
<1>20. CASE Verify
    BY <1>0, <1>20, RefusedBreaks, CallCounts, ErrorSet
       DEF Verify, Stages, At, Go, Retreat, Fail, AnswerLost, Errors, Order,
           Applying, Installing
<1>21. CASE RunScript
    BY <1>0, <1>21, CallCounts, ErrorSet
       DEF RunScript, Stages, At, Go, Retreat, Fail, AnswerLost, Errors, Order,
           Applying, Installing
<1>22. CASE DropScript
    BY <1>0, <1>22, RefusedBreaks, CallCounts, ErrorSet
       DEF DropScript, At, Go, Retreat, Fail, AnswerLost, Errors, Order,
           Applying, Installing
<1>23. CASE IsActive
    BY <1>0, <1>23, CallCounts, ErrorSet
       DEF IsActive, Stages, At, Go, Retreat, Fail, AnswerLost, Errors, Order,
           Applying, Installing
<1> QED
    BY <1>1, <1>2, <1>3, <1>4, <1>5, <1>6, <1>7, <1>8, <1>9, <1>10, <1>11, <1>12, <1>13, <1>14, <1>15, <1>16, <1>17, <1>18, <1>19, <1>20, <1>21, <1>22, <1>23
       DEF Worker

(* What Launch makes of what was asked.                                    *)
LEMMA LaunchJob ==
    ASSUME NEW asked \in Jobs, Launch(asked), TypeOK
    PROVE  /\ job'.kind = asked.kind /\ job'.op = asked.op /\ job'.since = outside
           /\ job'.existed = asked.existed /\ job'.skipped = asked.skipped
           /\ job'.refreshed = asked.refreshed /\ job'.error = asked.error
           /\ job'.wasRunning = asked.wasRunning /\ job'.service = asked.service
           /\ job'.new = asked.new
BY DEF Launch, Jobs

LEMMA NextOrder == ASSUME TypeOK, Order, [Next]_vars PROVE Order'
<1>1. CASE StartUnitApply \/ StartServiceOperation \/ StartXrayLifecycle
    <2>1. PICK asked \in Jobs :
              /\ Launch(asked) /\ asked.error = "none" /\ asked.refreshed = "unknown"
              /\ \/ asked.kind = "apply" /\ asked.new \in Authored
                 \/ asked.kind \in {"install", "update", "remove"}
                 \/ asked.kind = "service" /\ asked.op \in ServiceOps
        BY <1>1, AskedType
    <2>2. /\ pc' = "connect" /\ link' = "up" /\ copies' = {} /\ outside' = outside
        BY <2>1 DEF Launch
    <2>3. outside \in Nat
        BY DEF TypeOK
    <2> QED
        BY <2>1, <2>2, <2>3, LaunchJob DEF Order, Applying, Installing
<1>2. CASE Worker
    BY <1>2, WorkerOrder
<1>3. CASE Poll
    <2>1. /\ pc' = "idle" /\ link' = link /\ faults' = faults /\ outside' = outside
          /\ job' = Idle
        BY <1>3 DEF Poll, conn
    <2>2. /\ Idle.kind = "none" /\ Idle.refreshed = "unknown" /\ Idle.error = "none"
          /\ Idle.since = 0
        BY DEF Idle
    <2>3. outside \in Nat
        BY DEF TypeOK
    <2> QED
        BY <2>1, <2>2, <2>3 DEF Order, Applying, Installing
<1>4. CASE Discover
    <2>1. /\ pc' = pc /\ link' = link /\ faults' = faults /\ outside' = outside
          /\ job' = job /\ copies' = copies
        BY <1>4 DEF Discover, conn
    <2> QED
        BY <2>1 DEF Order
<1>5. CASE Outside
    <2>1. /\ pc' = pc /\ link' = link /\ faults' = faults /\ outside' = outside + 1
          /\ job' = job /\ copies' = copies
        BY <1>5 DEF Outside, conn
    <2>2. job.since <= outside => job.since <= outside + 1
        BY DEF TypeOK, Jobs
    <2> QED
        BY <2>1, <2>2 DEF Order
<1>6. CASE UNCHANGED vars
    <2>1. /\ pc' = pc /\ link' = link /\ faults' = faults /\ outside' = outside
          /\ job' = job /\ copies' = copies
        BY <1>6 DEF vars, conn
    <2> QED
        BY <2>1 DEF Order
<1> QED
    BY <1>1, <1>2, <1>3, <1>4, <1>5, <1>6 DEF Next

-----------------------------------------------------------------------------
(* /tmp.                                                                   *)

LEMMA WorkerTidy == ASSUME TypeOK, Order, Tidy, Worker PROVE Tidy'
<1>1. CASE Connect
    BY <1>1, CallCounts DEF Connect, Query, At, Go, Fail, Retreat, AnswerLost, Order, Tidy
<1>2. CASE ProbeRights
    BY <1>2, CallCounts DEF ProbeRights, At, Go, Fail, Retreat, AnswerLost, Order, Tidy
<1>3. CASE Preflight
    BY <1>3, CallCounts DEF Preflight, Query, At, Go, Fail, Retreat, AnswerLost, Order, Tidy
<1>4. CASE ProbeExists
    BY <1>4, CallCounts DEF ProbeExists, WriteCall, At, Go, Fail, Retreat, AnswerLost, Order, Tidy
<1>5. CASE CopyUnit
    BY <1>5, CallCounts DEF CopyUnit, Copy, WriteCall, At, Go, Fail, Retreat, AnswerLost, Order, Tidy
<1>6. CASE WriteUnit
    BY <1>6, CallCounts DEF WriteUnit, At, Go, Fail, Retreat, AnswerLost, Order, Tidy
<1>7. CASE SudoUpload
    BY <1>7, RefusedBreaks, CallCounts DEF SudoUpload, At, Go, Fail, Retreat, AnswerLost, Order, Tidy
<1>8. CASE SudoInstall
    BY <1>8, CallCounts DEF SudoInstall, At, Go, Fail, Retreat, AnswerLost, Order, Tidy
<1>9. CASE SudoDrop
    BY <1>9, RefusedBreaks, CallCounts DEF SudoDrop, At, Go, Fail, Retreat, AnswerLost, Order, Tidy
<1>10. CASE Reload
    BY <1>10, CallCounts DEF Reload, Reloaded, At, Go, Fail, Retreat, AnswerLost, Order, Tidy
<1>11. CASE Restore
    BY <1>11, CallCounts DEF Restore, At, Go, Fail, Retreat, AnswerLost, Order, Tidy
<1>12. CASE Enable
    BY <1>12, CallCounts DEF Enable, Query, At, Go, Fail, Retreat, AnswerLost, Order, Tidy
<1>13. CASE StartService
    BY <1>13, CallCounts DEF StartService, At, Go, Fail, Retreat, AnswerLost, Order, Tidy
<1>14. CASE Act
    BY <1>14, CallCounts DEF Act, At, Go, Fail, Retreat, AnswerLost, Order, Tidy
<1>15. CASE Refresh
    BY <1>15, CallCounts DEF Refresh, At, Go, Fail, Retreat, AnswerLost, Order, Tidy
<1>16. CASE CopyBinary
    BY <1>16, CallCounts DEF CopyBinary, Copy, At, Go, Fail, Retreat, AnswerLost, Order, Tidy
<1>17. CASE Fragment
    BY <1>17, CallCounts DEF Fragment, At, Go, Fail, Retreat, AnswerLost, Order, Tidy
<1>18. CASE CopyConfig
    BY <1>18, CallCounts DEF CopyConfig, Query, At, Go, Fail, Retreat, AnswerLost, Order, Tidy
<1>19. CASE Download
    BY <1>19, CallCounts DEF Download, At, Go, Fail, Retreat, AnswerLost, Order, Tidy
<1>20. CASE Verify
    BY <1>20, RefusedBreaks, CallCounts DEF Verify, At, Go, Fail, Retreat, AnswerLost, Order, Tidy
<1>21. CASE RunScript
    BY <1>21, CallCounts DEF RunScript, At, Go, Fail, Retreat, AnswerLost, Order, Tidy
<1>22. CASE DropScript
    BY <1>22, RefusedBreaks, CallCounts DEF DropScript, At, Go, Fail, Retreat, AnswerLost, Order, Tidy
<1>23. CASE IsActive
    BY <1>23, CallCounts DEF IsActive, At, Go, Fail, Retreat, AnswerLost, Order, Tidy
<1> QED
    BY <1>1, <1>2, <1>3, <1>4, <1>5, <1>6, <1>7, <1>8, <1>9, <1>10, <1>11, <1>12, <1>13, <1>14, <1>15, <1>16, <1>17, <1>18, <1>19, <1>20, <1>21, <1>22, <1>23
       DEF Worker

LEMMA NextTidy == ASSUME TypeOK, Order, Tidy, [Next]_vars PROVE Tidy'
<1>1. CASE StartUnitApply \/ StartServiceOperation \/ StartXrayLifecycle
    BY <1>1, AskedType DEF Launch, Tidy
<1>2. CASE Worker
    BY <1>2, WorkerTidy
<1>3. CASE Poll
    <2>1. pc = "done" /\ pc' = "idle" /\ faults' = faults /\ scratch' = scratch
        BY <1>3 DEF Poll, conn
    <2> QED
        BY <2>1 DEF Tidy
<1>4. CASE Discover \/ Outside \/ UNCHANGED vars
    <2>1. pc' = pc /\ faults' = faults /\ scratch' = scratch
        BY <1>4 DEF Discover, Outside, vars, conn
    <2> QED
        BY <2>1 DEF Tidy
<1> QED
    BY <1>1, <1>2, <1>3, <1>4 DEF Next

-----------------------------------------------------------------------------
(* The files: what an operation has overwritten it has a copy of.          *)

Files == Safe /\ NothingLost /\ FailedApplyRestores /\ OkIsApplied

LEMMA WorkerFiles == ASSUME TypeOK, Order, Files, Worker PROVE Files'
<1>0. job \in Jobs
    BY DEF TypeOK
<1>1. CASE Connect
    BY <1>0, <1>1, CallCounts, ErrorSet
       DEF Connect, Query, At, Go, Fail, Retreat, AnswerLost, Errors, Stages,
           Order, Applying, Files, Safe, NothingLost, FailedApplyRestores, OkIsApplied,
           Undisturbed, Kept, Ok, UnitTold, Untouched, Written, Installing
<1>2. CASE ProbeRights
    BY <1>0, <1>2, CallCounts, ErrorSet
       DEF ProbeRights, At, Go, Fail, Retreat, AnswerLost, Errors, Stages,
           Order, Applying, Files, Safe, NothingLost, FailedApplyRestores, OkIsApplied,
           Undisturbed, Kept, Ok, UnitTold, Untouched, Written, Installing
<1>3. CASE Preflight
    BY <1>0, <1>3, CallCounts, ErrorSet
       DEF Preflight, Query, At, Go, Fail, Retreat, AnswerLost, Errors, Stages,
           Order, Applying, Files, Safe, NothingLost, FailedApplyRestores, OkIsApplied,
           Undisturbed, Kept, Ok, UnitTold, Untouched, Written, Installing
<1>4. CASE ProbeExists
    <2>1. CASE Fail("exists") /\ BrokenOff
        BY <1>0, <1>4, <2>1, CallCounts, ErrorSet
           DEF ProbeExists, At, Fail, Errors, Stages, Order, Applying, Files, Safe, NothingLost, FailedApplyRestores, OkIsApplied,
           Undisturbed, Kept, Ok, UnitTold, Untouched, Written, Installing
    <2>2. CASE /\ Answered /\ job' = [job EXCEPT !.existed = unit # NoFile]
               /\ pc' = IF unit # NoFile THEN "copy_unit" ELSE WriteCall
        <3>1. /\ job' \in Jobs /\ job'.existed = (unit # NoFile)
              /\ job'.kind = job.kind /\ job'.new = job.new /\ job'.error = job.error
              /\ job'.since = job.since
            BY <1>0, <2>2, ExistedSet
        <3>2. pc' \in {"copy_unit", "write", "sudo_tmp"} /\ (pc' = "copy_unit" <=> unit # NoFile)
            BY <2>2 DEF WriteCall
        <3> QED
            BY <1>4, <3>1, <3>2
               DEF ProbeExists, At, Order, Applying, Files, Safe, NothingLost, FailedApplyRestores, OkIsApplied,
           Undisturbed, Kept, Ok, UnitTold, Untouched, Written, Installing
    <2> QED
        BY <1>4, <2>1, <2>2 DEF ProbeExists
<1>5. CASE CopyUnit
    <2> DEFINE what == IF job.kind = "apply" \/ known # Vendor THEN unit ELSE vendor
               next == IF job.kind = "apply" THEN WriteCall ELSE "copy_config"
    <2>1. Copy("copy_unit", what, next)
        BY <1>5 DEF CopyUnit
    <2>2. UnitTold /\ Undisturbed => what = before.unit
        <3>1. Vendor \notin Units
            BY LifecycleAssumption DEF Units
        <3>2. before.unit \in Units
            BY DEF TypeOK, Findings
        <3>3. Undisturbed => known = before.known /\ unit = before.unit
            BY <2>1 DEF Copy, At, Files, Safe, Untouched
        <3> QED
            BY <3>1, <3>2, <3>3 DEF UnitTold
    <2>3. job.kind = "apply" => what = unit /\ next \in {"write", "sudo_tmp"}
        BY DEF WriteCall
    <2>4. job.kind # "apply" => next = "copy_config"
        OBVIOUS
    <2> HIDE DEF what, next
    <2>5. /\ pc = "copy_unit" /\ unit' = unit /\ known' = known /\ bin' = bin
          /\ before' = before /\ outside' = outside
        BY <2>1 DEF Copy, At
    <2>6. CASE Fail("backup") /\ copies' = copies
        BY <1>0, <2>5, <2>6, ErrorSet
           DEF Fail, Errors, Order, Applying, Files, Safe, NothingLost, FailedApplyRestores, OkIsApplied,
           Undisturbed, Kept, Ok, UnitTold, Untouched, Written, Installing
    <2>7. CASE Go(next) /\ copies' = copies \union {<<"copy_unit", what>>}
        <3>1. job' = job /\ pc' = next
            BY <2>7 DEF Go
        <3>2. CASE job.kind = "apply"
            BY <2>3, <2>5, <2>7, <3>1, <3>2
               DEF Order, Applying, Files, Safe, NothingLost, FailedApplyRestores, OkIsApplied,
           Undisturbed, Kept, Ok, UnitTold, Untouched, Written, Installing
        <3>3. CASE job.kind # "apply"
            BY <2>2, <2>4, <2>5, <2>7, <3>1, <3>3
               DEF Order, Applying, Files, Safe, NothingLost, FailedApplyRestores, OkIsApplied,
           Undisturbed, Kept, Ok, UnitTold, Untouched, Written, Installing
        <3> QED
            BY <3>2, <3>3
    <2> QED
        BY <2>1, <2>6, <2>7 DEF Copy
<1>6. CASE WriteUnit
    BY <1>0, <1>6, CallCounts, ErrorSet
       DEF WriteUnit, At, Go, Fail, Retreat, AnswerLost, Errors, Stages,
           Order, Applying, Files, Safe, NothingLost, FailedApplyRestores, OkIsApplied,
           Undisturbed, Kept, Ok, UnitTold, Untouched, Written, Installing
<1>7. CASE SudoUpload
    BY <1>0, <1>7, RefusedBreaks, CallCounts, ErrorSet
       DEF SudoUpload, At, Go, Fail, Retreat, AnswerLost, Errors, Stages,
           Order, Applying, Files, Safe, NothingLost, FailedApplyRestores, OkIsApplied,
           Undisturbed, Kept, Ok, UnitTold, Untouched, Written, Installing
<1>8. CASE SudoInstall
    BY <1>0, <1>8, CallCounts, ErrorSet
       DEF SudoInstall, At, Go, Fail, Retreat, AnswerLost, Errors, Stages,
           Order, Applying, Files, Safe, NothingLost, FailedApplyRestores, OkIsApplied,
           Undisturbed, Kept, Ok, UnitTold, Untouched, Written, Installing
<1>9. CASE SudoDrop
    BY <1>0, <1>9, RefusedBreaks, CallCounts, ErrorSet
       DEF SudoDrop, Jobs, At, Go, Fail, Retreat, AnswerLost, Errors, Stages,
           Order, Applying, Files, Safe, NothingLost, FailedApplyRestores, OkIsApplied,
           Undisturbed, Kept, Ok, UnitTold, Untouched, Written, Installing
<1>10. CASE Reload
    <2>1. Undisturbed => InEffect = job.new
        BY <1>10, LifecycleAssumption
           DEF Reload, At, InEffect, Order, Applying, Files, Safe
    <2>2. /\ pc = "reload" /\ unit' = unit /\ bin' = bin /\ copies' = copies
          /\ before' = before /\ outside' = outside /\ job.kind = "apply"
        BY <1>10 DEF Reload, At, Order, Applying
    <2>3. CASE Answered /\ known' = InEffect /\ Go(Reloaded)
        BY <2>1, <2>2, <2>3
           DEF Go, Reloaded, Order, Applying, Files, Safe, NothingLost, FailedApplyRestores, OkIsApplied,
           Undisturbed, Kept, Ok, UnitTold, Untouched, Written, Installing
    <2>4. CASE Retreat("refused") \/ (BrokenOff /\ Retreat("broken"))
        BY <1>0, <2>2, <2>4, CallCounts, ErrorSet
           DEF Retreat, Errors, Order, Applying, Files, Safe, NothingLost, FailedApplyRestores, OkIsApplied,
           Undisturbed, Kept, Ok, UnitTold, Untouched, Written, Installing
    <2> QED
        BY <1>10, <2>3, <2>4 DEF Reload, AnswerLost
<1>11. CASE Restore
    <2>1. /\ pc = "restore" /\ pc' = "done" /\ job' = job /\ bin' = bin /\ copies' = copies
          /\ before' = before /\ outside' = outside /\ known' = known
        BY <1>11 DEF Restore, At, Go
    <2>2. job.kind = "apply" /\ job.existed /\ job.error \in {"refused", "broken"}
        BY <2>1 DEF Order, Applying
    <2>3. Undisturbed => /\ <<"copy_unit", before.unit>> \in copies
                         /\ \A c \in copies : c[2] = before.unit
        BY <2>1, <2>2 DEF Files, Safe, Written
    <2>4. CASE (Answered \/ AnswerLost) /\ unit' \in {c[2] : c \in copies}
        <3>1. Undisturbed => unit' = before.unit
            BY <2>3, <2>4
        <3> QED
            BY <2>1, <2>2, <2>3, <3>1
               DEF Order, Applying, Files, Safe, NothingLost, FailedApplyRestores, OkIsApplied,
           Undisturbed, Kept, Ok, UnitTold, Untouched, Written, Installing
    <2>5. CASE BrokenOff
        <3>1. job.error = "refused" => faults' > 0
            BY <2>5, CallCounts
        <3>2. job.error = "broken" => faults' > 1 \/ link' = "lost"
            <4>1. job.error = "broken" => faults > 0
                BY <2>1 DEF Order
            <4>2. faults \in Nat /\ faults' \in Nat /\ (faults' > faults \/ link' = "lost")
                BY <2>5, CallCounts DEF TypeOK
            <4> QED
                BY <4>1, <4>2
        <3> QED
            BY <2>1, <2>2, <2>3, <2>5, <3>1, <3>2, CallCounts
               DEF Order, Applying, Files, Safe, NothingLost, FailedApplyRestores, OkIsApplied,
           Undisturbed, Kept, Ok, UnitTold, Untouched, Written, Installing
    <2> QED
        BY <1>11, <2>4, <2>5 DEF Restore
<1>12. CASE Enable
    BY <1>0, <1>12, CallCounts, ErrorSet
       DEF Enable, Query, At, Go, Fail, Retreat, AnswerLost, Errors, Stages,
           Order, Applying, Files, Safe, NothingLost, FailedApplyRestores, OkIsApplied,
           Undisturbed, Kept, Ok, UnitTold, Untouched, Written, Installing
<1>13. CASE StartService
    <2>1. /\ pc = "start" /\ unit' = unit /\ bin' = bin /\ copies' = copies
          /\ before' = before /\ outside' = outside /\ known' = known
          /\ job.kind = "apply" /\ job.new \in Authored
        BY <1>13 DEF StartService, At, Order, Applying
    <2>2. CASE Fail("start")
        BY <1>0, <2>1, <2>2, ErrorSet
           DEF Fail, Errors, Stages, Order, Applying, Files, Safe, NothingLost, FailedApplyRestores, OkIsApplied,
           Undisturbed, Kept, Ok, UnitTold, Untouched, Written, Installing
    <2>3. CASE Go("done")
        <3>1. Undisturbed => known = job.new /\ unit = job.new
            BY <2>1 DEF Files, Safe
        <3> QED
            BY <2>1, <2>3, <3>1
               DEF Go, Order, Applying, Files, Safe, NothingLost, FailedApplyRestores, OkIsApplied,
           Undisturbed, Kept, Ok, UnitTold, Untouched, Written, Installing
    <2> QED
        BY <1>13, <2>2, <2>3 DEF StartService
<1>14. CASE Act
    BY <1>0, <1>14, CallCounts, ErrorSet
       DEF Act, At, Go, Fail, Retreat, AnswerLost, Errors, Stages,
           Order, Applying, Files, Safe, NothingLost, FailedApplyRestores, OkIsApplied,
           Undisturbed, Kept, Ok, UnitTold, Untouched, Written, Installing
<1>15. CASE Refresh
    <2>1. /\ pc = "refresh" /\ pc' = "done" /\ unit' = unit /\ bin' = bin
          /\ copies' = copies /\ before' = before /\ outside' = outside
          /\ known' = known /\ job.kind = "service"
        BY <1>15 DEF Refresh, At, Order
    <2>2. job'.kind = job.kind /\ job'.since = job.since
        BY <1>0, <1>15, RefreshedSet DEF Refresh, Running
    <2> QED
        BY <2>1, <2>2
           DEF Order, Applying, Files, Safe, NothingLost, FailedApplyRestores, OkIsApplied,
           Undisturbed, Kept, Ok, UnitTold, Untouched, Written, Installing
<1>16. CASE CopyBinary
    BY <1>0, <1>16, CallCounts, ErrorSet
       DEF CopyBinary, Copy, At, Go, Fail, Retreat, AnswerLost, Errors, Stages,
           Order, Applying, Files, Safe, NothingLost, FailedApplyRestores, OkIsApplied,
           Undisturbed, Kept, Ok, UnitTold, Untouched, Written, Installing
<1>17. CASE Fragment
    BY <1>0, <1>17, CallCounts, ErrorSet, SkippedSet
       DEF Fragment, At, Go, Fail, Retreat, AnswerLost, Errors, Stages,
           Order, Applying, Files, Safe, NothingLost, FailedApplyRestores, OkIsApplied,
           Undisturbed, Kept, Ok, UnitTold, Untouched, Written, Installing
<1>18. CASE CopyConfig
    BY <1>0, <1>18, CallCounts, ErrorSet
       DEF CopyConfig, Query, At, Go, Fail, Retreat, AnswerLost, Errors, Stages,
           Order, Applying, Files, Safe, NothingLost, FailedApplyRestores, OkIsApplied,
           Undisturbed, Kept, Ok, UnitTold, Untouched, Written, Installing
<1>19. CASE Download
    BY <1>0, <1>19, CallCounts, ErrorSet
       DEF Download, At, Go, Fail, Retreat, AnswerLost, Errors, Stages,
           Order, Applying, Files, Safe, NothingLost, FailedApplyRestores, OkIsApplied,
           Undisturbed, Kept, Ok, UnitTold, Untouched, Written, Installing
<1>20. CASE Verify
    BY <1>0, <1>20, RefusedBreaks, CallCounts, ErrorSet
       DEF Verify, At, Go, Fail, Retreat, AnswerLost, Errors, Stages,
           Order, Applying, Files, Safe, NothingLost, FailedApplyRestores, OkIsApplied,
           Undisturbed, Kept, Ok, UnitTold, Untouched, Written, Installing
<1>21. CASE RunScript
    BY <1>0, <1>21, CallCounts, ErrorSet
       DEF RunScript, At, Go, Fail, Retreat, AnswerLost, Errors, Stages,
           Order, Applying, Files, Safe, NothingLost, FailedApplyRestores, OkIsApplied,
           Undisturbed, Kept, Ok, UnitTold, Untouched, Written, Installing
<1>22. CASE DropScript
    BY <1>0, <1>22, RefusedBreaks, CallCounts, ErrorSet
       DEF DropScript, At, Go, Fail, Retreat, AnswerLost, Errors, Stages,
           Order, Applying, Files, Safe, NothingLost, FailedApplyRestores, OkIsApplied,
           Undisturbed, Kept, Ok, UnitTold, Untouched, Written, Installing
<1>23. CASE IsActive
    BY <1>0, <1>23, CallCounts, ErrorSet
       DEF IsActive, At, Go, Fail, Retreat, AnswerLost, Errors, Stages,
           Order, Applying, Files, Safe, NothingLost, FailedApplyRestores, OkIsApplied,
           Undisturbed, Kept, Ok, UnitTold, Untouched, Written, Installing
<1> QED
    BY <1>1, <1>2, <1>3, <1>4, <1>5, <1>6, <1>7, <1>8, <1>9, <1>10, <1>11, <1>12, <1>13, <1>14, <1>15, <1>16, <1>17, <1>18, <1>19, <1>20, <1>21, <1>22, <1>23
       DEF Worker

LEMMA InitFiles == Init => Files
BY DEF Init, Files, Safe, NothingLost, FailedApplyRestores, OkIsApplied, Undisturbed, Kept,
       Idle, Untouched, Written, Installing

LEMMA NextFiles == ASSUME TypeOK, Order, Files, [Next]_vars PROVE Files'
<1>1. CASE StartUnitApply \/ StartServiceOperation \/ StartXrayLifecycle
    <2>1. PICK asked \in Jobs : Launch(asked)
        BY <1>1, AskedType
    <2>2. /\ pc' = "connect" /\ copies' = {} /\ unit' = unit /\ known' = known /\ bin' = bin
          /\ before' = [unit |-> unit, known |-> known, bin |-> bin]
        BY <2>1 DEF Launch, host
    <2>3. before'.unit = unit' /\ before'.known = known' /\ before'.bin = bin'
        BY <2>2
    <2> QED
        BY <2>2, <2>3
           DEF Files, Safe, NothingLost, FailedApplyRestores, OkIsApplied, Kept,
               Untouched, Written, Installing
<1>2. CASE Worker
    BY <1>2, WorkerFiles
<1>3. CASE Poll
    <2>1. pc' = "idle" /\ job'.kind = "none"
        BY <1>3 DEF Poll, Idle
    <2> QED
        BY <2>1 DEF Files, Safe, NothingLost, FailedApplyRestores, OkIsApplied,
                    Untouched, Written, Installing
<1>4. CASE Outside
    <2>1. outside' = outside + 1 /\ job' = job
        BY <1>4 DEF Outside
    <2>2. job.since \in Nat /\ outside \in Nat /\ job.since <= outside
        BY DEF TypeOK, Jobs, Order
    <2>3. ~ Undisturbed'
        BY <2>1, <2>2 DEF Undisturbed
    <2> QED
        BY <2>3 DEF Files, Safe, NothingLost, FailedApplyRestores, OkIsApplied
<1>5. CASE Discover \/ UNCHANGED vars
    <2>1. /\ pc' = pc /\ job' = job /\ unit' = unit /\ known' = known /\ bin' = bin
          /\ proc' = proc /\ copies' = copies /\ before' = before /\ outside' = outside
          /\ faults' = faults /\ link' = link
        BY <1>5 DEF Discover, vars, host, conn
    <2> QED
        BY <2>1 DEF Files, Safe, NothingLost, FailedApplyRestores, OkIsApplied, Undisturbed,
                    Kept, Ok, UnitTold
<1> QED
    BY <1>1, <1>2, <1>3, <1>4, <1>5 DEF Next

-----------------------------------------------------------------------------
(* The page.                                                               *)

(* A call that leaves the process alone and does not end an apply well.    *)
LEMMA QuietPage ==
    ASSUME TypeOK, Order, Page, NEW stage, At(stage), Answered \/ BrokenOff, proc' = proc,
           stage \notin {"idle", "done"}, pc' # "idle",
           job'.kind = job.kind, job'.wasRunning = job.wasRunning,
           job'.refreshed = "unknown"
    PROVE  Page'
<1>1. /\ state' = state /\ synced' = synced /\ outside' = outside /\ pc = stage
    BY DEF At, page
<1>2. faults' = 0 => faults = 0
    BY CallCounts DEF TypeOK
<1> QED
    BY <1>1, <1>2 DEF Page, Running

LEMMA WorkerPage == ASSUME TypeOK, Order, Page, Worker PROVE Page'
<1>0. job \in Jobs
    BY DEF TypeOK
<1>1. CASE Connect
    BY <1>0, <1>1, QuietPage, ErrorSet
       DEF Connect, Query, At, Go, Fail, Retreat, AnswerLost, Errors, Stages,
           Order, Applying
<1>2. CASE ProbeRights
    BY <1>0, <1>2, QuietPage, ErrorSet
       DEF ProbeRights, At, Go, Fail, Retreat, AnswerLost, Errors, Stages,
           Order, Applying
<1>3. CASE Preflight
    BY <1>0, <1>3, QuietPage, ErrorSet
       DEF Preflight, Query, At, Go, Fail, Retreat, AnswerLost, Errors, Stages,
           Order, Applying
<1>4. CASE ProbeExists
    <2>1. /\ job'.kind = job.kind /\ job'.wasRunning = job.wasRunning
          /\ job'.refreshed = job.refreshed
        <3>1. CASE Fail("exists")
            BY <1>0, <3>1, ErrorSet DEF Fail, Errors, Stages
        <3>2. CASE job' = [job EXCEPT !.existed = unit # NoFile]
            BY <1>0, <3>2, ExistedSet
        <3> QED
            BY <1>4, <3>1, <3>2 DEF ProbeExists
    <2>2. pc' # "idle" /\ proc' = proc /\ job.refreshed = "unknown" /\ (Answered \/ BrokenOff)
        BY <1>4 DEF ProbeExists, WriteCall, Fail, At, Order
    <2>3. At("exists")
        BY <1>4 DEF ProbeExists
    <2> QED
        BY <2>1, <2>2, <2>3, QuietPage
<1>5. CASE CopyUnit
    BY <1>0, <1>5, QuietPage, ErrorSet
       DEF CopyUnit, Copy, WriteCall, At, Go, Fail, Retreat, AnswerLost, Errors, Stages,
           Order, Applying
<1>6. CASE WriteUnit
    BY <1>0, <1>6, QuietPage, ErrorSet
       DEF WriteUnit, At, Go, Fail, Retreat, AnswerLost, Errors, Stages,
           Order, Applying
<1>7. CASE SudoUpload
    BY <1>0, <1>7, RefusedBreaks, QuietPage, ErrorSet
       DEF SudoUpload, At, Go, Fail, Retreat, AnswerLost, Errors, Stages,
           Order, Applying
<1>8. CASE SudoInstall
    BY <1>0, <1>8, QuietPage, ErrorSet
       DEF SudoInstall, At, Go, Fail, Retreat, AnswerLost, Errors, Stages,
           Order, Applying
<1>9. CASE SudoDrop
    BY <1>0, <1>9, RefusedBreaks, QuietPage, ErrorSet
       DEF SudoDrop, Jobs, At, Go, Fail, Retreat, AnswerLost, Errors, Stages,
           Order, Applying
<1>10. CASE Reload
    BY <1>0, <1>10, QuietPage, ErrorSet
       DEF Reload, Reloaded, At, Go, Fail, Retreat, AnswerLost, Errors, Stages,
           Order, Applying
<1>11. CASE Restore
    BY <1>0, <1>11, QuietPage, ErrorSet
       DEF Restore, At, Go, Fail, Retreat, AnswerLost, Errors, Stages,
           Order, Applying
<1>12. CASE Enable
    BY <1>0, <1>12, QuietPage, ErrorSet
       DEF Enable, Query, At, Go, Fail, Retreat, AnswerLost, Errors, Stages,
           Order, Applying
<1>13. CASE StartService
    <2>1. /\ pc = "start" /\ pc' = "done" /\ state' = state /\ synced' = synced
          /\ known' = known /\ job.kind = "apply" /\ outside' = outside
          /\ (Answered \/ BrokenOff)
        BY <1>13 DEF StartService, AnswerLost, At, page, Go, Fail, Order, Applying
    <2>2. proc' = proc \/ (proc = Stopped /\ proc' = known)
        BY <1>13, StartWhat DEF StartService
    <2>3. /\ job'.kind = job.kind /\ job'.wasRunning = job.wasRunning
          /\ job'.refreshed = "unknown"
        BY <1>0, <1>13, <2>1, ErrorSet DEF StartService, Go, Fail, Errors, Stages, Order
    <2>4. proc' = proc \/ Ok' \/ faults' > 0
        <3>1. CASE Answered
            <4>1. ~ BrokenOff
                BY <3>1 DEF Answered, BrokenOff, conn, TypeOK
            <4>2. Go("done") \/ proc' = proc
                BY <1>13, <4>1, StartWhat DEF StartService, AnswerLost
            <4>3. Go("done") => Ok'
                BY <2>1 DEF Go, Ok, Order
            <4> QED
                BY <4>2, <4>3
        <3>2. CASE BrokenOff
            BY <3>2, CallCounts
        <3> QED
            BY <2>1, <3>1, <3>2
    <2>5. faults' = 0 => faults = 0
        BY <2>1, CallCounts DEF TypeOK
    <2>6. faults' \in Nat
        BY <2>1, CallCounts
    <2> QED
        BY <2>1, <2>2, <2>3, <2>4, <2>5, <2>6 DEF Page, Running
<1>14. CASE Act
    BY <1>0, <1>14, CallCounts, ErrorSet
       DEF Act, At, Go, Fail, Retreat, AnswerLost, Errors, Stages,
           Order, Applying, Page, Running, Undisturbed, page, Ok, Installing
<1>15. CASE Refresh
    BY <1>0, <1>15, CallCounts, ErrorSet, RefreshedSet
       DEF Refresh, At, Go, Fail, Retreat, AnswerLost, Errors, Stages,
           Order, Applying, Page, Running, Undisturbed, page, Ok, Installing
<1>16. CASE CopyBinary
    BY <1>0, <1>16, QuietPage, ErrorSet
       DEF CopyBinary, Copy, At, Go, Fail, Retreat, AnswerLost, Errors, Stages,
           Order, Applying
<1>17. CASE Fragment
    BY <1>0, <1>17, QuietPage, ErrorSet, SkippedSet
       DEF Fragment, At, Go, Fail, Retreat, AnswerLost, Errors, Stages,
           Order, Applying
<1>18. CASE CopyConfig
    BY <1>0, <1>18, QuietPage, ErrorSet
       DEF CopyConfig, Query, At, Go, Fail, Retreat, AnswerLost, Errors, Stages,
           Order, Applying
<1>19. CASE Download
    BY <1>0, <1>19, QuietPage, ErrorSet
       DEF Download, At, Go, Fail, Retreat, AnswerLost, Errors, Stages,
           Order, Applying
<1>20. CASE Verify
    BY <1>0, <1>20, RefusedBreaks, QuietPage, ErrorSet
       DEF Verify, At, Go, Fail, Retreat, AnswerLost, Errors, Stages,
           Order, Applying
<1>21. CASE RunScript
    BY <1>0, <1>21, CallCounts, ErrorSet
       DEF RunScript, At, Go, Fail, Retreat, AnswerLost, Errors, Stages,
           Order, Applying, Page, Running, Undisturbed, page, Ok, Installing
<1>22. CASE DropScript
    BY <1>0, <1>22, RefusedBreaks, QuietPage, ErrorSet
       DEF DropScript, At, Go, Fail, Retreat, AnswerLost, Errors, Stages,
           Order, Applying
<1>23. CASE IsActive
    BY <1>0, <1>23, QuietPage, ErrorSet
       DEF IsActive, At, Go, Fail, Retreat, AnswerLost, Errors, Stages,
           Order, Applying
<1> QED
    BY <1>1, <1>2, <1>3, <1>4, <1>5, <1>6, <1>7, <1>8, <1>9, <1>10, <1>11, <1>12, <1>13, <1>14, <1>15, <1>16, <1>17, <1>18, <1>19, <1>20, <1>21, <1>22, <1>23
       DEF Worker

LEMMA InitPage == Init => Page
BY DEF Init, Page, Idle

LEMMA NextPage == ASSUME TypeOK, Order, Page, [Next]_vars PROVE Page'
<1>1. CASE StartUnitApply \/ StartServiceOperation \/ StartXrayLifecycle
    <2>1. PICK asked \in Jobs :
              /\ Launch(asked) /\ asked.refreshed = "unknown"
              /\ \/ asked.kind = "apply" /\ asked.wasRunning = (state = "running")
                 \/ asked.kind \in {"service", "install", "update", "remove"}
        BY <1>1, AskedType
    <2>2. /\ pc = "idle" /\ pc' = "connect" /\ state' = state /\ synced' = synced /\ proc' = proc
        BY <2>1 DEF Launch, host
    <2> QED
        BY <2>1, <2>2, LaunchJob DEF Page, Running
<1>2. CASE Worker
    BY <1>2, WorkerPage
<1>3. CASE Poll
    <2>1. /\ pc = "done" /\ pc' = "idle" /\ job'.kind = "none" /\ proc' = proc
        BY <1>3 DEF Poll, Idle, host
    <2>2. synced' => state' = Running(proc)
        <3>1. CASE PollUnitApply
            BY <2>1, <3>1 DEF PollUnitApply, Rediscover, Page
        <3>2. CASE PollService
            BY <2>1, <3>2 DEF PollService, Page, Undisturbed
        <3>3. CASE PollLifecycle
            BY <3>3 DEF PollLifecycle, Rediscover
        <3> QED
            BY <1>3, <3>1, <3>2, <3>3 DEF Poll
    <2> QED
        BY <2>1, <2>2 DEF Page, Running
<1>4. CASE Discover
    <2>1. pc = "idle" /\ job' = job /\ proc' = proc
        BY <1>4 DEF Discover, host
    <2>2. job.kind = "none"
        BY <2>1 DEF Order, Idle
    <2>3. synced' => state' = Running(proc)
        BY <1>4 DEF Discover
    <2> QED
        BY <2>1, <2>2, <2>3 DEF Page, Running
<1>5. CASE Outside
    <2>1. synced' = FALSE /\ outside' = outside + 1 /\ job' = job
        BY <1>5 DEF Outside
    <2>2. job.since \in Nat /\ outside \in Nat /\ job.since <= outside
        BY DEF TypeOK, Jobs, Order
    <2>3. ~ Undisturbed'
        BY <2>1, <2>2 DEF Undisturbed
    <2> QED
        BY <2>1, <2>3 DEF Page
<1>6. CASE UNCHANGED vars
    <2>1. /\ pc' = pc /\ job' = job /\ proc' = proc /\ known' = known /\ state' = state
          /\ synced' = synced /\ faults' = faults /\ outside' = outside
        BY <1>6 DEF vars, host, conn, page
    <2> QED
        BY <2>1 DEF Page, Running, Ok, Undisturbed
<1> QED
    BY <1>1, <1>2, <1>3, <1>4, <1>5, <1>6 DEF Next

-----------------------------------------------------------------------------
(* The theorems.                                                           *)

Inv == TypeOK /\ Order /\ Tidy /\ Files /\ Page

(* Everything the other theorems rest on is kept by every step.            *)
THEOREM Inductive == Spec => []Inv
<1>1. Init => Inv
    <2>1. Init => Tidy
        BY DEF Init, Tidy
    <2> QED
        BY <2>1, InitType, InitOrder, InitFiles, InitPage DEF Inv
<1>2. Inv /\ [Next]_vars => Inv'
    BY NextType, NextOrder, NextTidy, NextFiles, NextPage DEF Inv
<1> QED
    BY <1>1, <1>2, PTL DEF Spec

(* Every variable keeps its type: a process always runs a unit file there  *)
(* was, and an operation is always at one of its calls.                    *)
THEOREM TypeCorrect == Spec => []TypeOK
<1>1. Inv => TypeOK
    BY DEF Inv
<1> QED
    BY <1>1, Inductive, PTL

(* What an apply, an update or a removal found is in place or in a copy.   *)
THEOREM CopiesKept == Spec => []NothingLost
<1>1. Inv => NothingLost
    BY DEF Inv, Files
<1> QED
    BY <1>1, Inductive, PTL

(* One failed write or reload leaves the unit file as it was found.        *)
THEOREM ApplyRestores == Spec => []FailedApplyRestores
<1>1. Inv => FailedApplyRestores
    BY DEF Inv, Files
<1> QED
    BY <1>1, Inductive, PTL

(* A unit reported as applied is the file on disk and the one systemd knows*)
(* (install_or_replace_unit), for any number of operations and failures.   *)
THEOREM AppliedMeansApplied == Spec => []OkIsApplied
<1>1. Inv => OkIsApplied
    BY DEF Inv, Files
<1> QED
    BY <1>1, Inductive, PTL

(* The state on the page is that of the service while it can be known.     *)
THEOREM PageRight == Spec => []PageIsTrue
<1>1. Inv => PageIsTrue
    BY DEF Inv, Page, PageIsTrue
<1> QED
    BY <1>1, Inductive, PTL

(* An operation of which no call broke off and no request on its file in   *)
(* /tmp was refused leaves nothing there, however else it failed.          *)
THEOREM ScratchGone == Spec => []NoScratchLeft
<1>1. Inv => NoScratchLeft
    BY DEF Inv, Tidy, NoScratchLeft
<1> QED
    BY <1>1, Inductive, PTL

(* A process left on another unit by an apply that succeeded is never left *)
(* without the question whether to restart it.                             *)
THEOREM PromptOffered == Spec => PromptWhenNeeded
<1>1. Inv /\ [Next]_vars => [OffersRestart]_vars
    <2> SUFFICES ASSUME Inv, [Next]_vars, pc = "done", pc' = "idle", job.kind = "apply",
                        Ok, synced, proc # Stopped, proc # known
                 PROVE  prompt'
        BY DEF OffersRestart
    <2>1. job.wasRunning
        BY DEF Inv, Page
    <2>2. Poll
        <3>1. ~ (UNCHANGED vars \/ Discover \/ Outside)
            BY DEF vars, Discover, Outside
        <3>2. ~ (StartUnitApply \/ StartServiceOperation \/ StartXrayLifecycle)
            BY DEF StartUnitApply, StartServiceOperation, StartXrayLifecycle, Launch
        <3>3. ~ Worker
            BY DEF Worker, Connect, ProbeRights, Preflight, ProbeExists, CopyUnit, WriteUnit,
                   SudoUpload, SudoInstall, SudoDrop, Reload, Restore, Enable, StartService,
                   Act, Refresh, CopyBinary, Fragment, CopyConfig, Download, Verify,
                   RunScript, DropScript, IsActive, Query, Copy, At
        <3> QED
            BY <3>1, <3>2, <3>3 DEF Next
    <2>3. PollUnitApply
        BY <2>2 DEF Poll, PollService, PollLifecycle
    <2> QED
        BY <2>1, <2>3 DEF PollUnitApply, NeedsRestartPrompt
<1> QED
    BY <1>1, Inductive, PTL DEF Spec, PromptWhenNeeded

=============================================================================
