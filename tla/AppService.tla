----------------------------- MODULE AppService -----------------------------
(***************************************************************************)
(* ApplicationService: the single UI thread that starts one worker thread  *)
(* per remote operation and polls their channels every frame.  What a      *)
(* worker does on the server is one step here (ConfigWrite has its calls); *)
(* this module is about the order in which workers, discoveries, connection*)
(* tests and the user's clicks interleave, and about which host they hit.  *)
(***************************************************************************)
EXTENDS Naturals, FiniteSets

CONSTANTS
    Hosts,      \* what can be typed into the connection form
    NoHost,
    Kinds,      \* the kinds of operation this instance exercises
    MaxStarts   \* bound: operations started

(* "settings": the twelve *_settings pages; "log": log settings; "user";   *)
(* "bound": inbounds, outbounds and confdir members; "restore": a backup   *)
(* put back; "warp"; "service": start, stop, restart; "unit": unit file    *)
(* apply; "lifecycle": install, update, remove.                            *)
AllKinds == {"settings", "log", "user", "bound", "restore", "warp",
             "service", "unit", "lifecycle"}

(* Saves that are followed by the edited copy becoming the loaded one.     *)
Editing == {"settings", "log", "user", "bound", "warp"}
(* Workers that compare the remote file with the loaded copy first.        *)
Comparing == {"settings", "log", "restore", "warp"}
(* Operations whose effect only a new discovery shows.                     *)
Reloading == {"restore", "unit", "lifecycle"}
MutHoldingOff == {"log", "warp", "service", "lifecycle"}
(* Kinds whose channel or state can_start_discovery looks at.              *)
HoldingOff == {"log", "user", "warp", "service", "lifecycle"}
Forms == {"settings", "log"}

ASSUME AppServiceAssumption ==
    /\ NoHost \notin Hosts
    /\ Kinds \subseteq AllKinds
    /\ MaxStarts \in Nat

VARIABLES
    draft,      \* the host in the connection form
    ssh,        \* SshStatus
    testing,    \* a connection test is in flight
    known,      \* DiscoveryState, with what it found out about which host
    probe,      \* the discovery worker and its channel
    loaded,     \* LoadedConfigSnapshot
    forms,      \* host whose configuration an open edit form was cloned from
    chan,       \* kind -> its worker and channel
    operation,  \* CurrentOperation, as far as the guards look at it
    remote,     \* host -> its configuration
    installed,  \* host -> changes made to it by Reloading operations
    saved,      \* history: host -> configuration changes reported as saved
    applied,    \* history: host -> Reloading operations reported as done
    started     \* counter: operations started

ui      == <<draft, ssh, testing>>
view    == <<known, probe, loaded, forms>>
servers == <<remote, installed>>
told    == <<saved, applied>>
vars    == <<ui, view, chan, operation, servers, told, started>>

Ids == 1 .. MaxStarts
(* A configuration: the host it was made for and the changes it carries.   *)
Config == [home : Hosts, has : SUBSET Ids]
NoConfig == [home |-> NoHost, has |-> {}]
Job == [host : Hosts, base : Config \union {NoConfig},
        form : Hosts \union {NoHost}, id : Ids,
        sent : {"running", "ok", "error", "gone"}]
NoJob == [host |-> NoHost, base |-> NoConfig, form |-> NoHost, id |-> 0,
          sent |-> "none"]
Findings == {"running", "succeeded", "notfound", "failed", "lost", "gone"}
Probe == [host : Hosts, found : Findings, config : Config \union {NoConfig},
          install : SUBSET Ids]
NoProbe == [host |-> NoHost, found |-> "none", config |-> NoConfig,
            install |-> {}]
Known == [state : {"idle", "discovering", "succeeded", "notfound", "failed"},
          host : Hosts \union {NoHost}, install : SUBSET Ids]
Unknown(state) == [state |-> state, host |-> NoHost, install |-> {}]
Operations == {"ready", "message", "connecting", "discovering", "busy",
               "user", "service", "lifecycle"}

TypeOK ==
    /\ draft \in Hosts
    /\ ssh \in {"disconnected", "connecting", "connected", "failed"}
    /\ testing \in BOOLEAN
    /\ known \in Known
    /\ probe \in Probe \union {NoProbe}
    /\ loaded \in Config \union {NoConfig}
    /\ forms \in [Forms -> Hosts \union {NoHost}]
    /\ chan \in [AllKinds -> Job \union {NoJob}]
    /\ operation \in Operations
    /\ remote \in [Hosts -> Config]
    /\ installed \in [Hosts -> SUBSET Ids]
    /\ saved \in [Hosts -> SUBSET Ids]
    /\ applied \in [Hosts -> SUBSET Ids]
    /\ started \in 0 .. MaxStarts

Init ==
    /\ draft \in Hosts
    /\ ssh = "disconnected" /\ testing = FALSE
    /\ known = Unknown("idle") /\ probe = NoProbe
    /\ loaded = NoConfig
    /\ forms = [f \in Forms |-> NoHost]
    /\ chan = [k \in AllKinds |-> NoJob]
    /\ operation = "ready"
    /\ remote = [h \in Hosts |-> [home |-> h, has |-> {}]]
    /\ installed = [h \in Hosts |-> {}]
    /\ saved = [h \in Hosts |-> {}]
    /\ applied = [h \in Hosts |-> {}]
    /\ started = 0

InFlight(k) == chan[k].sent # "none"
Arrived(k) == chan[k].sent \notin {"none", "running"}
Discovering == known.state = "discovering"

(* is_any_remote_busy: the channels, and for three kinds the status line.  *)
AnyBusy ==
    \/ \E k \in AllKinds : InFlight(k)
    \/ operation \in {"user", "service", "lifecycle"}
    \/ Discovering

-----------------------------------------------------------------------------
(* The connection form and the connection test.                            *)

FormLocked == testing \/ Discovering

EditConnection(h) ==
    /\ ~FormLocked /\ draft' = h
    /\ UNCHANGED <<ssh, testing, view, chan, operation, servers, told, started>>

StartConnectionTest ==
    /\ ~FormLocked
    /\ testing' = TRUE /\ ssh' = "connecting" /\ operation' = "connecting"
    /\ UNCHANGED <<draft, view, chan, servers, told, started>>

PollConnectionTest ==
    /\ testing /\ testing' = FALSE
    /\ \/ ssh' = "connected" /\ operation' = "message"
       \/ ssh' = "failed" /\ operation' = "ready"
    /\ UNCHANGED <<draft, view, chan, servers, told, started>>

(* Pages announce what they loaded, refused clicks explain themselves,     *)
(* messages expire and edits are cancelled: each overwrites the status     *)
(* line, whatever operation it was showing.                                *)
Speak ==
    /\ operation' \in {"message", "ready"}
    /\ UNCHANGED <<ui, view, chan, servers, told, started>>

-----------------------------------------------------------------------------
(* Discovery.                                                              *)

CanStartDiscovery(channels, op) ==
    /\ ssh = "connected" /\ ~Discovering
    /\ \A k \in HoldingOff : channels[k] = NoJob
    /\ op \notin {"user", "service", "lifecycle"}

MutKeepLogForm(channels) ==
    /\ known' = Unknown("discovering")
    /\ probe' = [NoProbe EXCEPT !.host = draft, !.found = "running"]
    /\ loaded' = NoConfig
    /\ forms' = forms
    /\ chan' = channels
    /\ operation' = "discovering"

(* start_discovery forgets the loaded configuration, the log form and the  *)
(* channels of the operations it waited for; other edit forms stay open.   *)
Discover(channels) ==
    /\ known' = Unknown("discovering")
    /\ probe' = [NoProbe EXCEPT !.host = draft, !.found = "running"]
    /\ loaded' = NoConfig
    /\ forms' = [forms EXCEPT !["log"] = NoHost]
    /\ chan' = [k \in AllKinds |-> IF k \in {"warp", "service", "lifecycle"}
                                   THEN NoJob ELSE channels[k]]
    /\ operation' = "discovering"

StartDiscovery ==
    /\ CanStartDiscovery(chan, operation)
    /\ Discover(chan)
    /\ UNCHANGED <<ui, servers, told, started>>

(* The worker's one look at the server.                                    *)
DiscoveryWorker ==
    /\ probe.found = "running"
    /\ \/ \E config \in {remote[probe.host], NoConfig} :
             probe' = [probe EXCEPT !.found = "succeeded", !.config = config,
                                    !.install = installed[probe.host]]
       \/ \E found \in {"notfound", "failed", "lost", "gone"} :
             probe' = [probe EXCEPT !.found = found]
    /\ UNCHANGED <<ui, known, loaded, forms, chan, operation, servers, told,
                   started>>

PollDiscovery ==
    /\ probe.found \notin {"none", "running"}
    /\ probe' = NoProbe
    /\ loaded' = IF probe.found = "gone" THEN loaded ELSE probe.config
    /\ \/ /\ probe.found = "succeeded"
          /\ known' = [state |-> "succeeded", host |-> probe.host,
                       install |-> probe.install]
          /\ ssh' = "connected" /\ operation' = "message"
       \/ /\ probe.found = "notfound" /\ known' = Unknown("notfound")
          /\ ssh' = "connected" /\ operation' = "message"
       \/ /\ probe.found = "lost" /\ known' = Unknown("failed")
          /\ ssh' = "failed" /\ operation' = "ready"
       \/ /\ probe.found \in {"failed", "gone"} /\ known' = Unknown("failed")
          /\ UNCHANGED ssh /\ operation' = "ready"
    /\ UNCHANGED <<draft, testing, forms, chan, servers, told, started>>

-----------------------------------------------------------------------------
(* Starting operations.                                                    *)

(* The CurrentOperation it shows; unit applies use the service's.          *)
Status(k) == IF k \in {"user", "service", "lifecycle"} THEN k
             ELSE IF k = "unit" THEN "service" ELSE "busy"

(* A worker is spawned with a clone of the loaded configuration and with   *)
(* the host that stands in the connection form at this moment.             *)
Launch(k) ==
    /\ k \in Kinds /\ started < MaxStarts /\ started' = started + 1
    /\ chan' = [chan EXCEPT ![k] =
          [host |-> draft, base |-> loaded, id |-> started + 1,
           form |-> IF k \in Forms THEN forms[k] ELSE NoHost,
           sent |-> "running"]]
    /\ operation' = Status(k)
    /\ UNCHANGED <<ui, view, servers, told>>

MutReadyWithoutBusy == ssh = "connected" /\ ~Discovering
Ready == ssh = "connected" /\ ~AnyBusy
Succeeded == known.state = "succeeded"

BeginEdit(f) ==
    /\ f \in Kinds
    /\ Ready /\ Succeeded /\ loaded # NoConfig
    /\ forms' = [forms EXCEPT ![f] = loaded.home]
    /\ operation' = "ready"
    /\ UNCHANGED <<ui, known, probe, loaded, chan, servers, told, started>>

CancelEdit(f) ==
    /\ forms[f] # NoHost /\ forms' = [forms EXCEPT ![f] = NoHost]
    /\ operation' = "ready"
    /\ UNCHANGED <<ui, known, probe, loaded, chan, servers, told, started>>

StartSave(f) ==
    /\ Ready /\ Succeeded /\ forms[f] # NoHost /\ loaded # NoConfig
    /\ Launch(f)

StartUserMutation == Ready /\ loaded # NoConfig /\ Launch("user")
StartInboundMutation == Ready /\ loaded # NoConfig /\ Launch("bound")
StartRestoreBackup == Ready /\ loaded # NoConfig /\ Launch("restore")
StartWarpOperation ==
    Ready /\ Succeeded /\ loaded # NoConfig /\ Launch("warp")
StartServiceOperation == Ready /\ Succeeded /\ Launch("service")
StartUnitApply == Ready /\ Launch("unit")
StartXrayLifecycle ==
    Ready /\ known.state \in {"succeeded", "notfound"} /\ Launch("lifecycle")

-----------------------------------------------------------------------------
(* The worker threads.                                                     *)

Changed(job) == [home |-> job.base.home, has |-> job.base.has \union {job.id}]

MutAcceptsAnything(k) == TRUE
(* write_with_conflict_check and restore_with_conflict_check.              *)
Accepts(k) == k \in Comparing => remote[chan[k].host] = chan[k].base

(* What the operation leaves on the server.  A restore puts back a file    *)
(* with some of the changes missing.                                       *)
Effect(k) ==
    LET h == chan[k].host IN
    \/ /\ k \in Editing /\ Accepts(k)
       /\ remote' = [remote EXCEPT ![h] = Changed(chan[k])]
       /\ UNCHANGED <<installed, saved>>
    \/ /\ k = "restore" /\ Accepts(k)
       /\ \E kept \in SUBSET remote[h].has :
             /\ remote' = [remote EXCEPT ![h].has = kept]
             /\ saved' = [saved EXCEPT ![h] = @ \intersect kept]
       /\ installed' = [installed EXCEPT ![h] = @ \union {chan[k].id}]
    \/ /\ k \in Reloading \ {"restore"}
       /\ installed' = [installed EXCEPT ![h] = @ \union {chan[k].id}]
       /\ UNCHANGED <<remote, saved>>
    \/ k = "service" /\ UNCHANGED <<servers, saved>>

Sends(k, result) == chan' = [chan EXCEPT ![k].sent = result]

(* Done; failed with or without having changed the server; panicked.       *)
Worker(k) ==
    /\ chan[k].sent = "running"
    /\ \/ Effect(k) /\ \E result \in {"ok", "error", "gone"} : Sends(k, result)
       \/ /\ UNCHANGED <<servers, saved>>
          /\ \E result \in {"error", "gone"} : Sends(k, result)
    /\ UNCHANGED <<ui, view, operation, applied, started>>

-----------------------------------------------------------------------------
(* Polling: what the next frame does with an outcome that has arrived.     *)

Close(k) == [chan EXCEPT ![k] = NoJob]

MutPollErrorsOnly(k) ==
    /\ chan[k].sent = "error"
    /\ chan' = Close(k) /\ operation' = "message"
    /\ UNCHANGED <<ui, view, servers, told, started>>

(* A user mutation whose worker died speaks up only if the status line     *)
(* still shows it.                                                         *)
PollFailed(k) ==
    /\ chan[k].sent \in {"error", "gone"}
    /\ chan' = Close(k)
    /\ operation' = IF k = "user" /\ chan[k].sent = "gone" /\ operation # "user"
                    THEN operation ELSE "message"
    /\ UNCHANGED <<ui, view, servers, told, started>>

MutPollKeepsSnapshot(k) ==
    /\ k \in Editing /\ chan[k].sent = "ok"
    /\ chan' = Close(k) /\ operation' = "message"
    /\ forms' = [f \in Forms |-> IF f = k THEN NoHost ELSE forms[f]]
    /\ saved' = [saved EXCEPT ![chan[k].host] = @ \union {chan[k].id}]
    /\ UNCHANGED <<ui, known, probe, loaded, servers, applied, started>>

(* The edited copy becomes the loaded one and the form closes.             *)
PollEdited(k) ==
    /\ k \in Editing /\ chan[k].sent = "ok"
    /\ chan' = Close(k) /\ operation' = "message"
    /\ loaded' = Changed(chan[k])
    /\ forms' = [f \in Forms |-> IF f = k THEN NoHost ELSE forms[f]]
    /\ saved' = [saved EXCEPT ![chan[k].host] = @ \union {chan[k].id}]
    /\ UNCHANGED <<ui, known, probe, servers, applied, started>>

PollService ==
    /\ chan["service"].sent = "ok"
    /\ chan' = Close("service") /\ operation' = "message"
    /\ UNCHANGED <<ui, view, servers, told, started>>

(* A successful restore, unit apply, install, update or removal asks for a *)
(* new discovery, which may be refused.                                    *)
PollReloading(k) ==
    /\ chan[k].sent = "ok"
    /\ applied' = [applied EXCEPT ![chan[k].host] = @ \union {chan[k].id}]
    /\ IF CanStartDiscovery(Close(k), "message")
       THEN Discover(Close(k))
       ELSE chan' = Close(k) /\ operation' = "message" /\ UNCHANGED view
    /\ UNCHANGED <<ui, servers, saved, started>>

PollRestore == PollReloading("restore")
PollUnitApply == PollReloading("unit")
PollLifecycle == PollReloading("lifecycle")

Poll(k) ==
    \/ PollFailed(k)
    \/ PollEdited(k)
    \/ k = "service" /\ PollService
    \/ k = "restore" /\ PollRestore
    \/ k = "unit" /\ PollUnitApply
    \/ k = "lifecycle" /\ PollLifecycle

-----------------------------------------------------------------------------
Click ==
    \/ \E h \in Hosts : EditConnection(h)
    \/ StartConnectionTest
    \/ Speak
    \/ StartDiscovery
    \/ \E f \in Forms : BeginEdit(f) \/ CancelEdit(f) \/ StartSave(f)
    \/ StartUserMutation
    \/ StartInboundMutation
    \/ StartRestoreBackup
    \/ StartWarpOperation
    \/ StartServiceOperation
    \/ StartUnitApply
    \/ StartXrayLifecycle

Frame ==
    \/ PollConnectionTest
    \/ PollDiscovery
    \/ \E k \in AllKinds : Poll(k)

Threads == DiscoveryWorker \/ \E k \in AllKinds : Worker(k)

Next == Click \/ Frame \/ Threads

Spec == Init /\ [][Next]_vars

(* Every frame polls every channel.  That every worker comes back is an    *)
(* assumption about the network and the server: they answer, or the        *)
(* connection breaks.                                                      *)
FairSpec ==
    /\ Spec
    /\ WF_vars(PollConnectionTest) /\ WF_vars(PollDiscovery)
    /\ WF_vars(DiscoveryWorker)
    /\ \A k \in AllKinds : WF_vars(Worker(k)) /\ WF_vars(Poll(k))

-----------------------------------------------------------------------------
(* Properties.                                                             *)

(* Only one operation can be changing the server, and no discovery runs    *)
(* while an operation it would forget is in flight: start_discovery drops  *)
(* their channels (is_any_remote_busy and can_start_discovery, between     *)
(* them, for any sequence of clicks).                                      *)
OneAtATime ==
    /\ \A k, l \in AllKinds : InFlight(k) /\ InFlight(l) => k = l
    /\ Discovering => \A k \in HoldingOff : ~InFlight(k)

(* A change the user was told is saved stays on the server until the user  *)
(* restores an older file: no later operation, started from a copy that    *)
(* does not have it, takes it away (poll_* and poll_discovery).            *)
NoLostUpdate == \A h \in Hosts : saved[h] \subseteq remote[h].has

(* With nothing in flight, the configuration the pages show has every      *)
(* change the user was told is saved on its host (poll_discovery and the   *)
(* polls that make the edited copy the loaded one).                        *)
ViewIsCurrent ==
    ~AnyBusy /\ loaded # NoConfig => saved[loaded.home] \subseteq loaded.has

(* A server only ever holds a configuration that was made for it.          *)
NoForeignConfig == \A h \in Hosts : remote[h].home = h

(* An operation that compares before it writes never puts the              *)
(* configuration of one server on another, whatever the connection form    *)
(* and the loaded copy said when it was started                            *)
(* (write_with_conflict_check, restore_with_conflict_check).               *)
ComparersKeepHome ==
    [][ \A k \in Comparing :
          chan[k].sent = "running" /\ chan'[k].sent # "running" =>
            \A h \in Hosts : remote'[h].home = remote[h].home ]_vars

(* The draft a save of the log settings puts into a configuration was      *)
(* cloned from a configuration of the same host: the form does not survive *)
(* a discovery of another one (begin_edit_log_settings, start_discovery).  *)
LogFormFits == InFlight("log") => chan["log"].form = chan["log"].base.home

(* The application never stays busy: every operation, and every discovery  *)
(* it leads to, comes to an end and unlocks the buttons.                   *)
BusyEnds == AnyBusy ~> ~AnyBusy
=============================================================================
