------------------------- MODULE AppServiceProofs -------------------------
(***************************************************************************)
(* Proofs about AppService for every set of hosts, every choice of kinds   *)
(* and any number of operations.                                           *)
(***************************************************************************)
EXTENDS AppService, TLAPS

(* Operations that save a configuration were started from a loaded one.    *)
EditsHaveBase == \A k \in Editing : InFlight(k) => chan[k].base \in Config

TypeInv == TypeOK /\ EditsHaveBase

Channels == [AllKinds -> Job \union {NoJob}]

-----------------------------------------------------------------------------
(* Channels: what an entry of chan is, and what the operations on it do.   *)

(* A kind is in flight exactly when its entry is a job.                    *)
LEMMA InFlightIsJob ==
  ASSUME NEW k \in AllKinds, chan \in Channels
  PROVE  /\ InFlight(k) => chan[k] \in Job
         /\ ~InFlight(k) => chan[k] = NoJob
         /\ chan[k] = NoJob => ~InFlight(k)
         /\ chan[k] \in Job => InFlight(k)
<1>1. chan[k] \in Job \/ chan[k] = NoJob
  BY DEF Channels
<1>2. chan[k] \in Job => chan[k].sent # "none"
  BY DEF Job
<1>3. NoJob.sent = "none"
  BY DEF NoJob
<1> QED
  BY <1>1, <1>2, <1>3 DEF InFlight

(* Closing a channel keeps the others.                                     *)
LEMMA CloseChannel ==
  ASSUME NEW k \in AllKinds, chan \in Channels
  PROVE  /\ Close(k) \in Channels
         /\ Close(k)[k] = NoJob
         /\ \A l \in AllKinds \ {k} : Close(k)[l] = chan[l]
  BY DEF Close, Channels

(* Sending a result changes nothing else in the job.                       *)
LEMMA SendResult ==
  ASSUME NEW k \in AllKinds, NEW result \in {"ok", "error", "gone"},
         chan \in Channels, chan[k].sent = "running", Sends(k, result)
  PROVE  /\ chan' \in Channels
         /\ chan'[k] = [chan[k] EXCEPT !.sent = result]
         /\ chan'[k] \in Job /\ chan[k] \in Job
         /\ chan'[k].base = chan[k].base
         /\ \A l \in AllKinds \ {k} : chan'[l] = chan[l]
<1>1. chan[k] \in Job
  BY InFlightIsJob DEF InFlight
<1>2. chan' = [chan EXCEPT ![k] = [chan[k] EXCEPT !.sent = result]]
  BY DEF Sends
<1>3. chan'[k] = [chan[k] EXCEPT !.sent = result]
  BY <1>2 DEF Channels
<1>4. \A l \in AllKinds \ {k} : chan'[l] = chan[l]
  BY <1>2 DEF Channels
<1>5. [chan[k] EXCEPT !.sent = result] \in Job
  BY <1>1 DEF Job
<1>6. chan'[k].base = chan[k].base
  BY <1>1, <1>3 DEF Job
<1>7. chan' \in Channels
  BY <1>2, <1>5 DEF Channels
<1> QED
  BY <1>1, <1>3, <1>4, <1>5, <1>6, <1>7

(* What an edit writes is a configuration of the host it was made for.     *)
LEMMA ChangedIsConfig ==
  ASSUME NEW k \in Editing, TypeInv, InFlight(k)
  PROVE  /\ Changed(chan[k]) \in Config
         /\ Changed(chan[k]).home = chan[k].base.home
<1>0. k \in AllKinds /\ chan \in Channels
  BY DEF Editing, AllKinds, TypeInv, TypeOK, Channels
<1>1. chan[k] \in Job
  BY <1>0, InFlightIsJob
<1>2. chan[k].id \in Ids
  BY <1>1 DEF Job
<1>3. chan[k].base \in Config
  BY DEF TypeInv, EditsHaveBase
<1>4. chan[k].base.home \in Hosts /\ chan[k].base.has \in SUBSET Ids
  BY <1>3 DEF Config
<1>5. chan[k].base.has \union {chan[k].id} \in SUBSET Ids
  BY <1>2, <1>4
<1> QED
  BY <1>4, <1>5 DEF Changed, Config

(* What start_discovery leaves has its types, and forgets no open save.    *)
LEMMA DiscoverTypes ==
  ASSUME NEW channels \in Channels, TypeOK, Discover(channels)
  PROVE  /\ known' \in Known
         /\ probe' \in Probe \union {NoProbe}
         /\ loaded' \in Config \union {NoConfig}
         /\ forms' \in [Forms -> Hosts \union {NoHost}]
         /\ chan' \in Channels
         /\ operation' \in Operations
         /\ \A k \in AllKinds : chan'[k] \in {NoJob, channels[k]}
<1>1. known' \in Known
  BY DEF Discover, Unknown, Known
<1>2. draft \in Hosts
  BY DEF TypeOK
<1>3. probe' = [host |-> draft, found |-> "running", config |-> NoConfig,
                install |-> {}]
  BY DEF Discover, NoProbe
<1>4. probe' \in Probe
  BY <1>2, <1>3 DEF Probe, Findings
<1>5. loaded' = NoConfig
  BY DEF Discover
<1>6. forms' \in [Forms -> Hosts \union {NoHost}]
  BY DEF Discover, TypeOK
<1>7. chan' \in Channels /\ \A k \in AllKinds : chan'[k] \in {NoJob, channels[k]}
  BY DEF Discover, Channels
<1>8. operation' \in Operations
  BY DEF Discover, Operations
<1> QED
  BY <1>1, <1>4, <1>5, <1>6, <1>7, <1>8

-----------------------------------------------------------------------------
(* Type correctness.                                                       *)

(* The type invariant at the start.                                        *)
LEMMA InitTypeInv == Init => TypeInv
<1> SUFFICES ASSUME Init PROVE TypeInv
  OBVIOUS
<1> USE AppServiceAssumption
<1>1. known \in Known /\ probe \in Probe \union {NoProbe}
  BY DEF Init, Known, Unknown
<1>2. chan \in [AllKinds -> Job \union {NoJob}]
  BY DEF Init
<1>3. remote \in [Hosts -> Config]
  <2>1. \A h \in Hosts : [home |-> h, has |-> {}] \in Config
    BY DEF Config
  <2> QED
    BY <2>1 DEF Init
<1>4. /\ draft \in Hosts
      /\ ssh \in {"disconnected", "connecting", "connected", "failed"}
      /\ loaded \in Config \union {NoConfig}
      /\ forms \in [Forms -> Hosts \union {NoHost}]
      /\ operation \in Operations
  BY DEF Init, Operations
<1>6. started \in 0 .. MaxStarts
  BY DEF Init
<1>7. testing \in BOOLEAN
  BY DEF Init
<1>5. /\ installed \in [Hosts -> SUBSET Ids]
      /\ saved \in [Hosts -> SUBSET Ids]
      /\ applied \in [Hosts -> SUBSET Ids]
  BY DEF Init
<1>8. TypeOK
  BY <1>1, <1>2, <1>3, <1>4, <1>5, <1>6, <1>7 DEF TypeOK
<1>9. EditsHaveBase
  BY DEF Init, EditsHaveBase, InFlight, NoJob, Editing, AllKinds
<1> QED
  BY <1>8, <1>9 DEF TypeInv

(* A step that leaves the channels and the servers alone.                  *)
LEMMA EditsKeepBase ==
  ASSUME EditsHaveBase, chan \in Channels,
         \A k \in Editing : chan'[k] \in {NoJob, chan[k]}
  PROVE  EditsHaveBase'
<1>1. NoJob.sent = "none"
  BY DEF NoJob
<1> QED
  BY <1>1 DEF EditsHaveBase, InFlight

(* Starting an operation.                                                  *)
LEMMA LaunchTypes ==
  ASSUME NEW k \in AllKinds, TypeInv, Launch(k),
         k \in Editing => loaded \in Config
  PROVE  TypeInv'
<1> USE AppServiceAssumption
<1> DEFINE job == [host |-> draft, base |-> loaded, id |-> started + 1,
                   form |-> IF k \in Forms THEN forms[k] ELSE NoHost,
                   sent |-> "running"]
<1>1. started' \in 0 .. MaxStarts /\ started + 1 \in Ids
  BY DEF Launch, TypeInv, TypeOK, Ids
<1>2. job \in Job
  <2>1. draft \in Hosts /\ loaded \in Config \union {NoConfig}
    BY DEF TypeInv, TypeOK
  <2>2. (IF k \in Forms THEN forms[k] ELSE NoHost) \in Hosts \union {NoHost}
    BY DEF TypeInv, TypeOK
  <2> QED
    BY <1>1, <2>1, <2>2 DEF Job
<1>3. chan' = [chan EXCEPT ![k] = job]
  BY DEF Launch
<1>4. chan \in Channels /\ chan' \in Channels
  BY <1>2, <1>3 DEF TypeInv, TypeOK, Channels
<1>5. chan'[k] = job /\ \A l \in AllKinds \ {k} : chan'[l] = chan[l]
  BY <1>3, <1>4 DEF Channels
<1>6. operation' \in Operations
  BY DEF Launch, Status, Operations
<1>7. EditsHaveBase'
  <2> SUFFICES ASSUME NEW l \in Editing, InFlight(l)'
               PROVE  chan'[l].base \in Config
    BY DEF EditsHaveBase, Config, Ids
  <2>1. CASE l = k
    BY <2>1, <1>5
  <2>2. CASE l # k
    BY <2>2, <1>5 DEF TypeInv, EditsHaveBase, InFlight, Editing, AllKinds
  <2> QED
    BY <2>1, <2>2
<1>8. TypeOK'
  BY <1>1, <1>4, <1>6
     DEF Launch, TypeInv, TypeOK, Channels, ui, view, servers, told
<1> QED
  BY <1>7, <1>8 DEF TypeInv

(* Outcomes: closing a channel, with or without a rediscovery.             *)
LEMMA CloseTypes ==
  ASSUME NEW k \in AllKinds, TypeInv, chan' = Close(k)
  PROVE  chan' \in Channels /\ EditsHaveBase'
<1>1. chan \in Channels
  BY DEF TypeInv, TypeOK, Channels
<1>2. \A l \in Editing : chan'[l] \in {NoJob, chan[l]}
  BY <1>1, CloseChannel DEF Editing, AllKinds
<1> QED
  BY <1>1, <1>2, CloseChannel, EditsKeepBase DEF TypeInv

(* The outcome of an operation that asks for a new discovery.              *)
LEMMA ReloadingTypes ==
  ASSUME NEW k \in AllKinds, TypeInv, PollReloading(k)
  PROVE  TypeInv'
<1>1. chan \in Channels /\ Close(k) \in Channels
  BY CloseChannel DEF TypeInv, TypeOK, Channels
<1>2. chan[k] \in Job
  BY <1>1, InFlightIsJob DEF PollReloading, InFlight
<1>3. applied' \in [Hosts -> SUBSET Ids]
  <2>1. chan[k].id \in Ids
    BY <1>2 DEF Job
  <2> QED
    BY <2>1 DEF PollReloading, TypeInv, TypeOK
<1>4. CASE CanStartDiscovery(Close(k), "message")
  <2>1. Discover(Close(k))
    BY <1>4 DEF PollReloading
  <2>2. /\ known' \in Known
        /\ probe' \in Probe \union {NoProbe}
        /\ loaded' \in Config \union {NoConfig}
        /\ forms' \in [Forms -> Hosts \union {NoHost}]
        /\ chan' \in Channels
        /\ operation' \in Operations
        /\ \A l \in AllKinds : chan'[l] \in {NoJob, Close(k)[l]}
    BY <1>1, <2>1, DiscoverTypes DEF TypeInv
  <2>3. \A l \in Editing : chan'[l] \in {NoJob, chan[l]}
    BY <1>1, <2>2, CloseChannel DEF Editing, AllKinds
  <2>4. EditsHaveBase'
    BY <1>1, <2>3, EditsKeepBase DEF TypeInv
  <2>5. TypeOK'
    BY <1>3, <2>2 DEF PollReloading, TypeInv, TypeOK, Channels, ui, servers
  <2> QED
    BY <2>4, <2>5 DEF TypeInv
<1>5. CASE ~CanStartDiscovery(Close(k), "message")
  <2>1. chan' = Close(k) /\ operation' = "message" /\ UNCHANGED view
    BY <1>5 DEF PollReloading
  <2>2. chan' \in Channels /\ EditsHaveBase'
    BY <2>1, CloseTypes
  <2>3. operation' \in Operations
    BY <2>1 DEF Operations
  <2>4. TypeOK'
    BY <1>3, <2>1, <2>2, <2>3
       DEF PollReloading, TypeInv, TypeOK, Channels, ui, view, servers
  <2> QED
    BY <2>2, <2>4 DEF TypeInv
<1> QED
  BY <1>4, <1>5

(* What a worker does on the server.                                       *)
LEMMA EffectTypes ==
  ASSUME NEW k \in AllKinds, TypeInv, InFlight(k), Effect(k)
  PROVE  /\ remote' \in [Hosts -> Config]
         /\ installed' \in [Hosts -> SUBSET Ids]
         /\ saved' \in [Hosts -> SUBSET Ids]
<1>1. chan[k] \in Job
  BY InFlightIsJob DEF TypeInv, TypeOK, Channels
<1>2. chan[k].host \in Hosts /\ chan[k].id \in Ids
  BY <1>1 DEF Job
<1> DEFINE h == chan[k].host
<1>3. /\ remote \in [Hosts -> Config] /\ installed \in [Hosts -> SUBSET Ids]
      /\ saved \in [Hosts -> SUBSET Ids]
  BY DEF TypeInv, TypeOK
<1>4. ASSUME k \in Editing, remote' = [remote EXCEPT ![h] = Changed(chan[k])],
             UNCHANGED <<installed, saved>>
      PROVE  /\ remote' \in [Hosts -> Config]
             /\ installed' \in [Hosts -> SUBSET Ids]
             /\ saved' \in [Hosts -> SUBSET Ids]
  BY <1>2, <1>3, <1>4, ChangedIsConfig
<1>5. ASSUME NEW kept \in SUBSET remote[h].has,
             remote' = [remote EXCEPT ![h].has = kept],
             saved' = [saved EXCEPT ![h] = @ \intersect kept],
             installed' = [installed EXCEPT ![h] = @ \union {chan[k].id}]
      PROVE  /\ remote' \in [Hosts -> Config]
             /\ installed' \in [Hosts -> SUBSET Ids]
             /\ saved' \in [Hosts -> SUBSET Ids]
  <2>1. remote[h] \in Config
    BY <1>2, <1>3
  <2>2. [remote[h] EXCEPT !.has = kept] \in Config
    BY <2>1, <1>5 DEF Config
  <2>3. remote' = [remote EXCEPT ![h] = [remote[h] EXCEPT !.has = kept]]
    BY <1>5
  <2>4. remote' \in [Hosts -> Config]
    BY <1>3, <2>2, <2>3
  <2>5. installed' \in [Hosts -> SUBSET Ids] /\ saved' \in [Hosts -> SUBSET Ids]
    BY <1>2, <1>3, <1>5
  <2> QED
    BY <2>4, <2>5
<1>6. ASSUME installed' = [installed EXCEPT ![h] = @ \union {chan[k].id}],
             UNCHANGED <<remote, saved>>
      PROVE  /\ remote' \in [Hosts -> Config]
             /\ installed' \in [Hosts -> SUBSET Ids]
             /\ saved' \in [Hosts -> SUBSET Ids]
  BY <1>2, <1>3, <1>6
<1>7. ASSUME UNCHANGED <<servers, saved>>
      PROVE  /\ remote' \in [Hosts -> Config]
             /\ installed' \in [Hosts -> SUBSET Ids]
             /\ saved' \in [Hosts -> SUBSET Ids]
  BY <1>3, <1>7 DEF servers
<1> HIDE DEF h
<1> QED
  BY <1>4, <1>5, <1>6, <1>7 DEF Effect, h

(* Actions that keep the channels keep EditsHaveBase.                      *)
LEMMA SameChannels == ASSUME TypeInv, UNCHANGED chan PROVE EditsHaveBase'
  BY EditsKeepBase DEF TypeInv, TypeOK, Channels, Editing, AllKinds

(* A worker that ends, with or without an effect.                          *)
LEMMA WorkerTypes ==
  ASSUME NEW k \in AllKinds, TypeInv, Worker(k)
  PROVE  TypeInv'
<1>1. chan[k].sent = "running" /\ chan \in Channels /\ InFlight(k)
  BY DEF Worker, TypeInv, TypeOK, Channels, InFlight
<1>2. PICK result \in {"ok", "error", "gone"} : Sends(k, result)
  BY DEF Worker
<1>3. /\ chan' \in Channels /\ chan'[k].base = chan[k].base
      /\ \A l \in AllKinds \ {k} : chan'[l] = chan[l]
  BY <1>1, <1>2, SendResult
<1>4. EditsHaveBase'
  BY <1>1, <1>3 DEF TypeInv, EditsHaveBase, InFlight, Editing, AllKinds, Config, Ids
<1>5. /\ remote' \in [Hosts -> Config]
      /\ installed' \in [Hosts -> SUBSET Ids]
      /\ saved' \in [Hosts -> SUBSET Ids]
  <2>1. CASE Effect(k)
    BY <1>1, <2>1, EffectTypes
  <2>2. CASE UNCHANGED <<servers, saved>>
    BY <2>2 DEF TypeInv, TypeOK, servers
  <2> QED
    BY <2>1, <2>2 DEF Worker
<1>6. TypeOK'
  BY <1>3, <1>5 DEF Worker, TypeInv, TypeOK, Channels, ui, view
<1> QED
  BY <1>4, <1>6 DEF TypeInv

(* The outcomes of operations, whichever kind.                             *)
LEMMA PollTypes ==
  ASSUME NEW k \in AllKinds, TypeInv, Poll(k)
  PROVE  TypeInv'
<1>0. "message" \in Operations
  BY DEF Operations
<1>1. ASSUME chan' = Close(k), operation' \in {"message", operation},
             UNCHANGED <<ui, view, servers, told, started>>
      PROVE  TypeInv'
  <2>1. chan' \in Channels /\ EditsHaveBase'
    BY <1>1, CloseTypes
  <2>2. TypeOK'
    BY <1>0, <1>1, <2>1
       DEF TypeInv, TypeOK, Channels, ui, view, servers, told
  <2> QED
    BY <2>1, <2>2 DEF TypeInv
<1>2. CASE PollFailed(k)
  BY <1>1, <1>2 DEF PollFailed
<1>3. CASE PollEdited(k)
  <2>1. k \in Editing /\ InFlight(k) /\ chan \in Channels
    BY <1>3 DEF PollEdited, InFlight, TypeInv, TypeOK, Channels
  <2>2. chan[k].host \in Hosts /\ chan[k].id \in Ids
    BY <2>1, InFlightIsJob DEF Job
  <2>3. chan' \in Channels /\ EditsHaveBase'
    BY <1>3, CloseTypes DEF PollEdited
  <2>4. loaded' \in Config
    BY <1>3, <2>1, ChangedIsConfig DEF PollEdited
  <2>5. forms' \in [Forms -> Hosts \union {NoHost}]
    BY <1>3 DEF PollEdited, TypeInv, TypeOK
  <2>6. saved' \in [Hosts -> SUBSET Ids]
    BY <1>3, <2>2 DEF PollEdited, TypeInv, TypeOK
  <2>7. TypeOK'
    BY <1>0, <1>3, <2>3, <2>4, <2>5, <2>6
       DEF PollEdited, TypeInv, TypeOK, Channels, ui, servers
  <2> QED
    BY <2>3, <2>7 DEF TypeInv
<1>4. CASE k = "service" /\ PollService
  BY <1>1, <1>4 DEF PollService
<1>5. CASE PollReloading(k)
  BY <1>5, ReloadingTypes
<1> QED
  BY <1>2, <1>3, <1>4, <1>5 DEF Poll, PollRestore, PollUnitApply, PollLifecycle

(* Everything a frame polls.                                               *)
LEMMA FrameTypes == ASSUME TypeInv, Frame PROVE TypeInv'
<1>1. CASE PollConnectionTest
  <2>1. EditsHaveBase'
    BY <1>1, SameChannels DEF PollConnectionTest
  <2>2. /\ ssh' \in {"disconnected", "connecting", "connected", "failed"}
        /\ operation' \in Operations
    BY <1>1 DEF PollConnectionTest, Operations
  <2>3. testing' \in BOOLEAN
    BY <1>1 DEF PollConnectionTest
  <2>4. TypeOK'
    BY <1>1, <2>2, <2>3
       DEF PollConnectionTest, TypeInv, TypeOK, view, servers, told
  <2> QED
    BY <2>1, <2>4 DEF TypeInv
<1>2. CASE PollDiscovery
  <2>1. EditsHaveBase'
    BY <1>2, SameChannels DEF PollDiscovery
  <2>2. probe \in Probe
    BY <1>2 DEF PollDiscovery, TypeInv, TypeOK, NoProbe
  <2>3. /\ probe.host \in Hosts /\ probe.install \in SUBSET Ids
        /\ probe.config \in Config \union {NoConfig}
    BY <2>2 DEF Probe
  <2>4. known' \in Known
    <3>1. /\ [state |-> "succeeded", host |-> probe.host,
               install |-> probe.install] \in Known
          /\ Unknown("notfound") \in Known /\ Unknown("failed") \in Known
      BY <2>3 DEF Known, Unknown
    <3> QED
      BY <1>2, <3>1 DEF PollDiscovery
  <2>5. loaded' \in Config \union {NoConfig}
    BY <1>2, <2>3 DEF PollDiscovery, TypeInv, TypeOK
  <2>6. /\ ssh' \in {"disconnected", "connecting", "connected", "failed"}
        /\ operation' \in Operations
    BY <1>2 DEF PollDiscovery, Operations, TypeInv, TypeOK
  <2>7. probe' = NoProbe /\ UNCHANGED <<draft, testing, forms, chan, servers, told, started>>
    BY <1>2 DEF PollDiscovery
  <2>8. TypeOK'
    BY <2>4, <2>5, <2>6, <2>7 DEF TypeInv, TypeOK, servers, told
  <2> QED
    BY <2>1, <2>8 DEF TypeInv
<1> QED
  BY <1>1, <1>2, PollTypes DEF Frame

(* Everything the user may click.                                          *)
LEMMA ClickTypes == ASSUME TypeInv, Click PROVE TypeInv'
<1>1. CASE \E h \in Hosts : EditConnection(h)
  <2>1. EditsHaveBase'
    BY <1>1, SameChannels DEF EditConnection
  <2>2. TypeOK'
    BY <1>1 DEF EditConnection, TypeInv, TypeOK, view, servers, told
  <2> QED
    BY <2>1, <2>2 DEF TypeInv
<1>2. CASE StartConnectionTest
  <2>1. EditsHaveBase'
    BY <1>2, SameChannels DEF StartConnectionTest
  <2>2. testing' \in BOOLEAN
    BY <1>2 DEF StartConnectionTest
  <2>3. /\ ssh' \in {"disconnected", "connecting", "connected", "failed"}
        /\ operation' \in Operations
    BY <1>2 DEF StartConnectionTest, Operations
  <2>4. TypeOK'
    BY <1>2, <2>2, <2>3
       DEF StartConnectionTest, TypeInv, TypeOK, view, servers, told
  <2> QED
    BY <2>1, <2>4 DEF TypeInv
<1>3. CASE Speak
  <2>1. EditsHaveBase'
    BY <1>3, SameChannels DEF Speak
  <2>2. TypeOK'
    BY <1>3 DEF Speak, Operations, TypeInv, TypeOK, ui, view, servers, told
  <2> QED
    BY <2>1, <2>2 DEF TypeInv
<1>4. CASE StartDiscovery
  <2>1. chan \in Channels /\ Discover(chan)
    BY <1>4 DEF StartDiscovery, TypeInv, TypeOK, Channels
  <2>2. /\ known' \in Known
        /\ probe' \in Probe \union {NoProbe}
        /\ loaded' \in Config \union {NoConfig}
        /\ forms' \in [Forms -> Hosts \union {NoHost}]
        /\ chan' \in Channels
        /\ operation' \in Operations
        /\ \A k \in AllKinds : chan'[k] \in {NoJob, chan[k]}
    BY <2>1, DiscoverTypes DEF TypeInv
  <2>3. EditsHaveBase'
    BY <2>1, <2>2, EditsKeepBase DEF TypeInv, Editing, AllKinds
  <2>4. TypeOK'
    BY <1>4, <2>2
       DEF StartDiscovery, TypeInv, TypeOK, Channels, ui, servers, told
  <2> QED
    BY <2>3, <2>4 DEF TypeInv
<1>5. ASSUME NEW f \in Forms, BeginEdit(f) PROVE TypeInv'
  <2>1. EditsHaveBase'
    BY <1>5, SameChannels DEF BeginEdit
  <2>2. loaded.home \in Hosts
    BY <1>5 DEF BeginEdit, TypeInv, TypeOK, Config
  <2>3. forms' \in [Forms -> Hosts \union {NoHost}]
    BY <1>5, <2>2 DEF BeginEdit, TypeInv, TypeOK
  <2>4. operation' \in Operations
    BY <1>5 DEF BeginEdit, Operations
  <2>5. UNCHANGED <<ui, known, probe, loaded, chan, servers, told, started>>
    BY <1>5 DEF BeginEdit
  <2>6. TypeOK'
    BY <2>3, <2>4, <2>5 DEF TypeInv, TypeOK, ui, servers, told
  <2> QED
    BY <2>1, <2>6 DEF TypeInv
<1>6. ASSUME NEW f \in Forms, CancelEdit(f) PROVE TypeInv'
  <2>1. EditsHaveBase'
    BY <1>6, SameChannels DEF CancelEdit
  <2>2. TypeOK'
    BY <1>6 DEF CancelEdit, Operations, TypeInv, TypeOK, ui, servers, told
  <2> QED
    BY <2>1, <2>2 DEF TypeInv
<1>7. loaded # NoConfig => loaded \in Config
  BY DEF TypeInv, TypeOK
<1>8. ASSUME NEW f \in Forms, StartSave(f) PROVE TypeInv'
  BY <1>7, <1>8, LaunchTypes DEF StartSave, Forms, AllKinds
<1>9. CASE \/ StartUserMutation \/ StartInboundMutation \/ StartRestoreBackup
           \/ StartWarpOperation
  BY <1>7, <1>9, LaunchTypes
     DEF StartUserMutation, StartInboundMutation, StartRestoreBackup,
         StartWarpOperation, AllKinds
<1>10. CASE StartServiceOperation \/ StartUnitApply \/ StartXrayLifecycle
  BY <1>10, LaunchTypes
     DEF StartServiceOperation, StartUnitApply, StartXrayLifecycle, AllKinds,
         Editing
<1> QED
  BY <1>1, <1>2, <1>3, <1>4, <1>5, <1>6, <1>8, <1>9, <1>10 DEF Click

(* Every step keeps the type invariant.                                    *)
LEMMA StepTypeInv == TypeInv /\ [Next]_vars => TypeInv'
<1> SUFFICES ASSUME TypeInv, [Next]_vars PROVE TypeInv'
  OBVIOUS
<1>1. CASE UNCHANGED vars
  <2>1. EditsHaveBase'
    BY <1>1, SameChannels DEF vars
  <2>2. TypeOK'
    BY <1>1 DEF vars, ui, view, servers, told, TypeInv, TypeOK
  <2> QED
    BY <2>1, <2>2 DEF TypeInv
<1>2. CASE DiscoveryWorker
  <2>1. EditsHaveBase'
    BY <1>2, SameChannels DEF DiscoveryWorker
  <2>2. probe \in Probe /\ probe.host \in Hosts
    BY <1>2 DEF DiscoveryWorker, TypeInv, TypeOK, NoProbe, Probe
  <2>3. /\ remote[probe.host] \in Config
        /\ installed[probe.host] \in SUBSET Ids
    BY <2>2 DEF TypeInv, TypeOK
  <2>4. probe' \in Probe
    <3>1. ASSUME NEW config \in {remote[probe.host], NoConfig},
                 probe' = [probe EXCEPT !.found = "succeeded",
                                        !.config = config,
                                        !.install = installed[probe.host]]
          PROVE  probe' \in Probe
      BY <2>2, <2>3, <3>1 DEF Probe, Findings
    <3>2. ASSUME NEW found \in {"notfound", "failed", "lost", "gone"},
                 probe' = [probe EXCEPT !.found = found]
          PROVE  probe' \in Probe
      BY <2>2, <3>2 DEF Probe, Findings
    <3> QED
      BY <1>2, <3>1, <3>2 DEF DiscoveryWorker
  <2>5. UNCHANGED <<ui, known, loaded, forms, chan, operation, servers, told,
                    started>>
    BY <1>2 DEF DiscoveryWorker
  <2>6. TypeOK'
    BY <2>4, <2>5 DEF TypeInv, TypeOK, ui, servers, told
  <2> QED
    BY <2>1, <2>6 DEF TypeInv
<1> QED
  BY <1>1, <1>2, ClickTypes, FrameTypes, WorkerTypes DEF Next, Threads

(* Every variable keeps its type, and every save in flight was started     *)
(* from a loaded configuration.                                            *)
THEOREM TypeCorrect == Spec => []TypeOK
<1>1. TypeInv => TypeOK
  BY DEF TypeInv
<1> QED
  BY <1>1, InitTypeInv, StepTypeInv, PTL DEF Spec

-----------------------------------------------------------------------------
(* One operation at a time.                                                *)

(* No entry becomes a job and no discovery starts.                         *)
LEMMA OneKept ==
  ASSUME OneAtATime, chan \in Channels, chan' \in Channels,
         \A k \in AllKinds : InFlight(k)' => InFlight(k),
         Discovering' => Discovering
  PROVE  OneAtATime'
  BY DEF OneAtATime, HoldingOff, AllKinds

(* Starting an operation needs everything to be at rest (is_any_remote_busy*)
(* looks at every channel, whatever the status line shows).                *)
LEMMA OneLaunched ==
  ASSUME NEW k \in AllKinds, TypeInv, TypeInv', Ready, Launch(k)
  PROVE  OneAtATime'
<1>1. ~Discovering /\ \A l \in AllKinds : ~InFlight(l)
  BY DEF Ready, AnyBusy
<1>2. known' = known
  BY DEF Launch, view
<1>3. \A l \in AllKinds \ {k} : chan'[l] = chan[l]
  BY DEF Launch, TypeInv, TypeOK
<1>4. \A l \in AllKinds \ {k} : ~InFlight(l)'
  BY <1>1, <1>3 DEF InFlight
<1> QED
  BY <1>1, <1>2, <1>4 DEF OneAtATime, Discovering

(* A discovery starts only when nothing it would forget is in flight.      *)
LEMMA OneDiscovered ==
  ASSUME NEW channels \in Channels, NEW op, TypeOK, OneAtATime,
         chan \in Channels,
         \A k \in AllKinds : channels[k] \in {NoJob, chan[k]},
         CanStartDiscovery(channels, op), Discover(channels)
  PROVE  OneAtATime'
<1>1. NoJob.sent = "none"
  BY DEF NoJob
<1>2. \A k \in AllKinds : chan'[k] \in {NoJob, channels[k]}
  BY DiscoverTypes
<1>3. \A k \in AllKinds : InFlight(k)' => InFlight(k)
  BY <1>1, <1>2 DEF InFlight
<1>4. \A k \in HoldingOff : chan'[k] = NoJob
  BY <1>2 DEF CanStartDiscovery, HoldingOff, AllKinds
<1>5. \A k \in HoldingOff : ~InFlight(k)'
  BY <1>1, <1>4 DEF InFlight
<1> QED
  BY <1>3, <1>5 DEF OneAtATime

(* A click starts an operation only when none is in flight.                *)
LEMMA OneClicked ==
  ASSUME TypeInv, TypeInv', OneAtATime, Click PROVE OneAtATime'
<1>0. chan \in Channels /\ chan' \in Channels
  BY DEF TypeInv, TypeOK, Channels
<1>1. ASSUME UNCHANGED <<chan, known>> PROVE OneAtATime'
  BY <1>0, <1>1, OneKept DEF InFlight, Discovering
<1>2. CASE (\E h \in Hosts : EditConnection(h)) \/ StartConnectionTest \/ Speak
  BY <1>1, <1>2 DEF EditConnection, StartConnectionTest, Speak, view
<1>3. CASE StartDiscovery
  BY <1>0, <1>3, OneDiscovered DEF StartDiscovery, TypeInv
<1>4. ASSUME NEW f \in Forms, BeginEdit(f) \/ CancelEdit(f) PROVE OneAtATime'
  BY <1>1, <1>4 DEF BeginEdit, CancelEdit
<1>5. ASSUME NEW f \in Forms, StartSave(f) PROVE OneAtATime'
  BY <1>5, OneLaunched DEF StartSave, Forms, AllKinds
<1>6. CASE \/ StartUserMutation \/ StartInboundMutation \/ StartRestoreBackup
           \/ StartWarpOperation \/ StartServiceOperation \/ StartUnitApply
           \/ StartXrayLifecycle
  BY <1>6, OneLaunched
     DEF StartUserMutation, StartInboundMutation, StartRestoreBackup,
         StartWarpOperation, StartServiceOperation, StartUnitApply,
         StartXrayLifecycle, AllKinds
<1> QED
  BY <1>2, <1>3, <1>4, <1>5, <1>6 DEF Click

(* A poll closes the one channel, or starts a discovery without it.        *)
LEMMA OnePolled ==
  ASSUME NEW k \in AllKinds, TypeInv, TypeInv', OneAtATime, Poll(k)
  PROVE  OneAtATime'
<1>0. chan \in Channels /\ chan' \in Channels
  BY DEF TypeInv, TypeOK, Channels
<1>1. Close(k) \in Channels /\ \A l \in AllKinds : Close(k)[l] \in {NoJob, chan[l]}
  BY <1>0, CloseChannel
<1>2. NoJob.sent = "none"
  BY DEF NoJob
<1>3. ASSUME chan' = Close(k), UNCHANGED known PROVE OneAtATime'
  <2>1. \A l \in AllKinds : InFlight(l)' => InFlight(l)
    BY <1>1, <1>2, <1>3 DEF InFlight
  <2> QED
    BY <1>0, <1>3, <2>1, OneKept DEF Discovering
<1>4. CASE PollFailed(k) \/ PollEdited(k) \/ (k = "service" /\ PollService)
  BY <1>3, <1>4 DEF PollFailed, PollEdited, PollService, view
<1>5. CASE PollReloading(k)
  <2>1. CASE CanStartDiscovery(Close(k), "message")
    BY <1>0, <1>1, <1>5, <2>1, OneDiscovered DEF PollReloading, TypeInv
  <2>2. CASE ~CanStartDiscovery(Close(k), "message")
    BY <1>3, <1>5, <2>2 DEF PollReloading, view
  <2> QED
    BY <2>1, <2>2
<1> QED
  BY <1>4, <1>5 DEF Poll, PollRestore, PollUnitApply, PollLifecycle

(* Every step keeps one operation at a time.                               *)
LEMMA OneStep ==
  TypeInv /\ TypeInv' /\ OneAtATime /\ [Next]_vars => OneAtATime'
<1> SUFFICES ASSUME TypeInv, TypeInv', OneAtATime, [Next]_vars PROVE OneAtATime'
  OBVIOUS
<1>0. chan \in Channels /\ chan' \in Channels
  BY DEF TypeInv, TypeOK, Channels
<1>1. ASSUME UNCHANGED chan, Discovering' => Discovering PROVE OneAtATime'
  BY <1>0, <1>1, OneKept DEF InFlight
<1>2. CASE UNCHANGED vars
  BY <1>1, <1>2 DEF vars, view, Discovering
<1>3. CASE Click
  BY <1>3, OneClicked
<1>4. CASE PollConnectionTest
  BY <1>1, <1>4 DEF PollConnectionTest, view, Discovering
<1>5. CASE PollDiscovery
  <2>1. known'.state \in {"succeeded", "notfound", "failed"}
    BY <1>5 DEF PollDiscovery, Unknown
  <2> QED
    BY <1>1, <1>5, <2>1 DEF PollDiscovery, Discovering
<1>6. ASSUME NEW k \in AllKinds, Poll(k) PROVE OneAtATime'
  BY <1>6, OnePolled
<1>7. CASE DiscoveryWorker
  BY <1>1, <1>7 DEF DiscoveryWorker, Discovering
<1>8. ASSUME NEW k \in AllKinds, Worker(k) PROVE OneAtATime'
  <2>1. PICK result \in {"ok", "error", "gone"} : Sends(k, result)
    BY <1>8 DEF Worker
  <2>2. chan[k].sent = "running" /\ UNCHANGED known
    BY <1>8 DEF Worker, view
  <2>3. \A l \in AllKinds \ {k} : chan'[l] = chan[l]
    BY <1>0, <2>1, <2>2, SendResult
  <2>4. InFlight(k)
    BY <2>2 DEF InFlight
  <2>5. \A l \in AllKinds : InFlight(l)' => InFlight(l)
    BY <2>3, <2>4 DEF InFlight
  <2> QED
    BY <1>0, <2>2, <2>5, OneKept DEF Discovering
<1> QED
  BY <1>2, <1>3, <1>4, <1>5, <1>6, <1>7, <1>8 DEF Next, Frame, Threads

(* Whatever is clicked in whatever order, at most one operation is in      *)
(* flight, and none of those a discovery would forget while one runs.      *)
THEOREM OneOperation == Spec => []OneAtATime
<1>1. Init => OneAtATime
  BY DEF Init, OneAtATime, InFlight, NoJob, Discovering, Unknown, AllKinds,
         HoldingOff
<1> QED
  BY <1>1, InitTypeInv, StepTypeInv, OneStep, PTL DEF Spec

-----------------------------------------------------------------------------
(* No configuration lands on another host.                                 *)

(* Only the kinds of this instance are ever in flight.                     *)
OnlyKinds == \A k \in AllKinds : InFlight(k) => k \in Kinds
HomeInv == OnlyKinds /\ NoForeignConfig

(* Only the kinds of the instance are ever in flight.                      *)
LEMMA KindsKept ==
  ASSUME TypeInv, TypeInv', OnlyKinds, [Next]_vars PROVE OnlyKinds'
<1>0. chan \in Channels /\ chan' \in Channels
  BY DEF TypeInv, TypeOK, Channels
<1>1. ASSUME UNCHANGED chan PROVE OnlyKinds'
  BY <1>1 DEF OnlyKinds, InFlight
<1>2. ASSUME NEW k \in AllKinds, Launch(k) PROVE OnlyKinds'
  BY <1>0, <1>2 DEF Launch, OnlyKinds, InFlight, Channels
<1>3. ASSUME \A k \in AllKinds : chan'[k] \in {NoJob, chan[k]} PROVE OnlyKinds'
  BY <1>3 DEF OnlyKinds, InFlight, NoJob
<1>4. CASE UNCHANGED vars
  BY <1>1, <1>4 DEF vars
<1>5. CASE \/ \E h \in Hosts : EditConnection(h)
           \/ StartConnectionTest \/ Speak \/ PollConnectionTest
           \/ PollDiscovery \/ DiscoveryWorker
           \/ \E f \in Forms : BeginEdit(f) \/ CancelEdit(f)
  BY <1>1, <1>5 DEF EditConnection, StartConnectionTest, Speak,
     PollConnectionTest, PollDiscovery, DiscoveryWorker, BeginEdit, CancelEdit
<1>6. CASE StartDiscovery
  <2>1. \A k \in AllKinds : chan'[k] \in {NoJob, chan[k]}
    BY <1>0, <1>6, DiscoverTypes DEF StartDiscovery, TypeInv
  <2> QED
    BY <1>3, <2>1
<1>7. CASE \/ \E f \in Forms : StartSave(f)
           \/ StartUserMutation \/ StartInboundMutation \/ StartRestoreBackup
           \/ StartWarpOperation \/ StartServiceOperation \/ StartUnitApply
           \/ StartXrayLifecycle
  BY <1>2, <1>7
     DEF StartSave, StartUserMutation, StartInboundMutation, StartRestoreBackup,
         StartWarpOperation, StartServiceOperation, StartUnitApply,
         StartXrayLifecycle, AllKinds, Forms
<1>8. ASSUME NEW k \in AllKinds, Poll(k) PROVE OnlyKinds'
  <2>1. \A l \in AllKinds : Close(k)[l] \in {NoJob, chan[l]}
    BY <1>0, CloseChannel
  <2>2. chan' = Close(k) => OnlyKinds'
    BY <1>3, <2>1
  <2>3. Close(k) \in Channels
    BY <1>0, CloseChannel
  <2>4. ASSUME Discover(Close(k)) PROVE OnlyKinds'
    BY <1>3, <2>1, <2>3, <2>4, DiscoverTypes DEF TypeInv
  <2> QED
    BY <1>8, <2>2, <2>4
       DEF Poll, PollFailed, PollEdited, PollService, PollRestore,
           PollUnitApply, PollLifecycle, PollReloading
<1>9. ASSUME NEW k \in AllKinds, Worker(k) PROVE OnlyKinds'
  <2>1. PICK result \in {"ok", "error", "gone"} : Sends(k, result)
    BY <1>9 DEF Worker
  <2>2. chan[k].sent = "running" /\ InFlight(k)
    BY <1>9 DEF Worker, InFlight
  <2>3. \A l \in AllKinds \ {k} : chan'[l] = chan[l]
    BY <1>0, <2>1, <2>2, SendResult
  <2> QED
    BY <2>2, <2>3 DEF OnlyKinds, InFlight
<1> QED
  BY <1>4, <1>5, <1>6, <1>7, <1>8, <1>9 DEF Next, Click, Frame, Threads

(* A worker that compares first cannot bring a configuration to a host it  *)
(* was not made for: the comparison would have failed.                     *)
LEMMA EffectStaysHome ==
  ASSUME NEW k \in AllKinds, TypeInv, NoForeignConfig, InFlight(k), Effect(k),
         k \notin {"user", "bound"}
  PROVE  NoForeignConfig'
<1>1. chan[k].host \in Hosts
  BY InFlightIsJob DEF TypeInv, TypeOK, Channels, Job
<1> DEFINE h == chan[k].host
<1>2. remote \in [Hosts -> Config]
  BY DEF TypeInv, TypeOK
<1>3. ASSUME k \in Editing, Accepts(k),
             remote' = [remote EXCEPT ![h] = Changed(chan[k])]
      PROVE  NoForeignConfig'
  <2>1. k \in Comparing
    BY <1>3 DEF Editing, Comparing
  <2>2. chan[k].base = remote[h]
    BY <1>3, <2>1 DEF Accepts
  <2>3. Changed(chan[k]).home = h
    BY <1>1, <1>3, <2>2, ChangedIsConfig DEF NoForeignConfig
  <2> QED
    BY <1>1, <1>2, <1>3, <2>3 DEF NoForeignConfig
<1>4. ASSUME NEW kept, remote' = [remote EXCEPT ![h].has = kept]
      PROVE  NoForeignConfig'
  <2>1. remote' = [remote EXCEPT ![h] = [remote[h] EXCEPT !.has = kept]]
    BY <1>4
  <2>2. [remote[h] EXCEPT !.has = kept].home = remote[h].home
    BY <1>1, <1>2 DEF Config
  <2> QED
    BY <1>1, <1>2, <2>1, <2>2 DEF NoForeignConfig
<1>5. ASSUME UNCHANGED remote PROVE NoForeignConfig'
  BY <1>5 DEF NoForeignConfig
<1> HIDE DEF h
<1> QED
  BY <1>3, <1>4, <1>5 DEF Effect, h, servers

(* Clicks, frames and discoveries write no configuration: workers do.      *)
LEMMA OnlyWorkersWrite ==
  ASSUME [Next]_vars
  PROVE  UNCHANGED remote \/ \E k \in AllKinds : Worker(k)
<1>1. UNCHANGED vars => UNCHANGED remote
  BY DEF vars, servers
<1>2. Click => UNCHANGED remote
  BY DEF Click, EditConnection, StartConnectionTest, Speak, StartDiscovery,
         BeginEdit, CancelEdit, StartSave, StartUserMutation,
         StartInboundMutation, StartRestoreBackup, StartWarpOperation,
         StartServiceOperation, StartUnitApply, StartXrayLifecycle, Launch,
         servers
<1>3. Frame => UNCHANGED remote
  BY DEF Frame, PollConnectionTest, PollDiscovery, Poll, PollFailed,
         PollEdited, PollService, PollRestore, PollUnitApply, PollLifecycle,
         PollReloading, servers
<1>4. DiscoveryWorker => UNCHANGED remote
  BY DEF DiscoveryWorker, servers
<1> QED
  BY <1>1, <1>2, <1>3, <1>4 DEF Next, Threads

(* Hosts keep the home of their configuration, except through the workers  *)
(* that do not compare.                                                    *)
LEMMA HomeStep ==
  ASSUME Kinds \intersect {"user", "bound"} = {},
         TypeInv, TypeInv', HomeInv, [Next]_vars
  PROVE  HomeInv'
<1>1. OnlyKinds'
  BY KindsKept DEF HomeInv
<1>2. ASSUME UNCHANGED remote PROVE NoForeignConfig'
  BY <1>2 DEF HomeInv, NoForeignConfig
<1>3. ASSUME NEW k \in AllKinds, Worker(k) PROVE NoForeignConfig'
  <2>1. InFlight(k) /\ k \notin {"user", "bound"}
    BY <1>3 DEF Worker, InFlight, HomeInv, OnlyKinds
  <2>2. Effect(k) => NoForeignConfig'
    BY <2>1, EffectStaysHome DEF HomeInv
  <2> QED
    BY <1>2, <1>3, <2>2 DEF Worker, servers
<1> QED
  BY <1>1, <1>2, <1>3, OnlyWorkersWrite DEF HomeInv

(* When every save and restore compares the remote file first, a host only *)
(* ever holds configurations made for it, wherever the connection form     *)
(* points when an operation starts: the comparison is what keeps an edit   *)
(* of one server's configuration off another.                              *)
THEOREM ComparedStaysHome ==
  ASSUME Kinds \intersect {"user", "bound"} = {}
  PROVE  Spec => []NoForeignConfig
<1>1. Init => HomeInv
  BY DEF Init, HomeInv, OnlyKinds, NoForeignConfig, InFlight, NoJob, AllKinds
<1>2. TypeInv /\ TypeInv' /\ HomeInv /\ [Next]_vars => HomeInv'
  BY HomeStep
<1>3. HomeInv => NoForeignConfig
  BY DEF HomeInv
<1> QED
  BY <1>1, <1>2, <1>3, InitTypeInv, StepTypeInv, PTL DEF Spec

(* A worker that compares leaves every host with a configuration of the    *)
(* same home, even if other operations have put a foreign one there.       *)
LEMMA ComparerKeepsHome ==
  ASSUME TypeInv, NEW k \in Comparing, InFlight(k), Effect(k)
  PROVE  \A h \in Hosts : remote'[h].home = remote[h].home
<1> DEFINE t == chan[k].host
<1>0. k \in AllKinds
  BY DEF Comparing, AllKinds
<1>1. t \in Hosts /\ remote \in [Hosts -> Config]
  BY <1>0, InFlightIsJob DEF TypeInv, TypeOK, Channels, Job
<1>2. ASSUME Accepts(k), remote' = [remote EXCEPT ![t] = Changed(chan[k])]
      PROVE  \A h \in Hosts : remote'[h].home = remote[h].home
  <2>1. Changed(chan[k]).home = remote[t].home
    BY <1>2 DEF Accepts, Changed
  <2> QED
    BY <1>1, <1>2, <2>1
<1>3. ASSUME NEW kept, remote' = [remote EXCEPT ![t].has = kept]
      PROVE  \A h \in Hosts : remote'[h].home = remote[h].home
  <2>1. remote' = [remote EXCEPT ![t] = [remote[t] EXCEPT !.has = kept]]
    BY <1>3
  <2>2. [remote[t] EXCEPT !.has = kept].home = remote[t].home
    BY <1>1 DEF Config
  <2> QED
    BY <1>1, <2>1, <2>2
<1>4. ASSUME UNCHANGED remote
      PROVE  \A h \in Hosts : remote'[h].home = remote[h].home
  BY <1>4
<1> HIDE DEF t
<1> QED
  BY <1>2, <1>3, <1>4 DEF Effect, t, servers

(* Whatever is clicked in whatever order, and whatever the other kinds     *)
(* have written, no operation that compares moves a configuration to       *)
(* another host.                                                           *)
THEOREM ComparersStayHome == Spec => ComparersKeepHome
<1> DEFINE Stays ==
      \A k \in Comparing :
        chan[k].sent = "running" /\ chan'[k].sent # "running" =>
          \A h \in Hosts : remote'[h].home = remote[h].home
<1>1. TypeInv /\ [Next]_vars => Stays
  <2> SUFFICES ASSUME TypeInv, [Next]_vars, NEW k \in Comparing,
                      chan[k].sent = "running", chan'[k].sent # "running"
               PROVE  \A h \in Hosts : remote'[h].home = remote[h].home
    OBVIOUS
  <2>1. ASSUME NEW l \in AllKinds, Worker(l)
        PROVE  \A h \in Hosts : remote'[h].home = remote[h].home
    <3>1. \A m \in AllKinds \ {l} : chan'[m] = chan[m]
      <4>1. chan \in Channels
        BY DEF TypeInv, TypeOK, Channels
      <4> QED
        BY <2>1, <4>1, SendResult DEF Worker
    <3>2. k = l
      BY <3>1 DEF Comparing, AllKinds
    <3>3. InFlight(k)
      BY DEF InFlight
    <3> QED
      BY <2>1, <3>2, <3>3, ComparerKeepsHome DEF Worker, servers
  <2> QED
    BY <2>1, OnlyWorkersWrite
<1>2. TypeInv /\ [Next]_vars => [Stays]_vars
  BY <1>1
<1> QED
  BY <1>2, InitTypeInv, StepTypeInv, PTL DEF Spec, ComparersKeepHome
-----------------------------------------------------------------------------
(* The steps, sorted by what they do to the copies of the configuration.   *)

(* The connection form, connection tests and the status line.              *)
Aside == UNCHANGED <<view, chan, remote, saved>>

(* A discovery starts, from a click or after an operation.                 *)
Rediscovers ==
    /\ \E channels \in Channels :
         /\ \A k \in AllKinds : channels[k] \in {NoJob, chan[k]}
         /\ Discover(channels)
    /\ UNCHANGED <<remote, saved>>

(* An operation starts: with everything at rest, a save only from a loaded *)
(* configuration, a form's save only with the form open.                   *)
Launches(k) ==
    /\ Ready /\ Launch(k)
    /\ k \in Editing => loaded # NoConfig
    /\ k \in Forms => forms[k] # NoHost

(* An outcome that leaves the view and the servers as they are.            *)
Closes(k) == chan' = Close(k) /\ UNCHANGED <<view, remote, saved>>

(* What a click can do.                                                    *)
LEMMA ClickCases ==
  ASSUME TypeInv, Click
  PROVE  \/ Aside \/ Rediscovers
         \/ \E f \in Forms : BeginEdit(f) \/ CancelEdit(f)
         \/ \E k \in AllKinds : Launches(k)
<1>1. CASE (\E h \in Hosts : EditConnection(h)) \/ StartConnectionTest \/ Speak
  BY <1>1 DEF EditConnection, StartConnectionTest, Speak, Aside, servers, told
<1>2. CASE StartDiscovery
  <2>1. chan \in Channels
    BY DEF TypeInv, TypeOK, Channels
  <2> QED
    BY <1>2, <2>1 DEF StartDiscovery, Rediscovers, servers, told
<1>3. ASSUME NEW f \in Forms, StartSave(f) PROVE Launches(f) /\ f \in AllKinds
  BY <1>3 DEF StartSave, Launches, Forms, AllKinds
<1>4. CASE StartUserMutation
  BY <1>4 DEF StartUserMutation, Launches, Forms, AllKinds
<1>5. CASE StartInboundMutation \/ StartRestoreBackup \/ StartWarpOperation
  BY <1>5 DEF StartInboundMutation, StartRestoreBackup, StartWarpOperation,
              Launches, Forms, AllKinds
<1>6. CASE StartServiceOperation \/ StartUnitApply \/ StartXrayLifecycle
  BY <1>6 DEF StartServiceOperation, StartUnitApply, StartXrayLifecycle,
              Launches, Forms, Editing, AllKinds
<1> QED
  BY <1>1, <1>2, <1>3, <1>4, <1>5, <1>6 DEF Click

(* What a poll of an operation can do.                                     *)
LEMMA PollCases ==
  ASSUME NEW k \in AllKinds, TypeInv, Poll(k)
  PROVE  Rediscovers \/ Closes(k) \/ PollEdited(k)
<1>1. Close(k) \in Channels /\ \A l \in AllKinds : Close(k)[l] \in {NoJob, chan[l]}
  <2>1. chan \in Channels
    BY DEF TypeInv, TypeOK, Channels
  <2> QED
    BY <2>1, CloseChannel
<1>2. CASE PollFailed(k)
  BY <1>2 DEF PollFailed, Closes, servers, told
<1>3. CASE k = "service" /\ PollService
  BY <1>3 DEF PollService, Closes, servers, told
<1>4. CASE PollReloading(k)
  <2>1. UNCHANGED <<remote, saved>>
    BY <1>4 DEF PollReloading, servers
  <2>2. Discover(Close(k)) \/ (chan' = Close(k) /\ UNCHANGED view)
    BY <1>4 DEF PollReloading
  <2>3. Discover(Close(k)) => Rediscovers
    BY <1>1, <2>1 DEF Rediscovers
  <2> QED
    BY <2>1, <2>2, <2>3 DEF Closes
<1> QED
  BY <1>2, <1>3, <1>4 DEF Poll, PollRestore, PollUnitApply, PollLifecycle

(* What a step can do.                                                     *)
LEMMA StepCases ==
  ASSUME TypeInv, [Next]_vars
  PROVE  \/ Aside \/ Rediscovers \/ DiscoveryWorker \/ PollDiscovery
         \/ \E f \in Forms : BeginEdit(f) \/ CancelEdit(f)
         \/ \E k \in AllKinds : Launches(k) \/ Worker(k) \/ Closes(k) \/ PollEdited(k)
<1>1. CASE UNCHANGED vars
  BY <1>1 DEF vars, servers, told, Aside
<1>2. CASE PollConnectionTest
  BY <1>2 DEF PollConnectionTest, servers, told, Aside
<1> QED
  BY <1>1, <1>2, ClickCases, PollCases DEF Next, Frame, Threads

(* What Discover does to the copies of the configuration.                  *)
LEMMA RediscoveredCopies ==
  ASSUME TypeInv, Rediscovers
  PROVE  /\ loaded' = NoConfig /\ probe'.config = NoConfig
         /\ forms'["log"] = NoHost /\ Discovering'
         /\ \A k \in AllKinds : chan'[k] \in {NoJob, chan[k]}
<1>1. PICK channels \in Channels :
        /\ \A k \in AllKinds : channels[k] \in {NoJob, chan[k]}
        /\ Discover(channels)
  BY DEF Rediscovers
<1>2. \A k \in AllKinds : chan'[k] \in {NoJob, channels[k]}
  BY <1>1, DiscoverTypes DEF TypeInv
<1>3. probe'.config = NoConfig
  BY <1>1 DEF Discover, NoProbe
<1>4. known'.state = "discovering"
  BY <1>1 DEF Discover, Unknown
<1>5. forms'["log"] = NoHost
  BY <1>1 DEF Discover, TypeInv, TypeOK, Forms
<1> QED
  BY <1>1, <1>2, <1>3, <1>4, <1>5 DEF Discover, Discovering

(* What starting an operation puts into its channel.                       *)
LEMMA LaunchedJob ==
  ASSUME NEW k \in AllKinds, TypeInv, Launch(k)
  PROVE  /\ chan'[k].base = loaded /\ chan'[k].sent = "running"
         /\ k \in Forms => chan'[k].form = forms[k]
         /\ \A l \in AllKinds \ {k} : chan'[l] = chan[l]
<1> DEFINE job == [host |-> draft, base |-> loaded, id |-> started + 1,
                   form |-> IF k \in Forms THEN forms[k] ELSE NoHost,
                   sent |-> "running"]
<1>1. chan' = [chan EXCEPT ![k] = job] /\ chan \in Channels
  BY DEF Launch, TypeInv, TypeOK, Channels
<1>2. chan'[k] = job /\ \A l \in AllKinds \ {k} : chan'[l] = chan[l]
  BY <1>1 DEF Channels
<1> QED
  BY <1>2

-----------------------------------------------------------------------------
(* The log form belongs to the loaded configuration.                       *)

(* A worker of a discovery, or its answer, is there only while one is      *)
(* shown to run.                                                           *)
ProbeRuns == probe.found # "none" => Discovering

(* An open log form was cloned from a configuration of the host whose      *)
(* configuration is loaded, or is about to be by a save in flight; no      *)
(* discovery runs while it is open.                                        *)
OpenLogForm ==
    /\ Discovering => forms["log"] = NoHost
    /\ forms["log"] # NoHost /\ loaded # NoConfig => forms["log"] = loaded.home
    /\ \A k \in Editing : InFlight(k) /\ forms["log"] # NoHost =>
         forms["log"] = chan[k].base.home

FormInv == ProbeRuns /\ OpenLogForm /\ LogFormFits

(* No step leaves a discovery worker behind.                               *)
LEMMA ProbeKept ==
  ASSUME TypeInv, ProbeRuns, [Next]_vars PROVE ProbeRuns'
<1>1. CASE Aside
  BY <1>1 DEF Aside, view, ProbeRuns, Discovering
<1>2. CASE Rediscovers
  BY <1>2, RediscoveredCopies DEF ProbeRuns
<1>3. CASE DiscoveryWorker
  BY <1>3 DEF DiscoveryWorker, ProbeRuns, Discovering
<1>4. CASE PollDiscovery
  BY <1>4 DEF PollDiscovery, ProbeRuns, NoProbe
<1>5. ASSUME NEW f \in Forms, BeginEdit(f) \/ CancelEdit(f) PROVE ProbeRuns'
  BY <1>5 DEF BeginEdit, CancelEdit, ProbeRuns, Discovering
<1>6. ASSUME NEW k \in AllKinds,
             Launches(k) \/ Worker(k) \/ Closes(k) \/ PollEdited(k)
      PROVE  ProbeRuns'
  BY <1>6 DEF Launches, Launch, Worker, Closes, PollEdited, view, ProbeRuns,
              Discovering
<1> QED
  BY <1>1, <1>2, <1>3, <1>4, <1>5, <1>6, StepCases

(* With the copies unchanged, the form may close and saves may end.        *)
LEMMA FormKept ==
  ASSUME OpenLogForm, LogFormFits, UNCHANGED loaded,
         forms'["log"] \in {forms["log"], NoHost},
         Discovering' => Discovering,
         \A k \in Editing :
           InFlight(k)' => /\ InFlight(k) /\ chan'[k].base = chan[k].base
                           /\ chan'[k].form = chan[k].form
  PROVE  OpenLogForm' /\ LogFormFits'
<1>1. "log" \in Editing
  BY DEF Editing
<1>2. LogFormFits'
  BY <1>1 DEF LogFormFits
<1>3. OpenLogForm'
  BY DEF OpenLogForm
<1> QED
  BY <1>2, <1>3

(* A channel that is closed or kept.                                       *)
LEMMA KeptChannel ==
  ASSUME NEW k \in AllKinds, chan'[k] \in {NoJob, chan[k]}, InFlight(k)'
  PROVE  InFlight(k) /\ chan'[k] = chan[k]
  BY DEF InFlight, NoJob

(* Every step keeps the form with its configuration.                       *)
LEMMA FormStep ==
  ASSUME TypeInv, TypeInv', FormInv, [Next]_vars PROVE FormInv'
<1>0. /\ chan \in Channels /\ chan' \in Channels
      /\ Editing \subseteq AllKinds /\ "log" \in Editing /\ "log" \in Forms
      /\ OpenLogForm /\ LogFormFits
  BY DEF TypeInv, TypeOK, Channels, Editing, AllKinds, Forms, FormInv
<1>1. ProbeRuns'
  BY ProbeKept DEF FormInv
<1>2. CASE Aside
  BY <1>0, <1>1, <1>2, FormKept DEF Aside, view, Discovering, InFlight, FormInv
<1>3. CASE Rediscovers
  <2>1. \A k \in AllKinds : InFlight(k)' => InFlight(k) /\ chan'[k] = chan[k]
    BY <1>3, RediscoveredCopies, KeptChannel
  <2>2. LogFormFits'
    BY <1>0, <2>1 DEF LogFormFits
  <2>3. OpenLogForm'
    BY <1>3, RediscoveredCopies DEF OpenLogForm
  <2> QED
    BY <1>1, <2>2, <2>3 DEF FormInv
<1>4. CASE DiscoveryWorker
  BY <1>0, <1>1, <1>4, FormKept DEF DiscoveryWorker, Discovering, InFlight, FormInv
<1>5. CASE PollDiscovery
  <2>1. forms' = forms /\ chan' = chan
    BY <1>5 DEF PollDiscovery
  <2>2. forms["log"] = NoHost
    BY <1>0, <1>5 DEF PollDiscovery, FormInv, ProbeRuns, OpenLogForm
  <2> QED
    BY <1>0, <1>1, <2>1, <2>2 DEF FormInv, OpenLogForm, LogFormFits, InFlight
<1>6. ASSUME NEW f \in Forms, BeginEdit(f) PROVE FormInv'
  <2>1. forms'["log"] \in {forms["log"], loaded.home}
    BY <1>0, <1>6 DEF BeginEdit, TypeInv, TypeOK
  <2>2. /\ chan' = chan /\ loaded' = loaded /\ known' = known
        /\ ~Discovering /\ \A k \in AllKinds : ~InFlight(k)
    BY <1>6 DEF BeginEdit, Ready, AnyBusy
  <2> QED
    BY <1>0, <1>1, <2>1, <2>2
       DEF FormInv, OpenLogForm, LogFormFits, InFlight, Discovering
<1>7. ASSUME NEW f \in Forms, CancelEdit(f) PROVE FormInv'
  <2>1. forms'["log"] \in {forms["log"], NoHost}
    BY <1>0, <1>7 DEF CancelEdit, TypeInv, TypeOK
  <2> QED
    BY <1>0, <1>1, <1>7, <2>1, FormKept
       DEF CancelEdit, Discovering, InFlight, FormInv
<1>8. ASSUME NEW k \in AllKinds, Launches(k) PROVE FormInv'
  <2>1. /\ chan'[k].base = loaded
        /\ k \in Forms => chan'[k].form = forms[k]
        /\ \A l \in AllKinds \ {k} : chan'[l] = chan[l]
    BY <1>8, LaunchedJob DEF Launches
  <2>2. /\ forms' = forms /\ loaded' = loaded /\ known' = known
        /\ \A l \in AllKinds : ~InFlight(l)
    BY <1>8 DEF Launches, Launch, view, Ready, AnyBusy
  <2>3. \A l \in AllKinds \ {k} : ~InFlight(l)'
    BY <2>1, <2>2 DEF InFlight
  <2>4. OpenLogForm'
    BY <1>0, <1>8, <2>1, <2>2, <2>3 DEF OpenLogForm, Discovering, Launches
  <2>5. LogFormFits'
    <3>1. CASE k = "log"
      BY <1>0, <1>8, <2>1, <2>2, <3>1 DEF LogFormFits, OpenLogForm, Launches
    <3>2. CASE k # "log"
      BY <1>0, <2>3, <3>2 DEF LogFormFits
    <3> QED
      BY <3>1, <3>2
  <2> QED
    BY <1>1, <2>4, <2>5 DEF FormInv
<1>9. ASSUME NEW k \in AllKinds, Worker(k) PROVE FormInv'
  <2>1. PICK result \in {"ok", "error", "gone"} : Sends(k, result)
    BY <1>9 DEF Worker
  <2>2. /\ chan[k].sent = "running" /\ InFlight(k)
        /\ loaded' = loaded /\ forms' = forms /\ known' = known
    BY <1>9 DEF Worker, view, InFlight
  <2>3. /\ chan'[k] = [chan[k] EXCEPT !.sent = result] /\ chan[k] \in Job
        /\ \A l \in AllKinds \ {k} : chan'[l] = chan[l]
    BY <1>0, <2>1, <2>2, SendResult
  <2>4. chan'[k].base = chan[k].base /\ chan'[k].form = chan[k].form
    BY <2>3 DEF Job
  <2>5. \A l \in AllKinds :
          InFlight(l)' => /\ InFlight(l) /\ chan'[l].base = chan[l].base
                          /\ chan'[l].form = chan[l].form
    BY <2>2, <2>3, <2>4 DEF InFlight
  <2> QED
    BY <1>0, <1>1, <2>2, <2>5, FormKept DEF Discovering, FormInv
<1>10. ASSUME NEW k \in AllKinds, Closes(k) \/ PollEdited(k)
       PROVE  \A l \in AllKinds :
                InFlight(l)' => InFlight(l) /\ chan'[l] = chan[l]
  <2>1. chan' = Close(k)
    BY <1>10 DEF Closes, PollEdited
  <2> QED
    BY <1>0, <2>1, CloseChannel, KeptChannel
<1>11. ASSUME NEW k \in AllKinds, Closes(k) PROVE FormInv'
  BY <1>0, <1>1, <1>10, <1>11, FormKept DEF Closes, view, Discovering, FormInv
<1>12. ASSUME NEW k \in AllKinds, PollEdited(k) PROVE FormInv'
  <2>1. /\ k \in Editing /\ InFlight(k) /\ known' = known
        /\ loaded' = Changed(chan[k])
    BY <1>12 DEF PollEdited, InFlight
  <2>2. loaded'.home = chan[k].base.home
    BY <2>1 DEF Changed
  <2>3. forms'["log"] \in {forms["log"], NoHost}
    BY <1>0, <1>12 DEF PollEdited
  <2>4. \A l \in AllKinds : InFlight(l)' => InFlight(l) /\ chan'[l] = chan[l]
    BY <1>10, <1>12
  <2>5. OpenLogForm'
    BY <1>0, <2>1, <2>2, <2>3, <2>4 DEF OpenLogForm, Discovering
  <2>6. LogFormFits'
    BY <1>0, <2>4 DEF LogFormFits
  <2> QED
    BY <1>1, <2>5, <2>6 DEF FormInv
<1> QED
  BY <1>2, <1>3, <1>4, <1>5, <1>6, <1>7, <1>8, <1>9, <1>11, <1>12, StepCases

(* Whatever hosts are visited and whatever is saved meanwhile, the log     *)
(* settings that are saved were edited on a configuration of the host they *)
(* are put into.                                                           *)
THEOREM LogFormStays == Spec => []LogFormFits
<1>1. Init => FormInv
  BY DEF Init, FormInv, ProbeRuns, OpenLogForm, LogFormFits, InFlight, NoJob,
         NoProbe, Unknown, Discovering, Editing, AllKinds, Forms
<1>2. TypeInv /\ TypeInv' /\ FormInv /\ [Next]_vars => FormInv'
  BY FormStep
<1>3. FormInv => LogFormFits
  BY DEF FormInv
<1> QED
  BY <1>1, <1>2, <1>3, InitTypeInv, StepTypeInv, PTL DEF Spec

-----------------------------------------------------------------------------
(* No saved change is lost.                                                *)

(* A save reported by its worker is on the server it was sent to.          *)
Landed == \A k \in Editing :
    chan[k].sent = "ok" => chan[k].id \in remote[chan[k].host].has

KeptInv == OneAtATime /\ NoLostUpdate /\ Landed

(* Steps that write no configuration report no save and keep the workers   *)
(* that have reported.                                                     *)
LEMMA LandedKept ==
  ASSUME TypeInv, Landed, UNCHANGED remote,
         \A k \in Editing :
           chan'[k].sent = "ok" => chan'[k] = chan[k]
  PROVE  Landed'
  BY DEF Landed

(* The worker in flight is the only one.                                   *)
LEMMA OthersRest ==
  ASSUME OneAtATime, NEW k \in AllKinds, InFlight(k)
  PROVE  \A l \in AllKinds \ {k} : chan[l].sent = "none"
  BY DEF OneAtATime, InFlight

(* What a worker that saves writes.                                        *)
LEMMA EditingEffect ==
  ASSUME TypeInv, NEW k \in Editing, InFlight(k), Effect(k)
  PROVE  /\ chan[k].host \in Hosts /\ Accepts(k)
         /\ remote'[chan[k].host] = Changed(chan[k])
         /\ \A h \in Hosts \ {chan[k].host} : remote'[h] = remote[h]
         /\ saved' = saved
<1>1. k \in AllKinds
  BY DEF Editing, AllKinds
<1>2. chan[k].host \in Hosts
  BY <1>1, InFlightIsJob DEF TypeInv, TypeOK, Channels, Job
<1>3. k \notin {"restore", "service"} \union Reloading
  BY DEF Editing, Reloading
<1>4. /\ Accepts(k) /\ saved' = saved
      /\ remote' = [remote EXCEPT ![chan[k].host] = Changed(chan[k])]
  BY <1>3 DEF Effect
<1> QED
  BY <1>2, <1>4 DEF TypeInv, TypeOK

(* What every other worker does: a restore takes back what it removes, the *)
(* others leave the configurations alone.                                  *)
LEMMA OtherEffect ==
  ASSUME TypeInv, NEW k \in AllKinds \ Editing, InFlight(k), Effect(k)
  PROVE  /\ \A h \in Hosts : remote'[h].home = remote[h].home
         /\ \A h \in Hosts : saved'[h] \subseteq saved[h]
         /\ NoLostUpdate => NoLostUpdate'
<1> DEFINE t == chan[k].host
<1>1. t \in Hosts
  BY InFlightIsJob DEF TypeInv, TypeOK, Channels, Job
<1>2. remote \in [Hosts -> Config] /\ saved \in [Hosts -> SUBSET Ids]
  BY DEF TypeInv, TypeOK
<1>3. ASSUME NEW kept, remote' = [remote EXCEPT ![t].has = kept],
             saved' = [saved EXCEPT ![t] = @ \intersect kept]
      PROVE  /\ \A h \in Hosts : remote'[h].home = remote[h].home
             /\ \A h \in Hosts : saved'[h] \subseteq saved[h]
             /\ NoLostUpdate => NoLostUpdate'
  <2>1. remote' = [remote EXCEPT ![t] = [remote[t] EXCEPT !.has = kept]]
    BY <1>3
  <2>2. /\ [remote[t] EXCEPT !.has = kept].home = remote[t].home
        /\ [remote[t] EXCEPT !.has = kept].has = kept
    BY <1>1, <1>2 DEF Config
  <2>3. /\ remote'[t].has = kept /\ remote'[t].home = remote[t].home
        /\ \A h \in Hosts \ {t} : remote'[h] = remote[h]
    BY <1>1, <1>2, <2>1, <2>2
  <2>4. /\ saved'[t] = saved[t] \intersect kept
        /\ \A h \in Hosts \ {t} : saved'[h] = saved[h]
    BY <1>1, <1>2, <1>3
  <2>5. \A h \in Hosts : remote'[h].home = remote[h].home
    BY <2>3
  <2>6. \A h \in Hosts : saved'[h] \subseteq saved[h]
    BY <2>4
  <2>7. NoLostUpdate => NoLostUpdate'
    BY <2>3, <2>4 DEF NoLostUpdate
  <2> QED
    BY <2>5, <2>6, <2>7
<1>4. ASSUME UNCHANGED <<remote, saved>>
      PROVE  /\ \A h \in Hosts : remote'[h].home = remote[h].home
             /\ \A h \in Hosts : saved'[h] \subseteq saved[h]
             /\ NoLostUpdate => NoLostUpdate'
  BY <1>4 DEF NoLostUpdate
<1> HIDE DEF t
<1>5. \/ \E kept : /\ remote' = [remote EXCEPT ![t].has = kept]
                   /\ saved' = [saved EXCEPT ![t] = @ \intersect kept]
      \/ UNCHANGED <<remote, saved>>
  BY DEF Effect, t, servers
<1> QED
  BY <1>3, <1>4, <1>5

(* A poll that makes the edited copy the loaded one.                       *)
LEMMA PolledEdit ==
  ASSUME TypeInv, OneAtATime, NEW k \in Editing, PollEdited(k)
  PROVE  /\ k \in AllKinds /\ InFlight(k)
         /\ chan[k].host \in Hosts
         /\ saved'[chan[k].host] = saved[chan[k].host] \union {chan[k].id}
         /\ \A h \in Hosts \ {chan[k].host} : saved'[h] = saved[h]
         /\ remote' = remote /\ known' = known /\ probe' = probe
         /\ loaded' = Changed(chan[k])
         /\ \A l \in AllKinds : chan'[l].sent = "none"
<1>1. k \in AllKinds /\ InFlight(k) /\ chan \in Channels
  BY DEF PollEdited, InFlight, Editing, AllKinds, TypeInv, TypeOK, Channels
<1>2. chan[k].host \in Hosts
  BY <1>1, InFlightIsJob DEF Job
<1>3. /\ saved'[chan[k].host] = saved[chan[k].host] \union {chan[k].id}
      /\ \A h \in Hosts \ {chan[k].host} : saved'[h] = saved[h]
  BY <1>2 DEF PollEdited, TypeInv, TypeOK
<1>4. /\ chan'[k] = NoJob /\ \A l \in AllKinds \ {k} : chan'[l] = chan[l]
  BY <1>1, CloseChannel DEF PollEdited
<1>5. \A l \in AllKinds : chan'[l].sent = "none"
  BY <1>1, <1>4, OthersRest DEF NoJob
<1> QED
  BY <1>1, <1>2, <1>3, <1>5 DEF PollEdited, servers

(* Everything but the workers and the polls of saves.                      *)
LEMMA NothingWritten ==
  ASSUME TypeInv, TypeInv',
         Aside \/ Rediscovers \/ DiscoveryWorker \/ PollDiscovery
         \/ (\E f \in Forms : BeginEdit(f) \/ CancelEdit(f))
         \/ \E k \in AllKinds : Launches(k) \/ Closes(k)
  PROVE  /\ remote' = remote /\ saved' = saved
         /\ \A k \in AllKinds : chan'[k].sent = "ok" => chan'[k] = chan[k]
<1>0. chan \in Channels /\ NoJob.sent = "none"
  BY DEF TypeInv, TypeOK, Channels, NoJob
<1>1. remote' = remote /\ saved' = saved
  BY DEF Aside, Rediscovers, DiscoveryWorker, PollDiscovery, BeginEdit,
         CancelEdit, Launches, Launch, Closes, servers, told
<1>2. CASE Rediscovers
  BY <1>0, <1>1, <1>2, RediscoveredCopies
<1>3. ASSUME NEW k \in AllKinds, Closes(k)
      PROVE  \A l \in AllKinds : chan'[l].sent = "ok" => chan'[l] = chan[l]
  BY <1>0, <1>3, CloseChannel DEF Closes
<1>4. ASSUME NEW k \in AllKinds, Launches(k)
      PROVE  \A l \in AllKinds : chan'[l].sent = "ok" => chan'[l] = chan[l]
  BY <1>4, LaunchedJob DEF Launches
<1> QED
  BY <1>1, <1>2, <1>3, <1>4
     DEF Aside, DiscoveryWorker, PollDiscovery, BeginEdit, CancelEdit

(* A worker's one step, with no other worker about.                        *)
LEMMA WorkerCases ==
  ASSUME TypeInv, OneAtATime, NEW k \in AllKinds, Worker(k)
  PROVE  /\ InFlight(k)
         /\ Effect(k) \/ (UNCHANGED <<remote, saved>> /\ chan'[k].sent # "ok")
         /\ chan'[k].host = chan[k].host /\ chan'[k].id = chan[k].id
         /\ chan'[k].base = chan[k].base
         /\ \A l \in AllKinds \ {k} :
              chan'[l] = chan[l] /\ chan'[l].sent = "none"
         /\ UNCHANGED view
<1>0. chan \in Channels
  BY DEF TypeInv, TypeOK, Channels
<1>1. chan[k].sent = "running" /\ InFlight(k) /\ UNCHANGED view
  BY DEF Worker, InFlight
<1>2. ASSUME NEW result \in {"ok", "error", "gone"}, Sends(k, result)
      PROVE  /\ chan'[k].host = chan[k].host /\ chan'[k].id = chan[k].id
             /\ chan'[k].base = chan[k].base /\ chan'[k].sent = result
             /\ \A l \in AllKinds \ {k} : chan'[l] = chan[l]
  <2>1. /\ chan'[k] = [chan[k] EXCEPT !.sent = result] /\ chan[k] \in Job
        /\ \A l \in AllKinds \ {k} : chan'[l] = chan[l]
    BY <1>0, <1>1, <1>2, SendResult
  <2> QED
    BY <2>1 DEF Job
<1>3. \/ Effect(k) /\ \E result \in {"ok", "error", "gone"} : Sends(k, result)
      \/ /\ UNCHANGED <<remote, saved>>
         /\ \E result \in {"error", "gone"} : Sends(k, result)
  BY DEF Worker, servers
<1>4. \A l \in AllKinds \ {k} : chan[l].sent = "none"
  BY <1>1, OthersRest
<1> QED
  BY <1>1, <1>2, <1>3, <1>4

(* If the copy a save writes has the changes that were saved on its host,  *)
(* no step loses one.                                                      *)
LEMMA KeptStep ==
  ASSUME TypeInv, TypeInv', KeptInv, [Next]_vars,
         \A k \in Editing :
           InFlight(k) /\ Effect(k) => saved[chan[k].host] \subseteq chan[k].base.has
  PROVE  KeptInv'
<1>0. Editing \subseteq AllKinds
  BY DEF Editing, AllKinds
<1>1. OneAtATime'
  BY OneStep DEF KeptInv
<1>2. CASE \/ Aside \/ Rediscovers \/ DiscoveryWorker \/ PollDiscovery
           \/ (\E f \in Forms : BeginEdit(f) \/ CancelEdit(f))
           \/ \E k \in AllKinds : Launches(k) \/ Closes(k)
  <2>1. /\ remote' = remote /\ saved' = saved
        /\ \A k \in AllKinds : chan'[k].sent = "ok" => chan'[k] = chan[k]
    BY <1>2, NothingWritten
  <2>2. NoLostUpdate'
    BY <2>1 DEF KeptInv, NoLostUpdate
  <2>3. Landed'
    BY <1>0, <2>1, LandedKept DEF KeptInv
  <2> QED
    BY <1>1, <2>2, <2>3 DEF KeptInv
<1>3. ASSUME NEW k \in AllKinds, Worker(k) PROVE KeptInv'
  <2>1. /\ InFlight(k)
        /\ Effect(k) \/ (UNCHANGED <<remote, saved>> /\ chan'[k].sent # "ok")
        /\ chan'[k].host = chan[k].host /\ chan'[k].id = chan[k].id
        /\ \A l \in AllKinds \ {k} : chan'[l].sent = "none"
    BY <1>3, WorkerCases DEF KeptInv
  <2>2. CASE UNCHANGED <<remote, saved>> /\ chan'[k].sent # "ok"
    BY <1>0, <1>1, <2>1, <2>2 DEF KeptInv, NoLostUpdate, Landed
  <2>3. CASE k \in Editing /\ Effect(k)
    <3>1. /\ chan[k].host \in Hosts
          /\ remote'[chan[k].host] = Changed(chan[k])
          /\ \A h \in Hosts \ {chan[k].host} : remote'[h] = remote[h]
          /\ saved' = saved
      BY <2>1, <2>3, EditingEffect
    <3>2. remote'[chan[k].host].has = chan[k].base.has \union {chan[k].id}
      BY <3>1 DEF Changed
    <3>3. saved[chan[k].host] \subseteq chan[k].base.has
      BY <2>1, <2>3
    <3>4. NoLostUpdate'
      BY <3>1, <3>2, <3>3 DEF KeptInv, NoLostUpdate
    <3>5. Landed'
      BY <1>0, <2>1, <3>2 DEF Landed
    <3> QED
      BY <1>1, <3>4, <3>5 DEF KeptInv
  <2>4. CASE k \notin Editing /\ Effect(k)
    <3>1. NoLostUpdate'
      BY <2>1, <2>4, OtherEffect DEF KeptInv
    <3>2. Landed'
      BY <1>0, <2>1, <2>4 DEF Landed
    <3> QED
      BY <1>1, <3>1, <3>2 DEF KeptInv
  <2> QED
    BY <2>1, <2>2, <2>3, <2>4
<1>4. ASSUME NEW k \in AllKinds, PollEdited(k) PROVE KeptInv'
  <2>0. k \in Editing /\ chan[k].sent = "ok"
    BY <1>4 DEF PollEdited
  <2>1. /\ chan[k].host \in Hosts
        /\ saved'[chan[k].host] = saved[chan[k].host] \union {chan[k].id}
        /\ \A h \in Hosts \ {chan[k].host} : saved'[h] = saved[h]
        /\ remote' = remote
        /\ \A l \in AllKinds : chan'[l].sent = "none"
    BY <1>4, <2>0, PolledEdit DEF KeptInv
  <2>2. chan[k].id \in remote[chan[k].host].has
    BY <2>0 DEF KeptInv, Landed
  <2>3. NoLostUpdate'
    BY <2>1, <2>2 DEF KeptInv, NoLostUpdate
  <2>4. Landed'
    BY <1>0, <2>1 DEF Landed
  <2> QED
    BY <1>1, <2>3, <2>4 DEF KeptInv
<1> QED
  BY <1>2, <1>3, <1>4, StepCases

(* At the start nothing is in flight and nothing is saved.                 *)
LEMMA InitKept == Init => KeptInv
<1> SUFFICES ASSUME Init PROVE KeptInv
  OBVIOUS
<1>1. \A k \in AllKinds : chan[k].sent = "none"
  BY DEF Init, NoJob
<1>2. OneAtATime
  BY <1>1 DEF Init, OneAtATime, InFlight, Discovering, Unknown, HoldingOff, AllKinds
<1>3. NoLostUpdate
  BY DEF Init, NoLostUpdate
<1>4. Landed
  BY <1>1 DEF Landed, Editing, AllKinds
<1> QED
  BY <1>2, <1>3, <1>4 DEF KeptInv

(* When every save compares the remote file with its copy first, no saved  *)
(* change is lost, on any number of hosts and whatever discoveries run     *)
(* beside the operations: the comparison finds the copy that lacks one.    *)
THEOREM ComparedUpdatesKept ==
  ASSUME Kinds \intersect {"user", "bound"} = {}
  PROVE  Spec => []NoLostUpdate
<1>1. TypeInv /\ TypeInv' /\ OnlyKinds /\ KeptInv /\ [Next]_vars => KeptInv'
  <2> SUFFICES ASSUME TypeInv, TypeInv', OnlyKinds, KeptInv, [Next]_vars
               PROVE  KeptInv'
    OBVIOUS
  <2>1. ASSUME NEW k \in Editing, InFlight(k), Effect(k)
        PROVE  saved[chan[k].host] \subseteq chan[k].base.has
    <3>1. k \in Comparing
      BY <2>1 DEF OnlyKinds, Editing, Comparing, AllKinds
    <3>2. chan[k].host \in Hosts /\ remote[chan[k].host] = chan[k].base
      BY <2>1, <3>1, EditingEffect DEF Accepts
    <3> QED
      BY <3>2 DEF KeptInv, NoLostUpdate
  <2> QED
    BY <2>1, KeptStep
<1>2. Init => OnlyKinds
  BY DEF Init, OnlyKinds, InFlight, NoJob, AllKinds
<1>3. TypeInv /\ TypeInv' /\ OnlyKinds /\ [Next]_vars => OnlyKinds'
  BY KindsKept
<1>4. KeptInv => NoLostUpdate
  BY DEF KeptInv
<1> QED
  BY <1>1, <1>2, <1>3, <1>4, InitKept, InitTypeInv, StepTypeInv, PTL DEF Spec

-----------------------------------------------------------------------------
(* The copies of the configuration are current.                            *)

(* A configuration has every change that was saved on its host.            *)
Covers(history, config) ==
    config # NoConfig => history[config.home] \subseteq config.has

(* Every copy that can become the loaded one, or be written, is current.   *)
CopiesCover ==
    /\ Covers(saved, loaded)
    /\ Covers(saved, probe.config)
    /\ \A k \in Editing : InFlight(k) => Covers(saved, chan[k].base)

(* A save was sent to the host its copy belongs to.                        *)
SavedAtHome == \A k \in Editing :
    chan[k].sent = "ok" => chan[k].host = chan[k].base.home

CopiesInv ==
    ProbeRuns /\ OnlyKinds /\ NoForeignConfig /\ CopiesCover /\ SavedAtHome

(* No save can reach a host its copy does not belong to: either there is   *)
(* only one host, or every save compares.                                  *)
SafeHosts ==
    (\A g, h \in Hosts : g = h) \/ Kinds \intersect {"user", "bound"} = {}

(* No save runs beside a discovery.                                        *)
SavesHoldOff == Kinds \intersect Editing \subseteq HoldingOff

(* Configurations stay where they belong.                                  *)
LEMMA SafeHome ==
  ASSUME SafeHosts, TypeInv, TypeInv', OnlyKinds, NoForeignConfig, [Next]_vars
  PROVE  NoForeignConfig'
<1>1. CASE \A g, h \in Hosts : g = h
  <2>1. remote' \in [Hosts -> Config]
    BY DEF TypeInv, TypeOK
  <2> QED
    BY <1>1, <2>1 DEF NoForeignConfig, Config
<1>2. CASE Kinds \intersect {"user", "bound"} = {}
  BY <1>2, HomeStep DEF HomeInv
<1> QED
  BY <1>1, <1>2 DEF SafeHosts

(* What a save writes belongs to the host it is written to.                *)
LEMMA SafeEffect ==
  ASSUME SafeHosts, TypeInv, OnlyKinds, NoForeignConfig,
         NEW k \in Editing, InFlight(k), Effect(k)
  PROVE  /\ chan[k].base \in Config /\ chan[k].base # NoConfig
         /\ chan[k].host = chan[k].base.home
<1>1. chan[k].base \in Config
  BY DEF TypeInv, EditsHaveBase
<1>2. chan[k].host \in Hosts /\ Accepts(k)
  BY EditingEffect
<1>3. chan[k].base.home \in Hosts
  BY <1>1 DEF Config
<1>4. chan[k].base # NoConfig
  BY <1>3, AppServiceAssumption DEF NoConfig
<1>5. CASE \A g, h \in Hosts : g = h
  BY <1>1, <1>2, <1>3, <1>4, <1>5
<1>6. CASE Kinds \intersect {"user", "bound"} = {}
  <2>1. k \in Comparing
    BY <1>6 DEF OnlyKinds, Editing, Comparing, AllKinds
  <2>2. remote[chan[k].host] = chan[k].base
    BY <1>2, <2>1 DEF Accepts
  <2> QED
    BY <1>1, <1>2, <1>4, <2>2 DEF NoForeignConfig
<1> QED
  BY <1>5, <1>6 DEF SafeHosts

(* A copy stays current while the history only shrinks.                    *)
LEMMA CoversLess ==
  ASSUME NEW config \in Config \union {NoConfig}, Covers(saved, config),
         \A h \in Hosts : saved'[h] \subseteq saved[h]
  PROVE  Covers(saved', config)
  BY DEF Covers, Config

(* The copies keep covering when they are kept, forgotten or copied from   *)
(* one another and the history does not grow.                              *)
LEMMA CopiesKept ==
  ASSUME TypeInv, CopiesCover, SavedAtHome,
         \A h \in Hosts : saved'[h] \subseteq saved[h],
         loaded' \in {loaded, probe.config, NoConfig},
         probe'.config \in {probe.config, NoConfig},
         \A k \in Editing : InFlight(k)' =>
            \/ InFlight(k) /\ chan'[k].base = chan[k].base
            \/ chan'[k].base = loaded,
         \A k \in Editing : chan'[k].sent = "ok" => chan'[k] = chan[k]
  PROVE  CopiesCover' /\ SavedAtHome'
<1>1. /\ loaded \in Config \union {NoConfig}
      /\ probe.config \in Config \union {NoConfig}
      /\ \A k \in Editing : InFlight(k) => chan[k].base \in Config \union {NoConfig}
  BY DEF TypeInv, TypeOK, EditsHaveBase, Probe, NoProbe
<1>2. Covers(saved', NoConfig)
  BY DEF Covers
<1>3. Covers(saved', loaded) /\ Covers(saved', probe.config)
  BY <1>1, CoversLess DEF CopiesCover
<1>4. \A k \in Editing : InFlight(k) => Covers(saved', chan[k].base)
  BY <1>1, CoversLess DEF CopiesCover
<1>5. Covers(saved', loaded')
  BY <1>2, <1>3
<1>6. Covers(saved', probe'.config)
  BY <1>2, <1>3
<1>7. \A k \in Editing : InFlight(k)' => Covers(saved', chan'[k].base)
  BY <1>3, <1>4
<1>8. CopiesCover'
  BY <1>5, <1>6, <1>7 DEF CopiesCover
<1>9. SavedAtHome'
  BY DEF SavedAtHome
<1> QED
  BY <1>8, <1>9

(* The worker of the discovery reads what is on its host.                  *)
LEMMA ProbeReads ==
  ASSUME TypeInv, NoForeignConfig, NoLostUpdate, Covers(saved, probe.config),
         DiscoveryWorker
  PROVE  Covers(saved, probe'.config)
<1>1. probe \in Probe /\ probe.host \in Hosts
  BY DEF DiscoveryWorker, TypeInv, TypeOK, NoProbe, Probe
<1>2. Covers(saved, remote[probe.host]) /\ Covers(saved, NoConfig)
  BY <1>1 DEF Covers, NoForeignConfig, NoLostUpdate
<1>3. ASSUME NEW config \in {remote[probe.host], NoConfig},
             probe' = [probe EXCEPT !.found = "succeeded", !.config = config,
                                    !.install = installed[probe.host]]
      PROVE  Covers(saved, probe'.config)
  <2>1. probe'.config = config
    BY <1>1, <1>3 DEF Probe
  <2> QED
    BY <1>2, <2>1
<1>4. ASSUME NEW found, probe' = [probe EXCEPT !.found = found]
      PROVE  Covers(saved, probe'.config)
  <2>1. probe'.config = probe.config
    BY <1>1, <1>4 DEF Probe
  <2> QED
    BY <2>1
<1> QED
  BY <1>3, <1>4 DEF DiscoveryWorker

(* Every step keeps the copies current.                                    *)
LEMMA CopiesStep ==
  ASSUME SafeHosts, SavesHoldOff, TypeInv, TypeInv', KeptInv, CopiesInv,
         [Next]_vars
  PROVE  CopiesInv'
<1>0. /\ chan \in Channels /\ Editing \subseteq AllKinds
      /\ CopiesCover /\ SavedAtHome /\ OneAtATime /\ NoLostUpdate
  BY DEF TypeInv, TypeOK, Channels, Editing, AllKinds, CopiesInv, KeptInv
<1>1. ProbeRuns' /\ OnlyKinds' /\ NoForeignConfig'
  BY ProbeKept, KindsKept, SafeHome DEF CopiesInv
<1>2. CASE Aside
  <2>1. CopiesCover' /\ SavedAtHome'
    BY <1>0, <1>2, CopiesKept DEF Aside, view, InFlight
  <2> QED
    BY <1>1, <2>1 DEF CopiesInv
<1>3. CASE Rediscovers
  <2>1. /\ loaded' = NoConfig /\ probe'.config = NoConfig
        /\ \A k \in AllKinds : chan'[k] \in {NoJob, chan[k]}
    BY <1>3, RediscoveredCopies
  <2>2. \A k \in AllKinds : InFlight(k)' => InFlight(k) /\ chan'[k] = chan[k]
    BY <2>1, KeptChannel
  <2>3. \A k \in AllKinds : chan'[k].sent = "ok" => chan'[k] = chan[k]
    BY <2>1 DEF NoJob
  <2>4. saved' = saved
    BY <1>3 DEF Rediscovers
  <2>5. CopiesCover' /\ SavedAtHome'
    BY <1>0, <2>1, <2>2, <2>3, <2>4, CopiesKept
  <2> QED
    BY <1>1, <2>5 DEF CopiesInv
<1>4. CASE DiscoveryWorker
  <2>1. /\ UNCHANGED <<loaded, chan, saved>>
    BY <1>4 DEF DiscoveryWorker, told
  <2>2. Covers(saved, probe'.config)
    BY <1>0, <1>4, ProbeReads DEF CopiesInv, CopiesCover
  <2>3. CopiesCover' /\ SavedAtHome'
    BY <1>0, <2>1, <2>2 DEF CopiesCover, SavedAtHome, InFlight
  <2> QED
    BY <1>1, <2>3 DEF CopiesInv
<1>5. CASE PollDiscovery
  <2>1. /\ loaded' \in {loaded, probe.config} /\ probe' = NoProbe
        /\ UNCHANGED <<chan, saved>>
    BY <1>5 DEF PollDiscovery, told
  <2>2. probe'.config = NoConfig
    BY <2>1 DEF NoProbe
  <2>3. CopiesCover' /\ SavedAtHome'
    BY <1>0, <2>1, <2>2, CopiesKept DEF InFlight
  <2> QED
    BY <1>1, <2>3 DEF CopiesInv
<1>6. ASSUME NEW f \in Forms, BeginEdit(f) \/ CancelEdit(f) PROVE CopiesInv'
  <2>1. UNCHANGED <<loaded, probe, chan, saved>>
    BY <1>6 DEF BeginEdit, CancelEdit, told
  <2>2. CopiesCover' /\ SavedAtHome'
    BY <1>0, <2>1, CopiesKept DEF InFlight
  <2> QED
    BY <1>1, <2>2 DEF CopiesInv
<1>7. ASSUME NEW k \in AllKinds, Launches(k) PROVE CopiesInv'
  <2>1. UNCHANGED <<loaded, probe, saved>>
    BY <1>7 DEF Launches, Launch, view, told
  <2>2. /\ chan'[k].base = loaded /\ chan'[k].sent = "running"
        /\ \A l \in AllKinds \ {k} : chan'[l] = chan[l]
    BY <1>7, LaunchedJob DEF Launches
  <2>3. CopiesCover' /\ SavedAtHome'
    BY <1>0, <2>1, <2>2, CopiesKept DEF InFlight
  <2> QED
    BY <1>1, <2>3 DEF CopiesInv
<1>8. ASSUME NEW k \in AllKinds, Closes(k) PROVE CopiesInv'
  <2>1. UNCHANGED <<loaded, probe, saved>> /\ chan' = Close(k)
    BY <1>8 DEF Closes, view
  <2>2. \A l \in AllKinds : chan'[l] \in {NoJob, chan[l]}
    BY <1>0, <2>1, CloseChannel
  <2>3. \A l \in AllKinds : InFlight(l)' => InFlight(l) /\ chan'[l] = chan[l]
    BY <2>2, KeptChannel
  <2>4. \A l \in AllKinds : chan'[l].sent = "ok" => chan'[l] = chan[l]
    BY <2>2 DEF NoJob
  <2>5. CopiesCover' /\ SavedAtHome'
    BY <1>0, <2>1, <2>3, <2>4, CopiesKept
  <2> QED
    BY <1>1, <2>5 DEF CopiesInv
<1>9. ASSUME NEW k \in AllKinds, Worker(k) PROVE CopiesInv'
  <2>1. /\ InFlight(k)
        /\ Effect(k) \/ (UNCHANGED <<remote, saved>> /\ chan'[k].sent # "ok")
        /\ chan'[k].host = chan[k].host /\ chan'[k].base = chan[k].base
        /\ \A l \in AllKinds \ {k} :
             chan'[l] = chan[l] /\ chan'[l].sent = "none"
        /\ UNCHANGED <<loaded, probe>>
    BY <1>0, <1>9, WorkerCases DEF view
  <2>2. \A h \in Hosts : saved'[h] \subseteq saved[h]
    <3>1. CASE k \in Editing /\ Effect(k)
      BY <2>1, <3>1, EditingEffect
    <3>2. CASE k \notin Editing /\ Effect(k)
      BY <2>1, <3>2, OtherEffect
    <3> QED
      BY <2>1, <3>1, <3>2
  <2>3. \A l \in AllKinds :
          InFlight(l)' => InFlight(l) /\ chan'[l].base = chan[l].base
    BY <2>1 DEF InFlight
  <2>4. Covers(saved', loaded) /\ Covers(saved', probe.config)
    <3>1. /\ loaded \in Config \union {NoConfig}
          /\ probe.config \in Config \union {NoConfig}
      BY DEF TypeInv, TypeOK, Probe, NoProbe
    <3> QED
      BY <1>0, <2>2, <3>1, CoversLess DEF CopiesCover
  <2>5. \A l \in Editing : InFlight(l) => Covers(saved', chan[l].base)
    <3>1. \A l \in Editing : InFlight(l) => chan[l].base \in Config \union {NoConfig}
      BY DEF TypeInv, EditsHaveBase
    <3> QED
      BY <1>0, <2>2, <3>1, CoversLess DEF CopiesCover
  <2>6. CopiesCover'
    BY <1>0, <2>1, <2>3, <2>4, <2>5 DEF CopiesCover
  <2>7. SavedAtHome'
    <3>1. ASSUME NEW l \in Editing, chan'[l].sent = "ok"
          PROVE  chan'[l].host = chan'[l].base.home
      <4>1. l = k /\ Effect(k)
        BY <1>0, <2>1, <3>1
      <4>2. chan[k].host = chan[k].base.home
        BY <2>1, <4>1, SafeEffect DEF CopiesInv
      <4> QED
        BY <2>1, <4>1, <4>2
    <3> QED
      BY <3>1 DEF SavedAtHome
  <2> QED
    BY <1>1, <2>6, <2>7 DEF CopiesInv
<1>10. ASSUME NEW k \in AllKinds, PollEdited(k) PROVE CopiesInv'
  <2>0. k \in Editing /\ chan[k].sent = "ok"
    BY <1>10 DEF PollEdited
  <2>1. /\ InFlight(k) /\ chan[k].host \in Hosts
        /\ saved'[chan[k].host] = saved[chan[k].host] \union {chan[k].id}
        /\ probe' = probe /\ loaded' = Changed(chan[k])
        /\ \A l \in AllKinds : chan'[l].sent = "none"
    BY <1>0, <1>10, <2>0, PolledEdit
  <2>2. k \in HoldingOff
    BY <2>0, <2>1 DEF CopiesInv, OnlyKinds, SavesHoldOff, Editing, AllKinds
  <2>3. ~Discovering
    BY <1>0, <2>1, <2>2 DEF OneAtATime
  <2>4. probe.found = "none"
    BY <2>3 DEF CopiesInv, ProbeRuns
  <2>5. probe'.config = NoConfig
    BY <2>1, <2>4 DEF TypeInv, TypeOK, Probe, Findings, NoProbe
  <2>6. chan[k].host = chan[k].base.home /\ Covers(saved, chan[k].base)
    BY <1>0, <2>0, <2>1 DEF SavedAtHome, CopiesCover
  <2>7. chan[k].base # NoConfig
    BY <2>1, <2>6, AppServiceAssumption DEF NoConfig
  <2>8. /\ loaded'.home = chan[k].host
        /\ loaded'.has = chan[k].base.has \union {chan[k].id}
    BY <2>1, <2>6 DEF Changed
  <2>9. Covers(saved', loaded')
    BY <2>1, <2>6, <2>7, <2>8 DEF Covers
  <2>10. Covers(saved', probe'.config)
    BY <2>5 DEF Covers
  <2>11. CopiesCover' /\ SavedAtHome'
    BY <1>0, <2>1, <2>9, <2>10 DEF CopiesCover, SavedAtHome, InFlight
  <2> QED
    BY <1>1, <2>11 DEF CopiesInv
<1> QED
  BY <1>2, <1>3, <1>4, <1>5, <1>6, <1>7, <1>8, <1>9, <1>10, StepCases

(* The two invariants hold together, from the start.                       *)
LEMMA CopiesCurrent ==
  ASSUME SafeHosts, SavesHoldOff
  PROVE  Spec => [](TypeInv /\ KeptInv /\ CopiesInv)
<1>1. Init => CopiesInv
  <2> SUFFICES ASSUME Init PROVE CopiesInv
    OBVIOUS
  <2>1. \A k \in AllKinds : chan[k].sent = "none"
    BY DEF Init, NoJob
  <2>2. CopiesCover
    BY <2>1 DEF Init, CopiesCover, Covers, NoProbe, InFlight, Editing, AllKinds
  <2>3. ProbeRuns /\ OnlyKinds /\ SavedAtHome
    BY <2>1 DEF Init, ProbeRuns, OnlyKinds, SavedAtHome, NoProbe, InFlight,
                Editing, AllKinds
  <2>4. NoForeignConfig
    BY DEF Init, NoForeignConfig
  <2> QED
    BY <2>2, <2>3, <2>4 DEF CopiesInv
<1>2. TypeInv /\ TypeInv' /\ KeptInv /\ CopiesInv /\ [Next]_vars => CopiesInv'
  BY CopiesStep
<1>3. TypeInv /\ TypeInv' /\ KeptInv /\ CopiesInv /\ [Next]_vars => KeptInv'
  <2> SUFFICES ASSUME TypeInv, TypeInv', KeptInv, CopiesInv, [Next]_vars
               PROVE  KeptInv'
    OBVIOUS
  <2>1. ASSUME NEW k \in Editing, InFlight(k), Effect(k)
        PROVE  saved[chan[k].host] \subseteq chan[k].base.has
    <3>1. chan[k].base # NoConfig /\ chan[k].host = chan[k].base.home
      BY <2>1, SafeEffect DEF CopiesInv
    <3>2. Covers(saved, chan[k].base)
      BY <2>1 DEF CopiesInv, CopiesCover
    <3> QED
      BY <3>1, <3>2 DEF Covers
  <2> QED
    BY <2>1, KeptStep
<1> QED
  BY <1>1, <1>2, <1>3, InitKept, InitTypeInv, StepTypeInv, PTL DEF Spec

(* On one host, or when every save compares, and as long as no save that   *)
(* discovery does not wait for is used, no saved change is lost: not even  *)
(* by the saves that write their copy without comparing, because that copy *)
(* is never older than the last save (AppServiceRace shows what happens    *)
(* with one that discovery does not wait for).                             *)
THEOREM UpdatesKept ==
  ASSUME SafeHosts, SavesHoldOff
  PROVE  Spec => []NoLostUpdate
<1>1. TypeInv /\ KeptInv /\ CopiesInv => NoLostUpdate
  BY DEF KeptInv
<1> QED
  BY <1>1, CopiesCurrent, PTL

(* Under the same conditions the pages never show a configuration that     *)
(* lacks a change the user was told is saved.                              *)
THEOREM ViewStaysCurrent ==
  ASSUME SafeHosts, SavesHoldOff
  PROVE  Spec => []ViewIsCurrent
<1>1. TypeInv /\ KeptInv /\ CopiesInv => ViewIsCurrent
  BY DEF CopiesInv, CopiesCover, Covers, ViewIsCurrent
<1> QED
  BY <1>1, CopiesCurrent, PTL
=============================================================================
