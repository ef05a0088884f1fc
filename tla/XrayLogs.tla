------------------------------ MODULE XrayLogs ------------------------------
(***************************************************************************)
(* The Xray Logs page: its runtime state on the UI thread, the probe, read *)
(* and follow workers it spawns, the stop flag it shares with a follow     *)
(* worker, and the generation that tells late events from current ones.    *)
(* The rest of the application appears as what it does to this state:      *)
(* other operations exclude it, discovery resets it, a log settings save   *)
(* re-seeds its sources.                                                   *)
(***************************************************************************)
EXTENDS Naturals, Sequences, FiniteSets

CONSTANTS
    Kinds,        \* access log, error log, journal
    ProbePanics,  \* whether a probe worker may end without an outcome
    MaxStarts,    \* bound: read and follow workers
    MaxProbes,    \* bound: probe workers
    MaxSaves,     \* bound: log settings saved
    MaxGeneration, \* bound: generations counted by picking sources
    MaxInbox      \* bound: events waiting in a channel

ASSUME XrayLogsAssumption ==
    /\ ProbePanics \in BOOLEAN
    /\ MaxStarts \in Nat /\ MaxProbes \in Nat /\ MaxSaves \in Nat
    /\ MaxGeneration \in Nat
    /\ MaxInbox \in Nat \ {0}

VARIABLES
    page,        \* the Logs page is shown
    known,       \* DiscoveryState
    other,       \* another remote operation in flight
    ui,          \* XrayLogsUiState
    selected,    \* source shown
    entries,     \* where the shown lines come from: {<<kind, era>>}
    generation,
    probed,      \* sources_probed
    probe_rx,    \* the probe worker and its channel
    event_rx,    \* the read or follow worker whose events are polled, or 0
    inbox,       \* events waiting in that channel
    follow_stop, \* the follow worker whose stop flag the page holds, or 0
    workers,     \* workers spawned so far
    era,         \* log settings saved so far
    probes       \* counter: probes started

app     == <<page, known, other>>
shown   == <<ui, selected, entries, generation, probed>>
probing == <<probe_rx, probes>>
stream  == <<event_rx, inbox, follow_stop, workers>>
vars    == <<app, shown, probing, stream, era>>

Worker == [what : {"read", "follow"}, kind : Kinds, era : 0 .. MaxSaves,
           generation : Nat, stop : BOOLEAN,
           phase : {"connect", "poll", "ended"}]
Events == {"replace", "append", "failed", "stopped"}
NoProbe == [generation |-> 0, sent |-> "none"]

TypeOK ==
    /\ page \in BOOLEAN
    /\ known \in {"no", "discovering", "succeeded"}
    /\ other \in {"none", "busy", "save"}
    /\ ui \in {"idle", "loading", "following", "failed"}
    /\ selected \in Kinds
    /\ entries \subseteq Kinds \X (0 .. MaxSaves)
    /\ generation \in Nat
    /\ probed \in BOOLEAN
    /\ probe_rx \in [generation : Nat,
                     sent : {"none", "running", "ok", "error", "gone"}]
    /\ workers \in Seq(Worker)
    /\ event_rx \in 0 .. Len(workers)
    /\ inbox \in Seq(Events) /\ (event_rx = 0 => inbox = <<>>)
    /\ follow_stop \in 0 .. Len(workers)
    /\ era \in 0 .. MaxSaves
    /\ probes \in 0 .. MaxProbes

Init ==
    /\ page = FALSE /\ known = "no" /\ other = "none"
    /\ ui = "idle" /\ selected \in Kinds /\ entries = {}
    /\ generation = 0 /\ probed = FALSE
    /\ probe_rx = NoProbe /\ probes = 0
    /\ event_rx = 0 /\ inbox = <<>> /\ follow_stop = 0 /\ workers = <<>>
    /\ era = 0

AnyBusy ==
    \/ other # "none" \/ known = "discovering" \/ ui \in {"loading", "following"}

-----------------------------------------------------------------------------
(* Stopping and resetting.                                                 *)

MutStopKeepsRunning == workers' = workers /\ follow_stop' = 0

(* The flag is raised and the handle dropped; the channel stays.           *)
StopFollow ==
    /\ workers' = [w \in DOMAIN workers |->
          IF w = follow_stop THEN [workers[w] EXCEPT !.stop = TRUE]
                             ELSE workers[w]]
    /\ follow_stop' = 0

AfterStop == IF ui = "following" THEN "idle" ELSE ui

StopClicked ==
    /\ page /\ ui = "following"
    /\ StopFollow /\ ui' = AfterStop
    /\ UNCHANGED <<app, selected, entries, generation, probed, probing,
                   event_rx, inbox, era>>

Enter == /\ ~page /\ page' = TRUE
         /\ UNCHANGED <<known, other, shown, probing, stream, era>>

Leave ==
    /\ page /\ page' = FALSE
    /\ IF ui = "following"
       THEN StopFollow /\ ui' = AfterStop
       ELSE UNCHANGED <<workers, follow_stop, ui>>
    /\ UNCHANGED <<known, other, selected, entries, generation, probed,
                   probing, event_rx, inbox, era>>

(* A click on the page follows ensure_xray_log_sources_probed in its frame,*)
(* which starts a probe unless something else is running.                  *)
Clickable == page /\ known = "succeeded" /\ (probed \/ AnyBusy)

(* Another source may be picked while nothing is loading or following.     *)
SelectSource(kind) ==
    /\ Clickable /\ generation < MaxGeneration
    /\ kind # selected /\ ui \notin {"loading", "following"}
    /\ StopFollow
    /\ selected' = kind /\ entries' = {} /\ ui' = "idle"
    /\ generation' = generation + 1
    /\ event_rx' = 0 /\ inbox' = <<>>
    /\ UNCHANGED <<app, probed, probing, era>>

-----------------------------------------------------------------------------
(* Starting workers.                                                       *)

(* A new channel replaces the old one; the old worker talks to nobody.     *)
Spawn(what, state) ==
    /\ Len(workers) < MaxStarts
    /\ workers' = Append(workers,
          [what |-> what, kind |-> selected, era |-> era,
           generation |-> generation + 1, stop |-> FALSE,
           phase |-> "connect"])
    /\ event_rx' = Len(workers) + 1 /\ inbox' = <<>>
    /\ follow_stop' = IF what = "follow" THEN Len(workers) + 1 ELSE follow_stop
    /\ generation' = generation + 1
    /\ ui' = state

StartRead ==
    /\ Clickable /\ ~AnyBusy
    /\ Spawn("read", "loading")
    /\ UNCHANGED <<app, selected, entries, probed, probing, era>>

(* start_xray_log_follow stops an active follow session first; there is    *)
(* none, because it would be busy.                                         *)
StartFollow ==
    /\ Clickable /\ ~AnyBusy
    /\ Spawn("follow", "following")
    /\ UNCHANGED <<app, selected, entries, probed, probing, era>>

(* Every frame of the page, until the sources have been probed.            *)
EnsureProbed ==
    /\ page /\ ~probed /\ known = "succeeded" /\ ~AnyBusy
    /\ probes < MaxProbes /\ probes' = probes + 1
    /\ StopFollow
    /\ generation' = generation + 1
    /\ probe_rx' = [generation |-> generation + 1, sent |-> "running"]
    /\ ui' = "loading"
    /\ UNCHANGED <<app, selected, entries, probed, event_rx, inbox, era>>

-----------------------------------------------------------------------------
(* Workers.                                                                *)

ProbeWorker ==
    /\ probe_rx.sent = "running"
    /\ \E result \in {"ok", "error"} \union IF ProbePanics THEN {"gone"} ELSE {} :
          probe_rx' = [probe_rx EXCEPT !.sent = result]
    /\ UNCHANGED <<app, shown, probes, stream, era>>

(* Worker w emits events, which reach the page if it still listens, and    *)
(* goes on with the given phase.                                           *)
Emits(w, events, phase) ==
    /\ IF event_rx = w
       THEN /\ Len(inbox) + Len(events) <= MaxInbox + 2
            /\ inbox' = inbox \o events
       ELSE UNCHANGED inbox
    /\ workers' = [workers EXCEPT ![w].phase = phase]
    /\ UNCHANGED <<app, shown, probing, event_rx, follow_stop, era>>

(* Connects and reads the tail.  A read is then over; a follow goes on.    *)
FirstRead(w) ==
    /\ workers[w].phase = "connect"
    /\ \/ Emits(w, <<"failed">>, "ended")
       \/ Emits(w, <<"replace">>,
                IF workers[w].what = "read" THEN "ended" ELSE "poll")

(* One turn of the follow loop brings new lines or an error.               *)
FollowTurn(w) ==
    /\ workers[w].phase = "poll" /\ ~workers[w].stop
    /\ \/ /\ event_rx = w /\ Len(inbox) < MaxInbox
          /\ Emits(w, <<"append">>, "poll")
       \/ Emits(w, <<"failed", "stopped">>, "ended")

(* The loop looks at the flag before and after each read.                  *)
StopSeen(w) ==
    /\ workers[w].phase = "poll" /\ workers[w].stop
    /\ \/ Emits(w, <<"stopped">>, "ended")
       \/ /\ event_rx = w /\ Len(inbox) < MaxInbox
          /\ Emits(w, <<"append", "stopped">>, "ended")

Panic(w) ==
    /\ workers[w].phase # "ended" /\ Emits(w, <<>>, "ended")

-----------------------------------------------------------------------------
(* Polling: poll_xray_logs, once per frame.                                *)

(* A probe that found the sources loads the selected one at once.          *)
PollProbe ==
    /\ probe_rx.sent \in {"ok", "error", "gone"}
    /\ probe_rx' = NoProbe
    /\ \/ /\ probe_rx.sent = "ok" /\ probe_rx.generation = generation
          /\ probed' = TRUE
          /\ IF ui = "loading" /\ event_rx = 0
             THEN IF entries = {} /\ other = "none" /\ known = "succeeded"
                     /\ Len(workers) < MaxStarts
                  THEN Spawn("read", "loading")
                  ELSE ui' = "idle" /\ UNCHANGED <<generation, stream>>
             ELSE UNCHANGED <<ui, generation, stream>>
       \/ /\ probe_rx.sent = "error" /\ probe_rx.generation = generation
          /\ probed' = TRUE /\ ui' = "failed"
          /\ UNCHANGED <<generation, stream>>
       \/ /\ probe_rx.sent = "gone" \/ probe_rx.generation # generation
          /\ UNCHANGED <<probed, ui, generation, stream>>
    /\ UNCHANGED <<app, selected, entries, probes, era>>

(* apply_xray_log_event for the worker that is listened to.                *)
Current == workers[event_rx].generation = generation

(* What a replace or append brings to the page.                            *)
Lines == {<<workers[event_rx].kind, workers[event_rx].era>>}

(* Loses the channel, with whatever is still in it.                        *)
CloseChannel == event_rx' = 0 /\ inbox' = <<>>
NextEvent == UNCHANGED event_rx /\ inbox' = Tail(inbox)

PollReplace ==
    /\ inbox # <<>> /\ Head(inbox) = "replace"
    /\ IF Current /\ workers[event_rx].kind = selected
       THEN /\ entries' = Lines
            /\ ui' = IF ui = "following" THEN ui ELSE "idle"
       ELSE UNCHANGED <<entries, ui>>
    /\ IF ui' = "following" THEN NextEvent ELSE CloseChannel
    /\ UNCHANGED <<app, selected, generation, probed, probing, follow_stop,
                   workers, era>>

PollAppend ==
    /\ inbox # <<>> /\ Head(inbox) = "append"
    /\ entries' = IF Current /\ workers[event_rx].kind = selected
                  THEN entries \union Lines ELSE entries
    /\ NextEvent
    /\ UNCHANGED <<app, ui, selected, generation, probed, probing,
                   follow_stop, workers, era>>

PollFailed ==
    /\ inbox # <<>> /\ Head(inbox) = "failed"
    /\ IF Current
       THEN ui' = "failed" /\ follow_stop' = 0
       ELSE UNCHANGED <<ui, follow_stop>>
    /\ CloseChannel
    /\ UNCHANGED <<app, selected, entries, generation, probed, probing,
                   workers, era>>

PollStopped ==
    /\ inbox # <<>> /\ Head(inbox) = "stopped"
    /\ IF Current
       THEN ui' = AfterStop /\ follow_stop' = 0
       ELSE UNCHANGED <<ui, follow_stop>>
    /\ CloseChannel
    /\ UNCHANGED <<app, selected, entries, generation, probed, probing,
                   workers, era>>

MutPollDisconnected ==
    /\ event_rx # 0 /\ inbox = <<>> /\ workers[event_rx].phase = "ended"
    /\ CloseChannel
    /\ IF ui = "following" THEN ui' = "failed" /\ follow_stop' = 0
                           ELSE UNCHANGED <<ui, follow_stop>>
    /\ UNCHANGED <<app, selected, entries, generation, probed, probing,
                   workers, era>>

(* The channel of a worker that ended is empty.                            *)
PollDisconnected ==
    /\ event_rx # 0 /\ inbox = <<>> /\ workers[event_rx].phase = "ended"
    /\ CloseChannel
    /\ ui' = IF ui \in {"following", "loading"} THEN "failed" ELSE ui
    /\ follow_stop' = IF ui = "following" THEN 0 ELSE follow_stop
    /\ UNCHANGED <<app, selected, entries, generation, probed, probing,
                   workers, era>>

-----------------------------------------------------------------------------
(* The rest of the application.                                            *)

OtherStarts ==
    /\ ~AnyBusy /\ other' = "busy"
    /\ UNCHANGED <<page, known, shown, probing, stream, era>>

SaveStarts ==
    /\ ~AnyBusy /\ known = "succeeded" /\ era < MaxSaves /\ other' = "save"
    /\ UNCHANGED <<page, known, shown, probing, stream, era>>

OtherEnds ==
    /\ other # "none" /\ other' = "none"
    /\ UNCHANGED <<page, known, shown, probing, stream, era>>

(* seed_xray_log_sources prefers a readable source.                        *)
Seed == probed' = FALSE /\ selected' \in Kinds

MutSaveSameGeneration ==
    /\ other = "save" /\ other' = "none"
    /\ era' = era + 1
    /\ StopFollow /\ ui' = AfterStop
    /\ entries' = {} /\ Seed /\ UNCHANGED generation
    /\ UNCHANGED <<page, known, probing, event_rx, inbox>>

(* poll_log_settings_mutation, success.                                    *)
SaveSucceeds ==
    /\ other = "save" /\ other' = "none"
    /\ era' = era + 1
    /\ StopFollow /\ ui' = AfterStop
    /\ entries' = {} /\ generation' = generation + 1 /\ Seed
    /\ UNCHANGED <<page, known, probing, event_rx, inbox>>

(* can_start_discovery does not ask the Logs page; start_discovery resets  *)
(* it.  Of the other operations, it waits for a log settings save.         *)
StartDiscovery ==
    /\ known # "discovering" /\ other # "save" /\ known' = "discovering"
    /\ StopFollow
    /\ ui' = "idle" /\ selected' \in Kinds /\ entries' = {}
    /\ generation' = 0 /\ probed' = FALSE
    /\ probe_rx' = NoProbe /\ event_rx' = 0 /\ inbox' = <<>>
    /\ UNCHANGED <<page, other, probes, era>>

PollDiscovery ==
    /\ known = "discovering"
    /\ \/ known' = "succeeded" /\ Seed
       \/ known' = "no" /\ UNCHANGED <<probed, selected>>
    /\ UNCHANGED <<page, other, ui, entries, generation, probing, stream, era>>

-----------------------------------------------------------------------------
Click ==
    \/ Enter \/ Leave \/ StopClicked \/ StartRead \/ StartFollow
    \/ \E kind \in Kinds : SelectSource(kind)

Poll == PollReplace \/ PollAppend \/ PollFailed \/ PollStopped \/ PollDisconnected

Rest == OtherStarts \/ SaveStarts \/ OtherEnds \/ SaveSucceeds
        \/ StartDiscovery \/ PollDiscovery

Next ==
    \/ Click \/ EnsureProbed \/ ProbeWorker \/ PollProbe \/ Poll \/ Rest
    \/ \E w \in DOMAIN workers : FirstRead(w) \/ FollowTurn(w) \/ StopSeen(w) \/ Panic(w)

Spec == Init /\ [][Next]_vars

(* Workers come back from their remote calls; every frame polls.  Nothing  *)
(* makes a follow fail or its log grow.                                    *)
FairSpec ==
    /\ Spec
    /\ WF_vars(ProbeWorker) /\ WF_vars(PollProbe) /\ WF_vars(Poll)
    /\ \A w \in 1 .. MaxStarts :
          WF_vars(w \in DOMAIN workers /\ (FirstRead(w) \/ StopSeen(w)))

-----------------------------------------------------------------------------
(* Properties.                                                             *)

(* The page only shows lines of the selected source, read with the log     *)
(* settings now loaded: whatever a stopped or superseded worker still      *)
(* sends is rejected (the generation check of apply_xray_log_event).       *)
NothingStaleShown == entries \subseteq {<<selected, era>>}

(* A follow worker that is neither the page's nor over has been told to    *)
(* stop: no session is left reading a log on the server for nobody         *)
(* (stop_follow, and every place that drops follow_stop).                  *)
NoOrphanFollow ==
    \A w \in DOMAIN workers :
        workers[w].what = "follow" /\ workers[w].phase # "ended"
        /\ ~workers[w].stop => ui = "following" /\ follow_stop = w

(* A reading the page listens to and a probe that answered end Loading,    *)
(* and with it the block on every other operation (is_any_remote_busy),    *)
(* whatever the worker's end.                                              *)
LoadingEnds ==
    (/\ ui = "loading"
     /\ IF event_rx # 0 THEN Current ELSE probe_rx.sent \in {"ok", "error"})
        ~> ui # "loading"

(* A follow the page no longer holds ends its session, whichever way the   *)
(* page let go of it: Stop, leaving the page, another source, a rediscovery*)
(* (stop_follow and the stop checks of the follow loop).                   *)
AbandonedFollowEnds ==
    \A w \in 1 .. MaxStarts :
        (w \in DOMAIN workers /\ workers[w].what = "follow" /\ follow_stop # w)
            ~> (w \in DOMAIN workers /\ workers[w].phase = "ended")
=============================================================================
