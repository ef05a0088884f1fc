--------------------------- MODULE XrayLogsProofs ---------------------------
(***************************************************************************)
(* The Logs page shows nothing stale and leaves no session reading for     *)
(* nobody, for any set of sources and any number of workers, probes, saves *)
(* and generations.  Neither property is inductive: whether an event may   *)
(* change the page depends on the generation its worker was given          *)
(* ("Marked"), and whether an ended channel may drop the stop flag on the  *)
(* channel and the flag being the same worker's ("Routed").                *)
(***************************************************************************)
EXTENDS XrayLogs, TLAPS

Live(w) == workers[w].what = "follow" /\ workers[w].phase # "ended" /\ ~workers[w].stop

(* A follow that was not told to stop is the one the page holds, listens   *)
(* to and takes for current, and no probe is.                              *)
Routed ==
    \A w \in DOMAIN workers : Live(w) =>
        /\ ui = "following" /\ follow_stop = w /\ event_rx = w
        /\ workers[w].generation = generation
        /\ probe_rx.generation < generation

(* The worker listened to is no newer than the page; of the same           *)
(* generation, it reads with the log settings now loaded.                  *)
Marked ==
    event_rx # 0 =>
        /\ workers[event_rx].generation <= generation
        /\ workers[event_rx].generation = generation => workers[event_rx].era = era

(* A worker says that it failed or stopped when it ends.                   *)
Final ==
    \A k \in 1 .. Len(inbox) :
        inbox[k] \in {"failed", "stopped"} => workers[event_rx].phase = "ended"

(* What the page has reset when a discovery runs, and what a save waits    *)
(* for.                                                                    *)
Reset ==
    /\ known = "discovering" => event_rx = 0 /\ entries = {}
    /\ other = "save" => era < MaxSaves
    /\ probe_rx.generation <= generation

Inv == TypeOK /\ Routed /\ Marked /\ Final /\ Reset /\ NothingStaleShown

USE XrayLogsAssumption

-----------------------------------------------------------------------------
(* What a worker's entry is made of.                                       *)
LEMMA Entry ==
    ASSUME TypeOK
    PROVE  /\ DOMAIN workers = 1 .. Len(workers) /\ Len(workers) \in Nat
           /\ \A w \in 1 .. Len(workers) :
                /\ workers[w] \in Worker
                /\ workers[w].kind \in Kinds /\ workers[w].era \in 0 .. MaxSaves
                /\ workers[w].generation \in Nat /\ workers[w].stop \in BOOLEAN
<1>1. workers \in Seq(Worker)
    BY DEF TypeOK
<1>2. DOMAIN workers = 1 .. Len(workers) /\ Len(workers) \in Nat
      /\ \A w \in 1 .. Len(workers) : workers[w] \in Worker
    BY <1>1
<1>3. ASSUME NEW r \in Worker
      PROVE  /\ r.kind \in Kinds /\ r.era \in 0 .. MaxSaves
             /\ r.generation \in Nat /\ r.stop \in BOOLEAN
    BY DEF Worker
<1> QED
    BY <1>2, <1>3

(* StopFollow changes the stop flag of the follow the page held, and       *)
(* nothing else of any worker.                                             *)
LEMMA Halted ==
    ASSUME TypeOK, StopFollow
    PROVE  /\ workers' \in Seq(Worker) /\ Len(workers') = Len(workers)
           /\ follow_stop' = 0
           /\ \A w \in 1 .. Len(workers) :
                /\ workers'[w].what = workers[w].what
                /\ workers'[w].era = workers[w].era
                /\ workers'[w].generation = workers[w].generation
                /\ workers'[w].phase = workers[w].phase
                /\ workers[w].stop => workers'[w].stop
                /\ w = follow_stop => workers'[w].stop
<1>1. DOMAIN workers = 1 .. Len(workers) /\ Len(workers) \in Nat
    BY Entry
<1>2. workers' = [w \in 1 .. Len(workers) |->
          IF w = follow_stop THEN [workers[w] EXCEPT !.stop = TRUE] ELSE workers[w]]
    BY <1>1 DEF StopFollow
<1>3. \A w \in 1 .. Len(workers) : [workers[w] EXCEPT !.stop = TRUE] \in Worker
    BY Entry DEF Worker
<1>4. \A w \in 1 .. Len(workers) : workers'[w] \in Worker
    BY <1>2, <1>3, Entry
<1>5. workers' \in [1 .. Len(workers) -> Worker]
    BY <1>2, <1>4
<1>6. workers' \in Seq(Worker) /\ Len(workers') = Len(workers)
    BY <1>1, <1>5
<1>7. ASSUME NEW w \in 1 .. Len(workers)
      PROVE  /\ workers'[w].what = workers[w].what
             /\ workers'[w].era = workers[w].era
             /\ workers'[w].generation = workers[w].generation
             /\ workers'[w].phase = workers[w].phase
             /\ workers[w].stop => workers'[w].stop
             /\ w = follow_stop => workers'[w].stop
    <2>1. workers[w] \in Worker
        BY Entry
    <2>2. workers'[w] = IF w = follow_stop THEN [workers[w] EXCEPT !.stop = TRUE]
                                          ELSE workers[w]
        BY <1>2
    <2> QED
        BY <2>1, <2>2 DEF Worker
<1> QED
    BY <1>6, <1>7 DEF StopFollow

(* After it no follow goes on untold.                                      *)
LEMMA NoneLive ==
    ASSUME TypeOK, Routed, StopFollow
    PROVE  \A w \in DOMAIN workers' : ~Live(w)'
<1>1. DOMAIN workers' = 1 .. Len(workers) /\ DOMAIN workers = 1 .. Len(workers)
    BY Halted, Entry
<1>2. ASSUME NEW w \in 1 .. Len(workers) PROVE ~Live(w)'
    <2>1. Live(w) => w = follow_stop
        BY <1>1 DEF Routed
    <2> QED
        BY <2>1, Halted DEF Live
<1> QED
    BY <1>1, <1>2

(* Spawn adds one worker, and the page listens to it.                      *)
LEMMA Spawned ==
    ASSUME TypeOK, NEW what \in {"read", "follow"}, NEW state, Spawn(what, state)
    PROVE  /\ workers' \in Seq(Worker) /\ Len(workers') = Len(workers) + 1
           /\ \A w \in 1 .. Len(workers) : workers'[w] = workers[w]
           /\ workers'[Len(workers) + 1] =
                [what |-> what, kind |-> selected, era |-> era,
                 generation |-> generation + 1, stop |-> FALSE, phase |-> "connect"]
           /\ event_rx' = Len(workers) + 1 /\ inbox' = <<>>
           /\ generation' = generation + 1 /\ ui' = state
           /\ follow_stop' = IF what = "follow" THEN Len(workers) + 1 ELSE follow_stop
<1> DEFINE new == [what |-> what, kind |-> selected, era |-> era,
                   generation |-> generation + 1, stop |-> FALSE, phase |-> "connect"]
<1>1. new \in Worker
    BY DEF TypeOK, Worker
<1>2. workers \in Seq(Worker)
    BY DEF TypeOK
<1>3. workers' = Append(workers, new)
    BY DEF Spawn
<1> HIDE DEF new
<1>4. /\ workers' \in Seq(Worker) /\ Len(workers') = Len(workers) + 1
      /\ \A w \in 1 .. Len(workers) : workers'[w] = workers[w]
      /\ workers'[Len(workers) + 1] = new
    BY <1>1, <1>2, <1>3
<1> QED
    BY <1>4 DEF new, Spawn

(* Emits gives one worker its next phase and sends to whoever listens.     *)
LEMMA Emitted ==
    ASSUME TypeOK, NEW w \in DOMAIN workers, NEW events \in Seq(Events),
           NEW phase \in {"connect", "poll", "ended"}, Emits(w, events, phase)
    PROVE  /\ workers' \in Seq(Worker) /\ Len(workers') = Len(workers)
           /\ inbox' = IF event_rx = w THEN inbox \o events ELSE inbox
           /\ \A v \in 1 .. Len(workers) :
                /\ workers'[v].what = workers[v].what
                /\ workers'[v].era = workers[v].era
                /\ workers'[v].generation = workers[v].generation
                /\ workers'[v].stop = workers[v].stop
                /\ workers'[v].phase = IF v = w THEN phase ELSE workers[v].phase
<1>1. DOMAIN workers = 1 .. Len(workers) /\ Len(workers) \in Nat
      /\ workers \in Seq(Worker) /\ w \in 1 .. Len(workers)
    BY Entry DEF TypeOK
<1>2. workers[w] \in Worker
    BY <1>1, Entry
<1>3. [workers[w] EXCEPT !.phase = phase] \in Worker
    BY <1>2 DEF Worker
<1>4. workers' = [workers EXCEPT ![w] = [workers[w] EXCEPT !.phase = phase]]
    BY DEF Emits
<1>5. workers' \in Seq(Worker) /\ Len(workers') = Len(workers)
    BY <1>1, <1>3, <1>4
<1>6. ASSUME NEW v \in 1 .. Len(workers)
      PROVE  /\ workers'[v].what = workers[v].what
             /\ workers'[v].era = workers[v].era
             /\ workers'[v].generation = workers[v].generation
             /\ workers'[v].stop = workers[v].stop
             /\ workers'[v].phase = IF v = w THEN phase ELSE workers[v].phase
    <2>1. workers'[v] = IF v = w THEN [workers[w] EXCEPT !.phase = phase] ELSE workers[v]
        BY <1>1, <1>4
    <2>2. workers[v] \in Worker
        BY Entry
    <2>3. CASE v = w
        <3>1. workers'[v] = [workers[w] EXCEPT !.phase = phase]
            BY <2>1, <2>3
        <3> QED
            BY <1>2, <2>3, <3>1 DEF Worker
    <2>4. CASE v # w
        BY <2>1, <2>4
    <2> QED
        BY <2>3, <2>4
<1> QED
    BY <1>5, <1>6 DEF Emits

-----------------------------------------------------------------------------
(* Steps that leave the page's reading alone.                              *)
LEMMA Untouched ==
    ASSUME Inv, UNCHANGED <<shown, probes, stream, era>>,
           page' \in BOOLEAN, known' \in {"no", "discovering", "succeeded"},
           other' \in {"none", "busy", "save"},
           probe_rx' \in [generation : Nat,
                          sent : {"none", "running", "ok", "error", "gone"}],
           probe_rx'.generation = probe_rx.generation,
           known' = "discovering" => known = "discovering",
           other' = "save" => era < MaxSaves
    PROVE  Inv'
<1>1. TypeOK'
    BY DEF Inv, TypeOK, shown, stream
<1>2. Routed'
    BY DEF Inv, Routed, Live, shown, stream
<1>3. Marked' /\ Final' /\ NothingStaleShown'
    BY DEF Inv, Marked, Final, NothingStaleShown, shown, stream
<1>4. Reset'
    BY DEF Inv, Reset, shown, stream
<1> QED
    BY <1>1, <1>2, <1>3, <1>4 DEF Inv

LEMMA CalmStep ==
    ASSUME Inv, Enter \/ OtherStarts \/ SaveStarts \/ OtherEnds \/ UNCHANGED vars
    PROVE  Inv'
<1>1. TypeOK /\ Reset
    BY DEF Inv
<1>2. CASE Enter
    BY <1>1, <1>2, Untouched DEF Enter, TypeOK, Reset, probing
<1>3. CASE OtherStarts
    BY <1>1, <1>3, Untouched DEF OtherStarts, TypeOK, Reset, probing
<1>4. CASE SaveStarts
    BY <1>1, <1>4, Untouched DEF SaveStarts, TypeOK, Reset, probing
<1>5. CASE OtherEnds
    BY <1>1, <1>5, Untouched DEF OtherEnds, TypeOK, Reset, probing
<1>6. CASE UNCHANGED vars
    BY <1>1, <1>6, Untouched DEF vars, app, TypeOK, Reset, probing
<1> QED
    BY <1>2, <1>3, <1>4, <1>5, <1>6

LEMMA ProbeWorkerStep == ASSUME Inv, ProbeWorker PROVE Inv'
<1>1. TypeOK /\ Reset
    BY DEF Inv
<1>2. /\ probe_rx' \in [generation : Nat,
                        sent : {"none", "running", "ok", "error", "gone"}]
      /\ probe_rx'.generation = probe_rx.generation
    BY <1>1 DEF ProbeWorker, TypeOK
<1> QED
    BY <1>1, <1>2, Untouched DEF ProbeWorker, app, TypeOK, Reset

LEMMA PollDiscoveryStep == ASSUME Inv, PollDiscovery PROVE Inv'
<1>1. TypeOK'
    BY DEF Inv, PollDiscovery, TypeOK, Seed, probing, stream
<1>2. Routed' /\ Marked' /\ Final'
    BY DEF Inv, PollDiscovery, Routed, Live, Marked, Final, probing, stream
<1>3. Reset' /\ NothingStaleShown'
    BY DEF Inv, PollDiscovery, Reset, NothingStaleShown, Seed, probing, stream
<1> QED
    BY <1>1, <1>2, <1>3 DEF Inv

-----------------------------------------------------------------------------
(* Steps that stop a follow.                                               *)

(* What is left after StopFollow when the channel stays as it was, the     *)
(* generation no smaller and, if the settings changed, larger.             *)
LEMMA StoppedInv ==
    ASSUME Inv, StopFollow, UNCHANGED <<event_rx, inbox>>,
           generation' \in Nat, generation' >= generation,
           era' = era \/ generation' > generation
    PROVE  Routed' /\ Marked' /\ Final'
<1>1. TypeOK
    BY DEF Inv
<1>2. Routed'
    BY <1>1, NoneLive DEF Inv, Routed
<1>3. event_rx \in 0 .. Len(workers) /\ generation \in Nat
    BY <1>1 DEF TypeOK
<1>4. Marked'
    <2>1. SUFFICES ASSUME event_rx # 0
                   PROVE  /\ workers'[event_rx].generation <= generation'
                          /\ workers'[event_rx].generation = generation'
                                => workers'[event_rx].era = era'
        BY DEF Marked
    <2>2. event_rx \in 1 .. Len(workers)
        BY <1>3, <2>1
    <2>3. workers[event_rx].generation \in Nat
        BY <1>1, <2>2, Entry
    <2>4. /\ workers'[event_rx].generation = workers[event_rx].generation
          /\ workers'[event_rx].era = workers[event_rx].era
        BY <1>1, <2>2, Halted
    <2>5. /\ workers[event_rx].generation <= generation
          /\ workers[event_rx].generation = generation => workers[event_rx].era = era
        BY <2>1 DEF Inv, Marked
    <2> QED
        BY <1>3, <2>3, <2>4, <2>5
<1>5. Final'
    <2>1. SUFFICES ASSUME NEW k \in 1 .. Len(inbox), inbox[k] \in {"failed", "stopped"}
                   PROVE  workers'[event_rx].phase = "ended"
        BY DEF Final
    <2>2. event_rx # 0
        BY <1>1, <2>1 DEF TypeOK
    <2>3. event_rx \in 1 .. Len(workers)
        BY <1>3, <2>2
    <2> QED
        BY <1>1, <2>1, <2>3, Halted DEF Inv, Final
<1> QED
    BY <1>2, <1>4, <1>5

(* The same when the channel is dropped.                                   *)
LEMMA DroppedInv ==
    ASSUME Inv, StopFollow, event_rx' = 0, inbox' = <<>>
    PROVE  Routed' /\ Marked' /\ Final'
<1>1. Routed'
    BY NoneLive DEF Inv, Routed
<1>2. Marked' /\ Final'
    BY DEF Marked, Final
<1> QED
    BY <1>1, <1>2

LEMMA StopClickedStep == ASSUME Inv, StopClicked PROVE Inv'
<1>1. StopFollow /\ UNCHANGED <<event_rx, inbox, generation, era>>
    BY DEF StopClicked
<1>2. TypeOK /\ Reset /\ NothingStaleShown /\ generation \in Nat
    BY DEF Inv, TypeOK
<1>3. Routed' /\ Marked' /\ Final'
    BY <1>1, <1>2, StoppedInv
<1>4. workers' \in Seq(Worker) /\ Len(workers') = Len(workers) /\ follow_stop' = 0
    BY <1>1, <1>2, Halted
<1>5. 0 \in 0 .. Len(workers)
    BY <1>2, Entry
<1>6. TypeOK'
    BY <1>2, <1>4, <1>5 DEF StopClicked, TypeOK, AfterStop, app, probing
<1>7. Reset' /\ NothingStaleShown'
    BY <1>2 DEF StopClicked, Reset, NothingStaleShown, app, probing
<1> QED
    BY <1>3, <1>6, <1>7 DEF Inv

LEMMA LeaveStep == ASSUME Inv, Leave PROVE Inv'
<1>1. TypeOK /\ Reset /\ NothingStaleShown /\ generation \in Nat
    BY DEF Inv, TypeOK
<1>2. CASE ui = "following"
    <2>1. StopFollow /\ UNCHANGED <<event_rx, inbox, generation, era>>
        BY <1>2 DEF Leave
    <2>2. Routed' /\ Marked' /\ Final'
        BY <1>1, <2>1, StoppedInv
    <2>3. workers' \in Seq(Worker) /\ Len(workers') = Len(workers) /\ follow_stop' = 0
        BY <1>1, <2>1, Halted
    <2>4. 0 \in 0 .. Len(workers)
        BY <1>1, Entry
    <2>5. TypeOK'
        BY <1>1, <1>2, <2>3, <2>4 DEF Leave, TypeOK, AfterStop, probing
    <2>6. Reset' /\ NothingStaleShown'
        BY <1>1 DEF Leave, Reset, NothingStaleShown, probing
    <2> QED
        BY <2>2, <2>5, <2>6 DEF Inv
<1>3. CASE ui # "following"
    <2>1. UNCHANGED <<shown, probes, stream, era>>
        BY <1>3 DEF Leave, shown, stream, probing
    <2> QED
        BY <1>1, <2>1, Untouched DEF Leave, TypeOK, Reset, probing
<1> QED
    BY <1>2, <1>3

LEMMA SelectSourceStep ==
    ASSUME Inv, NEW kind \in Kinds, SelectSource(kind) PROVE Inv'
<1>1. StopFollow /\ event_rx' = 0 /\ inbox' = <<>>
    BY DEF SelectSource
<1>2. TypeOK /\ Reset
    BY DEF Inv
<1>3. Routed' /\ Marked' /\ Final'
    BY <1>1, DroppedInv
<1>4. workers' \in Seq(Worker) /\ Len(workers') = Len(workers) /\ follow_stop' = 0
      /\ 0 \in 0 .. Len(workers)
    BY <1>1, <1>2, Halted, Entry
<1>5. TypeOK'
    BY <1>2, <1>4 DEF SelectSource, TypeOK, app, probing
<1>6. Reset' /\ NothingStaleShown'
    BY <1>2 DEF SelectSource, Reset, NothingStaleShown, TypeOK, app, probing
<1> QED
    BY <1>3, <1>5, <1>6 DEF Inv

LEMMA EnsureProbedStep == ASSUME Inv, EnsureProbed PROVE Inv'
<1>1. StopFollow /\ UNCHANGED <<event_rx, inbox, era>> /\ generation' = generation + 1
    BY DEF EnsureProbed
<1>2. TypeOK /\ Reset /\ NothingStaleShown /\ generation \in Nat
    BY DEF Inv, TypeOK
<1>3. Routed' /\ Marked' /\ Final'
    BY <1>1, <1>2, StoppedInv
<1>4. workers' \in Seq(Worker) /\ Len(workers') = Len(workers) /\ follow_stop' = 0
      /\ 0 \in 0 .. Len(workers)
    BY <1>1, <1>2, Halted, Entry
<1>5. TypeOK'
    BY <1>2, <1>4 DEF EnsureProbed, TypeOK, app
<1>6. Reset' /\ NothingStaleShown'
    BY <1>2 DEF EnsureProbed, Reset, NothingStaleShown, app
<1> QED
    BY <1>3, <1>5, <1>6 DEF Inv

LEMMA SaveSucceedsStep == ASSUME Inv, SaveSucceeds PROVE Inv'
<1>1. StopFollow /\ UNCHANGED <<event_rx, inbox>> /\ generation' = generation + 1
    BY DEF SaveSucceeds
<1>2. TypeOK /\ Reset /\ NothingStaleShown /\ generation \in Nat
    BY DEF Inv, TypeOK
<1>3. Routed' /\ Marked' /\ Final'
    BY <1>1, <1>2, StoppedInv
<1>4. workers' \in Seq(Worker) /\ Len(workers') = Len(workers) /\ follow_stop' = 0
      /\ 0 \in 0 .. Len(workers)
    BY <1>1, <1>2, Halted, Entry
<1>5. era' \in 0 .. MaxSaves
    BY <1>2 DEF SaveSucceeds, TypeOK, Reset
<1>6. TypeOK'
    <2>1. entries' \subseteq Kinds \X (0 .. MaxSaves)
        BY DEF SaveSucceeds
    <2>2. ui' \in {"idle", "loading", "following", "failed"}
        BY <1>2 DEF SaveSucceeds, AfterStop, TypeOK
    <2>3. /\ event_rx' \in 0 .. Len(workers') /\ follow_stop' \in 0 .. Len(workers')
          /\ inbox' \in Seq(Events) /\ (event_rx' = 0 => inbox' = <<>>)
        BY <1>1, <1>2, <1>4 DEF TypeOK
    <2>4. /\ probe_rx' = probe_rx /\ probes' = probes /\ page' = page /\ known' = known
          /\ other' = "none" /\ selected' \in Kinds /\ probed' = FALSE
        BY DEF SaveSucceeds, Seed, probing
    <2>5. generation' \in Nat
        BY <1>1, <1>2
    <2> QED
        BY <1>2, <1>4, <1>5, <2>1, <2>2, <2>3, <2>4, <2>5 DEF TypeOK
<1>7. Reset' /\ NothingStaleShown'
    BY <1>2 DEF SaveSucceeds, Reset, NothingStaleShown, TypeOK, probing
<1> QED
    BY <1>3, <1>6, <1>7 DEF Inv

LEMMA StartDiscoveryStep == ASSUME Inv, StartDiscovery PROVE Inv'
<1>1. StopFollow /\ event_rx' = 0 /\ inbox' = <<>>
    BY DEF StartDiscovery
<1>2. TypeOK /\ Reset
    BY DEF Inv
<1>3. Routed' /\ Marked' /\ Final'
    BY <1>1, DroppedInv
<1>4. workers' \in Seq(Worker) /\ Len(workers') = Len(workers) /\ follow_stop' = 0
      /\ 0 \in 0 .. Len(workers)
    BY <1>1, <1>2, Halted, Entry
<1>5. TypeOK'
    <2>1. entries' \subseteq Kinds \X (0 .. MaxSaves)
        BY DEF StartDiscovery
    <2>2. /\ event_rx' \in 0 .. Len(workers') /\ follow_stop' \in 0 .. Len(workers')
          /\ inbox' \in Seq(Events)
        BY <1>1, <1>4
    <2>3. probe_rx' \in [generation : Nat,
                         sent : {"none", "running", "ok", "error", "gone"}]
        BY DEF StartDiscovery, NoProbe
    <2>4. /\ page' = page /\ known' = "discovering" /\ other' = other /\ ui' = "idle"
          /\ selected' \in Kinds /\ generation' = 0 /\ probed' = FALSE
          /\ era' = era /\ probes' = probes /\ inbox' = <<>>
        BY DEF StartDiscovery
    <2> QED
        BY <1>2, <1>4, <2>1, <2>2, <2>3, <2>4 DEF TypeOK
<1>6. Reset' /\ NothingStaleShown'
    BY <1>2 DEF StartDiscovery, Reset, NothingStaleShown, NoProbe
<1> QED
    BY <1>3, <1>5, <1>6 DEF Inv

-----------------------------------------------------------------------------
(* Steps that start a worker.                                              *)
LEMMA SpawnedInv ==
    ASSUME Inv, NEW what \in {"read", "follow"}, NEW state, Spawn(what, state),
           ui # "following", what = "follow" => state = "following",
           era' = era, probe_rx'.generation \in Nat,
           probe_rx'.generation <= generation
    PROVE  /\ Routed' /\ Marked' /\ Final'
           /\ workers' \in Seq(Worker) /\ inbox' = <<>>
           /\ event_rx' \in 1 .. Len(workers') /\ follow_stop' \in 0 .. Len(workers')
           /\ generation' = generation + 1 /\ ui' = state
<1> DEFINE last == Len(workers) + 1
<1>1. TypeOK /\ generation \in Nat
    BY DEF Inv, TypeOK
<1>2. /\ workers' \in Seq(Worker) /\ Len(workers') = last
      /\ \A w \in 1 .. Len(workers) : workers'[w] = workers[w]
      /\ workers'[last] = [what |-> what, kind |-> selected, era |-> era,
                           generation |-> generation + 1, stop |-> FALSE,
                           phase |-> "connect"]
      /\ event_rx' = last /\ inbox' = <<>> /\ generation' = generation + 1 /\ ui' = state
      /\ follow_stop' = IF what = "follow" THEN last ELSE follow_stop
    BY <1>1, Spawned
<1>3. DOMAIN workers = 1 .. Len(workers) /\ Len(workers) \in Nat
      /\ DOMAIN workers' = 1 .. last
    BY <1>1, <1>2, Entry
<1> HIDE DEF last
<1>4. ASSUME NEW w \in DOMAIN workers', Live(w)'
      PROVE  /\ ui' = "following" /\ follow_stop' = w /\ event_rx' = w
             /\ workers'[w].generation = generation'
             /\ probe_rx'.generation < generation'
    <2>1. CASE w \in 1 .. Len(workers)
        <3>1. Live(w)
            BY <1>2, <1>4, <2>1 DEF Live
        <3> QED
            BY <1>3, <2>1, <3>1 DEF Inv, Routed
    <2>2. CASE w = last
        <3>1. what = "follow"
            BY <1>2, <1>4, <2>2 DEF Live
        <3> QED
            BY <1>1, <1>2, <2>2, <3>1
    <2> QED
        BY <1>3, <2>1, <2>2 DEF last
<1>5. Marked'
    BY <1>1, <1>2 DEF Marked
<1>6. Final'
    BY <1>2 DEF Final
<1>7. event_rx' \in 1 .. Len(workers') /\ follow_stop' \in 0 .. Len(workers')
    BY <1>1, <1>2, <1>3 DEF last, TypeOK
<1> QED
    BY <1>2, <1>4, <1>5, <1>6, <1>7 DEF Routed

LEMMA StartReadStep == ASSUME Inv, StartRead PROVE Inv'
<1>1. TypeOK /\ Reset /\ NothingStaleShown /\ generation \in Nat
      /\ probe_rx.generation \in Nat
    BY DEF Inv, TypeOK
<1>2. /\ Routed' /\ Marked' /\ Final'
      /\ workers' \in Seq(Worker) /\ inbox' = <<>>
      /\ event_rx' \in 1 .. Len(workers') /\ follow_stop' \in 0 .. Len(workers')
      /\ generation' = generation + 1 /\ ui' = "loading"
    BY <1>1, SpawnedInv DEF StartRead, AnyBusy, probing, Reset
<1>3. TypeOK'
    BY <1>1, <1>2 DEF StartRead, TypeOK, app, probing
<1>4. Reset' /\ NothingStaleShown'
    BY <1>1, <1>2 DEF StartRead, Clickable, Reset, NothingStaleShown, app, probing
<1> QED
    BY <1>2, <1>3, <1>4 DEF Inv

LEMMA StartFollowStep == ASSUME Inv, StartFollow PROVE Inv'
<1>1. TypeOK /\ Reset /\ NothingStaleShown /\ generation \in Nat
      /\ probe_rx.generation \in Nat
    BY DEF Inv, TypeOK
<1>2. /\ Routed' /\ Marked' /\ Final'
      /\ workers' \in Seq(Worker) /\ inbox' = <<>>
      /\ event_rx' \in 1 .. Len(workers') /\ follow_stop' \in 0 .. Len(workers')
      /\ generation' = generation + 1 /\ ui' = "following"
    BY <1>1, SpawnedInv DEF StartFollow, AnyBusy, probing, Reset
<1>3. TypeOK'
    BY <1>1, <1>2 DEF StartFollow, TypeOK, app, probing
<1>4. Reset' /\ NothingStaleShown'
    BY <1>1, <1>2 DEF StartFollow, Clickable, Reset, NothingStaleShown, app, probing
<1> QED
    BY <1>2, <1>3, <1>4 DEF Inv

(* A probe of the page's generation finds no follow going on.              *)
LEMMA PollProbeStep == ASSUME Inv, PollProbe PROVE Inv'
<1>1. TypeOK /\ Reset /\ NothingStaleShown /\ generation \in Nat
      /\ probe_rx.generation \in Nat
    BY DEF Inv, TypeOK
<1>2. /\ probe_rx' = NoProbe /\ probe_rx'.generation = 0
      /\ probe_rx' \in [generation : Nat,
                        sent : {"none", "running", "ok", "error", "gone"}]
    BY DEF PollProbe, NoProbe
<1>3. UNCHANGED <<page, known, other, selected, entries, probes, era>>
    BY DEF PollProbe, app
<1>4. CASE Spawn("read", "loading") /\ ui = "loading" /\ known = "succeeded"
           /\ probed' = TRUE
    <2>1. /\ Routed' /\ Marked' /\ Final'
          /\ workers' \in Seq(Worker) /\ inbox' = <<>>
          /\ event_rx' \in 1 .. Len(workers') /\ follow_stop' \in 0 .. Len(workers')
          /\ generation' = generation + 1 /\ ui' = "loading"
        BY <1>1, <1>2, <1>3, <1>4, SpawnedInv
    <2>2. TypeOK'
        BY <1>1, <1>2, <1>3, <1>4, <2>1 DEF TypeOK
    <2>3. Reset' /\ NothingStaleShown'
        BY <1>1, <1>2, <1>3, <1>4, <2>1 DEF Reset, NothingStaleShown
    <2> QED
        BY <2>1, <2>2, <2>3 DEF Inv
<1>5. CASE /\ UNCHANGED <<generation, stream>> /\ probed' \in BOOLEAN
           /\ \/ ui' = ui
              \/ probe_rx.generation = generation /\ ui' \in {"idle", "failed"}
    <2>1. TypeOK'
        BY <1>1, <1>2, <1>3, <1>5 DEF TypeOK, stream
    <2>2. \A w \in DOMAIN workers :
              Live(w) => probe_rx.generation # generation
        BY <1>1 DEF Inv, Routed
    <2>3. Routed'
        BY <1>1, <1>2, <1>5, <2>2 DEF Inv, Routed, Live, stream
    <2>4. Marked' /\ Final'
        BY <1>3, <1>5 DEF Inv, Marked, Final, stream
    <2>5. Reset' /\ NothingStaleShown'
        BY <1>1, <1>2, <1>3, <1>5 DEF Reset, NothingStaleShown, stream
    <2> QED
        BY <2>1, <2>3, <2>4, <2>5 DEF Inv
<1>6. CASE probe_rx.sent = "ok" /\ probe_rx.generation = generation /\ probed' = TRUE
    <2>1. CASE ui = "loading" /\ event_rx = 0 /\ entries = {} /\ other = "none"
               /\ known = "succeeded" /\ Len(workers) < MaxStarts
        <3>1. Spawn("read", "loading")
            BY <1>6, <2>1 DEF PollProbe
        <3> QED
            BY <1>4, <1>6, <2>1, <3>1
    <2>2. CASE ~(ui = "loading" /\ event_rx = 0 /\ entries = {} /\ other = "none"
                 /\ known = "succeeded" /\ Len(workers) < MaxStarts)
        <3>1. ui' \in {ui, "idle"} /\ UNCHANGED <<generation, stream>>
            BY <1>6, <2>2 DEF PollProbe
        <3> QED
            BY <1>5, <1>6, <3>1
    <2> QED
        BY <2>1, <2>2
<1>7. CASE /\ probe_rx.sent = "error" /\ probe_rx.generation = generation
           /\ probed' = TRUE /\ ui' = "failed" /\ UNCHANGED <<generation, stream>>
    BY <1>5, <1>7
<1>8. CASE UNCHANGED <<probed, ui, generation, stream>>
    BY <1>1, <1>5, <1>8 DEF TypeOK
<1> QED
    BY <1>6, <1>7, <1>8 DEF PollProbe

-----------------------------------------------------------------------------
(* Steps of a worker.                                                      *)
LEMMA EmittedInv ==
    ASSUME Inv, NEW w \in DOMAIN workers, NEW events \in Seq(Events),
           NEW phase \in {"connect", "poll", "ended"}, Emits(w, events, phase),
           workers[w].phase # "ended",
           phase # "ended" =>
              \A k \in 1 .. Len(events) : events[k] \notin {"failed", "stopped"}
    PROVE  Inv'
<1>1. TypeOK /\ Reset /\ NothingStaleShown
    BY DEF Inv
<1>2. /\ workers' \in Seq(Worker) /\ Len(workers') = Len(workers)
      /\ inbox' = IF event_rx = w THEN inbox \o events ELSE inbox
      /\ \A v \in 1 .. Len(workers) :
           /\ workers'[v].what = workers[v].what
           /\ workers'[v].era = workers[v].era
           /\ workers'[v].generation = workers[v].generation
           /\ workers'[v].stop = workers[v].stop
           /\ workers'[v].phase = IF v = w THEN phase ELSE workers[v].phase
    BY <1>1, Emitted
<1>3. DOMAIN workers = 1 .. Len(workers) /\ DOMAIN workers' = 1 .. Len(workers)
      /\ w \in 1 .. Len(workers) /\ Len(workers) \in Nat
    BY <1>1, <1>2, Entry
<1>4. UNCHANGED <<page, known, other, ui, selected, entries, generation, probed,
                  probe_rx, probes, event_rx, follow_stop, era>>
    BY DEF Emits, app, shown, probing
<1>5. event_rx \in 0 .. Len(workers) /\ inbox \in Seq(Events)
      /\ (event_rx = 0 => inbox = <<>>)
    BY <1>1 DEF TypeOK
<1>6. inbox' \in Seq(Events) /\ (event_rx' = 0 => inbox' = <<>>)
    BY <1>2, <1>3, <1>4, <1>5
<1>7. TypeOK'
    BY <1>1, <1>2, <1>4, <1>6 DEF TypeOK
<1>8. Routed'
    <2>1. \A v \in DOMAIN workers' : Live(v)' => Live(v)
        BY <1>2, <1>3 DEF Live
    <2> QED
        BY <1>2, <1>3, <1>4, <2>1 DEF Inv, Routed
<1>9. Marked'
    BY <1>2, <1>4, <1>5 DEF Inv, Marked
<1>10. Final'
    <2>1. SUFFICES ASSUME NEW k \in 1 .. Len(inbox'), inbox'[k] \in {"failed", "stopped"}
                   PROVE  workers'[event_rx].phase = "ended"
        BY <1>4 DEF Final
    <2>2. CASE event_rx = w
        <3>1. inbox' = inbox \o events
            BY <1>2, <2>2
        <3>2. CASE k \in 1 .. Len(inbox)
            <4>1. inbox'[k] = inbox[k]
                BY <1>5, <3>1, <3>2
            <4> QED
                BY <2>1, <2>2, <3>2, <4>1 DEF Inv, Final
        <3>3. CASE k \notin 1 .. Len(inbox)
            <4>1. k - Len(inbox) \in 1 .. Len(events)
                  /\ inbox'[k] = events[k - Len(inbox)]
                BY <1>5, <3>1, <3>3
            <4>2. phase = "ended"
                BY <2>1, <4>1
            <4> QED
                BY <1>2, <1>3, <2>2, <4>2
        <3> QED
            BY <3>2, <3>3
    <2>3. CASE event_rx # w
        <3>1. inbox' = inbox /\ event_rx # 0
            BY <1>2, <1>4, <1>5, <2>1, <2>3
        <3>2. event_rx \in 1 .. Len(workers)
            BY <1>3, <1>5, <3>1
        <3> QED
            BY <1>2, <2>1, <2>3, <3>1, <3>2 DEF Inv, Final
    <2> QED
        BY <2>2, <2>3
<1>11. Reset' /\ NothingStaleShown'
    BY <1>1, <1>4 DEF Reset, NothingStaleShown
<1> QED
    BY <1>7, <1>8, <1>9, <1>10, <1>11 DEF Inv

LEMMA WorkerStep ==
    ASSUME Inv, NEW w \in DOMAIN workers,
           FirstRead(w) \/ FollowTurn(w) \/ StopSeen(w) \/ Panic(w)
    PROVE  Inv'
<1>1. /\ <<"failed">> \in Seq(Events) /\ <<"replace">> \in Seq(Events)
      /\ <<"append">> \in Seq(Events) /\ <<"failed", "stopped">> \in Seq(Events)
      /\ <<"stopped">> \in Seq(Events) /\ <<"append", "stopped">> \in Seq(Events)
      /\ <<>> \in Seq(Events)
    BY DEF Events
<1>2. /\ \A k \in 1 .. Len(<<"replace">>) : <<"replace">>[k] = "replace"
      /\ \A k \in 1 .. Len(<<"append">>) : <<"append">>[k] = "append"
    OBVIOUS
<1>3. CASE FirstRead(w)
    <2>1. CASE Emits(w, <<"failed">>, "ended")
        BY <1>1, <1>3, <2>1, EmittedInv DEF FirstRead
    <2>2. CASE Emits(w, <<"replace">>, "ended")
        BY <1>1, <1>3, <2>2, EmittedInv DEF FirstRead
    <2>3. CASE Emits(w, <<"replace">>, "poll")
        BY <1>1, <1>2, <1>3, <2>3, EmittedInv DEF FirstRead
    <2> QED
        BY <1>3, <2>1, <2>2, <2>3 DEF FirstRead
<1>4. CASE FollowTurn(w)
    <2>1. CASE Emits(w, <<"append">>, "poll")
        BY <1>1, <1>2, <1>4, <2>1, EmittedInv DEF FollowTurn
    <2>2. CASE Emits(w, <<"failed", "stopped">>, "ended")
        BY <1>1, <1>4, <2>2, EmittedInv DEF FollowTurn
    <2> QED
        BY <1>4, <2>1, <2>2 DEF FollowTurn
<1>5. CASE StopSeen(w)
    <2>1. CASE Emits(w, <<"stopped">>, "ended")
        BY <1>1, <1>5, <2>1, EmittedInv DEF StopSeen
    <2>2. CASE Emits(w, <<"append", "stopped">>, "ended")
        BY <1>1, <1>5, <2>2, EmittedInv DEF StopSeen
    <2> QED
        BY <1>5, <2>1, <2>2 DEF StopSeen
<1>6. CASE Panic(w)
    BY <1>1, <1>6, EmittedInv DEF Panic
<1> QED
    BY <1>3, <1>4, <1>5, <1>6

-----------------------------------------------------------------------------
(* Steps that take an event.                                               *)

(* The worker an event comes from.                                         *)
LEMMA Sender ==
    ASSUME Inv, inbox # <<>>
    PROVE  /\ event_rx \in 1 .. Len(workers) /\ workers[event_rx] \in Worker
           /\ inbox \in Seq(Events) /\ 1 \in 1 .. Len(inbox) /\ Head(inbox) = inbox[1]
           /\ Tail(inbox) \in Seq(Events) /\ Len(Tail(inbox)) = Len(inbox) - 1
           /\ \A k \in 1 .. Len(inbox) - 1 :
                 Tail(inbox)[k] = inbox[k + 1] /\ k + 1 \in 1 .. Len(inbox)
<1>1. /\ inbox \in Seq(Events) /\ event_rx # 0 /\ event_rx \in 0 .. Len(workers)
      /\ TypeOK
    BY DEF Inv, TypeOK
<1>2. event_rx \in 1 .. Len(workers) /\ workers[event_rx] \in Worker
    BY <1>1, Entry
<1> QED
    BY <1>1, <1>2

(* When the worker listened to has ended, no follow goes on.               *)
LEMMA EndedNoneLive ==
    ASSUME Inv, event_rx # 0, workers[event_rx].phase = "ended"
    PROVE  \A w \in DOMAIN workers : ~Live(w)
BY DEF Inv, Routed, Live

(* The page lets go of the channel when no follow goes on.                 *)
LEMMA ClosedInv ==
    ASSUME Inv, CloseChannel, \A w \in DOMAIN workers : ~Live(w),
           ui' \in {"idle", "loading", "following", "failed"},
           follow_stop' \in {0, follow_stop},
           entries' \in {entries, {<<selected, era>>}},
           known # "discovering" \/ entries' = entries,
           UNCHANGED <<app, selected, generation, probed, probing, workers, era>>
    PROVE  Inv'
<1>1. TypeOK /\ Reset /\ NothingStaleShown /\ Len(workers) \in Nat
    BY Entry DEF Inv
<1>2. event_rx' = 0 /\ inbox' = <<>> /\ event_rx' \in 0 .. Len(workers')
      /\ inbox' \in Seq(Events) /\ follow_stop' \in 0 .. Len(workers')
    BY <1>1 DEF CloseChannel, TypeOK
<1>3. UNCHANGED <<page, known, other, selected, generation, probed, probe_rx, probes,
                  workers, era>>
    BY DEF app, probing
<1>4. entries' \subseteq Kinds \X (0 .. MaxSaves)
    BY <1>1 DEF TypeOK
<1>5. TypeOK'
    BY <1>1, <1>2, <1>3, <1>4 DEF TypeOK
<1>6. Routed'
    BY <1>3 DEF Routed, Live
<1>7. Marked' /\ Final'
    BY <1>2 DEF Marked, Final
<1>8. Reset' /\ NothingStaleShown'
    BY <1>1, <1>2, <1>3 DEF Reset, NothingStaleShown
<1> QED
    BY <1>5, <1>6, <1>7, <1>8 DEF Inv

(* The page goes on listening.                                             *)
LEMMA TakenInv ==
    ASSUME Inv, inbox # <<>>, NextEvent,
           entries' \in {entries, entries \union {<<selected, era>>}, {<<selected, era>>}},
           UNCHANGED <<app, ui, selected, generation, probed, probing,
                       follow_stop, workers, era>>
    PROVE  Inv'
<1>1. TypeOK /\ Reset /\ NothingStaleShown
    BY DEF Inv
<1>2. UNCHANGED <<page, known, other, ui, selected, generation, probed, probe_rx, probes,
                  event_rx, follow_stop, workers, era>> /\ inbox' = Tail(inbox)
    BY DEF app, probing, NextEvent
<1>3. event_rx \in 1 .. Len(workers) /\ inbox' \in Seq(Events)
      /\ Len(inbox') = Len(inbox) - 1
      /\ \A k \in 1 .. Len(inbox) - 1 :
            inbox'[k] = inbox[k + 1] /\ k + 1 \in 1 .. Len(inbox)
    BY <1>2, Sender
<1>4. entries' \subseteq Kinds \X (0 .. MaxSaves)
    BY <1>1 DEF TypeOK
<1>5. TypeOK'
    BY <1>1, <1>2, <1>3, <1>4 DEF TypeOK
<1>6. Routed' /\ Marked'
    BY <1>2 DEF Inv, Routed, Marked, Live
<1>7. Final'
    BY <1>2, <1>3 DEF Inv, Final
<1>8. Reset'
    BY <1>1, <1>2, <1>3 DEF Reset
<1>9. NothingStaleShown'
    BY <1>1, <1>2 DEF NothingStaleShown
<1> QED
    BY <1>5, <1>6, <1>7, <1>8, <1>9 DEF Inv

(* Lines of the page's generation and source are of the settings loaded.   *)
LEMMA CurrentLines ==
    ASSUME Inv, inbox # <<>>, Current, workers[event_rx].kind = selected
    PROVE  Lines = {<<selected, era>>}
BY Sender DEF Inv, Marked, Current, Lines

LEMMA PollReplaceStep == ASSUME Inv, PollReplace PROVE Inv'
<1>1. inbox # <<>> /\ known # "discovering"
      /\ UNCHANGED <<app, selected, generation, probed, probing, follow_stop,
                     workers, era>>
    BY Sender DEF PollReplace, Inv, Reset
<1>2. entries' \in {entries, {<<selected, era>>}}
    BY <1>1, CurrentLines DEF PollReplace
<1>3. ui' \in {ui, "idle"} /\ (ui = "following" => ui' = ui)
    BY DEF PollReplace
<1>4. CASE ui' = "following"
    <2>1. NextEvent /\ ui' = ui
        BY <1>3, <1>4 DEF PollReplace
    <2> QED
        BY <1>1, <1>2, <2>1, TakenInv
<1>5. CASE ui' # "following"
    <2>1. CloseChannel /\ ui # "following"
        BY <1>3, <1>5 DEF PollReplace
    <2>2. \A w \in DOMAIN workers : ~Live(w)
        BY <2>1 DEF Inv, Routed
    <2>3. ui' \in {"idle", "loading", "following", "failed"}
        BY <1>3 DEF Inv, TypeOK
    <2> QED
        BY <1>1, <1>2, <2>1, <2>2, <2>3, ClosedInv
<1> QED
    BY <1>4, <1>5

LEMMA PollAppendStep == ASSUME Inv, PollAppend PROVE Inv'
<1>1. entries' \in {entries, entries \union {<<selected, era>>}}
    BY CurrentLines DEF PollAppend
<1> QED
    BY <1>1, TakenInv DEF PollAppend

(* The events that end a follow come from a worker that has ended.         *)
LEMMA PollFailedStep == ASSUME Inv, PollFailed PROVE Inv'
<1>1. inbox # <<>> /\ CloseChannel
      /\ UNCHANGED <<app, selected, entries, generation, probed, probing, workers, era>>
    BY DEF PollFailed
<1>2. event_rx # 0 /\ workers[event_rx].phase = "ended"
    BY Sender DEF PollFailed, Inv, Final
<1>3. \A w \in DOMAIN workers : ~Live(w)
    BY <1>2, EndedNoneLive
<1>4. ui' \in {"idle", "loading", "following", "failed"} /\ follow_stop' \in {0, follow_stop}
    BY DEF PollFailed, Inv, TypeOK
<1> QED
    BY <1>1, <1>3, <1>4, ClosedInv

LEMMA PollStoppedStep == ASSUME Inv, PollStopped PROVE Inv'
<1>1. inbox # <<>> /\ CloseChannel
      /\ UNCHANGED <<app, selected, entries, generation, probed, probing, workers, era>>
    BY DEF PollStopped
<1>2. event_rx # 0 /\ workers[event_rx].phase = "ended"
    BY Sender DEF PollStopped, Inv, Final
<1>3. \A w \in DOMAIN workers : ~Live(w)
    BY <1>2, EndedNoneLive
<1>4. ui' \in {"idle", "loading", "following", "failed"} /\ follow_stop' \in {0, follow_stop}
    BY DEF PollStopped, AfterStop, Inv, TypeOK
<1> QED
    BY <1>1, <1>3, <1>4, ClosedInv

LEMMA PollDisconnectedStep == ASSUME Inv, PollDisconnected PROVE Inv'
<1>1. event_rx # 0 /\ workers[event_rx].phase = "ended" /\ CloseChannel
      /\ UNCHANGED <<app, selected, entries, generation, probed, probing, workers, era>>
    BY DEF PollDisconnected
<1>2. \A w \in DOMAIN workers : ~Live(w)
    BY <1>1, EndedNoneLive
<1>3. ui' \in {"idle", "loading", "following", "failed"} /\ follow_stop' \in {0, follow_stop}
    BY DEF PollDisconnected, Inv, TypeOK
<1> QED
    BY <1>1, <1>2, <1>3, ClosedInv

-----------------------------------------------------------------------------
LEMMA InitInv == Init => Inv
<1> SUFFICES ASSUME Init PROVE Inv
    OBVIOUS
<1>1. workers \in Seq(Worker) /\ Len(workers) = 0 /\ DOMAIN workers = {}
      /\ inbox \in Seq(Events) /\ Len(inbox) = 0
    BY DEF Init
<1>2. TypeOK
    <2>1. probe_rx \in [generation : Nat,
                        sent : {"none", "running", "ok", "error", "gone"}]
        BY DEF Init, NoProbe
    <2>2. event_rx = 0 /\ follow_stop = 0 /\ inbox = <<>> /\ 0 \in 0 .. Len(workers)
        BY <1>1 DEF Init
    <2>3. 0 \in 0 .. MaxSaves /\ 0 \in 0 .. MaxProbes
        OBVIOUS
    <2> QED
        BY <1>1, <2>1, <2>2, <2>3 DEF Init, TypeOK
<1>3. Routed /\ Marked /\ Final
    BY <1>1 DEF Init, Routed, Marked, Final
<1>4. Reset /\ NothingStaleShown
    BY DEF Init, Reset, NothingStaleShown, NoProbe
<1> QED
    BY <1>2, <1>3, <1>4 DEF Inv

LEMMA NextInv == Inv /\ [Next]_vars => Inv'
<1> SUFFICES ASSUME Inv, [Next]_vars PROVE Inv'
    OBVIOUS
<1>1. CASE Click
    BY <1>1, CalmStep, LeaveStep, StopClickedStep, StartReadStep, StartFollowStep,
       SelectSourceStep DEF Click
<1>2. CASE EnsureProbed \/ ProbeWorker \/ PollProbe
    BY <1>2, EnsureProbedStep, ProbeWorkerStep, PollProbeStep
<1>3. CASE Poll
    BY <1>3, PollReplaceStep, PollAppendStep, PollFailedStep, PollStoppedStep,
       PollDisconnectedStep DEF Poll
<1>4. CASE Rest
    BY <1>4, CalmStep, SaveSucceedsStep, StartDiscoveryStep, PollDiscoveryStep DEF Rest
<1>5. CASE \E w \in DOMAIN workers : FirstRead(w) \/ FollowTurn(w) \/ StopSeen(w) \/ Panic(w)
    BY <1>5, WorkerStep
<1>6. CASE UNCHANGED vars
    BY <1>6, CalmStep
<1> QED
    BY <1>1, <1>2, <1>3, <1>4, <1>5, <1>6 DEF Next

(* What the other theorems rest on holds of every state of the page.       *)
THEOREM Inductive == Spec => []Inv
<1>1. Init => Inv
    BY InitInv
<1>2. Inv /\ [Next]_vars => Inv'
    BY NextInv
<1> QED
    BY <1>1, <1>2, PTL DEF Spec

(* Every variable of the page keeps its type, and the handles it holds     *)
(* name workers that exist (xray_log_event_rx, xray_log_follow_stop).      *)
THEOREM TypeCorrect == Spec => []TypeOK
<1>1. Inv => TypeOK
    BY DEF Inv
<1> QED
    BY <1>1, Inductive, PTL

(* Only lines of the selected source and the settings now loaded are       *)
(* shown, whatever superseded workers still send (apply_xray_log_event).   *)
THEOREM ShowsNothingStale == Spec => []NothingStaleShown
<1>1. Inv => NothingStaleShown
    BY DEF Inv
<1> QED
    BY <1>1, Inductive, PTL

(* A follow the page does not hold is over or was told to stop             *)
(* (stop_follow and every place that drops follow_stop).                   *)
THEOREM LeavesNoOrphan == Spec => []NoOrphanFollow
<1>1. Inv => NoOrphanFollow
    BY DEF Inv, Routed, Live, NoOrphanFollow
<1> QED
    BY <1>1, Inductive, PTL
=============================================================================
