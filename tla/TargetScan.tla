----------------------------- MODULE TargetScan -----------------------------
(***************************************************************************)
(* The scan of a network for REALITY candidates: workers take hosts off a  *)
(* shared queue, probe them and report over one channel; the thread that   *)
(* started them joins them and sends Done; the page drains the channel.    *)
(* A host is its index in the queue.                                       *)
(***************************************************************************)
EXTENDS Naturals, Sequences, Functions

CONSTANTS
    MaxThreads,  \* bound: workers asked for
    MaxHosts,    \* bound: hosts of the network
    ProbePanics  \* a probe may panic

ASSUME TargetScanAssumption ==
    /\ MaxThreads \in Nat \ {0} /\ MaxHosts \in Nat
    /\ ProbePanics \in BOOLEAN

VARIABLES
    total,      \* number of hosts of this scan
    nextIndex,  \* shared: next host to claim
    checked,    \* shared: hosts checked
    cancel,     \* shared: Stop was pressed
    stage,      \* of each worker
    host,       \* of each worker: the index it claimed
    tally,      \* of each worker: the count it is to report
    main,       \* the thread that joins the workers
    chan,       \* events on their way to the page
    listening,  \* the page holds the receiver
    rows,       \* candidates on the page
    shown,      \* progress on the page
    visits,     \* history: times each host was claimed
    found,      \* history: candidates found
    late        \* history: hosts claimed after Stop

shared  == <<total, nextIndex, checked, cancel>>
workers == <<stage, host, tally>>
page    == <<listening, rows, shown>>
history == <<visits, found, late>>
vars    == <<shared, workers, main, chan, page, history>>

Workers == 1 .. MaxThreads
Hosts   == 0 .. total - 1
Stages  == {"check", "claim", "probe", "count", "report", "ended", "panicked"}
Events  == [kind : {"row", "progress", "done"}, value : Nat]

Row(i)      == [kind |-> "row", value |-> i]
Progress(n) == [kind |-> "progress", value |-> n]
Done        == [kind |-> "done", value |-> 0]

TypeOK ==
    /\ total \in 0 .. MaxHosts
    /\ nextIndex \in Nat /\ checked \in Nat
    /\ cancel \in BOOLEAN
    /\ stage \in [Workers -> Stages]
    /\ host \in [Workers -> Nat] /\ tally \in [Workers -> Nat]
    /\ main \in {"joining", "done", "dead"}
    /\ chan \in Seq(Events)
    /\ listening \in BOOLEAN
    /\ rows \in Seq(Nat) /\ shown \in Nat
    /\ visits \in [0 .. MaxHosts -> Nat] /\ found \subseteq Nat
    /\ late \in Nat

Gone(w) == stage[w] \in {"ended", "panicked"}

Init ==
    /\ total = 0 /\ nextIndex = 0 /\ checked = 0 /\ cancel = FALSE
    /\ stage = [w \in Workers |-> "ended"]
    /\ host = [w \in Workers |-> 0] /\ tally = [w \in Workers |-> 0]
    /\ main = "done" /\ chan = <<>>
    /\ listening = FALSE /\ rows = <<>> /\ shown = 0
    /\ visits = [i \in 0 .. MaxHosts |-> 0] /\ found = {} /\ late = 0

-----------------------------------------------------------------------------
(* The page.                                                               *)

(* A scan of n hosts with k workers; a thread the system refuses to create *)
(* panics the thread that asks for it, and nobody sends Done.              *)
Start ==
    /\ ~listening
    /\ total' \in 0 .. MaxHosts
    /\ nextIndex' = 0 /\ checked' = 0 /\ cancel' = FALSE
    /\ \E asked \in Workers, created \in 0 .. MaxThreads :
        /\ created <= asked
        /\ stage' = [w \in Workers |-> IF w <= created THEN "check" ELSE "ended"]
        /\ main' = IF created = asked THEN "joining" ELSE "dead"
    /\ host' = [w \in Workers |-> 0] /\ tally' = [w \in Workers |-> 0]
    /\ chan' = <<>>
    /\ listening' = TRUE /\ rows' = <<>> /\ shown' = 0
    /\ visits' = [i \in 0 .. MaxHosts |-> 0] /\ found' = {} /\ late' = 0

Stop ==
    /\ listening /\ ~cancel /\ cancel' = TRUE
    /\ UNCHANGED <<total, nextIndex, checked, workers, main, chan, page, history>>

(* poll_target_scan, one event of its loop.                                *)
Take ==
    /\ listening /\ chan # <<>>
    /\ chan' = Tail(chan)
    /\ rows' = IF Head(chan).kind = "row" THEN Append(rows, Head(chan).value) ELSE rows
    /\ shown' = IF Head(chan).kind = "progress" /\ Head(chan).value > shown
                THEN Head(chan).value ELSE shown
    /\ listening' = (Head(chan).kind # "done")
    /\ UNCHANGED <<shared, workers, main, history>>

(* All senders are gone and the channel is empty.                          *)
Disconnected ==
    /\ listening /\ chan = <<>> /\ main # "joining" /\ \A w \in Workers : Gone(w)
    /\ listening' = FALSE
    /\ UNCHANGED <<shared, workers, main, chan, rows, shown, history>>

-----------------------------------------------------------------------------
(* The workers.                                                            *)

Moves(w, from, to) == stage[w] = from /\ stage' = [stage EXCEPT ![w] = to]

MutCheckNever(w) ==
    /\ Moves(w, "check", "claim")
    /\ UNCHANGED <<shared, host, tally, main, chan, page, history>>

(* The flag is looked at before a claim, after a report and every 250 ms   *)
(* of the pause in between; only the last look before a claim matters.     *)
Check(w) ==
    /\ Moves(w, "check", IF cancel THEN "ended" ELSE "claim")
    /\ UNCHANGED <<shared, host, tally, main, chan, page, history>>

Visit(w) ==
    /\ Moves(w, "claim", "probe")
    /\ host' = [host EXCEPT ![w] = nextIndex]
    /\ visits' = [visits EXCEPT ![nextIndex] = @ + 1]
    /\ late' = IF cancel THEN late + 1 ELSE late

MutClaimNotAdvancing(w) ==
    /\ nextIndex' = IF w = 1 THEN nextIndex ELSE nextIndex + 1
    /\ IF nextIndex < total
       THEN Visit(w)
       ELSE Moves(w, "claim", "ended") /\ UNCHANGED <<host, visits, late>>
    /\ UNCHANGED <<total, checked, cancel, tally, main, chan, page, found>>

MutClaimTriesAgain(w) ==
    /\ nextIndex' = IF nextIndex < total THEN nextIndex + 1 ELSE nextIndex
    /\ IF nextIndex < total
       THEN Visit(w)
       ELSE Moves(w, "claim", "check") /\ UNCHANGED <<host, visits, late>>
    /\ UNCHANGED <<total, checked, cancel, tally, main, chan, page, found>>

(* fetch_add: the index is taken even past the end of the queue.           *)
Claim(w) ==
    /\ nextIndex' = nextIndex + 1
    /\ IF nextIndex < total
       THEN Visit(w)
       ELSE Moves(w, "claim", "ended") /\ UNCHANGED <<host, visits, late>>
    /\ UNCHANGED <<total, checked, cancel, tally, main, chan, page, found>>

(* A valid candidate is sent, anything else passed over in silence.        *)
Probe(w) ==
    /\ Moves(w, "probe", "count")
    /\ \/ chan' = Append(chan, Row(host[w])) /\ found' = found \union {host[w]}
       \/ UNCHANGED <<chan, found>>
    /\ UNCHANGED <<shared, host, tally, main, page, visits, late>>

Panic(w) ==
    /\ ProbePanics /\ Moves(w, "probe", "panicked")
    /\ UNCHANGED <<shared, host, tally, main, chan, page, history>>

MutCountBefore(w) ==
    /\ Moves(w, "count", "report")
    /\ checked' = checked + 1
    /\ tally' = [tally EXCEPT ![w] = checked]
    /\ UNCHANGED <<total, nextIndex, cancel, host, main, chan, page, history>>

Count(w) ==
    /\ Moves(w, "count", "report")
    /\ checked' = checked + 1
    /\ tally' = [tally EXCEPT ![w] = checked + 1]
    /\ UNCHANGED <<total, nextIndex, cancel, host, main, chan, page, history>>

Report(w) ==
    /\ Moves(w, "report", "check")
    /\ chan' = Append(chan, Progress(tally[w]))
    /\ UNCHANGED <<shared, host, tally, main, page, history>>

Work(w) == Check(w) \/ Claim(w) \/ Probe(w) \/ Count(w) \/ Report(w)

MutFinishOnFirst ==
    /\ main = "joining" /\ \E w \in Workers : Gone(w)
    /\ main' = "done" /\ chan' = Append(chan, Done)
    /\ UNCHANGED <<shared, workers, page, history>>

(* Joined workers may have panicked: their results are ignored.            *)
Finish ==
    /\ main = "joining" /\ \A w \in Workers : Gone(w)
    /\ main' = "done" /\ chan' = Append(chan, Done)
    /\ UNCHANGED <<shared, workers, page, history>>

Next ==
    \/ Start \/ Stop \/ Take \/ Disconnected \/ Finish
    \/ \E w \in Workers : Work(w) \/ Panic(w)

Spec == Init /\ [][Next]_vars

(* Threads are scheduled, probes time out, and the page is polled in every *)
(* frame; nobody need press Stop.                                          *)
FairSpec ==
    /\ Spec
    /\ WF_vars(Take) /\ WF_vars(Disconnected) /\ WF_vars(Finish)
    /\ \A w \in Workers : WF_vars(Work(w))

-----------------------------------------------------------------------------
(* Properties.                                                             *)

(* No host is probed twice, whichever workers race for it (scan_worker:    *)
(* atomically claim the next host index).                                  *)
ProbedOnce == \A i \in 0 .. MaxHosts : visits[i] <= 1

(* When the page lets go of the channel, every worker is gone, nothing is  *)
(* left in the channel and every candidate found is on the page            *)
(* (run_target_scan: always sends Done last, once every worker stopped).   *)
DoneIsLast ==
    ~listening =>
        /\ \A w \in Workers : Gone(w)
        /\ chan = <<>>
        /\ Range(rows) = found

(* A scan nobody stopped and no panic cut short has checked every host and *)
(* says so, in whatever order the last reports came (poll_target_scan).    *)
ScanComplete ==
    main = "done" /\ ~listening /\ ~cancel
        /\ (\A w \in Workers : stage[w] # "panicked") =>
            shown = total /\ \A i \in Hosts : visits[i] = 1

(* After Stop no more probes begin than there are workers (scan_worker).   *)
StopBites == late <= MaxThreads

(* A scan ends by itself and Start is possible again (start_target_scan    *)
(* refuses while the page holds the receiver).                             *)
ScanEnds == listening ~> ~listening
=============================================================================
