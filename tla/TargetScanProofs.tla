-------------------------- MODULE TargetScanProofs --------------------------
(***************************************************************************)
(* No host is probed twice, a scan that has ended left no candidate behind *)
(* and, unless it was cut short, no host, and Stop takes effect at once,   *)
(* for any number of workers and hosts.                                    *)
(***************************************************************************)
EXTENDS TargetScan, FiniteSets, FiniteSetTheorems, TLAPS

(* What lies ahead of the queue's index was never claimed.                 *)
Ahead == \A i \in 0 .. MaxHosts : i >= nextIndex => visits[i] = 0

(* A candidate found is on the page or on its way.                         *)
Kept ==
    \A i \in Nat : i \in found <=> i \in Range(rows) \/ Row(i) \in Range(chan)

(* Done has nothing behind it.                                             *)
DoneAtEnd ==
    \A k \in 1 .. Len(chan) :
        chan[k].kind = "done" => k = Len(chan) /\ main = "done"

AllGone == \A w \in Workers : Gone(w)

Joined == main = "done" => AllGone

Quiet == ~listening => AllGone /\ chan = <<>> /\ main # "joining"

Reports == Kept /\ DoneAtEnd /\ Joined /\ Quiet

USE TargetScanAssumption

-----------------------------------------------------------------------------
(* What is in a sequence after an element was added to its end.            *)
LEMMA RangeAppend ==
    ASSUME NEW S, NEW s \in Seq(S), NEW e
    PROVE  Range(Append(s, e)) = Range(s) \union {e}
<1>1. Len(Append(s, e)) = Len(s) + 1
      /\ Append(s, e)[Len(s) + 1] = e
      /\ \A k \in 1 .. Len(s) : Append(s, e)[k] = s[k]
    OBVIOUS
<1>2. DOMAIN Append(s, e) = 1 .. Len(s) + 1 /\ DOMAIN s = 1 .. Len(s) /\ Len(s) \in Nat
    BY <1>1
<1>3. 1 .. Len(s) + 1 = (1 .. Len(s)) \union {Len(s) + 1}
    BY <1>2
<1> QED
    BY <1>1, <1>2, <1>3 DEF Range

(* What was in a sequence before its head was taken.                       *)
LEMMA RangeTail ==
    ASSUME NEW S, NEW s \in Seq(S), s # <<>>
    PROVE  Range(s) = {Head(s)} \union Range(Tail(s))
<1>1. /\ Len(s) \in Nat \ {0} /\ Head(s) = s[1] /\ DOMAIN s = 1 .. Len(s)
      /\ Tail(s) \in Seq(S) /\ Len(Tail(s)) = Len(s) - 1
      /\ DOMAIN Tail(s) = 1 .. Len(s) - 1
      /\ \A k \in 1 .. Len(s) - 1 : Tail(s)[k] = s[k + 1]
    OBVIOUS
<1>2. ASSUME NEW x \in Range(s) PROVE x \in {Head(s)} \union Range(Tail(s))
    <2>1. PICK k \in 1 .. Len(s) : x = s[k]
        BY <1>1 DEF Range
    <2>2. CASE k = 1
        BY <2>1, <2>2, <1>1
    <2>3. CASE k # 1
        <3>1. k - 1 \in 1 .. Len(s) - 1 /\ (k - 1) + 1 = k
            BY <2>3, <1>1
        <3>2. Tail(s)[k - 1] = x
            BY <3>1, <2>1, <1>1
        <3> QED
            BY <3>1, <3>2, <1>1 DEF Range
    <2> QED
        BY <2>2, <2>3
<1>3. ASSUME NEW x \in {Head(s)} \union Range(Tail(s)) PROVE x \in Range(s)
    <2>1. CASE x = Head(s)
        <3>1. 1 \in DOMAIN s /\ x = s[1]
            BY <1>1, <2>1
        <3> QED
            BY <3>1 DEF Range
    <2>2. CASE x \in Range(Tail(s))
        <3>1. PICK k \in 1 .. Len(s) - 1 : x = Tail(s)[k]
            BY <2>2, <1>1 DEF Range
        <3>2. k + 1 \in DOMAIN s /\ x = s[k + 1]
            BY <3>1, <1>1
        <3> QED
            BY <3>2 DEF Range
    <2> QED
        BY <1>3, <2>1, <2>2
<1> QED
    BY <1>2, <1>3

-----------------------------------------------------------------------------
(* The types hold at the start.                                            *)
LEMMA InitType == Init => TypeOK
<1> SUFFICES ASSUME Init PROVE TypeOK
    OBVIOUS
<1>1. chan \in Seq(Events) /\ rows \in Seq(Nat)
    BY DEF Init
<1>2. /\ stage \in [Workers -> Stages] /\ host \in [Workers -> Nat]
      /\ tally \in [Workers -> Nat] /\ visits \in [0 .. MaxHosts -> Nat]
    BY DEF Init, Stages
<1>3. 0 \in 0 .. MaxHosts /\ {} \subseteq Nat
    OBVIOUS
<1> QED
    BY <1>1, <1>2, <1>3 DEF Init, TypeOK

(* The three events of the channel.                                        *)
LEMMA EventsAre ==
    /\ Done \in Events
    /\ \A n \in Nat : Row(n) \in Events /\ Progress(n) \in Events
    /\ \A e \in Events : e.value \in Nat
BY DEF Events, Done, Row, Progress

(* Every step keeps the types.                                             *)
LEMMA NextType == TypeOK /\ [Next]_vars => TypeOK'
<1> SUFFICES ASSUME TypeOK, [Next]_vars PROVE TypeOK'
    OBVIOUS
<1>1. CASE Start
    <2>1. stage' \in [Workers -> Stages]
        BY <1>1 DEF Start, Stages
    <2>2. /\ host' \in [Workers -> Nat] /\ tally' \in [Workers -> Nat]
          /\ visits' \in [0 .. MaxHosts -> Nat] /\ found' \subseteq Nat
        BY <1>1 DEF Start
    <2>3. chan' \in Seq(Events) /\ rows' \in Seq(Nat)
        BY <1>1 DEF Start
    <2>4. main' \in {"joining", "done", "dead"}
        BY <1>1 DEF Start
    <2>5. /\ total' \in 0 .. MaxHosts /\ nextIndex' = 0 /\ checked' = 0
          /\ cancel' = FALSE /\ listening' = TRUE /\ shown' = 0 /\ late' = 0
        BY <1>1 DEF Start
    <2> QED
        BY <2>1, <2>2, <2>3, <2>4, <2>5 DEF TypeOK
<1>2. CASE Stop
    BY <1>2 DEF Stop, TypeOK, workers, page, history
<1>3. CASE Take
    <2>1. chan \in Seq(Events) /\ chan # <<>> /\ rows \in Seq(Nat)
        BY <1>3 DEF Take, TypeOK
    <2>2. Head(chan) \in Events /\ Tail(chan) \in Seq(Events)
        BY <2>1
    <2>3. Head(chan).value \in Nat
        BY <2>2, EventsAre
    <2>4. rows' \in Seq(Nat)
        BY <1>3, <2>1, <2>3 DEF Take
    <2>5. shown' \in Nat /\ listening' \in BOOLEAN
        BY <1>3, <2>3 DEF Take, TypeOK
    <2>6. chan' \in Seq(Events) /\ UNCHANGED <<shared, workers, main, history>>
        BY <1>3, <2>2 DEF Take
    <2> QED
        BY <2>4, <2>5, <2>6 DEF TypeOK, shared, workers, history
<1>4. CASE Disconnected
    BY <1>4 DEF Disconnected, TypeOK, shared, workers, history
<1>5. CASE Finish
    <2>1. chan' \in Seq(Events)
        BY <1>5, EventsAre DEF Finish, TypeOK
    <2> QED
        BY <1>5, <2>1 DEF Finish, TypeOK, shared, workers, page, history
<1>6. ASSUME NEW w \in Workers, Check(w) PROVE TypeOK'
    BY <1>6 DEF Check, Moves, Stages, TypeOK, shared, page, history
<1>7. ASSUME NEW w \in Workers, Claim(w) PROVE TypeOK'
    <2>1. CASE nextIndex < total
        <3>1. nextIndex \in 0 .. MaxHosts
            BY <2>1 DEF TypeOK
        <3>2. stage' \in [Workers -> Stages]
            BY <1>7, <2>1 DEF Claim, Visit, Moves, Stages, TypeOK
        <3>3. host' \in [Workers -> Nat]
            BY <1>7, <2>1 DEF Claim, Visit, TypeOK
        <3>4. visits[nextIndex] + 1 \in Nat
            BY <3>1 DEF TypeOK
        <3>5. visits' \in [0 .. MaxHosts -> Nat]
            BY <1>7, <2>1, <3>1, <3>4 DEF Claim, Visit, TypeOK
        <3>6. nextIndex' \in Nat
            BY <1>7 DEF Claim, TypeOK
        <3>7. late' \in Nat
            BY <1>7, <2>1 DEF Claim, Visit, TypeOK
        <3>8. UNCHANGED <<total, checked, cancel, tally, main, chan, page, found>>
            BY <1>7 DEF Claim
        <3> QED
            BY <3>2, <3>3, <3>5, <3>6, <3>7, <3>8 DEF TypeOK, page
    <2>2. CASE ~(nextIndex < total)
        <3>1. stage' = [stage EXCEPT ![w] = "ended"]
              /\ nextIndex' = nextIndex + 1 /\ UNCHANGED <<host, visits, late>>
            BY <1>7, <2>2 DEF Claim, Moves
        <3>2. UNCHANGED <<total, checked, cancel, tally, main, chan, page, found>>
            BY <1>7 DEF Claim
        <3>3. stage' \in [Workers -> Stages]
            BY <3>1 DEF Stages, TypeOK
        <3>4. nextIndex' \in Nat
            BY <3>1 DEF TypeOK
        <3> QED
            BY <3>1, <3>2, <3>3, <3>4 DEF TypeOK, page
    <2> QED
        BY <2>1, <2>2
<1>8. ASSUME NEW w \in Workers, Probe(w) PROVE TypeOK'
    <2>1. stage' \in [Workers -> Stages]
        BY <1>8 DEF Probe, Moves, Stages, TypeOK
    <2>2. host[w] \in Nat
        BY DEF TypeOK
    <2>3. chan' \in Seq(Events)
        <3>1. chan' = Append(chan, Row(host[w])) \/ chan' = chan
            BY <1>8 DEF Probe
        <3>2. Row(host[w]) \in Events /\ chan \in Seq(Events)
            BY <2>2, EventsAre DEF TypeOK
        <3> QED
            BY <3>1, <3>2
    <2>4. found' \subseteq Nat
        BY <1>8, <2>2 DEF Probe, TypeOK
    <2> QED
        BY <1>8, <2>1, <2>3, <2>4 DEF Probe, TypeOK, shared, page
<1>9. ASSUME NEW w \in Workers, Count(w) PROVE TypeOK'
    BY <1>9 DEF Count, Moves, Stages, TypeOK, page, history
<1>10. ASSUME NEW w \in Workers, Report(w) PROVE TypeOK'
    <2>1. tally[w] \in Nat
        BY DEF TypeOK
    <2>2. chan' \in Seq(Events)
        BY <1>10, <2>1, EventsAre DEF Report, TypeOK
    <2> QED
        BY <1>10, <2>2 DEF Report, Moves, Stages, TypeOK, shared, page, history
<1>11. ASSUME NEW w \in Workers, Panic(w) PROVE TypeOK'
    BY <1>11 DEF Panic, Moves, Stages, TypeOK, shared, page, history
<1>12. CASE UNCHANGED vars
    BY <1>12 DEF vars, TypeOK, shared, workers, page, history
<1> QED
    BY <1>1, <1>2, <1>3, <1>4, <1>5, <1>6, <1>7, <1>8, <1>9, <1>10, <1>11, <1>12
    DEF Next, Work

-----------------------------------------------------------------------------
(* Each step keeps claims distinct: an index is visited when the counter   *)
(* passes it, and only then.                                               *)
LEMMA NextClaims ==
    TypeOK /\ Ahead /\ ProbedOnce /\ [Next]_vars => Ahead' /\ ProbedOnce'
<1> SUFFICES ASSUME TypeOK, Ahead, ProbedOnce, [Next]_vars
             PROVE  Ahead' /\ ProbedOnce'
    OBVIOUS
<1>1. CASE Start
    BY <1>1 DEF Start, Ahead, ProbedOnce
<1>2. ASSUME NEW w \in Workers, Claim(w) PROVE Ahead' /\ ProbedOnce'
    <2>1. CASE nextIndex < total
        <3>1. nextIndex \in 0 .. MaxHosts /\ visits[nextIndex] = 0
            BY <2>1 DEF TypeOK, Ahead
        <3>2. /\ nextIndex' = nextIndex + 1
              /\ visits' = [visits EXCEPT ![nextIndex] = @ + 1]
            BY <1>2, <2>1 DEF Claim, Visit
        <3>3. visits'[nextIndex] = 1
              /\ \A i \in 0 .. MaxHosts : i # nextIndex => visits'[i] = visits[i]
            BY <3>1, <3>2 DEF TypeOK
        <3>4. Ahead'
            BY <3>1, <3>2, <3>3 DEF Ahead, TypeOK
        <3>5. ProbedOnce'
            BY <3>3 DEF ProbedOnce
        <3> QED
            BY <3>4, <3>5
    <2>2. CASE ~(nextIndex < total)
        BY <1>2, <2>2 DEF Claim, Ahead, ProbedOnce, TypeOK
    <2> QED
        BY <2>1, <2>2
<1>3. ASSUME UNCHANGED <<nextIndex, visits>> PROVE Ahead' /\ ProbedOnce'
    BY <1>3 DEF Ahead, ProbedOnce
<1>4. Start \/ (\E w \in Workers : Claim(w)) \/ UNCHANGED <<nextIndex, visits>>
    BY DEF Next, Work, Stop, Take, Disconnected, Finish, Check, Probe, Count,
           Report, Panic, vars, shared, history
<1> QED
    BY <1>1, <1>2, <1>3, <1>4

(* Every variable keeps its type; the shared index may pass the end of the *)
(* queue, so that its bound is no part of it (scan_worker's fetch_add).    *)
THEOREM TypeCorrect == Spec => []TypeOK
<1>1. Init => TypeOK
    BY InitType
<1>2. TypeOK /\ [Next]_vars => TypeOK'
    BY NextType
<1> QED
    BY <1>1, <1>2, PTL DEF Spec

(* No host is probed twice (scan_worker).                                  *)
THEOREM EachHostOnce == Spec => []ProbedOnce
<1>1. Init => TypeOK /\ Ahead /\ ProbedOnce
    <2>1. Init => TypeOK
        BY InitType
    <2> QED
        BY <2>1 DEF Init, Ahead, ProbedOnce
<1>2. TypeOK /\ Ahead /\ ProbedOnce /\ [Next]_vars => (TypeOK /\ Ahead /\ ProbedOnce)'
    BY NextType, NextClaims
<1> QED
    BY <1>1, <1>2, PTL DEF Spec

-----------------------------------------------------------------------------
(* While a worker is alive, Done was not sent and the page listens.        *)
LEMMA WorkerAlive ==
    ASSUME Reports, NEW w \in Workers, ~Gone(w)
    PROVE  listening /\ main # "done"
BY DEF Reports, Joined, Quiet, AllGone

(* Nothing that the page sees changes while workers move on.               *)
LEMMA MovesKeepReports ==
    ASSUME Reports, listening, main # "done",
           UNCHANGED <<main, chan, listening, rows, found>>
    PROVE  Reports'
BY DEF Reports, Kept, DoneAtEnd, Joined, Quiet

(* An event other than Done can be sent while Done was not.                *)
LEMMA SendKeepsOrder ==
    ASSUME TypeOK, Reports, listening, main # "done", UNCHANGED <<main, listening>>,
           NEW e \in Events, e.kind # "done", chan' = Append(chan, e)
    PROVE  DoneAtEnd' /\ Joined' /\ Quiet'
<1>1. chan \in Seq(Events)
    BY DEF TypeOK
<1>2. Len(chan') = Len(chan) + 1 /\ chan'[Len(chan) + 1] = e
      /\ \A k \in 1 .. Len(chan) : chan'[k] = chan[k]
    BY <1>1
<1>3. DoneAtEnd'
    <2>1. \A k \in 1 .. Len(chan) : chan[k].kind # "done"
        BY DEF Reports, DoneAtEnd
    <2>2. ASSUME NEW k \in 1 .. Len(chan') PROVE chan'[k].kind # "done"
        BY <1>1, <1>2, <2>1, k \in 1 .. Len(chan) \/ k = Len(chan) + 1
    <2> QED
        BY <2>2 DEF DoneAtEnd
<1>4. Joined' /\ Quiet'
    BY DEF Joined, Quiet
<1> QED
    BY <1>3, <1>4

(* Each step keeps the order of events and loses no candidate.             *)
LEMMA NextReports == TypeOK /\ Reports /\ [Next]_vars => Reports'
<1> SUFFICES ASSUME TypeOK, Reports, [Next]_vars PROVE Reports'
    OBVIOUS
<1>e. chan \in Seq(Events) /\ rows \in Seq(Nat) /\ Len(chan) \in Nat
    BY DEF TypeOK
<1>1. CASE Start
    <2>1. chan' = <<>> /\ rows' = <<>> /\ found' = {} /\ listening' = TRUE
          /\ main' # "done"
        BY <1>1 DEF Start
    <2>2. Range(<<>>) = {}
        BY DEF Range
    <2> QED
        BY <2>1, <2>2 DEF Reports, Kept, DoneAtEnd, Joined, Quiet
<1>2. CASE Stop
    BY <1>2 DEF Stop, Reports, Kept, DoneAtEnd, Joined, Quiet, AllGone, Gone,
                workers, page, history
<1>3. CASE Take
    <2> DEFINE e == Head(chan)
    <2>1. /\ listening /\ chan # <<>> /\ chan' = Tail(chan)
          /\ rows' = IF e.kind = "row" THEN Append(rows, e.value) ELSE rows
          /\ listening' = (e.kind # "done")
          /\ UNCHANGED <<main, found, stage>>
        BY <1>3 DEF Take, shared, workers, history
    <2>2. e \in Events /\ e.value \in Nat
        <3>1. e \in Events
            BY <1>e, <2>1
        <3> QED
            BY <3>1, EventsAre
    <2>3. Range(chan) = {e} \union Range(chan')
        BY <1>e, <2>1, RangeTail
    <2>4. Kept'
        <3>1. CASE e.kind = "row"
            <4>1. Range(rows') = Range(rows) \union {e.value} /\ e = Row(e.value)
                BY <1>e, <2>1, <2>2, <3>1, RangeAppend DEF Events, Row
            <4>2. \A i \in Nat : Row(i) = e <=> i = e.value
                BY <4>1 DEF Row
            <4> QED
                BY <2>1, <2>3, <4>1, <4>2 DEF Reports, Kept
        <3>2. CASE e.kind # "row"
            <4>1. \A i \in Nat : Row(i) # e
                BY <3>2 DEF Row
            <4> QED
                BY <2>1, <2>3, <3>2, <4>1 DEF Reports, Kept
        <3> QED
            BY <3>1, <3>2
    <2>5. /\ Len(chan') = Len(chan) - 1 /\ e = chan[1] /\ Len(chan) >= 1
          /\ \A k \in 1 .. Len(chan) - 1 : chan'[k] = chan[k + 1]
        BY <1>e, <2>1
    <2>6. DoneAtEnd'
        <3>1. ASSUME NEW k \in 1 .. Len(chan'), chan'[k].kind = "done"
              PROVE  k = Len(chan') /\ main' = "done"
            <4>1. k + 1 \in 1 .. Len(chan) /\ chan[k + 1].kind = "done"
                BY <1>e, <2>5, <3>1
            <4>2. k + 1 = Len(chan) /\ main = "done"
                BY <4>1 DEF Reports, DoneAtEnd
            <4>3. Len(chan') = Len(chan) - 1 /\ main' = main
                BY <2>1, <2>5
            <4> QED
                BY <1>e, <3>1, <4>2, <4>3
        <3> QED
            BY <3>1 DEF DoneAtEnd
    <2>7. Joined'
        BY <2>1 DEF Reports, Joined, AllGone, Gone
    <2>8. Quiet'
        <3>1. ASSUME ~listening' PROVE AllGone' /\ chan' = <<>> /\ main' # "joining"
            <4>1. e.kind = "done"
                BY <2>1, <3>1
            <4>2. chan[1].kind = "done" /\ 1 \in 1 .. Len(chan)
                BY <1>e, <2>5, <4>1
            <4>3. Len(chan) = 1 /\ main = "done"
                BY <4>2 DEF Reports, DoneAtEnd
            <4>4. chan' = <<>>
                BY <1>e, <2>1, <4>3
            <4> QED
                BY <2>1, <4>3, <4>4 DEF Reports, Joined, AllGone, Gone
        <3> QED
            BY <3>1 DEF Quiet
    <2> QED
        BY <2>4, <2>6, <2>7, <2>8 DEF Reports
<1>4. CASE Disconnected
    BY <1>4 DEF Disconnected, Reports, Kept, DoneAtEnd, Joined, Quiet, AllGone, Gone,
                workers, history
<1>5. CASE Finish
    <2>1. /\ main = "joining" /\ main' = "done" /\ chan' = Append(chan, Done)
          /\ AllGone /\ UNCHANGED <<stage, listening, rows, found>>
        BY <1>5 DEF Finish, AllGone, workers, page, history
    <2>2. Range(chan') = Range(chan) \union {Done} /\ \A i \in Nat : Row(i) # Done
        BY <1>e, <2>1, RangeAppend DEF Row, Done
    <2>3. Kept'
        BY <2>1, <2>2 DEF Reports, Kept
    <2>4. Len(chan') = Len(chan) + 1 /\ \A k \in 1 .. Len(chan) : chan'[k] = chan[k]
        BY <1>e, <2>1
    <2>5. DoneAtEnd'
        BY <1>e, <2>1, <2>4 DEF Reports, DoneAtEnd
    <2>6. AllGone' /\ listening
        BY <2>1 DEF AllGone, Gone, Reports, Quiet
    <2> QED
        BY <2>1, <2>3, <2>5, <2>6 DEF Reports, Joined, Quiet
<1>6. ASSUME NEW w \in Workers, Check(w) PROVE Reports'
    BY <1>6, WorkerAlive, MovesKeepReports DEF Check, Moves, Gone, page, history
<1>7. ASSUME NEW w \in Workers, Claim(w) PROVE Reports'
    <2>1. ~Gone(w) /\ UNCHANGED <<main, chan, listening, rows, found>>
        BY <1>7 DEF Claim, Visit, Moves, Gone, page
    <2> QED
        BY <2>1, WorkerAlive, MovesKeepReports
<1>8. ASSUME NEW w \in Workers, Probe(w) PROVE Reports'
    <2>1. ~Gone(w) /\ UNCHANGED <<main, listening, rows>>
        BY <1>8 DEF Probe, Moves, Gone, page
    <2>2. listening /\ main # "done"
        BY <2>1, WorkerAlive
    <2>3. CASE UNCHANGED <<chan, found>>
        BY <2>1, <2>2, <2>3, MovesKeepReports
    <2>4. CASE chan' = Append(chan, Row(host[w])) /\ found' = found \union {host[w]}
        <3>1. host[w] \in Nat /\ Row(host[w]) \in Events /\ Row(host[w]).kind # "done"
            BY DEF TypeOK, Row, Events
        <3>2. DoneAtEnd' /\ Joined' /\ Quiet'
            BY <2>1, <2>2, <2>4, <3>1, SendKeepsOrder
        <3>3. Range(chan') = Range(chan) \union {Row(host[w])}
            BY <1>e, <2>4, RangeAppend
        <3>4. \A i \in Nat : Row(i) = Row(host[w]) <=> i = host[w]
            BY DEF Row
        <3>5. Kept'
            BY <2>1, <2>4, <3>1, <3>3, <3>4 DEF Reports, Kept
        <3> QED
            BY <3>2, <3>5 DEF Reports
    <2> QED
        BY <1>8, <2>3, <2>4 DEF Probe
<1>9. ASSUME NEW w \in Workers, Count(w) PROVE Reports'
    BY <1>9, WorkerAlive, MovesKeepReports DEF Count, Moves, Gone, page, history
<1>10. ASSUME NEW w \in Workers, Report(w) PROVE Reports'
    <2>1. /\ ~Gone(w) /\ chan' = Append(chan, Progress(tally[w]))
          /\ UNCHANGED <<main, listening, rows, found>>
        BY <1>10 DEF Report, Moves, Gone, page, history
    <2>2. listening /\ main # "done"
        BY <2>1, WorkerAlive
    <2>3. Progress(tally[w]) \in Events /\ Progress(tally[w]).kind # "done"
        BY DEF TypeOK, Progress, Events
    <2>4. DoneAtEnd' /\ Joined' /\ Quiet'
        BY <2>1, <2>2, <2>3, SendKeepsOrder
    <2>5. Range(chan') = Range(chan) \union {Progress(tally[w])}
          /\ \A i \in Nat : Row(i) # Progress(tally[w])
        BY <1>e, <2>1, RangeAppend DEF Row, Progress
    <2>6. Kept'
        BY <2>1, <2>5 DEF Reports, Kept
    <2> QED
        BY <2>4, <2>6 DEF Reports
<1>11. ASSUME NEW w \in Workers, Panic(w) PROVE Reports'
    BY <1>11, WorkerAlive, MovesKeepReports DEF Panic, Moves, Gone, page, history
<1>12. CASE UNCHANGED vars
    BY <1>12 DEF vars, Reports, Kept, DoneAtEnd, Joined, Quiet, AllGone, Gone,
                 workers, page, history
<1> QED
    BY <1>1, <1>2, <1>3, <1>4, <1>5, <1>6, <1>7, <1>8, <1>9, <1>10, <1>11, <1>12
    DEF Next, Work

(* When the page lets go of the channel, every worker is gone, the channel *)
(* is empty, and every candidate found is on the page (run_target_scan,    *)
(* poll_target_scan).                                                      *)
THEOREM NoCandidateLost == Spec => []DoneIsLast
<1>1. Init => TypeOK /\ Reports
    <2>1. ASSUME Init PROVE Reports
        <3>1. chan = <<>> /\ rows = <<>> /\ found = {} /\ AllGone /\ main = "done"
            BY <2>1 DEF Init, AllGone, Gone
        <3>2. Range(<<>>) = {}
            BY DEF Range
        <3> QED
            BY <3>1, <3>2 DEF Reports, Kept, DoneAtEnd, Joined, Quiet
    <2> QED
        BY <2>1, InitType
<1>2. TypeOK /\ Reports /\ [Next]_vars => (TypeOK /\ Reports)'
    BY NextType, NextReports
<1>3. TypeOK /\ Reports => DoneIsLast
    <2> SUFFICES ASSUME TypeOK, Reports, ~listening
                 PROVE  AllGone /\ chan = <<>> /\ Range(rows) = found
        BY DEF DoneIsLast, AllGone
    <2>1. AllGone /\ chan = <<>>
        BY DEF Reports, Quiet
    <2>2. Range(chan) = {} /\ Range(rows) \subseteq Nat /\ found \subseteq Nat
        BY <2>1 DEF Range, TypeOK
    <2>3. Range(rows) = found
        BY <2>2 DEF Reports, Kept
    <2> QED
        BY <2>1, <2>3
<1> QED
    BY <1>1, <1>2, <1>3, PTL DEF Spec

-----------------------------------------------------------------------------
(* Counting workers.                                                       *)

InStage(stages) == {w \in Workers : stage[w] \in stages}

(* There are never more than all workers in some stages.                   *)
LEMMA InStageCount ==
    ASSUME NEW stages
    PROVE  /\ IsFiniteSet(InStage(stages))
           /\ Cardinality(InStage(stages)) \in 0 .. MaxThreads
<1>1. /\ IsFiniteSet(Workers) /\ Cardinality(Workers) = MaxThreads
    BY FS_Interval DEF Workers
<1>2. InStage(stages) \in SUBSET Workers
    BY DEF InStage
<1>3. IsFiniteSet(InStage(stages)) /\ Cardinality(InStage(stages)) <= MaxThreads
    BY <1>1, <1>2, FS_Subset
<1>4. Cardinality(InStage(stages)) \in Nat
    BY <1>3, FS_CardinalityType
<1> QED
    BY <1>3, <1>4

(* A worker that moves joins a stage, leaves it, or neither.               *)
LEMMA MoveCounts ==
    ASSUME TypeOK, NEW stages, NEW w \in Workers, NEW from, NEW to,
           Moves(w, from, to)
    PROVE  LET n == Cardinality(InStage(stages))
           IN  /\ from \in stages /\ to \in stages => n' = n
               /\ from \notin stages /\ to \notin stages => n' = n
               /\ from \notin stages /\ to \in stages => n' = n + 1
               /\ from \in stages /\ to \notin stages => n' = n - 1
<1>1. /\ stage[w] = from /\ stage'[w] = to
      /\ \A v \in Workers : v # w => stage'[v] = stage[v]
    BY DEF Moves, TypeOK
<1>2. IsFiniteSet(InStage(stages))
    BY InStageCount
<1>3. ASSUME from \in stages <=> to \in stages PROVE InStage(stages)' = InStage(stages)
    BY <1>1, <1>3 DEF InStage
<1>4. ASSUME from \notin stages, to \in stages
      PROVE  Cardinality(InStage(stages)') = Cardinality(InStage(stages)) + 1
    <2>1. InStage(stages)' = InStage(stages) \cup {w} /\ w \notin InStage(stages)
        BY <1>1, <1>4 DEF InStage
    <2> QED
        BY <1>2, <2>1, FS_AddElement
<1>5. ASSUME from \in stages, to \notin stages
      PROVE  Cardinality(InStage(stages)') = Cardinality(InStage(stages)) - 1
    <2>1. InStage(stages)' = InStage(stages) \ {w} /\ w \in InStage(stages)
        BY <1>1, <1>5 DEF InStage
    <2> QED
        BY <1>2, <2>1, FS_RemoveElement
<1> QED
    BY <1>3, <1>4, <1>5

(* Nobody is in stages that no worker has.                                 *)
LEMMA NobodyThere ==
    ASSUME NEW stages, \A w \in Workers : stage[w] \notin stages
    PROVE  Cardinality(InStage(stages)) = 0
<1>1. InStage(stages) = {}
    BY DEF InStage
<1> QED
    BY <1>1, FS_EmptySet

-----------------------------------------------------------------------------
(* Stop.                                                                   *)

(* Only a worker that had looked at the flag before Stop claims after it.  *)
Braked ==
    IF cancel THEN late + Cardinality(InStage({"claim"})) <= MaxThreads
              ELSE late = 0

(* Every step keeps it so.                                                 *)
LEMMA NextBraked == TypeOK /\ Braked /\ [Next]_vars => Braked'
<1> SUFFICES ASSUME TypeOK, Braked, [Next]_vars PROVE Braked'
    OBVIOUS
<1> DEFINE n == Cardinality(InStage({"claim"}))
<1>0. n \in 0 .. MaxThreads /\ late \in Nat /\ cancel \in BOOLEAN
    BY InStageCount DEF TypeOK
<1>1. CASE Start
    BY <1>1 DEF Start, Braked
<1>2. CASE Stop
    <2>1. ~cancel /\ cancel' /\ late' = late /\ stage' = stage
        BY <1>2 DEF Stop, workers, history
    <2>2. n' = n
        BY <2>1 DEF InStage
    <2> QED
        BY <1>0, <2>1, <2>2 DEF Braked
<1>3. ASSUME NEW w \in Workers, Check(w) PROVE Braked'
    <2>1. UNCHANGED <<cancel, late>>
        BY <1>3 DEF Check, shared, history
    <2>2. CASE cancel
        <3>1. Moves(w, "check", "ended")
            BY <1>3, <2>2 DEF Check
        <3>2. n' = n
            BY <3>1, MoveCounts
        <3> QED
            BY <2>1, <3>2 DEF Braked
    <2>3. CASE ~cancel
        BY <2>1, <2>3 DEF Braked
    <2> QED
        BY <2>2, <2>3
<1>4. ASSUME NEW w \in Workers, Claim(w) PROVE Braked'
    <2>1. cancel' = cancel
        BY <1>4 DEF Claim
    <2>2. Moves(w, "claim", "probe") \/ Moves(w, "claim", "ended")
        BY <1>4 DEF Claim, Visit
    <2>3. n' = n - 1
        BY <2>2, MoveCounts
    <2>4. late' = late \/ (cancel /\ late' = late + 1)
        BY <1>4 DEF Claim, Visit
    <2> QED
        BY <1>0, <2>1, <2>3, <2>4 DEF Braked
<1>5. ASSUME NEW w \in Workers, Probe(w) \/ Panic(w) \/ Count(w) \/ Report(w)
      PROVE  Braked'
    <2>1. UNCHANGED <<cancel, late>>
        BY <1>5 DEF Probe, Panic, Count, Report, shared, history
    <2>2. \/ Moves(w, "probe", "count") \/ Moves(w, "probe", "panicked")
          \/ Moves(w, "count", "report") \/ Moves(w, "report", "check")
        BY <1>5 DEF Probe, Panic, Count, Report
    <2>3. n' = n
        BY <2>2, MoveCounts
    <2> QED
        BY <2>1, <2>3 DEF Braked
<1>6. CASE Take \/ Disconnected \/ Finish \/ UNCHANGED vars
    <2>1. UNCHANGED <<cancel, late, stage>>
        BY <1>6 DEF Take, Disconnected, Finish, vars, shared, workers, history
    <2> QED
        BY <2>1 DEF Braked, InStage
<1> QED
    BY <1>1, <1>2, <1>3, <1>4, <1>5, <1>6 DEF Next, Work

(* After Stop no worker begins more than one probe (scan_worker).          *)
THEOREM StopTakesEffect == Spec => []StopBites
<1>1. Init => TypeOK /\ Braked
    <2>1. Init => TypeOK
        BY InitType
    <2> QED
        BY <2>1 DEF Init, Braked
<1>2. TypeOK /\ Braked /\ [Next]_vars => (TypeOK /\ Braked)'
    BY NextType, NextBraked
<1>3. TypeOK /\ Braked => StopBites
    <2> SUFFICES ASSUME TypeOK, Braked PROVE StopBites
        OBVIOUS
    <2>1. Cardinality(InStage({"claim"})) \in Nat /\ late \in Nat
        BY InStageCount DEF TypeOK
    <2> QED
        BY <2>1 DEF Braked, StopBites
<1> QED
    BY <1>1, <1>2, <1>3, PTL DEF Spec

-----------------------------------------------------------------------------
(* A whole scan.                                                           *)

(* A host that was claimed was visited.                                    *)
Behind == \A i \in Hosts : i < nextIndex => visits[i] = 1

Claimed == IF nextIndex < total THEN nextIndex ELSE total

(* A host that was claimed was counted, or is a worker's to count.         *)
Busy    == {"probe", "count", "panicked"}
Counted == checked + Cardinality(InStage(Busy)) = Claimed

(* A worker that ended by itself had found the queue empty.                *)
Exhausted == main # "dead" /\ ~cancel /\ stage[1] = "ended" => nextIndex >= total

(* No report is ahead of the count, and the last count is on the page, on  *)
(* its way or about to be sent.                                            *)
Bounded ==
    /\ shown <= checked
    /\ \A n \in Nat : Progress(n) \in Range(chan) => n <= checked
    /\ \A w \in Workers : stage[w] = "report" => tally[w] <= checked

Underway ==
    checked > 0 =>
        \/ shown = checked
        \/ Progress(checked) \in Range(chan)
        \/ \E w \in Workers : stage[w] = "report" /\ tally[w] = checked

(* Every step keeps claims and visits together.                            *)
LEMMA NextBehind == TypeOK /\ Ahead /\ Behind /\ [Next]_vars => Behind'
<1> SUFFICES ASSUME TypeOK, Ahead, Behind, [Next]_vars PROVE Behind'
    OBVIOUS
<1>0. /\ nextIndex \in Nat /\ total \in 0 .. MaxHosts
      /\ visits \in [0 .. MaxHosts -> Nat]
    BY DEF TypeOK
<1>1. CASE Start
    BY <1>1 DEF Start, Behind, Hosts
<1>2. ASSUME NEW w \in Workers, Claim(w) PROVE Behind'
    <2>1. total' = total /\ nextIndex' = nextIndex + 1
        BY <1>2 DEF Claim
    <2>2. CASE nextIndex < total
        <3>1. visits' = [visits EXCEPT ![nextIndex] = @ + 1]
            BY <1>2, <2>2 DEF Claim, Visit
        <3>2. nextIndex \in 0 .. MaxHosts /\ visits[nextIndex] = 0
            BY <1>0, <2>2 DEF Ahead
        <3>3. visits'[nextIndex] = 1
              /\ \A i \in 0 .. MaxHosts : i # nextIndex => visits'[i] = visits[i]
            BY <1>0, <3>1, <3>2
        <3>4. ASSUME NEW i \in 0 .. total - 1, i < nextIndex + 1 PROVE visits'[i] = 1
            <4>1. i \in 0 .. MaxHosts /\ (i = nextIndex \/ i < nextIndex)
                BY <1>0, <3>4
            <4>2. i < nextIndex => visits[i] = 1
                BY DEF Behind, Hosts
            <4> QED
                BY <1>0, <3>3, <4>1, <4>2
        <3> QED
            BY <2>1, <3>4 DEF Behind, Hosts
    <2>3. CASE ~(nextIndex < total)
        <3>1. visits' = visits
            BY <1>2, <2>3 DEF Claim
        <3>2. \A i \in 0 .. total - 1 : i < nextIndex
            BY <1>0, <2>3
        <3> QED
            BY <2>1, <3>1, <3>2 DEF Behind, Hosts
    <2> QED
        BY <2>2, <2>3
<1>3. ASSUME UNCHANGED <<total, nextIndex, visits>> PROVE Behind'
    BY <1>3 DEF Behind, Hosts
<1>4. Start \/ (\E w \in Workers : Claim(w)) \/ UNCHANGED <<total, nextIndex, visits>>
    BY DEF Next, Work, Stop, Take, Disconnected, Finish, Check, Probe, Count,
           Report, Panic, vars, shared, history
<1> QED
    BY <1>1, <1>2, <1>3, <1>4

(* Every step keeps the count.                                             *)
LEMMA NextCounted == TypeOK /\ Counted /\ [Next]_vars => Counted'
<1> SUFFICES ASSUME TypeOK, Counted, [Next]_vars PROVE Counted'
    OBVIOUS
<1> DEFINE n == Cardinality(InStage(Busy))
<1>0. /\ n \in 0 .. MaxThreads /\ checked \in Nat
      /\ nextIndex \in Nat /\ total \in 0 .. MaxHosts
      /\ checked + n = Claimed
    BY InStageCount DEF TypeOK, Counted
<1>1. CASE Start
    <2>1. \A w \in Workers : stage'[w] \in {"check", "ended"}
        BY <1>1 DEF Start
    <2>2. InStage(Busy)' = {}
        BY <2>1 DEF InStage, Busy
    <2>3. n' = 0
        BY <2>2, FS_EmptySet
    <2>4. checked' = 0 /\ nextIndex' = 0 /\ total' \in 0 .. MaxHosts
        BY <1>1 DEF Start
    <2> QED
        BY <2>3, <2>4 DEF Counted, Claimed
<1>2. ASSUME NEW w \in Workers, Claim(w) PROVE Counted'
    <2>1. UNCHANGED <<total, checked>> /\ nextIndex' = nextIndex + 1
        BY <1>2 DEF Claim
    <2>2. CASE nextIndex < total
        <3>1. Moves(w, "claim", "probe")
            BY <1>2, <2>2 DEF Claim, Visit
        <3>2. n' = n + 1
            BY <3>1, MoveCounts DEF Busy
        <3> QED
            BY <1>0, <2>1, <2>2, <3>2 DEF Counted, Claimed
    <2>3. CASE ~(nextIndex < total)
        <3>1. Moves(w, "claim", "ended")
            BY <1>2, <2>3 DEF Claim
        <3>2. n' = n
            BY <3>1, MoveCounts DEF Busy
        <3> QED
            BY <1>0, <2>1, <2>3, <3>2 DEF Counted, Claimed
    <2> QED
        BY <2>2, <2>3
<1>3. ASSUME NEW w \in Workers, Count(w) PROVE Counted'
    <2>1. UNCHANGED <<total, nextIndex>> /\ checked' = checked + 1
        BY <1>3 DEF Count
    <2>2. Moves(w, "count", "report")
        BY <1>3 DEF Count
    <2>3. n' = n - 1
        BY <2>2, MoveCounts DEF Busy
    <2> QED
        BY <1>0, <2>1, <2>3 DEF Counted, Claimed
<1>4. ASSUME NEW w \in Workers, Check(w) \/ Probe(w) \/ Panic(w) \/ Report(w)
      PROVE  Counted'
    <2>1. UNCHANGED <<total, nextIndex, checked>>
        BY <1>4 DEF Check, Probe, Panic, Report, shared
    <2>2. \/ Moves(w, "check", "ended") \/ Moves(w, "check", "claim")
          \/ Moves(w, "probe", "count") \/ Moves(w, "probe", "panicked")
          \/ Moves(w, "report", "check")
        BY <1>4 DEF Check, Probe, Panic, Report
    <2>3. n' = n
        BY <2>2, MoveCounts DEF Busy
    <2> QED
        BY <2>1, <2>3 DEF Counted, Claimed
<1>5. CASE Stop \/ Take \/ Disconnected \/ Finish \/ UNCHANGED vars
    <2>1. UNCHANGED <<total, nextIndex, checked, stage>>
        BY <1>5 DEF Stop, Take, Disconnected, Finish, vars, shared, workers
    <2> QED
        BY <2>1 DEF Counted, Claimed, InStage
<1> QED
    BY <1>1, <1>2, <1>3, <1>4, <1>5 DEF Next, Work

(* Every step keeps the queue empty for workers that ended by themselves.  *)
LEMMA NextExhausted == TypeOK /\ Exhausted /\ [Next]_vars => Exhausted'
<1> SUFFICES ASSUME TypeOK, Exhausted, [Next]_vars PROVE Exhausted'
    OBVIOUS
<1>0. /\ 1 \in Workers /\ stage \in [Workers -> Stages]
      /\ nextIndex \in Nat /\ total \in Nat
    BY DEF TypeOK, Workers
<1>1. CASE Start
    <2>1. PICK asked \in Workers, created \in 0 .. MaxThreads :
              /\ stage' = [w \in Workers |-> IF w <= created THEN "check" ELSE "ended"]
              /\ main' = IF created = asked THEN "joining" ELSE "dead"
        BY <1>1 DEF Start
    <2>2. main' # "dead" => 1 <= created
        BY <2>1 DEF Workers
    <2>3. main' # "dead" => stage'[1] = "check"
        BY <1>0, <2>1, <2>2
    <2> QED
        BY <2>3 DEF Exhausted
<1>2. ASSUME NEW w \in Workers, Check(w) PROVE Exhausted'
    <2>1. UNCHANGED <<total, nextIndex, cancel, main>>
        BY <1>2 DEF Check, shared
    <2>2. stage'[1] = stage[1] \/ cancel \/ stage'[1] = "claim"
        BY <1>0, <1>2 DEF Check, Moves
    <2> QED
        BY <2>1, <2>2 DEF Exhausted
<1>3. ASSUME NEW w \in Workers, Claim(w) PROVE Exhausted'
    <2>1. UNCHANGED <<total, cancel, main>> /\ nextIndex' = nextIndex + 1
        BY <1>3 DEF Claim
    <2>2. stage'[1] = stage[1] \/ stage'[1] = "probe" \/ ~(nextIndex < total)
        BY <1>0, <1>3 DEF Claim, Visit, Moves
    <2>3. nextIndex >= total => nextIndex' >= total'
        BY <1>0, <2>1
    <2> QED
        BY <1>0, <2>1, <2>2, <2>3 DEF Exhausted
<1>4. ASSUME NEW w \in Workers, Probe(w) \/ Panic(w) \/ Count(w) \/ Report(w)
      PROVE  Exhausted'
    <2>1. UNCHANGED <<total, nextIndex, cancel, main>>
        BY <1>4 DEF Probe, Panic, Count, Report, shared
    <2>2. stage'[1] = stage[1] \/ stage'[1] # "ended"
        BY <1>0, <1>4 DEF Probe, Panic, Count, Report, Moves
    <2> QED
        BY <2>1, <2>2 DEF Exhausted
<1>5. CASE Stop
    BY <1>5 DEF Stop, Exhausted
<1>6. CASE Take \/ Disconnected \/ Finish \/ UNCHANGED vars
    <2>1. UNCHANGED <<total, nextIndex, cancel, stage>> /\ (main' # "dead" => main # "dead")
        BY <1>6 DEF Take, Disconnected, Finish, vars, shared, workers
    <2> QED
        BY <2>1 DEF Exhausted
<1> QED
    BY <1>1, <1>2, <1>3, <1>4, <1>5, <1>6 DEF Next, Work

(* Every step keeps the reports within the count, and the last of them in  *)
(* sight.                                                                  *)
LEMMA NextReported ==
    TypeOK /\ Bounded /\ Underway /\ [Next]_vars => Bounded' /\ Underway'
<1> SUFFICES ASSUME TypeOK, Bounded, Underway, [Next]_vars
             PROVE  Bounded' /\ Underway'
    OBVIOUS
<1>0. /\ checked \in Nat /\ shown \in Nat /\ chan \in Seq(Events)
      /\ stage \in [Workers -> Stages] /\ tally \in [Workers -> Nat]
    BY DEF TypeOK
<1>1. CASE Start
    <2>1. /\ checked' = 0 /\ shown' = 0 /\ chan' = <<>>
          /\ \A w \in Workers : stage'[w] # "report"
        BY <1>1 DEF Start
    <2>2. Range(<<>>) = {}
        BY DEF Range
    <2> QED
        BY <2>1, <2>2 DEF Bounded, Underway
<1>2. CASE Take
    <2> DEFINE e == Head(chan)
    <2>1. /\ UNCHANGED <<checked, stage, tally>>
          /\ chan # <<>> /\ chan' = Tail(chan)
          /\ shown' = IF e.kind = "progress" /\ e.value > shown THEN e.value ELSE shown
        BY <1>2 DEF Take, shared, workers
    <2>2. Range(chan) = {e} \union Range(chan')
        BY <1>0, <2>1, RangeTail
    <2>3. e \in Events /\ e.value \in Nat
        <3>1. e \in Events
            BY <1>0, <2>1
        <3> QED
            BY <3>1, EventsAre
    <2>4. CASE e.kind = "progress"
        <3>1. e = Progress(e.value)
            BY <2>3, <2>4 DEF Events, Progress
        <3>2. e.value <= checked
            BY <2>2, <2>3, <3>1 DEF Bounded
        <3>3. Progress(checked) = e => e.value = checked
            BY DEF Progress
        <3>4. shown' <= checked /\ (e.value = checked => shown' = checked)
              /\ (shown = checked => shown' = checked)
            BY <1>0, <2>1, <2>3, <2>4, <3>2 DEF Bounded
        <3> QED
            BY <2>1, <2>2, <3>3, <3>4 DEF Bounded, Underway
    <2>5. CASE e.kind # "progress"
        <3>1. \A k \in Nat : Progress(k) # e
            BY <2>5 DEF Progress
        <3> QED
            BY <1>0, <2>1, <2>2, <2>5, <3>1 DEF Bounded, Underway
    <2> QED
        BY <2>4, <2>5
<1>3. ASSUME NEW w \in Workers, Count(w) PROVE Bounded' /\ Underway'
    <2>1. checked' = checked + 1 /\ UNCHANGED <<shown, chan>>
        BY <1>3 DEF Count, page
    <2>2. /\ stage'[w] = "report" /\ tally'[w] = checked + 1
          /\ \A v \in Workers : v # w => stage'[v] = stage[v] /\ tally'[v] = tally[v]
        BY <1>0, <1>3 DEF Count, Moves
    <2>3. \A v \in Workers : stage'[v] = "report" => tally'[v] <= checked + 1
        <3>1. \A v \in Workers : tally[v] \in Nat
            BY <1>0
        <3> QED
            BY <1>0, <2>2, <3>1 DEF Bounded
    <2>4. /\ shown <= checked + 1
          /\ \A k \in Nat : Progress(k) \in Range(chan) => k <= checked + 1
        BY <1>0 DEF Bounded
    <2> QED
        BY <2>1, <2>2, <2>3, <2>4 DEF Bounded, Underway
<1>4. ASSUME NEW w \in Workers, Report(w) PROVE Bounded' /\ Underway'
    <2>1. /\ UNCHANGED <<checked, shown, tally>>
          /\ chan' = Append(chan, Progress(tally[w]))
          /\ stage[w] = "report" /\ stage'[w] = "check"
          /\ \A v \in Workers : v # w => stage'[v] = stage[v]
        BY <1>0, <1>4 DEF Report, Moves, shared, page
    <2>2. tally[w] \in Nat /\ tally[w] <= checked
        BY <1>0, <2>1 DEF Bounded
    <2>3. Range(chan') = Range(chan) \union {Progress(tally[w])}
        <3>1. Progress(tally[w]) \in Events
            BY <2>2, EventsAre
        <3> QED
            BY <1>0, <2>1, <3>1, RangeAppend
    <2>4. \A k \in Nat : Progress(k) = Progress(tally[w]) => k = tally[w]
        BY DEF Progress
    <2>5. Bounded'
        BY <2>1, <2>2, <2>3, <2>4 DEF Bounded
    <2>6. Underway'
        BY <2>1, <2>3 DEF Underway
    <2> QED
        BY <2>5, <2>6
<1>5. ASSUME NEW w \in Workers, Check(w) \/ Claim(w) \/ Probe(w) \/ Panic(w)
      PROVE  Bounded' /\ Underway'
    <2>1. UNCHANGED <<checked, shown, tally>>
        BY <1>5 DEF Check, Claim, Probe, Panic, shared, page
    <2>2. \A v \in Workers : stage'[v] = "report" <=> stage[v] = "report"
        BY <1>0, <1>5 DEF Check, Claim, Visit, Probe, Panic, Moves
    <2>3. \A k \in Nat : Progress(k) \in Range(chan') <=> Progress(k) \in Range(chan)
        <3>1. CASE chan' = chan
            BY <3>1
        <3>2. CASE chan' = Append(chan, Row(host[w]))
            <4>1. Range(chan') = Range(chan) \union {Row(host[w])}
                <5>1. Row(host[w]) \in Events
                    BY EventsAre DEF TypeOK
                <5> QED
                    BY <1>0, <3>2, <5>1, RangeAppend
            <4>2. \A k \in Nat : Progress(k) # Row(host[w])
                BY DEF Progress, Row
            <4> QED
                BY <4>1, <4>2
        <3> QED
            BY <1>5, <3>1, <3>2 DEF Check, Claim, Probe, Panic
    <2> QED
        BY <1>0, <2>1, <2>2, <2>3 DEF Bounded, Underway
<1>6. CASE Finish
    <2>1. UNCHANGED <<checked, shown, tally, stage>> /\ chan' = Append(chan, Done)
        BY <1>6 DEF Finish, shared, workers, page
    <2>2. Range(chan') = Range(chan) \union {Done}
        BY <1>0, <2>1, EventsAre, RangeAppend
    <2>3. \A k \in Nat : Progress(k) # Done
        BY DEF Progress, Done
    <2> QED
        BY <1>0, <2>1, <2>2, <2>3 DEF Bounded, Underway
<1>7. CASE Stop \/ Disconnected \/ UNCHANGED vars
    <2>1. UNCHANGED <<checked, shown, tally, stage, chan>>
        BY <1>7 DEF Stop, Disconnected, vars, shared, workers, page
    <2> QED
        BY <2>1 DEF Bounded, Underway
<1> QED
    BY <1>1, <1>2, <1>3, <1>4, <1>5, <1>6, <1>7 DEF Next, Work

Complete == Behind /\ Counted /\ Exhausted /\ Bounded /\ Underway

(* When the workers of a scan are gone, none of them by a panic, and Stop  *)
(* was not pressed, the count is the number of hosts.                      *)
LEMMA EndsComplete ==
    ASSUME TypeOK, Complete, AllGone, main = "done", ~cancel,
           \A w \in Workers : stage[w] # "panicked"
    PROVE  checked = total /\ nextIndex >= total
<1>1. 1 \in Workers /\ \A w \in Workers : stage[w] = "ended"
    BY DEF AllGone, Gone, Workers
<1>2. nextIndex >= total
    BY <1>1 DEF Complete, Exhausted
<1>3. Cardinality(InStage(Busy)) = 0
    BY <1>1, NobodyThere DEF Busy
<1> QED
    BY <1>2, <1>3 DEF Complete, Counted, Claimed, TypeOK

(* A scan that nobody stopped and no panic cut short has visited every     *)
(* host, and the page shows so (scan_worker, poll_target_scan).            *)
THEOREM WholeScan == Spec => []ScanComplete
<1>1. Init => TypeOK /\ Ahead /\ Reports /\ Complete
    <2> SUFFICES ASSUME Init PROVE Ahead /\ Reports /\ Complete
        BY InitType
    <2>1. /\ chan = <<>> /\ rows = <<>> /\ found = {} /\ AllGone /\ main = "done"
          /\ total = 0 /\ nextIndex = 0 /\ checked = 0 /\ shown = 0
        BY DEF Init, AllGone, Gone
    <2>2. Range(<<>>) = {} /\ \A w \in Workers : stage[w] = "ended"
        BY DEF Range, Init
    <2>3. Ahead /\ Reports
        BY <2>1, <2>2 DEF Init, Ahead, Reports, Kept, DoneAtEnd, Joined, Quiet
    <2>4. Cardinality(InStage(Busy)) = 0
        BY <2>2, NobodyThere DEF Busy
    <2> QED
        BY <2>1, <2>2, <2>3, <2>4
        DEF Complete, Behind, Hosts, Counted, Claimed, Exhausted, Bounded, Underway
<1>2. TypeOK /\ Ahead /\ ProbedOnce /\ Reports /\ Complete /\ [Next]_vars
        => (TypeOK /\ Ahead /\ ProbedOnce /\ Reports /\ Complete)'
    BY NextType, NextClaims, NextReports, NextBehind, NextCounted, NextExhausted,
       NextReported
    DEF Complete
<1>3. TypeOK /\ Reports /\ Complete => ScanComplete
    <2> SUFFICES ASSUME TypeOK, Reports, Complete, main = "done", ~listening, ~cancel,
                        \A w \in Workers : stage[w] # "panicked"
                 PROVE  shown = total /\ \A i \in Hosts : visits[i] = 1
        BY DEF ScanComplete
    <2>1. AllGone /\ chan = <<>>
        BY DEF Reports, Quiet
    <2>2. checked = total /\ nextIndex >= total
        BY <2>1, EndsComplete
    <2>3. shown = checked
        <3>1. Range(chan) = {} /\ \A w \in Workers : stage[w] # "report"
            BY <2>1 DEF Range, AllGone, Gone
        <3> QED
            BY <3>1 DEF Complete, Bounded, Underway, TypeOK
    <2>4. \A i \in Hosts : visits[i] = 1
        BY <2>2 DEF Complete, Behind, Hosts, TypeOK
    <2> QED
        BY <2>2, <2>3, <2>4
<1>4. Spec => []ProbedOnce
    BY EachHostOnce
<1> QED
    BY <1>1, <1>2, <1>3, <1>4, PTL DEF Spec

=============================================================================
