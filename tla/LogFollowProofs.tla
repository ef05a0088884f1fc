-------------------------- MODULE LogFollowProofs --------------------------
(***************************************************************************)
(* Proofs about LogFollow for any number of lines, any chunk and tail      *)
(* length, and both sources.                                               *)
(***************************************************************************)
EXTENDS LogFollow, TLAPS

USE LogFollowAssumption

(* A sequence over a set is one over any larger set.                       *)
LEMMA SeqMonotone ==
    ASSUME NEW S, NEW T, S \subseteq T, NEW s \in Seq(S)
    PROVE  s \in Seq(T)
OBVIOUS

(* Appending loses nothing.                                                *)
LEMMA ConcatRange ==
    ASSUME NEW S, NEW s \in Seq(S), NEW t \in Seq(S), NEW x,
           x \in Range(s) \/ x \in Range(t)
    PROVE  x \in Range(s \o t)
<1>1. CASE x \in Range(s)
    <2>1. PICK i \in DOMAIN s : s[i] = x
        BY <1>1 DEF Range
    <2>2. i \in DOMAIN (s \o t) /\ (s \o t)[i] = x
        BY <2>1
    <2> QED
        BY <2>2 DEF Range
<1>2. CASE x \in Range(t)
    <2>1. PICK i \in DOMAIN t : t[i] = x
        BY <1>2 DEF Range
    <2>2. Len(s) + i \in DOMAIN (s \o t) /\ (s \o t)[Len(s) + i] = x
        BY <2>1
    <2> QED
        BY <2>2 DEF Range
<1> QED
    BY <1>1, <1>2

(* Lines a .. b are a sequence of these numbers, each of them once.        *)
LEMMA LinesType ==
    ASSUME NEW a \in Nat, NEW b \in Nat
    PROVE  Lines(a, b) \in Seq(a .. b)
<1>1. \A i \in 1 .. (IF b >= a THEN b + 1 - a ELSE 0) : a + i - 1 \in a .. b
    OBVIOUS
<1>2. (IF b >= a THEN b + 1 - a ELSE 0) \in Nat
    OBVIOUS
<1> QED
    BY <1>1, <1>2 DEF Lines

(* Every line of an interval is among its lines.                           *)
LEMMA LinesRange ==
    ASSUME NEW a \in Nat, NEW b \in Nat, NEW x \in a .. b
    PROVE  x \in Range(Lines(a, b))
<1>1. x + 1 - a \in 1 .. b + 1 - a /\ a + (x + 1 - a) - 1 = x
    OBVIOUS
<1>2. Lines(a, b) = [i \in 1 .. b + 1 - a |-> a + i - 1]
    BY DEF Lines
<1>3. x + 1 - a \in DOMAIN Lines(a, b) /\ Lines(a, b)[x + 1 - a] = x
    BY <1>1, <1>2
<1> QED
    BY <1>3 DEF Range

(* No line comes after line a and no later than line b, if b is not later. *)
LEMMA NothingAfter ==
    ASSUME NEW a \in Nat, NEW b \in Nat, b <= a
    PROVE  \A line \in a + 1 .. b : FALSE
OBVIOUS

(* After line a, up to line b, there are b - a lines.                      *)
LEMMA LinesLen ==
    ASSUME NEW a \in Nat, NEW b \in Nat, b >= a
    PROVE  Len(Lines(a + 1, b)) = b - a
<1>1. Lines(a + 1, b) = [i \in 1 .. b - a |-> a + 1 + i - 1]
    <2>1. (IF b >= a + 1 THEN b + 1 - (a + 1) ELSE 0) = b - a
        OBVIOUS
    <2> QED
        BY <2>1 DEF Lines
<1>2. b - a \in Nat
    OBVIOUS
<1> QED
    BY <1>1, <1>2

-----------------------------------------------------------------------------
(* What the worker knows.  While the file was never emptied, its first     *)
(* line is line 1, so that offsets are line numbers.                       *)
Knows ==
    /\ truncations = 0 => first = 1
    /\ step \in {"stat", "read"} => source = "file"
    /\ step \in {"tail", "stat"} => mark = 0
    /\ step = "tail" => from = 0
    /\ source = "journal" => first = 1 /\ (from # 0 => mark # 0)

Inv == TypeOK /\ Knows /\ OnlyJoiningSkips

(* The invariant holds at first, and every step keeps it.                 *)
LEMMA InitInv == Init => Inv
<1> SUFFICES ASSUME Init PROVE Inv
    OBVIOUS
<1>1. TypeOK
    <2>1. shown \in Seq(1 .. last)
        BY DEF Init
    <2>2. stop \in BOOLEAN
        BY DEF Init
    <2>3. step \in Steps
        BY DEF Init, Steps
    <2> QED
        BY <2>1, <2>2, <2>3 DEF Init, TypeOK
<1>2. Knows
    BY DEF Init, Knows
<1>3. OnlyJoiningSkips
    BY DEF Init, OnlyJoiningSkips
<1> QED
    BY <1>1, <1>2, <1>3 DEF Inv

(* The page gets the lines a .. b besides what it shows.                   *)
LEMMA Appended ==
    ASSUME TypeOK, NEW a \in Nat \ {0}, NEW b \in 0 .. last
    PROVE  /\ shown \o Lines(a, b) \in Seq(1 .. last)
           /\ \A x \in a .. b : x \in Range(shown \o Lines(a, b))
           /\ \A x \in Range(shown) : x \in Range(shown \o Lines(a, b))
<1>1. Lines(a, b) \in Seq(1 .. last)
    <2>1. a .. b \subseteq 1 .. last
        BY DEF TypeOK
    <2>2. Lines(a, b) \in Seq(a .. b)
        BY LinesType
    <2> QED
        BY <2>1, <2>2, SeqMonotone
<1>2. shown \in Seq(1 .. last)
    BY DEF TypeOK
<1>3. shown \o Lines(a, b) \in Seq(1 .. last)
    BY <1>1, <1>2
<1>4. ASSUME NEW x \in a .. b PROVE x \in Range(shown \o Lines(a, b))
    <2>1. x \in Range(Lines(a, b))
        BY LinesRange
    <2> QED
        BY <2>1, <1>1, <1>2, ConcatRange
<1>5. ASSUME NEW x \in Range(shown) PROVE x \in Range(shown \o Lines(a, b))
    BY <1>1, <1>2, ConcatRange
<1> QED
    BY <1>3, <1>4, <1>5

(* One step per action, under it one per conjunct the action can disturb.   *)
LEMMA NextInv == Inv /\ [Next]_vars => Inv'
<1> SUFFICES ASSUME Inv, [Next]_vars PROVE Inv'
    OBVIOUS
<1> USE DEF Inv
<1>1. CASE Write
    <2>1. last' = last + 1 /\ last' \in 0 .. MaxLines
          /\ UNCHANGED <<source, first, truncations, stop, worker>>
        BY <1>1 DEF Write, TypeOK
    <2>2. shown' \in Seq(1 .. last')
        <3>1. shown \in Seq(1 .. last) /\ 1 .. last \subseteq 1 .. last'
            BY <2>1 DEF TypeOK
        <3>2. shown' = shown
            BY <2>1 DEF worker
        <3> QED
            BY <3>1, <3>2, SeqMonotone
    <2>3. TypeOK'
        BY <2>1, <2>2 DEF TypeOK, worker
    <2>4. Knows' /\ OnlyJoiningSkips'
        BY <2>1 DEF Knows, OnlyJoiningSkips, Skipped, worker
    <2> QED
        BY <2>3, <2>4
<1>2. CASE Truncate
    <2>1. TypeOK'
        BY <1>2 DEF Truncate, TypeOK, worker
    <2>2. Knows' /\ OnlyJoiningSkips'
        BY <1>2 DEF Truncate, Knows, OnlyJoiningSkips, Skipped, TypeOK, worker
    <2> QED
        BY <2>1, <2>2
<1>3. CASE ReadTail
    <2> DEFINE a == IF Size > Limit THEN last + 1 - Limit ELSE first
    <2>1. a \in Nat \ {0}
        BY DEF TypeOK, Size
    <2> HIDE DEF a
    <2>2. Lines(a, last) \in Seq(1 .. last)
        <3> last \in Nat
            BY DEF TypeOK
        <3>1. Lines(a, last) \in Seq(a .. last)
            BY <2>1, LinesType
        <3>2. a .. last \subseteq 1 .. last
            BY <2>1 DEF TypeOK
        <3> QED
            BY <3>1, <3>2, SeqMonotone
    <2>3. shown' \in Seq(1 .. last')
        BY <1>3, <2>2 DEF ReadTail, Goes, log, a
    <2>4. TypeOK'
        BY <1>3, <2>3 DEF ReadTail, Goes, log, TypeOK, Steps
    <2>5. Knows'
        BY <1>3 DEF ReadTail, Goes, log, Knows, TypeOK
    <2>6. mark' \in Nat /\ from' \in Nat /\ mark' <= from'
        BY <1>3 DEF ReadTail, Knows, TypeOK
    <2>7. OnlyJoiningSkips'
        <3>1. ASSUME NEW line \in from' + 1 .. mark' PROVE FALSE
            BY <2>6, NothingAfter
        <3> QED
            BY <3>1 DEF OnlyJoiningSkips
    <2> QED
        BY <2>4, <2>5, <2>7
<1>4. CASE FirstStat
    <2>1. TypeOK'
        BY <1>4 DEF FirstStat, Goes, log, TypeOK, Steps, Size
    <2>2. Knows'
        BY <1>4 DEF FirstStat, Goes, log, Knows, TypeOK, Size
    <2>3. truncations = 0 => Skipped' = from' + 1 .. mark'
        BY <1>4 DEF FirstStat, Goes, log, Knows, TypeOK, Size, Skipped
    <2>4. OnlyJoiningSkips'
        BY <1>4, <2>3 DEF FirstStat, Goes, log, OnlyJoiningSkips
    <2> QED
        BY <2>1, <2>2, <2>4
<1>5. CASE Wake
    <2>1. TypeOK'
        BY <1>5 DEF Wake, Goes, log, TypeOK, Steps
    <2>2. Knows' /\ OnlyJoiningSkips'
        BY <1>5 DEF Wake, Goes, log, Knows, OnlyJoiningSkips, Skipped
    <2> QED
        BY <2>1, <2>2
<1>6. CASE PollStat
    <2>1. TypeOK'
        BY <1>6 DEF PollStat, Goes, log, TypeOK, Steps, Size
    <2>2. Knows'
        BY <1>6 DEF PollStat, Goes, log, Knows, TypeOK, Size
    <2>3. truncations = 0 => mark' = mark
        BY <1>6 DEF PollStat, Knows, TypeOK, Size
    <2>4. OnlyJoiningSkips'
        BY <1>6, <2>3 DEF PollStat, Goes, log, OnlyJoiningSkips, Skipped
    <2> QED
        BY <2>1, <2>2, <2>4
<1>7. CASE ReadNew
    <2>1. first + mark \in Nat \ {0} /\ last \in 0 .. last
        BY DEF TypeOK
    <2>2. shown' = shown \o Lines(first + mark, last) /\ mark' = size
          /\ UNCHANGED <<source, first, last, truncations, stop, size, from, joined>>
        BY <1>7 DEF ReadNew, Goes, log
    <2>3. shown' \in Seq(1 .. last)
        BY <2>1, <2>2, Appended
    <2>4. TypeOK'
        BY <1>7, <2>2, <2>3 DEF ReadNew, Goes, TypeOK, Steps
    <2>5. Knows'
        BY <1>7, <2>2 DEF ReadNew, Goes, Knows
    <2>6. ASSUME truncations = 0, NEW line \in from + 1 .. size
          PROVE  line \in Range(shown') \cup Skipped
        <3>1. CASE line <= mark
            <4>1. line \in Range(shown) \cup Skipped
                BY <1>7, <2>6, <3>1
                DEF OnlyJoiningSkips, ReadNew, Knows, TypeOK
            <4> QED
                BY <4>1, <2>1, <2>2, Appended
        <3>2. CASE line > mark
            <4>1. line \in first + mark .. last
                BY <2>6, <3>2 DEF TypeOK, Knows
            <4> QED
                BY <4>1, <2>1, <2>2, Appended
        <3> QED
            BY <3>1, <3>2 DEF TypeOK
    <2>7. OnlyJoiningSkips'
        BY <2>2, <2>6 DEF OnlyJoiningSkips, Skipped
    <2> QED
        BY <2>4, <2>5, <2>7
<1>8. CASE PollJournal
    <2>1. UNCHANGED <<source, first, last, truncations, stop, size, from, joined>>
          /\ step' = "sleep" /\ source = "journal"
        BY <1>8 DEF PollJournal, Goes, log
    <2>2. CASE mark = 0
        <3>1. mark' = last /\ shown' = shown
            BY <1>8, <2>2 DEF PollJournal
        <3>2. TypeOK'
            BY <2>1, <3>1 DEF TypeOK, Steps
        <3>3. from = 0
            BY <2>1, <2>2 DEF Knows
        <3> QED
            BY <2>1, <3>1, <3>2, <3>3 DEF Knows, OnlyJoiningSkips
    <2>3. CASE mark # 0
        <3> DEFINE b == IF last > mark + Chunk THEN mark + Chunk ELSE last
        <3>1. mark + 1 \in Nat \ {0} /\ b \in 0 .. last /\ b >= mark
            BY DEF TypeOK
        <3>2. shown' = shown \o Lines(mark + 1, b)
              /\ mark' = mark + Len(Lines(mark + 1, b))
            BY <1>8, <2>3 DEF PollJournal, AfterCursor
        <3> HIDE DEF b
        <3>3. mark' = b
            <4>1. b \in Nat /\ mark \in Nat
                BY <3>1 DEF TypeOK
            <4>2. Len(Lines(mark + 1, b)) = b - mark
                BY <3>1, <4>1, LinesLen
            <4> QED
                BY <3>2, <4>1, <4>2
        <3>4. shown' \in Seq(1 .. last)
            BY <3>1, <3>2, Appended
        <3>5. TypeOK'
            BY <2>1, <3>1, <3>3, <3>4 DEF TypeOK, Steps
        <3>6. Knows'
            BY <2>1, <2>3, <3>1, <3>3 DEF Knows, TypeOK
        <3>7. ASSUME truncations = 0, from # 0, NEW line \in from + 1 .. b
              PROVE  line \in Range(shown') \cup Skipped
            <4>1. CASE line <= mark
                <5>1. line \in Range(shown) \cup Skipped
                    BY <3>7, <4>1 DEF OnlyJoiningSkips, TypeOK
                <5> QED
                    BY <5>1, <3>1, <3>2, Appended
            <4>2. CASE line > mark
                <5>1. line \in mark + 1 .. b
                    BY <3>7, <4>2 DEF TypeOK
                <5> QED
                    BY <5>1, <3>1, <3>2, Appended
            <4> QED
                BY <4>1, <4>2 DEF TypeOK
        <3>8. OnlyJoiningSkips'
            BY <2>1, <3>3, <3>7 DEF OnlyJoiningSkips, Skipped
        <3> QED
            BY <3>5, <3>6, <3>8
    <2> QED
        BY <2>2, <2>3
<1>9. CASE Interrupted
    <2>1. TypeOK'
        BY <1>9 DEF Interrupted, Goes, log, TypeOK, Steps
    <2>2. Knows' /\ OnlyJoiningSkips'
        BY <1>9 DEF Interrupted, Goes, log, Knows, OnlyJoiningSkips, Skipped
    <2> QED
        BY <2>1, <2>2
<1>10. CASE RequestStop
    <2>1. TypeOK'
        BY <1>10 DEF RequestStop, log, worker, TypeOK
    <2>2. Knows' /\ OnlyJoiningSkips'
        BY <1>10 DEF RequestStop, log, worker, Knows, OnlyJoiningSkips, Skipped
    <2> QED
        BY <2>1, <2>2
<1>11. CASE UNCHANGED vars
    BY <1>11 DEF vars, log, worker, TypeOK, Knows, OnlyJoiningSkips, Skipped
<1> QED
    BY <1>1, <1>2, <1>3, <1>4, <1>5, <1>6, <1>7, <1>8, <1>9, <1>10, <1>11
    DEF Next, Follow

(* Every variable of the follow worker keeps its type; in particular the   *)
(* offset never runs ahead of what was written.                            *)
THEOREM TypeCorrect == Spec => []TypeOK
<1>1. Inv => TypeOK
    BY DEF Inv
<1> QED
    BY <1>1, InitInv, NextInv, PTL DEF Spec

(* The lines written between the tail and the first stat of a file are the *)
(* only ones the worker ever skips: neither its offset nor the journal     *)
(* cursor passes another line that was not put on the page, for any number *)
(* of lines and any chunk (follow_file, follow_journal).                   *)
THEOREM NoOtherLineSkipped == Spec => []OnlyJoiningSkips
<1>1. Inv => OnlyJoiningSkips
    BY DEF Inv
<1> QED
    BY <1>1, InitInv, NextInv, PTL DEF Spec

-----------------------------------------------------------------------------
(* No gap and no repetition.                                               *)

Consecutive(s) == \A i \in 1 .. Len(s) - 1 : s[i + 1] = s[i] + 1

(* The page ends with the entry the cursor is at.                          *)
Unbroken ==
    source = "journal" /\ from # 0 =>
        /\ Consecutive(shown)
        /\ shown # <<>> /\ shown[Len(shown)] = mark

(* Lines a .. b follow each other, from a to b.                            *)
LEMMA LinesConsecutive ==
    ASSUME NEW a \in Nat, NEW b \in Nat, b >= a
    PROVE  LET s == Lines(a, b)
           IN  /\ s \in Seq(Nat) /\ s # <<>> /\ Consecutive(s)
               /\ s[1] = a /\ s[Len(s)] = b
<1> DEFINE s == Lines(a, b)
<1>1. s = [i \in 1 .. b + 1 - a |-> a + i - 1] /\ b + 1 - a \in Nat \ {0}
    BY DEF Lines
<1> HIDE DEF s
<1>2. s \in Seq(Nat) /\ Len(s) = b + 1 - a
    BY <1>1
<1>3. \A i \in 1 .. b + 1 - a : s[i] = a + i - 1
    BY <1>1
<1>4. s[1] = a /\ s[Len(s)] = b
    BY <1>1, <1>2, <1>3
<1>5. Consecutive(s)
    BY <1>2, <1>3 DEF Consecutive
<1>6. s # <<>>
    BY <1>1, <1>2
<1> QED
    BY <1>2, <1>4, <1>5, <1>6 DEF s

(* What goes on where the page ends leaves it without a gap.               *)
LEMMA JoinConsecutive ==
    ASSUME NEW s \in Seq(Nat), NEW t \in Seq(Nat), s # <<>>, t # <<>>,
           Consecutive(s), Consecutive(t), t[1] = s[Len(s)] + 1
    PROVE  /\ Consecutive(s \o t) /\ s \o t # <<>>
           /\ (s \o t)[Len(s \o t)] = t[Len(t)]
<1>1. /\ Len(s \o t) = Len(s) + Len(t)
      /\ Len(s) \in Nat \ {0} /\ Len(t) \in Nat \ {0}
      /\ \A i \in 1 .. Len(s) : (s \o t)[i] = s[i]
      /\ \A i \in 1 .. Len(t) : (s \o t)[Len(s) + i] = t[i]
    OBVIOUS
<1>2. ASSUME NEW i \in 1 .. Len(s \o t) - 1
      PROVE  (s \o t)[i + 1] = (s \o t)[i] + 1
    <2>1. CASE i < Len(s)
        <3>1. i \in 1 .. Len(s) - 1 /\ i \in 1 .. Len(s) /\ i + 1 \in 1 .. Len(s)
            BY <1>1, <2>1
        <3> QED
            BY <1>1, <3>1 DEF Consecutive
    <2>2. CASE i = Len(s)
        <3>1. (s \o t)[i] = s[Len(s)]
            BY <1>1, <2>2
        <3>2. (s \o t)[i + 1] = t[1]
            BY <1>1, <2>2
        <3> QED
            BY <3>1, <3>2
    <2>3. CASE i > Len(s)
        <3> DEFINE j == i - Len(s)
        <3>1. /\ j \in 1 .. Len(t) - 1 /\ j \in 1 .. Len(t) /\ j + 1 \in 1 .. Len(t)
              /\ i = Len(s) + j /\ i + 1 = Len(s) + (j + 1)
            BY <1>1, <2>3
        <3> HIDE DEF j
        <3>2. t[j + 1] = t[j] + 1
            BY <3>1 DEF Consecutive
        <3>3. (s \o t)[Len(s) + j] = t[j] /\ (s \o t)[Len(s) + (j + 1)] = t[j + 1]
            BY <1>1, <3>1
        <3> QED
            BY <3>1, <3>2, <3>3
    <2>4. i \in Int /\ Len(s) \in Int
        BY <1>1
    <2>5. i < Len(s) \/ i = Len(s) \/ i > Len(s)
        BY <2>4
    <2> QED
        BY <2>1, <2>2, <2>3, <2>5
<1>3. (s \o t)[Len(s \o t)] = t[Len(t)] /\ s \o t # <<>>
    BY <1>1
<1> QED
    BY <1>2, <1>3 DEF Consecutive

(* Every step of the worker leaves the page unbroken.                      *)
LEMMA NextUnbroken == Inv /\ Unbroken /\ [Next]_vars => Unbroken'
<1> SUFFICES ASSUME Inv, Unbroken, [Next]_vars PROVE Unbroken'
    OBVIOUS
<1>0. TypeOK /\ Knows
    BY DEF Inv
<1>1. CASE ReadTail
    <2> SUFFICES ASSUME source' = "journal", from' # 0
                 PROVE  Consecutive(shown') /\ shown' # <<>> /\ shown'[Len(shown')] = mark'
        BY DEF Unbroken
    <2> DEFINE a == IF Size > Limit THEN last + 1 - Limit ELSE first
    <2>1. source = "journal" /\ first = 1 /\ mark' = last /\ last # 0
          /\ shown' = Lines(a, last)
        BY <1>0, <1>1 DEF ReadTail, Goes, log, Knows
    <2>2. a \in Nat /\ last \in Nat /\ last >= a
        BY <1>0, <2>1 DEF TypeOK, Size
    <2> HIDE DEF a
    <2> QED
        BY <2>1, <2>2, LinesConsecutive
<1>2. CASE PollJournal
    <2> SUFFICES ASSUME from # 0
                 PROVE  Consecutive(shown') /\ shown' # <<>> /\ shown'[Len(shown')] = mark'
        BY <1>2 DEF Unbroken, PollJournal
    <2> DEFINE b == IF last > mark + Chunk THEN mark + Chunk ELSE last
    <2>1. /\ source = "journal" /\ mark # 0
          /\ Consecutive(shown) /\ shown # <<>> /\ shown[Len(shown)] = mark
        BY <1>0, <1>2 DEF PollJournal, Knows, Unbroken
    <2>2. mark \in Nat /\ b \in Nat /\ b >= mark
        BY <1>0 DEF TypeOK
    <2>3. shown' = shown \o Lines(mark + 1, b) /\ mark' = mark + Len(Lines(mark + 1, b))
        BY <1>2, <2>1 DEF PollJournal, AfterCursor
    <2> HIDE DEF b
    <2>4. mark' = b
        <3>1. Len(Lines(mark + 1, b)) = b - mark
            BY <2>2, LinesLen
        <3> QED
            BY <2>2, <2>3, <3>1
    <2>5. shown \in Seq(Nat)
        <3>1. 1 .. last \subseteq Nat /\ shown \in Seq(1 .. last)
            BY <1>0 DEF TypeOK
        <3> QED
            BY <3>1, SeqMonotone
    <2>6. CASE b > mark
        <3> DEFINE t == Lines(mark + 1, b)
        <3>1. /\ t \in Seq(Nat) /\ t # <<>> /\ Consecutive(t)
              /\ t[1] = mark + 1 /\ t[Len(t)] = b
            <4>1. mark + 1 \in Nat /\ b >= mark + 1
                BY <2>2, <2>6
            <4> QED
                BY <2>2, <4>1, LinesConsecutive
        <3> HIDE DEF t
        <3>2. /\ Consecutive(shown \o t) /\ shown \o t # <<>>
              /\ (shown \o t)[Len(shown \o t)] = b
            BY <2>1, <2>5, <3>1, JoinConsecutive
        <3> QED
            BY <2>3, <2>4, <3>2 DEF t
    <2>7. CASE b = mark
        <3>1. Lines(mark + 1, b) = <<>>
            <4>1. ~(b >= mark + 1)
                BY <2>2, <2>7
            <4> QED
                BY <4>1 DEF Lines
        <3>2. shown' = shown
            BY <2>3, <2>5, <3>1
        <3> QED
            BY <2>1, <2>4, <2>7, <3>2
    <2> QED
        BY <2>2, <2>6, <2>7
<1>3. CASE FirstStat \/ PollStat \/ ReadNew
    <2>1. source' # "journal"
        BY <1>0, <1>3 DEF FirstStat, PollStat, ReadNew, Goes, log, Knows, TypeOK
    <2> QED
        BY <2>1 DEF Unbroken
<1>4. CASE Write \/ Truncate \/ Wake \/ Interrupted \/ RequestStop \/ UNCHANGED vars
    <2>1. UNCHANGED <<source, from, shown, mark>>
        BY <1>4 DEF Write, Truncate, Wake, Interrupted, RequestStop, Goes, log, worker, vars
    <2> QED
        BY <2>1 DEF Unbroken
<1> QED
    BY <1>1, <1>2, <1>3, <1>4 DEF Next, Follow

(* The journal is on the page without a gap and without a repetition, for  *)
(* any tail and any chunk (read_journal_tail_with_cursor, follow_journal). *)
THEOREM JournalContiguous == Spec => []Contiguous
<1>1. Init => Unbroken
    BY DEF Init, Unbroken
<1>2. Unbroken => Contiguous
    BY DEF Unbroken, Contiguous, Consecutive
<1> QED
    BY <1>1, <1>2, InitInv, NextInv, NextUnbroken, PTL DEF Spec

=============================================================================
