----------------------------- MODULE LogFollow -----------------------------
(***************************************************************************)
(* What the follow worker of the Xray Logs page reads: the initial tail,   *)
(* then poll after poll the lines that are new, found by the size of a log *)
(* file or by the cursor of the systemd journal.  Xray writes, and logrotate*)
(* may empty the file, between any two of the worker's remote commands.    *)
(* A line is its number; a file's size is its number of lines, and the     *)
(* worker's offset counts lines the same way.                              *)
(***************************************************************************)
EXTENDS Naturals, Sequences, Functions

CONSTANTS
    Limit,          \* lines of the initial tail
    Chunk,          \* journal entries per poll (-n 500)
    MaxLines,       \* bound: lines Xray writes
    MaxTruncations  \* bound: times the file is emptied

ASSUME LogFollowAssumption ==
    /\ Limit \in Nat \ {0} /\ Chunk \in Nat \ {0}
    /\ MaxLines \in Nat /\ MaxTruncations \in Nat

VARIABLES
    source,      \* "file" or "journal": what is followed
    first,       \* number of the oldest line kept, or of the next one
    last,        \* number of the newest line written
    truncations, \* times the file was emptied
    stop,        \* the stop flag
    step,        \* next remote command of the worker
    size,        \* the file size the worker saw last
    mark,        \* offset into the file; entry the journal cursor is at, or 0
    shown,       \* lines on the page
    from,        \* history: the newest line when the tail was read
    joined       \* history: the newest line when the polls got their mark

log    == <<source, first, last, truncations>>
worker == <<step, size, mark, shown, from, joined>>
vars   == <<log, stop, worker>>

Steps == {"tail", "stat", "sleep", "poll", "read", "ended"}

(* The offset never runs ahead of what was written.                        *)
TypeOK ==
    /\ source \in {"file", "journal"}
    /\ first \in 1 .. MaxLines + 1 /\ last \in 0 .. MaxLines
    /\ first <= last + 1
    /\ truncations \in 0 .. MaxTruncations
    /\ stop \in BOOLEAN
    /\ step \in Steps
    /\ size \in 0 .. last /\ mark \in 0 .. last
    /\ from \in 0 .. last /\ joined \in 0 .. last
    /\ shown \in Seq(1 .. last)

Init ==
    /\ source \in {"file", "journal"}
    /\ first = 1 /\ last \in 0 .. MaxLines /\ truncations = 0
    /\ stop = FALSE
    /\ step = "tail" /\ size = 0 /\ mark = 0 /\ shown = <<>>
    /\ from = 0 /\ joined = 0

-----------------------------------------------------------------------------
(* The server.                                                             *)

Write ==
    /\ last < MaxLines /\ last' = last + 1
    /\ UNCHANGED <<source, first, truncations, stop, worker>>

Truncate ==
    /\ source = "file" /\ truncations < MaxTruncations /\ first <= last
    /\ truncations' = truncations + 1 /\ first' = last + 1
    /\ UNCHANGED <<source, last, stop, worker>>

Size == last + 1 - first

(* Lines a .. b, those of them that are still there.                       *)
Lines(a, b) == [i \in 1 .. (IF b >= a THEN b + 1 - a ELSE 0) |-> a + i - 1]

(* journalctl --after-cursor c -n Chunk: the oldest entries after c.       *)
AfterCursor(c) == Lines(c + 1, IF last > c + Chunk THEN c + Chunk ELSE last)

-----------------------------------------------------------------------------
(* The worker.                                                             *)

Goes(next) == step' = next /\ UNCHANGED <<log, stop>>

(* tail -n Limit, or journalctl -n Limit --show-cursor: the replace event. *)
(* For the journal the same answer carries the cursor to go on from; the   *)
(* place to go on from in a file is only asked for by the next command.    *)
ReadTail ==
    /\ step = "tail"
    /\ shown' = Lines(IF Size > Limit THEN last + 1 - Limit ELSE first, last)
    /\ from' = last
    /\ IF source = "journal"
       THEN mark' = last /\ joined' = last /\ Goes("sleep")
       ELSE UNCHANGED <<mark, joined>> /\ Goes("stat")
    /\ UNCHANGED size

(* follow_file begins with the size of the file.  What Xray wrote since    *)
(* the tail lies before that offset and is never read.                     *)
FirstStat ==
    /\ step = "stat"
    /\ mark' = Size /\ size' = Size /\ joined' = last
    /\ UNCHANGED <<shown, from>> /\ Goes("sleep")

(* The stop flag is looked at before and after the sleep.                  *)
Wake ==
    /\ step = "sleep" /\ Goes(IF stop THEN "ended" ELSE "poll")
    /\ UNCHANGED <<size, mark, shown, from, joined>>

MutAdvanceBeforeRead ==
    /\ step = "poll" /\ source = "file"
    /\ size' = Size /\ mark' = Size
    /\ Goes(IF Size > mark THEN "read" ELSE "sleep")
    /\ UNCHANGED <<shown, from, joined>>

(* A file that shrank is followed from its new end.                        *)
PollStat ==
    /\ step = "poll" /\ source = "file"
    /\ size' = Size
    /\ mark' = IF Size < mark THEN Size ELSE mark
    /\ Goes(IF Size > mark THEN "read" ELSE "sleep")
    /\ UNCHANGED <<shown, from, joined>>

MutTailPastOffset ==
    /\ step = "read"
    /\ shown' = shown \o Lines(first + mark + 1, last)
    /\ mark' = size
    /\ Goes("sleep") /\ UNCHANGED <<size, from, joined>>

(* tail -c +N prints to the end of the file, which may have moved since    *)
(* the stat; the offset becomes what the stat said.                        *)
ReadNew ==
    /\ step = "read"
    /\ shown' = shown \o Lines(first + mark, last)
    /\ mark' = size
    /\ Goes("sleep") /\ UNCHANGED <<size, from, joined>>

MutPollJournalToEnd ==
    /\ step = "poll" /\ source = "journal"
    /\ IF mark = 0
       THEN UNCHANGED shown
       ELSE shown' = shown \o AfterCursor(mark)
    /\ mark' = last
    /\ Goes("sleep") /\ UNCHANGED <<size, from, joined>>

(* Without a cursor yet, one is asked for; its entry is not shown.         *)
PollJournal ==
    /\ step = "poll" /\ source = "journal"
    /\ IF mark = 0
       THEN mark' = last /\ UNCHANGED shown
       ELSE /\ shown' = shown \o AfterCursor(mark)
            /\ mark' = mark + Len(AfterCursor(mark))
    /\ Goes("sleep") /\ UNCHANGED <<size, from, joined>>

(* Any remote command may fail; the worker reports it and ends.            *)
Interrupted ==
    /\ step \notin {"sleep", "ended"} /\ Goes("ended")
    /\ UNCHANGED <<size, mark, shown, from, joined>>

RequestStop ==
    /\ ~stop /\ stop' = TRUE /\ UNCHANGED <<log, worker>>

Follow == ReadTail \/ FirstStat \/ Wake \/ PollStat \/ ReadNew \/ PollJournal

Next == Write \/ Truncate \/ Follow \/ Interrupted \/ RequestStop

Spec == Init /\ [][Next]_vars

(* Remote commands return; Xray need not write, nor anything fail.         *)
FairSpec == Spec /\ WF_vars(Follow)

-----------------------------------------------------------------------------
(* Properties.                                                             *)

(* The lines of a file written between the tail and the first stat: the    *)
(* offset starts behind them, so they are on the page only after a refresh.*)
Skipped == IF source = "file" THEN from + 1 .. joined ELSE {}

(* The lines written between the tail and the first stat of a file are the *)
(* only ones ever skipped: every other line from the tail up to the        *)
(* worker's mark is on the page, until the file is emptied, and for the    *)
(* journal if it had an entry to begin with (follow_file, follow_journal). *)
OnlyJoiningSkips ==
    truncations = 0 /\ (source = "journal" => from # 0) =>
        \A line \in from + 1 .. mark : line \in Range(shown) \cup Skipped

(* The journal is shown without a gap and without a repetition, from the   *)
(* first line of the tail on (read_journal_tail_with_cursor: one call for  *)
(* lines and cursor).                                                      *)
Contiguous ==
    source = "journal" /\ from # 0 =>
        \A i \in 1 .. Len(shown) - 1 : shown[i + 1] = shown[i] + 1

(* Whatever else Xray writes after the tail is shown in the end, unless    *)
(* the worker is stopped or interrupted, or the file emptied.              *)
OthersShown ==
    \A line \in 1 .. MaxLines :
        (/\ step = "sleep" /\ (source = "file" \/ from # 0)
         /\ from < line /\ line <= last /\ line \notin Skipped)
            ~> (line \in Range(shown) \/ step = "ended" \/ truncations > 0)
=============================================================================
