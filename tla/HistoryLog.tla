----------------------------- MODULE HistoryLog -----------------------------
(***************************************************************************)
(* What the event history promises to the readers of                       *)
(* /logs/history_event: a bounded log.  Each recorded event goes at the    *)
(* end, and only the oldest lines ever make room for it; nothing in it is  *)
(* reordered, repeated or altered.  The file may be removed from outside,  *)
(* which empties the log.                                                  *)
(***************************************************************************)
EXTENDS Integers, Sequences

CONSTANTS MaxRecords,   \* lines the history keeps
          Record        \* the lines that can be recorded

VARIABLE log

\* The last n elements of s, or all of s when it is shorter.
LastN(s, n) == IF Len(s) <= n THEN s ELSE SubSeq(s, Len(s) - n + 1, Len(s))

Init == log = << >>

LogEvent(r) == log' = LastN(Append(log, r), MaxRecords)

Wipe == log' = << >>

Next == Wipe \/ \E r \in Record : LogEvent(r)

Spec == Init /\ [][Next]_log
=============================================================================
