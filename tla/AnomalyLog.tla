----------------------------- MODULE AnomalyLog -----------------------------
(***************************************************************************)
(* statusline.log: every record of a render reads the whole log, cuts it   *)
(* and writes it again; the detached child of warm appends its stderr.     *)
(*                                                                         *)
(*   internal/statusline/log.go       cappedLog                            *)
(*   internal/statusline/command.go   warm, the child's stderr             *)
(***************************************************************************)
EXTENDS Slots, SequencesExt

CONSTANTS
  MaxLogLines,
  MaxRecords    \* bound on the records written

ASSUME LogAssumption == MaxLogLines \in Nat \ {0} /\ MaxRecords \in Nat

VARIABLES
  log,       \* the lines of the file: records, by number
  lines,     \* the lines a writer is going to write
  records,   \* records begun: 1 .. records
  \* ghosts
  kept,      \* the records whose write ended
  risked     \* those that another write came in between of

logs == <<log, lines, records, kept, risked>>

-----------------------------------------------------------------------------
InitLog ==
  /\ log = <<>>
  /\ lines = [p \in Proc |-> <<>>]
  /\ records = 0
  /\ kept = {} /\ risked = {}

\* Mutant: the oldest lines are the ones to keep.
Mutant_Capped(s) == SubSeq(s, 1, IF Len(s) > MaxLogLines THEN MaxLogLines ELSE Len(s))

\* The most recent lines.
Capped(s) == IF Len(s) > MaxLogLines
             THEN SubSeq(s, Len(s) - MaxLogLines + 1, Len(s)) ELSE s

\* Lines at the start of the file, over what is there.
Overwrite(s) == s \o SubSeq(log, Len(s) + 1, Len(log))

Logging(p) == pc[p] \in {"empty", "lines"}
Beside(p) == \E q \in Proc \ {p} : Logging(q)

EndLog(p) ==
  /\ Leave(p)
  /\ lines' = [lines EXCEPT ![p] = <<>>]

\* A render reads the log for its record. A record begun while another is at it
\* is at risk, and so is what the other is about to write.
Record(p) ==
  /\ records < MaxRecords
  /\ Launch(p, "empty")
  /\ records' = records + 1
  /\ lines' = [lines EXCEPT ![p] = Capped(Append(log, records + 1))]
  /\ risked' = IF Beside(p) THEN 1 .. records + 1 ELSE risked
  /\ UNCHANGED <<log, kept>>

\* os.WriteFile empties the file, then writes.
EmptyLog(p) ==
  /\ pc[p] = "empty"
  /\ log' = <<>>
  /\ Goto(p, "lines")
  /\ UNCHANGED <<lines, records, kept, risked>>

WriteLines(p) ==
  /\ pc[p] = "lines"
  /\ log' = Overwrite(lines[p])
  /\ kept' = kept \union {Last(lines[p])}
  /\ EndLog(p)
  /\ UNCHANGED <<records, risked>>

\* The child writes at the end of the file, wherever that is by now.
ChildAppends ==
  /\ records < MaxRecords
  /\ records' = records + 1
  /\ log' = Append(log, records + 1)
  /\ kept' = kept \union {records + 1}
  /\ risked' = IF \E p \in Proc : Logging(p) THEN risked \union {records + 1} ELSE risked
  /\ UNCHANGED <<slots, lines>>

\* A writer dies; after it emptied the file, all that was in it is gone.
WriterDies(p) ==
  /\ Logging(p)
  /\ risked' = IF pc[p] = "lines" THEN 1 .. records ELSE risked
  /\ EndLog(p)
  /\ UNCHANGED <<log, records, kept>>

LogNext ==
  \/ \E p \in Proc : Record(p) \/ EmptyLog(p) \/ WriteLines(p) \/ WriterDies(p)
  \/ ChildAppends

-----------------------------------------------------------------------------
\* Every variable has its type.
LogTypeOK ==
  /\ log \in Seq(1 .. MaxRecords) /\ lines \in [Proc -> Seq(1 .. MaxRecords)]
  /\ records \in 0 .. MaxRecords
  /\ kept \subseteq 1 .. records /\ risked \subseteq 1 .. records

\* A record that was written is in the log until as many newer ones as the log
\* may hold are written, or until another write came in between
\* (log.go, "keeping only the most recent maxLogLines").
OnlyOldestLost ==
  (\A p \in Proc : pc[p] # "lines") =>
    \A r \in kept \ risked :
      \/ \E i \in DOMAIN log : log[i] = r
      \/ Cardinality({u \in kept : u > r}) >= MaxLogLines

=============================================================================
