------------------------------ MODULE StateBus ------------------------------
(***************************************************************************)
(* The file bus of a workflow (src/internal/workflow/bus.go): one record   *)
(* per line, appended and flushed as messages are delivered, read back by  *)
(* `nexus compose logs`.  Runs of a workflow append to the same file.      *)
(*                                                                         *)
(* A line is the sequence of records, whole or torn, that writes left      *)
(* between two newlines.                                                   *)
(***************************************************************************)
EXTENDS Naturals, Sequences

VARIABLES
  log,      \* the lines of the file
  ragged    \* its last line has no newline

busVars == <<log, ragged>>

Record(m, whole) == [msg |-> m, whole |-> whole]

(* Broken: the file is opened to be written from its start.                *)
WrittenOver(m, whole) == <<<<Record(m, whole)>>>>

(* What a write appends: after a line that was cut short it joins that     *)
(* line.                                                                   *)
Written(m, whole) ==
  IF ragged
    THEN [log EXCEPT ![Len(log)] = Append(@, Record(m, whole))]
    ELSE Append(log, <<Record(m, whole)>>)

Publish(m) == log' = Written(m, TRUE) /\ ragged' = FALSE

(* The disk is full, or the process dies: some of the record is written,   *)
(* or none of it.                                                          *)
PublishCutShort(m) ==
  \/ log' = Written(m, FALSE) /\ ragged' = TRUE
  \/ UNCHANGED busVars

(* A line parses, or decrypts, when it is one whole record.                *)
Legible(line) == Len(line) = 1 /\ line[1].whole

(* Messages: the first line that does not parse fails the whole call.      *)
ReadFails == \E i \in 1..Len(log) : ~Legible(log[i])
Messages == IF ReadFails THEN <<>> ELSE [i \in 1..Len(log) |-> log[i][1].msg]
=============================================================================
