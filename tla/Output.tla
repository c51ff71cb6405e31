------------------------------- MODULE Output -------------------------------
(***************************************************************************)
(* The writer of a scan (start_writer() in cli/src/commands/scan.rs): a    *)
(* thread that takes records and feedback from a channel, writes the       *)
(* records to a buffered file and each batch of feedback as a line of the  *)
(* journal, flushed before the next event is taken, and says at its end    *)
(* whether all of it was written.                                          *)
(***************************************************************************)
EXTENDS Naturals, Sequences

CONSTANTS OutCap,    \* capacity of the channel (64)
          WriteFails \* whether a write may fail

ASSUME OutputAssumption == OutCap \in Nat \ {0} /\ WriteFails \in BOOLEAN

VARIABLES
  out,         \* events in the channel
  senders,     \* the sending end exists
  writer,      \* "none", "open", "recv", "ok" or "failed": its thread, or its verdict
  rows,        \* records given to the csv writer
  saved,       \* records that are in the file
  journal,     \* feedback batches whose lines are in the journal
  lastLine     \* the line being written: its batch, and how much the file holds

ovars == <<out, senders, writer, rows, saved, journal, lastLine>>

\* A line goes through a buffer of fixed size, so the file may hold a part of
\* it, or all of it but its end of line.
NoLine == [batch |-> <<>>, file |-> "none"]
Longer(amount) ==
  CASE amount = "none" -> {"some", "all"} [] amount = "some" -> {"all"} [] OTHER -> {}

OutputInit ==
  /\ out = <<>> /\ senders = FALSE /\ writer = "none"
  /\ rows = <<>> /\ saved = <<>> /\ journal = <<>> /\ lastLine = NoLine

RecordsEvent(records)  == [kind |-> "Records", items |-> records]
FeedbackEvent(batch)   == [kind |-> "Feedback", items |-> <<batch>>]

StartWriter ==
  /\ senders' = TRUE /\ writer' = "open"
  /\ UNCHANGED <<out, rows, saved, journal, lastLine>>

Listening == writer \in {"open", "recv"}

\* output.send(): it waits for room, and fails when the thread has ended.
CanSend == Listening /\ Len(out) < OutCap
Unsendable == ~Listening
Send(event) == out' = Append(out, event)

DropSender == senders' = FALSE

-----------------------------------------------------------------------------
\* ScanOutput::new() and the journal's creation.
OpenFiles ==
  /\ writer = "open"
  /\ \/ writer' = "recv" /\ UNCHANGED out
     \/ WriteFails /\ writer' = "failed" /\ out' = <<>>
  /\ UNCHANGED <<senders, rows, saved, journal, lastLine>>

\* csv rows stay in a buffer, of which any part may reach the file.
RowsReachFile == \E n \in Len(saved)..Len(rows') : saved' = SubSeq(rows', 1, n)

\* An event is taken; a batch of feedback begins a line of the journal.
TakeEvent ==
  /\ writer = "recv" /\ out # <<>> /\ lastLine = NoLine
  /\ out' = Tail(out)
  /\ LET event == Head(out)
     IN  IF event.kind = "Records"
         THEN rows' = rows \o event.items /\ RowsReachFile /\ UNCHANGED lastLine
         ELSE lastLine' = [NoLine EXCEPT !.batch = event.items] /\ UNCHANGED <<rows, saved>>
  /\ UNCHANGED <<senders, writer, journal>>

LineGrows == \E amount \in Longer(lastLine.file) : lastLine' = [lastLine EXCEPT !.file = amount]

\* write_batch(): the buffer is written when it is full, and at last flushed.
WriteLine ==
  /\ writer = "recv" /\ lastLine # NoLine
  /\ \/ LineGrows /\ UNCHANGED journal
     \/ journal' = journal \o lastLine.batch /\ lastLine' = NoLine
  /\ UNCHANGED <<out, senders, writer, rows, saved>>

\* The first error ends the thread; the channel's contents are lost.  What the
\* buffers hold is written when they are dropped, as far as that succeeds.
WriteError_Continues ==
  /\ WriteFails /\ writer = "recv" /\ out # <<>>
  /\ out' = Tail(out)
  /\ UNCHANGED <<senders, writer, rows, saved, journal, lastLine>>
WriteError ==
  /\ WriteFails /\ writer = "recv" /\ (out # <<>> \/ lastLine # NoLine \/ ~senders)
  /\ writer' = "failed" /\ out' = <<>>
  /\ \/ UNCHANGED lastLine
     \/ lastLine # NoLine /\ LineGrows
  /\ UNCHANGED <<senders, rows, journal>> /\ RowsReachFile

\* The end of the channel: the last flush.
Finished == writer = "recv" /\ ~senders /\ out = <<>> /\ lastLine = NoLine
FinishOutput ==
  /\ Finished
  /\ writer' = "ok" /\ saved' = rows /\ out' = <<>>
  /\ UNCHANGED <<senders, rows, journal, lastLine>>

OutputStep == OpenFiles \/ TakeEvent \/ WriteLine \/ WriteError \/ FinishOutput

-----------------------------------------------------------------------------
\* load_batches(): the batches of the journal as it is in the file.  A line of
\* which the file holds a part is an error, for the whole file.
Readable == lastLine.file # "some"
Loadable == IF lastLine.file = "all" THEN journal \o lastLine.batch ELSE journal
=============================================================================
