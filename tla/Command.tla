------------------------------ MODULE Command -------------------------------
(***************************************************************************)
(* The commands that change files (cli/src/commands): train, feedback,     *)
(* the adaptive and the finite scan, and dealias.  A command runs once,    *)
(* from its start to its result, and may be killed at any point.  It       *)
(* composes the plugin that is the algorithm (Plugin; module Registry of   *)
(* core is the artifact's part), the writer of a scan (Output) and the     *)
(* source that a finite scan or dealias drives (Drive).                    *)
(*                                                                         *)
(* The adaptive scan is what Adaptive shows it to do: it asks the model    *)
(* for targets, tells it feedback, and then sends that feedback to the     *)
(* writer.                                                                 *)
(***************************************************************************)
EXTENDS Plugin, Output, Drive, SeqUtil, SequencesExt

CONSTANTS
  Ops,           \* the commands
  Batches,       \* feedback: the journal's batches, or those of a scan, in order
  MaxRevision,   \* u64::MAX, of an artifact's revision
  Rounds,        \* bound: calls of an adaptive scan
  Aliased,       \* the targets that dealias finds to be aliased
  Stumbles       \* whether files and the scan itself may fail

ASSUME CommandAssumption ==
  /\ Ops \subseteq {"train", "feedback", "scan", "standard", "dealias"}
  /\ MaxRevision \in Nat \ {0} /\ Rounds \in 0..Len(Batches) /\ Stumbles \in BOOLEAN
  /\ Batches \in Seq(Range(Batches)) /\ Range(Batches) \cap {"train", "generate"} = {}

VARIABLES
  op, pc,        \* the command, and where it is
  artifact,      \* the model's artifact in memory
  disk, temp,    \* the output file, and the temporary file it is written to
  told,          \* calls that changed the model and that succeeded
  todo,          \* batches yet to be applied
  rounds,        \* calls the scan has made
  scanned,       \* whether the scan itself succeeded
  records,       \* replies of a finite scan yet to be sent to the writer
  delivered      \* history: replies it was handed

clients == <<native, sequence, failed, call, open>>
mvars == <<op, pc, artifact, disk, temp, told, todo, rounds, scanned, records, delivered>>
vars  == <<pvars, ovars, rvars, mvars>>

File(rev, log) == [whole |-> TRUE, rev |-> rev, log |-> log]
NoFile  == [whole |-> FALSE, rev |-> 0, log |-> <<>>]
Partial == [whole |-> FALSE, rev |-> 1, log |-> <<>>]
Old(rev) == File(rev, <<"train">>)

Init ==
  /\ PluginInit /\ OutputInit /\ DriveInit
  /\ op \in Ops /\ pc = "start"
  /\ op \in {"standard", "dealias"} => native
  /\ disk \in (IF op \in {"feedback", "scan"} THEN {Old(1), Old(MaxRevision)} ELSE {NoFile})
  /\ artifact = disk /\ temp = NoFile
  /\ told = <<>> /\ rounds = 0 /\ scanned = TRUE
  /\ todo = IF op = "feedback" THEN Batches ELSE <<>>
  /\ records = <<>> /\ delivered = <<>>

Goto(l) == pc' = l
Ended == pc \in {"ok", "failed", "killed"}

-----------------------------------------------------------------------------
(* The model: Registry::train(), open(), update() and save_model().        *)

\* The call of each place, and what follows it.
Method == [describe |-> {"describe"}, build |-> {IF op = "train" THEN "train" ELSE "load"},
           feed |-> {"feedback"}, save |-> {"save"}]
Calling == DOMAIN Method

Argument(method) ==
  IF method = "load" THEN artifact.log
  ELSE IF method # "feedback" THEN <<>>
  ELSE <<IF op = "feedback" THEN Head(todo) ELSE Batches[rounds + 1]>>

Idle == call = NoCall /\ result = NoResult

\* connect() may fail; the command then ends.
OpenPlugin ==
  /\ pc = "connect" /\ Idle
  /\ \/ Connect /\ Goto("describe")
     \/ Stumbles /\ Goto("failed") /\ UNCHANGED pvars
  /\ UNCHANGED <<ovars, rvars, op, artifact, disk, temp, told, todo, rounds, scanned,
                 records, delivered>>

Ask ==
  /\ pc \in Calling /\ Idle /\ ~(pc = "feed" /\ todo = <<>>)
  /\ \E method \in Method[pc] : Call(method, Argument(method))
  /\ UNCHANGED <<ovars, rvars, mvars>>

\* A call has gone wrong, and with it the command.
Refused ==
  /\ pc \in Calling /\ result.kind = "error"
  /\ result' = NoResult
  /\ Goto("failed")
  /\ UNCHANGED <<clients, tvars, ovars, rvars, op, artifact, disk, temp, told, todo, rounds,
                 scanned, records, delivered>>

\* describe() names the registered algorithm, then the model is built.
Built ==
  /\ pc \in {"describe", "build"} /\ result.kind \in {"descriptor", "null"}
  /\ result' = NoResult
  /\ IF pc = "describe" THEN Goto("build") /\ UNCHANGED told
     ELSE /\ told' = IF op = "train" THEN <<"train">> ELSE artifact.log
          /\ Goto(CASE op = "train" -> "save" [] op = "feedback" -> "feed"
                    [] op = "scan" -> "prepare")
  /\ UNCHANGED <<clients, tvars, ovars, rvars, op, artifact,
                 disk, temp, todo, rounds, scanned, records, delivered>>

Fed ==
  /\ pc = "feed" /\ result.kind = "null"
  /\ result' = NoResult
  /\ told' = Append(told, Head(todo)) /\ todo' = Tail(todo)
  /\ UNCHANGED <<clients, tvars, ovars, rvars, op, pc,
                 artifact, disk, temp, rounds, scanned, records, delivered>>

AllFed ==
  /\ pc = "feed" /\ todo = <<>> /\ Idle
  /\ Goto("save")
  /\ UNCHANGED <<pvars, ovars, rvars, op, artifact, disk, temp, told, todo, rounds, scanned,
                 records, delivered>>

\* save_model(): the payload is encoded before the revision is raised, which
\* fails at its maximum; nothing of the artifact is changed before both.
Raised == File(artifact.rev + 1, result.log)

Encoded ==
  /\ pc = "save" /\ result.kind = "payload"
  /\ result' = NoResult
  /\ IF artifact.rev = MaxRevision
     THEN Goto("failed") /\ UNCHANGED artifact
     ELSE Goto("write") /\ artifact' = Raised
  /\ UNCHANGED <<clients, tvars, ovars, rvars, op, disk, temp, told, todo, rounds, scanned, records, delivered>>

\* formats::model::save(): a temporary file is written, synced and renamed.
WriteTemp ==
  /\ pc = "write"
  /\ \/ temp = NoFile /\ temp' = Partial /\ UNCHANGED pc
     \/ temp = Partial /\ temp' = artifact /\ Goto("persist")
     \/ Stumbles /\ Goto("failed") /\ UNCHANGED temp
  /\ UNCHANGED <<pvars, ovars, rvars, op, artifact, disk, told, todo, rounds, scanned,
                 records, delivered>>

Persist ==
  /\ pc = "persist"
  /\ \/ disk' = temp /\ Goto(IF op = "dealias" THEN "report" ELSE "ok")
     \/ Stumbles /\ Goto("failed") /\ UNCHANGED disk
  /\ UNCHANGED <<pvars, ovars, rvars, op, artifact, temp, told, todo, rounds, scanned,
                 records, delivered>>

\* The model is dropped when its owner is: after training, or when the scan or
\* the command is over; not before a call of its has returned.
DropModel ==
  /\ open /\ call = NoCall /\ pc # "killed"
  /\ Ended \/ (op = "train" /\ pc \in {"write", "persist"}) \/ (op = "scan" /\ ~scanned)
  /\ Close
  /\ UNCHANGED <<call, result, ovars, rvars, mvars>>

-----------------------------------------------------------------------------
(* The adaptive scan: run_adaptive().                                      *)

\* The scan is over; the writer sees the end of its channel.
Conclude(ok) == scanned' = ok /\ DropSender /\ Goto("drain")

Prepare ==
  /\ pc = "prepare"
  /\ \/ StartWriter /\ Goto("scan")
     \/ Stumbles /\ Goto("failed") /\ UNCHANGED ovars
  /\ UNCHANGED <<pvars, rvars, op, artifact, disk, temp, told, todo, rounds, scanned,
                 records, delivered>>

AskScan ==
  /\ pc = "scan" /\ Idle /\ rounds < Rounds
  /\ rounds' = rounds + 1
  /\ \E method \in {"generate", "feedback"} : Call(method, Argument(method))
  /\ UNCHANGED <<ovars, rvars, op, pc, artifact, disk, temp, told, todo, scanned, records,
                 delivered>>

\* The model has generated, or it was told a batch, which is sent to the journal.
Generated ==
  /\ pc = "scan" /\ result.kind = "batch"
  /\ result' = NoResult /\ told' = Append(told, "generate")
  /\ UNCHANGED <<clients, tvars, ovars, rvars, op, pc, artifact, disk, temp, todo, rounds,
                 scanned, records, delivered>>

Learned ==
  /\ pc = "scan" /\ result.kind = "null" /\ CanSend
  /\ result' = NoResult /\ told' = Append(told, Batches[rounds])
  /\ Send(FeedbackEvent(Batches[rounds]))
  /\ UNCHANGED <<clients, tvars, senders, writer, rows, saved, journal, lastLine, rvars, op, pc,
                 artifact, disk, temp, todo, rounds, scanned, records, delivered>>

Recorded ==
  /\ pc = "scan" /\ CanSend /\ Len(delivered) < Rounds
  /\ delivered' = Append(delivered, Len(delivered))
  /\ Send(RecordsEvent(<<Len(delivered)>>))
  /\ UNCHANGED <<pvars, senders, writer, rows, saved, journal, lastLine, rvars, op, pc, artifact,
                 disk, temp, told, todo, rounds, scanned, records>>

\* The scan ends: the model has, the model, the session or the writer failed.
EndScan ==
  /\ pc = "scan"
  /\ \/ Idle /\ Conclude(TRUE) /\ UNCHANGED result
     \/ (result.kind = "error" \/ Unsendable \/ Stumbles) /\ Conclude(FALSE) /\ result' = NoResult
  /\ UNCHANGED <<clients, tvars, out, writer, rows, saved, journal, lastLine, rvars, op, artifact,
                 disk, temp, told, todo, rounds, records, delivered>>

\* The writer's error comes before the scan's, and both before the model is
\* saved.
Judged_Scan == scanned
Judged == writer = "ok" /\ scanned
Drain ==
  /\ pc = "drain" /\ ~Listening
  /\ IF Judged THEN Goto(IF op = "scan" THEN "report" ELSE "join") ELSE Goto("failed")
  /\ IF op = "standard" /\ ~Judged THEN DropRun ELSE UNCHANGED rvars
  /\ UNCHANGED <<pvars, ovars, op, artifact, disk, temp, told, todo, rounds, scanned,
                 records, delivered>>

Report ==
  /\ pc = "report"
  /\ \/ Goto(IF op = "scan" THEN "save" ELSE "ok")
     \/ Stumbles /\ Goto("failed")
  /\ UNCHANGED <<pvars, ovars, rvars, op, artifact, disk, temp, told, todo, rounds, scanned,
                 records, delivered>>

-----------------------------------------------------------------------------
(* The finite scan: run_standard().                                        *)

StartScan ==
  /\ pc = "start" /\ op = "standard"
  /\ StartWriter /\ Goto("run")
  /\ UNCHANGED <<pvars, rvars, op, artifact, disk, temp, told, todo, rounds, scanned,
                 records, delivered>>

StartRun ==
  /\ pc = "run"
  /\ \/ StartDrive(TRUE) /\ Goto("stream") /\ UNCHANGED senders
     \/ Stumbles /\ Goto("failed") /\ DropSender /\ UNCHANGED rvars
  /\ UNCHANGED <<pvars, out, writer, rows, saved, journal, lastLine, op, artifact, disk, temp, told,
                 todo, rounds, scanned, records, delivered>>

\* Replies are collected, and sent when there are enough of them, at a tick of
\* the clock, and at the end.
StreamReply ==
  /\ pc = "stream" /\ events # <<>> /\ Len(records) < BatchMax
  /\ events' = Tail(events)
  /\ records' = Append(records, Head(events))
  /\ delivered' = Append(delivered, Head(events))
  /\ UNCHANGED <<pvars, ovars, scanning, producer, drawn, input, driver, ended, wire,
                 answered, toSend, engine, cancel, cancelled, asked, outcome, op, pc,
                 artifact, disk, temp, told, todo, rounds, scanned>>

StreamFlush ==
  /\ pc = "stream" /\ records # <<>>
  /\ \/ CanSend /\ Send(RecordsEvent(records)) /\ records' = <<>>
        /\ UNCHANGED <<rvars, scanned, pc, senders>>
     \/ Unsendable /\ CancelDrive /\ Conclude(FALSE) /\ UNCHANGED <<records, out>>
  /\ UNCHANGED <<pvars, writer, rows, saved, journal, lastLine, op, artifact, disk, temp, told, todo,
                 rounds, delivered>>

StreamEnds_Unflushed == events = <<>> /\ driver = "end"
StreamEnds == events = <<>> /\ driver = "end" /\ records = <<>>
EndStream ==
  /\ pc = "stream" /\ StreamEnds
  /\ Conclude(TRUE)
  /\ UNCHANGED <<pvars, out, writer, rows, saved, journal, lastLine, rvars, op, artifact, disk, temp,
                 told, todo, rounds, records, delivered>>

Join ==
  /\ pc = "join"
  /\ Goto(IF outcome = "Completed" THEN "report" ELSE "failed")
  /\ UNCHANGED <<pvars, ovars, rvars, op, artifact, disk, temp, told, todo, rounds, scanned,
                 records, delivered>>

-----------------------------------------------------------------------------
(* Dealias, and the start of the commands with a model.                    *)

Retained == Outside(Targets, Aliased)

\* Files that cannot be read end the command here.
Start ==
  /\ pc = "start" /\ op # "standard"
  /\ \/ op # "dealias" /\ Goto("connect") /\ UNCHANGED rvars
     \/ op = "dealias" /\ Goto("classify") /\ StartDrive(FALSE)
     \/ op = "dealias" /\ Goto("filter") /\ UNCHANGED rvars
     \/ Stumbles /\ Goto("failed") /\ UNCHANGED rvars
  /\ UNCHANGED <<pvars, ovars, op, artifact, disk, temp, told, todo, rounds, scanned,
                 records, delivered>>

Classified ==
  /\ pc = "classify" /\ driver = "end"
  /\ Goto(IF outcome = "Completed" THEN "filter" ELSE "failed")
  /\ UNCHANGED <<pvars, ovars, rvars, op, artifact, disk, temp, told, todo, rounds, scanned,
                 records, delivered>>

Filter ==
  /\ pc = "filter"
  /\ artifact' = File(1, Retained) /\ Goto("write")
  /\ UNCHANGED <<pvars, ovars, rvars, op, disk, temp, told, todo, rounds, scanned, records,
                 delivered>>

-----------------------------------------------------------------------------
ModelStep   == OpenPlugin \/ Ask \/ Refused \/ Built \/ Fed \/ AllFed \/ Encoded
ScanStep    == Prepare \/ AskScan \/ Generated \/ Learned \/ Recorded \/ EndScan
FiniteStep  == StartScan \/ StartRun \/ StreamReply \/ StreamFlush \/ EndStream \/ Join
FileStep    == WriteTemp \/ Persist \/ Drain \/ Report \/ Start \/ Classified \/ Filter
CommandStep == ModelStep \/ ScanStep \/ FiniteStep \/ FileStep

PluginOnly(A) == pc # "killed" /\ A /\ UNCHANGED <<ovars, rvars, mvars>>
OutputOnly(A) == pc # "killed" /\ A /\ UNCHANGED <<pvars, rvars, mvars>>
DriveOnly(A)  == pc # "killed" /\ A /\ UNCHANGED <<pvars, ovars, mvars>>

Waiting == PluginOnly(Receive \/ Timeout)
Working == PluginOnly(WorkerStep)
Writing == OutputOnly(OutputStep)
Sourcing == DriveOnly(SourceStep)
Driving  == DriveOnly(DriverStep)
Stopping == DriveOnly(EngineStops)

\* The process is killed.
Kill ==
  /\ ~Ended
  /\ Goto("killed")
  /\ UNCHANGED <<pvars, ovars, rvars, op, artifact, disk, temp, told, todo, rounds, scanned,
                 records, delivered>>

\* The command and its threads are over.
AtRest ==
  /\ Ended /\ ~open /\ ~alive /\ worker = "gone" /\ ~Listening
  /\ producer # "fill" /\ driver \in {"off", "end"}

Rest == (pc = "killed" \/ AtRest) /\ UNCHANGED vars

Next ==
  \/ CommandStep \/ DropModel
  \/ Waiting \/ Working \/ PluginOnly(NativeReturns) \/ PluginOnly(Serve) \/ PluginOnly(Crash)
  \/ Writing
  \/ Sourcing \/ Driving \/ Stopping
  \/ Kill
  \/ Rest

Spec == Init /\ [][Next]_vars

\* Every thread of the program runs, and every wait for a plugin's process has
\* its timeout.  The plugin itself owes nothing.
Fairness ==
  /\ WF_vars(CommandStep) /\ WF_vars(DropModel)
  /\ WF_vars(Waiting) /\ WF_vars(Working)
  /\ WF_vars(Writing)
  /\ WF_vars(Sourcing) /\ WF_vars(Driving) /\ WF_vars(Stopping)

FairSpec == Spec /\ Fairness

-----------------------------------------------------------------------------
(* Properties.                                                             *)

BatchesOf(log) == Outside(log, {"train", "generate"})

\* While the client has not failed, the model behind it is the one the program
\* believes it to be: every call that succeeded was done, once and in order, and
\* no other was, whatever answers were late, repeated or out of turn.
InStep ==
  (open /\ alive /\ ~failed /\ Idle /\ scanned /\ told # <<>>) => model = Loaded(told)

\* A step changes the artifact or the output file only from one whole content
\* to the next: a model that was told all the program told it, one revision on,
\* and, after a scan, only when all of its output and journal were written.
SavedIsWhole ==
  [][/\ artifact' # artifact /\ op # "dealias"
          => artifact' = File(artifact.rev + 1, told)
     /\ disk' # disk
          => /\ disk'.whole
             /\ disk' = artifact
             /\ op = "dealias" => disk'.log = Retained
             /\ op = "scan" => writer = "ok" /\ journal = BatchesOf(told)]_vars

\* The journal's lines are batches the model was told, in order and from the
\* first, at any time and so after any failure or kill.  Its file may end in a
\* part of one more line, for which load_batches() refuses all of it: then the
\* command was killed, or failed, while that line was written.  In every other
\* case feedback can replay the file, and after a scan that succeeded it holds
\* all the model was told.
JournalIsReplayable ==
  /\ IsPrefix(Loadable, BatchesOf(told))
  /\ ~Readable => writer \in {"recv", "failed"} /\ IsPrefix(journal \o lastLine.batch, BatchesOf(told))
  /\ op = "scan" /\ (writer = "ok" \/ pc = "ok") => Readable /\ journal = BatchesOf(told)

\* A scan that succeeds has written every record it was handed, and a finite one
\* has settled all its targets and been handed every reply.
OutputIsWhole ==
  /\ CompletedIsSettled
  /\ pc = "ok" /\ op \in {"scan", "standard"} => saved = delivered
  /\ pc = "ok" /\ op = "standard" => {delivered[i] : i \in DOMAIN delivered} = answered

\* Every command ends and leaves no thread and no child behind, even when a
\* plugin's process never answers and the output cannot be written.  The one
\* exception is a native plugin whose library never returns: native.rs:74 calls
\* it without a timeout, and the command waits for it for ever.
CommandEnds ==
  \/ <>(pc = "killed" \/ AtRest)
  \/ <>[](native /\ call # NoCall)
=============================================================================
