---------------------------- MODULE CommandProofs ----------------------------
(* What the commands leave behind, proved for any journal, any list of       *)
(* targets, batches and channels of any size, whatever the plugin answers,   *)
(* whatever fails and wherever the command is killed.                        *)
EXTENDS Command, Facts, TLAPS

Known == {"train", "generate"} \cup Range(Batches)
Reply == Nat \cup Range(Targets)
Event == [kind : {"Records"}, items : Seq(Reply)]
           \cup [kind : {"Feedback"}, items : Seq(Range(Batches))]
Kind  == {"descriptor", "null", "batch", "payload", "error", "odd", "garbage"}
Line  == [id : Nat, value : [kind : Kind, log : Seq(Known)]]

CommandTypes ==
  /\ native \in BOOLEAN /\ failed \in BOOLEAN /\ open \in BOOLEAN /\ alive \in BOOLEAN
  /\ scanned \in BOOLEAN /\ sequence \in Nat /\ rounds \in 0..Rounds
  /\ told \in Seq(Known) /\ todo \in Seq(Range(Batches))
  /\ out \in Seq(Event) /\ rows \in Seq(Reply) /\ journal \in Seq(Range(Batches))
  /\ lastLine \in [batch : Seq(Range(Batches)), file : {"none", "some", "all"}]
  /\ events \in Seq(Reply) /\ toSend \in Seq(Reply)
  /\ delivered \in Seq(Reply) /\ records \in Seq(Reply)
  /\ drawn \in Nat /\ input \in Seq(Seq(Range(Targets))) /\ wire \subseteq Range(Targets)

-----------------------------------------------------------------------------
(* Where a command can be.                                                   *)

WithModel == {"train", "feedback", "scan"}
Opening   == {"connect", "describe", "build"}
Path(o) ==
  CASE o = "train"    -> Opening \cup {"save", "write", "persist"}
    [] o = "feedback" -> Opening \cup {"feed", "save", "write", "persist"}
    [] o = "scan"     -> Opening \cup {"prepare", "scan", "drain", "report", "save", "write", "persist"}
    [] o = "standard" -> {"run", "stream", "drain", "join", "report"}
    [] o = "dealias"  -> {"classify", "filter", "write", "persist", "report"}

OnPath ==
  /\ op \in WithModel \cup {"standard", "dealias"} /\ pc \in Path(op) \cup {"start", "ok", "failed", "killed"}
  /\ ~scanned => pc \in {"drain", "failed", "killed"}

-----------------------------------------------------------------------------
(* The model behind the plugin.                                              *)

\* Where the program waits for an answer, and for which.
Answering == {"describe", "build", "feed", "save", "scan"}
Answers(place) ==
  CASE place = "describe" -> {"descriptor"}
    [] place \in {"build", "feed"} -> {"null"}
    [] place = "save" -> {"payload"}
    [] place = "scan" -> {"batch", "null"}

\* What will have been told once the answer is taken, n being the call of a scan.
TellingAt(kind, n) ==
  IF pc = "build" THEN IF op = "train" THEN <<"train">> ELSE artifact.log
  ELSE IF pc = "feed" THEN Append(told, Head(todo))
  ELSE IF pc = "scan" THEN Append(told, IF kind = "batch" THEN "generate" ELSE Batches[n])
  ELSE told

Telling(kind) == TellingAt(kind, rounds)

\* The plugin, if it lives, has the model with this history.
Behind(log) == alive /\ log # <<>> => model = Loaded(log)

\* A model is told of nothing before it is built, and then of something.
ToldOf ==
  /\ pc \in {"start"} \cup Opening => told = <<>>
  /\ op \in WithModel /\ pc \in Path(op) \ Opening => told # <<>>
  /\ op \in {"feedback", "scan"} /\ pc \in {"start"} \cup Opening => artifact.log = <<"train">>

\* The request r is the one its place makes, the n-th of a scan; a scan that has
\* ended may still wait for its last one.
Fitting(r, n) ==
  /\ pc \in Calling => r.method \in Method[pc] /\ r.arg = Argument(r.method)
  /\ pc \notin Calling \cup {"killed"} => r.method \in {"generate", "feedback"}
  /\ pc = "feed" => todo # <<>>
  /\ pc = "scan" => n > 0 /\ (r.method = "feedback" => r.arg = <<Batches[n]>>)

\* A call is the client's last one, and the client has not failed.
CallMatches ==
  call # NoCall =>
    /\ call.id = sequence /\ sequence > 0
    /\ open /\ ~failed /\ result = NoResult
    /\ Fitting(call, rounds)

\* A result is one its place asks for, or the client's last.
ResultMatches ==
  result # NoResult =>
    \/ result.kind = "error" /\ failed
    \/ /\ pc \in Answering =>
            /\ result.kind \in Answers(pc)
            /\ pc = "feed" => todo # <<>>
            /\ pc = "scan" => rounds > 0
            /\ result.kind = "payload" => result.log = told
       /\ pc \in Answering /\ open /\ ~failed => Behind(Telling(result.kind))

\* Only where an answer is awaited can one be on its way.
Attends == pc \in Answering \/ ~scanned \/ pc = "killed" \/ Idle

\* The request of a call is on its way to the plugin until it is answered, and a
\* line with the number of the call is its answer.
LinesSeen == {responses[i] : i \in DOMAIN responses} \cup {stdout[i] : i \in DOMAIN stdout}
RequestOnItsWay ==
  open /\ ~failed =>
    /\ \/ requests = <<>> /\ stdin = <<>>
       \/ /\ call # NoCall /\ <<requests, stdin>> \in {<<<<call>>, <<>>>>, <<<<>>, <<call>>>>}
          /\ \A line \in LinesSeen : line.id # sequence
          /\ pc \in Answering => Behind(told)
    /\ native => alive
LinesAreAnswers ==
  open /\ ~failed =>
    /\ responses \in Seq(Line) /\ stdout \in Seq(Line)
    /\ \A line \in LinesSeen :
         /\ line.id <= sequence
         /\ call # NoCall /\ pc \in Answering /\ Accepted(call, line)
              => /\ Behind(Telling(line.value.kind))
                 /\ line.value.kind = "payload" => line.value.log = told

\* The worker has at most one line for the caller, and reads only for a call.
OneAnswer ==
  open /\ ~failed =>
    /\ Len(responses) <= 1
    /\ call = NoCall \/ requests # <<>> \/ responses # <<>> => worker # "read"
    /\ call = NoCall \/ requests # <<>> => responses = <<>>

\* A native plugin has no worker; while its library runs, the model is what it
\* was told before.
NativeRuns ==
  native /\ open /\ ~failed =>
    /\ requests = <<>> /\ stdin = <<>> /\ responses = <<>> /\ worker # "read"
    /\ call # NoCall /\ pc \in Answering => Behind(told)

Talking ==
  /\ CallMatches
  /\ ResultMatches
  /\ Attends
  /\ RequestOnItsWay
  /\ LinesAreAnswers
  /\ OneAnswer
  /\ NativeRuns
  /\ InStep

ModelKnown == ToldOf /\ Talking

-----------------------------------------------------------------------------
(* The writer's books.                                                       *)

Pieces(ev, kind) == [i \in DOMAIN ev |-> IF ev[i].kind = kind THEN ev[i].items ELSE <<>>]
Written(ev, kind) == Concatenated(Pieces(ev, kind))

Journalled == IF op = "scan" THEN BatchesOf(told) ELSE <<>>

\* The batches whose lines have been begun.
Begun == journal \o lastLine.batch

\* What was handed over is written, in the channel, or not yet sent; of what a
\* failed writer drops, the journal has nothing.
Accounts ==
  writer # "failed" =>
    /\ delivered = (rows \o Written(out, "Records")) \o records
    /\ Journalled = Begun \o Written(out, "Feedback")

\* Where there is a writer, and where it has done its work.
WriterPlaces ==
  /\ pc \in {"start", "prepare"} \cup Opening => writer = "none"
  /\ op \in {"train", "feedback", "dealias"} => writer = "none"
  /\ op = "scan" /\ pc \in {"report", "save", "write", "persist", "ok"} => writer = "ok"
  /\ op = "standard" /\ pc \in {"join", "report", "ok"} => writer = "ok"
  /\ op = "scan" => records = <<>>
  /\ writer = "ok" => out = <<>> /\ saved = rows
  /\ lastLine # NoLine => writer \in {"recv", "failed"}

Books ==
  /\ Accounts
  /\ IsPrefix(Begun, Journalled)
  /\ WriterPlaces

-----------------------------------------------------------------------------
(* The drive, and the files.                                                 *)

\* A drive that comes to its end has seen the end of its source, and settled all.
Settles ==
  /\ pc \in {"start", "run"} => /\ driver = "off" /\ producer = "off" /\ ~ended /\ toSend = <<>>
                                /\ outcome = "none" /\ ~cancel
  /\ outcome # "none" => driver = "end"
  /\ ended => input = <<>> /\ producer \in {"ok", "failed"}
  /\ driver \in {"source", "finish"} => ended /\ wire = {}
  /\ driver \in {"select", "source", "finish"} => toSend = <<>>
  /\ driver = "finish" => producer = "ok"
  /\ producer = "ok" => drawn = Len(Targets) \/ cancel \/ driver = "end"
  /\ cancel /\ driver # "end" => cancelled /\ scanning
  /\ pc = "stream" => driver # "off" /\ scanning
  /\ CompletedIsSettled

\* Every reply the session gave is with the caller, or on its way.
HandedOver ==
  op = "standard" =>
    /\ answered = Range(delivered) \cup Range(events) \cup Range(toSend)
    /\ pc \in {"drain", "join", "report", "ok"} /\ scanned =>
         records = <<>> /\ events = <<>> /\ driver = "end"
    /\ pc \in {"report", "ok"} => outcome = "Completed"

\* A file is written from a whole artifact.
FilesReady ==
  pc \in {"write", "persist"} =>
    /\ artifact.whole
    /\ op = "dealias" => artifact.log = Retained
    /\ pc = "persist" => temp = artifact

CommandIInv ==
  /\ CommandTypes
  /\ OnPath
  /\ ModelKnown
  /\ Books
  /\ Settles
  /\ HandedOver
  /\ FilesReady

-----------------------------------------------------------------------------
(* The initial states.                                                       *)

LEMMA CommandInitIInv == Init => CommandIInv
<1> SUFFICES ASSUME Init PROVE CommandIInv
  OBVIOUS
<1> USE DEF Init, PluginInit, OutputInit, DriveInit
<1>0. <<>> \in Seq(Known) /\ <<>> \in Seq(Range(Batches)) /\ <<>> \in Seq(Reply) /\ <<>> \in Seq(Event)
      /\ <<>> \in Seq(Seq(Range(Targets))) /\ <<>> \in Seq(Line)
  OBVIOUS
<1>1. CommandTypes
  <2>1. todo \in Seq(Range(Batches)) /\ 0 \in 0..Rounds
    BY <1>0, CommandAssumption
  <2>2. lastLine \in [batch : Seq(Range(Batches)), file : {"none", "some", "all"}]
    BY <1>0 DEF NoLine
  <2> QED
    BY <1>0, <2>1, <2>2 DEF CommandTypes
<1>2. OnPath
  BY CommandAssumption DEF OnPath, WithModel, Opening, Path
<1>3. ModelKnown
  <2>1. ToldOf
    BY CommandAssumption DEF ToldOf, WithModel, Opening, Path, Old, File
  <2>2. CallMatches /\ ResultMatches /\ Attends /\ RequestOnItsWay /\ LinesAreAnswers /\ OneAnswer
        /\ NativeRuns /\ InStep
    BY DEF CallMatches, ResultMatches, Attends, RequestOnItsWay, LinesAreAnswers, OneAnswer, NativeRuns, InStep,
           Idle
  <2> QED
    BY <2>1, <2>2 DEF ModelKnown, Talking
<1>4. Books
  <2>1. ASSUME NEW kind PROVE Written(<<>>, kind) = <<>>
    <3>1. Pieces(<<>>, kind) = <<>>
      BY DEF Pieces
    <3> QED
      BY <3>1, ConcatenatedEmpty DEF Written
  <2>2. Journalled = <<>>
    BY OutsideEmpty DEF Journalled, BatchesOf
  <2>3. /\ Written(out, "Records") = <<>> /\ Written(out, "Feedback") = <<>>
        /\ <<>> \o <<>> = <<>> /\ IsPrefix(<<>>, <<>>) /\ Begun = <<>>
    BY <2>1, <1>0 DEF IsPrefix, Begun, NoLine
  <2> QED
    BY <2>2, <2>3 DEF Books, Accounts, WriterPlaces, WithModel, Opening
<1>5. Settles /\ HandedOver
  <2>1. Range(<<>>) = {}
    BY DEF Range
  <2> QED
    BY <2>1 DEF Settles, HandedOver, CompletedIsSettled
<1>6. FilesReady
  BY DEF FilesReady
<1> QED
  BY <1>1, <1>2, <1>3, <1>4, <1>5, <1>6 DEF CommandIInv


-----------------------------------------------------------------------------
(* The steps.  Those of the threads leave what is not theirs.                *)

PluginSide ==
  /\ Receive \/ Timeout \/ NativeReturns \/ TakeRequest \/ Read \/ Serve \/ Crash
  /\ pc # "killed" /\ UNCHANGED <<ovars, rvars, mvars>>
OutputSide == OutputStep /\ UNCHANGED <<pvars, rvars, mvars>>
DriveSide  == (SourceStep \/ DriverStep \/ EngineStops) /\ UNCHANGED <<pvars, ovars, mvars>>

LEMMA StepCases ==
  ASSUME [Next]_vars
  PROVE  \/ ModelStep \/ ScanStep \/ FiniteStep \/ FileStep \/ DropModel \/ Kill \/ UNCHANGED vars
         \/ PluginSide \/ OutputSide \/ DriveSide
  BY DEF Next, CommandStep, Waiting, Working, Writing, Sourcing, Driving, Stopping, Rest, PluginOnly,
         OutputOnly, DriveOnly, PluginSide, OutputSide, DriveSide, WorkerStep

\* What a call leaves of the client and the model.
LEMMA CallTypes ==
  ASSUME CommandTypes, NEW method, NEW arg, Call(method, arg)
  PROVE  /\ failed' \in BOOLEAN /\ sequence' \in Nat
         /\ UNCHANGED <<native, open, alive>>
<1>1. failed' \in BOOLEAN
  BY DEF CommandTypes, Call, CallNative, CallProcess, Return, Latched
<1>2. sequence' \in Nat /\ UNCHANGED <<native, open, alive>>
  BY DEF CommandTypes, Call
<1> QED
  BY <1>1, <1>2

\* More of the line is in the file.
LEMMA LineGrown ==
  ASSUME CommandTypes, LineGrows
  PROVE  /\ lastLine' \in [batch : Seq(Range(Batches)), file : {"none", "some", "all"}]
         /\ lastLine'.batch = lastLine.batch
<1>1. PICK amount \in Longer(lastLine.file) : lastLine' = [lastLine EXCEPT !.file = amount]
  BY DEF LineGrows
<1>2. amount \in {"some", "all"}
  BY <1>1 DEF Longer, CommandTypes
<1> QED
  BY <1>1, <1>2 DEF CommandTypes

\* A part of a sequence is one of its elements' type.
LEMMA PartOf ==
  ASSUME NEW T, NEW s \in Seq(T), NEW m \in Nat, NEW n \in Nat, m + n <= Len(s)
  PROVE  SubSeq(s, m + 1, m + n) \in Seq(T)
  OBVIOUS

LEMMA TypesStep ==
  ASSUME CommandTypes, OnPath, ModelKnown, [Next]_vars
  PROVE  CommandTypes'
<1> USE DEF CommandTypes
<1>0. <<>> \in Seq(Reply) /\ <<>> \in Seq(Event) /\ "train" \in Known /\ "generate" \in Known
      /\ \A b \in Range(Batches) : b \in Known
  BY DEF Known
<1>1. CASE UNCHANGED vars
  BY <1>1 DEF vars, pvars, cvars, tvars, ovars, rvars, mvars
<1>2. CASE Kill
  BY <1>2 DEF Kill, Goto, pvars, cvars, tvars, ovars, rvars
<1>3. CASE DropModel
  BY <1>3 DEF DropModel, Close, ovars, rvars, mvars
<1>4. CASE PluginSide
  <2>1. failed' \in BOOLEAN /\ alive' \in BOOLEAN /\ UNCHANGED <<native, open, sequence>>
    BY <1>4 DEF PluginSide, Receive, Timeout, NativeReturns, TakeRequest, Read, Serve, Crash, Return, Latched,
                cvars
  <2> QED
    BY <1>4, <2>1 DEF PluginSide, ovars, rvars, mvars
<1>5. CASE OutputSide
  <2> DEFINE Lines == [batch : Seq(Range(Batches)), file : {"none", "some", "all"}]
  <2>1. out' \in Seq(Event) /\ rows' \in Seq(Reply) /\ journal' \in Seq(Range(Batches)) /\ lastLine' \in Lines
    <3>1. CASE TakeEvent
      <4>1. out # <<>> /\ out' = Tail(out) /\ journal' = journal
        BY <3>1 DEF TakeEvent
      <4>2. Head(out) \in Event /\ out' \in Seq(Event)
        BY <4>1
      <4>3. CASE Head(out).kind = "Records"
        <5>1. Head(out).items \in Seq(Reply)
          BY <4>2, <4>3 DEF Event
        <5>2. rows' = rows \o Head(out).items /\ lastLine' = lastLine
          BY <3>1, <4>3 DEF TakeEvent
        <5> QED
          BY <4>1, <4>2, <5>1, <5>2
      <4>4. CASE Head(out).kind # "Records"
        <5>1. Head(out).items \in Seq(Range(Batches))
          BY <4>2, <4>4 DEF Event
        <5>2. rows' = rows /\ lastLine' = [batch |-> Head(out).items, file |-> "none"]
          BY <3>1, <4>4 DEF TakeEvent, NoLine
        <5> QED
          BY <4>1, <4>2, <5>1, <5>2
      <4> QED
        BY <4>3, <4>4
    <3>2. CASE WriteLine
      <4>1. UNCHANGED <<out, rows>>
        BY <3>2 DEF WriteLine
      <4>2. CASE LineGrows /\ journal' = journal
        BY <4>1, <4>2, LineGrown
      <4>3. CASE journal' = journal \o lastLine.batch /\ lastLine' = NoLine
        <5>1. <<>> \in Seq(Range(Batches)) /\ lastLine.batch \in Seq(Range(Batches))
          OBVIOUS
        <5> QED
          BY <4>1, <4>3, <5>1 DEF NoLine
      <4> QED
        BY <3>2, <4>2, <4>3 DEF WriteLine
    <3>3. CASE WriteError
      <4>1. out' = <<>> /\ UNCHANGED <<rows, journal>> /\ (lastLine' = lastLine \/ LineGrows)
        BY <3>3 DEF WriteError
      <4> QED
        BY <1>0, <4>1, LineGrown
    <3>4. CASE OpenFiles \/ FinishOutput
      BY <1>0, <3>4 DEF OpenFiles, FinishOutput
    <3> QED
      BY <1>5, <3>1, <3>2, <3>3, <3>4 DEF OutputSide, OutputStep
  <2> QED
    BY <1>5, <2>1 DEF OutputSide, pvars, cvars, tvars, rvars, mvars
<1>6. CASE DriveSide
  <2>0. UNCHANGED <<pvars, ovars, mvars>>
    BY <1>6 DEF DriveSide
  <2>1. /\ drawn' \in Nat /\ input' \in Seq(Seq(Range(Targets))) /\ wire' \subseteq Range(Targets)
        /\ toSend' \in Seq(Reply) /\ events' \in Seq(Reply)
    <3>1. CASE Produce
      <4>1. PICK n \in 1..BatchMax :
              /\ drawn' = drawn + n /\ drawn' <= Len(Targets)
              /\ input' = Append(input, SubSeq(Targets, drawn + 1, drawn + n))
        BY <3>1 DEF Produce
      <4>2. n \in Nat /\ drawn + n <= Len(Targets) /\ Targets \in Seq(Range(Targets))
        BY <4>1, DriveAssumption
      <4>3. SubSeq(Targets, drawn + 1, drawn + n) \in Seq(Range(Targets))
        BY <4>2, PartOf
      <4> QED
        BY <3>1, <4>1, <4>2, <4>3 DEF Produce
    <3>2. CASE TakeBatch
      <4>1. CASE input # <<>>
        <5>1. Head(input) \in Seq(Range(Targets)) /\ Tail(input) \in Seq(Seq(Range(Targets)))
          BY <4>1
        <5>2. Range(Head(input)) \subseteq Range(Targets)
          BY <5>1 DEF Range
        <5> QED
          BY <3>2, <4>1, <5>1, <5>2 DEF TakeBatch
      <4>2. CASE input = <<>>
        BY <3>2, <4>2 DEF TakeBatch
      <4> QED
        BY <4>1, <4>2
    <3>3. CASE NextReply
      <4>1. PICK a \in wire \ answered : toSend' = <<a>>
        BY <3>3 DEF NextReply
      <4>2. a \in Reply
        BY <4>1 DEF Reply
      <4> QED
        BY <3>3, <4>1, <4>2 DEF NextReply
    <3>4. CASE NextSettles
      BY <3>4 DEF NextSettles
    <3>5. CASE SendReply
      BY <1>0, <3>5 DEF SendReply
    <3>6. CASE ProducerEnds \/ EngineStops \/ NextFails \/ SeeCancel \/ Leave \/ AwaitSource \/ FinishDrive
      BY <3>6 DEF ProducerEnds, EngineStops, NextFails, SeeCancel, Leave, AwaitSource, FinishDrive
    <3> QED
      BY <1>6, <3>1, <3>2, <3>3, <3>4, <3>5, <3>6 DEF DriveSide, SourceStep, DriverStep
  <2> QED
    BY <2>0, <2>1 DEF pvars, cvars, tvars, ovars, mvars
<1>7. CASE ModelStep
  <2>1. UNCHANGED <<rows, journal, lastLine, out, events, toSend, delivered, records, drawn, input, wire, rounds,
                    scanned>>
    BY <1>7 DEF ModelStep, OpenPlugin, Ask, Refused, Built, Fed, AllFed, Encoded, ovars, rvars, mvars
  <2>2. /\ native' \in BOOLEAN /\ failed' \in BOOLEAN /\ open' \in BOOLEAN /\ alive' \in BOOLEAN
        /\ sequence' \in Nat
    <3>1. CASE Ask
      BY <3>1, CallTypes DEF Ask
    <3>2. CASE OpenPlugin
      <4>1. CASE Connect
        BY <4>1 DEF Connect
      <4>2. CASE UNCHANGED pvars
        BY <4>2 DEF pvars, cvars, tvars
      <4> QED
        BY <3>2, <4>1, <4>2 DEF OpenPlugin
    <3>3. CASE Refused \/ Built \/ Fed \/ AllFed \/ Encoded
      BY <3>3 DEF Refused, Built, Fed, AllFed, Encoded, clients, tvars, pvars, cvars
    <3> QED
      BY <1>7, <3>1, <3>2, <3>3 DEF ModelStep
  <2>3. told' \in Seq(Known) /\ todo' \in Seq(Range(Batches))
    <3>1. CASE Fed
      <4>1. todo # <<>>
        BY <3>1 DEF Fed, ModelKnown, Talking, ResultMatches, Answering, NoResult
      <4>2. Head(todo) \in Known /\ Tail(todo) \in Seq(Range(Batches))
        BY <1>0, <4>1
      <4> QED
        BY <3>1, <4>2 DEF Fed
    <3>2. CASE Built
      <4>1. <<"train">> \in Seq(Known)
        BY <1>0
      <4>2. pc = "build" => op = "train" \/ artifact.log = <<"train">>
        BY DEF ModelKnown, ToldOf, OnPath, WithModel, Opening, Path
      <4> QED
        BY <3>2, <4>1, <4>2 DEF Built
    <3>3. CASE OpenPlugin \/ Ask \/ Refused \/ AllFed \/ Encoded
      BY <3>3 DEF OpenPlugin, Ask, Refused, AllFed, Encoded, mvars
    <3> QED
      BY <1>7, <3>1, <3>2, <3>3 DEF ModelStep
  <2> QED
    BY <2>1, <2>2, <2>3
<1>8. CASE ScanStep
  <2>1. UNCHANGED <<rows, journal, lastLine, events, toSend, records, drawn, input, wire, todo>>
    BY <1>8 DEF ScanStep, Prepare, AskScan, Generated, Learned, Recorded, EndScan, StartWriter, Conclude,
                DropSender, ovars, rvars, mvars
  <2>2. /\ native' \in BOOLEAN /\ failed' \in BOOLEAN /\ open' \in BOOLEAN /\ alive' \in BOOLEAN
        /\ sequence' \in Nat /\ rounds' \in 0..Rounds
    <3>1. CASE AskScan
      <4>1. rounds' \in 0..Rounds
        BY <3>1, CommandAssumption DEF AskScan
      <4> QED
        BY <3>1, <4>1, CallTypes DEF AskScan
    <3>2. CASE Prepare \/ Generated \/ Learned \/ Recorded \/ EndScan
      BY <3>2 DEF Prepare, Generated, Learned, Recorded, EndScan, clients, tvars, pvars, cvars
    <3> QED
      BY <1>8, <3>1, <3>2 DEF ScanStep
  <2>3. told' \in Seq(Known) /\ out' \in Seq(Event) /\ delivered' \in Seq(Reply) /\ scanned' \in BOOLEAN
    <3>1. CASE Generated
      BY <1>0, <3>1 DEF Generated, ovars
    <3>2. CASE Learned
      <4>1. rounds > 0
        BY <3>2 DEF Learned, ModelKnown, Talking, ResultMatches, Answering, NoResult
      <4>2. Batches[rounds] \in Range(Batches)
        <5>1. rounds \in 1..Len(Batches) /\ Batches \in Seq(Range(Batches))
          BY <4>1, CommandAssumption
        <5> QED
          BY <5>1
      <4>3. FeedbackEvent(Batches[rounds]) \in Event
        BY <4>2 DEF FeedbackEvent, Event
      <4> QED
        BY <1>0, <3>2, <4>2, <4>3 DEF Learned, Send
    <3>3. CASE Recorded
      <4>1. Len(delivered) \in Reply
        BY DEF Reply
      <4>2. RecordsEvent(<<Len(delivered)>>) \in Event
        BY <4>1 DEF RecordsEvent, Event
      <4> QED
        BY <3>3, <4>1, <4>2 DEF Recorded, Send
    <3>4. CASE Prepare \/ AskScan \/ EndScan
      BY <3>4 DEF Prepare, AskScan, EndScan, StartWriter, Conclude, ovars
    <3> QED
      BY <1>8, <3>1, <3>2, <3>3, <3>4 DEF ScanStep
  <2> QED
    BY <2>1, <2>2, <2>3
<1>9. CASE FiniteStep
  <2>1. UNCHANGED <<pvars, rows, journal, lastLine, told, todo, rounds, drawn, input, wire, toSend>>
    BY <1>9 DEF FiniteStep, StartScan, StartRun, StreamReply, StreamFlush, EndStream, Join, StartWriter,
                StartDrive, CancelDrive, DropSender, Conclude, ovars, rvars
  <2>2. /\ out' \in Seq(Event) /\ events' \in Seq(Reply) /\ delivered' \in Seq(Reply)
        /\ records' \in Seq(Reply) /\ scanned' \in BOOLEAN
    <3>1. CASE StreamReply
      <4>1. events # <<>>
        BY <3>1 DEF StreamReply
      <4>2. Head(events) \in Reply /\ Tail(events) \in Seq(Reply)
        BY <4>1
      <4> QED
        BY <3>1, <4>2 DEF StreamReply, ovars
    <3>2. CASE StreamFlush
      <4>1. RecordsEvent(records) \in Event
        BY DEF RecordsEvent, Event
      <4>2. records' \in {records, <<>>} /\ out' \in {out, Append(out, RecordsEvent(records))}
            /\ UNCHANGED <<events, delivered>> /\ scanned' \in BOOLEAN
        BY <3>2 DEF StreamFlush, Send, Conclude, CancelDrive, rvars
      <4>3. Append(out, RecordsEvent(records)) \in Seq(Event)
        BY <4>1
      <4> QED
        BY <1>0, <4>2, <4>3
    <3>3. CASE StartScan \/ StartRun \/ EndStream \/ Join
      BY <3>3 DEF StartScan, StartRun, EndStream, Join, StartWriter, StartDrive, DropSender, Conclude,
                  ovars, rvars
    <3> QED
      BY <1>9, <3>1, <3>2, <3>3 DEF FiniteStep
  <2> QED
    BY <2>1, <2>2 DEF pvars, cvars, tvars
<1>10. CASE FileStep
  <2>1. UNCHANGED <<pvars, ovars, drawn, input, wire, events, toSend, told, todo, rounds, scanned, delivered,
                    records>>
    BY <1>10 DEF FileStep, WriteTemp, Persist, Drain, Report, Start, Classified, Filter, DropRun,
                 StartDrive, rvars
  <2> QED
    BY <2>1 DEF pvars, cvars, tvars, ovars
<1> QED
  BY StepCases, <1>1, <1>2, <1>3, <1>4, <1>5, <1>6, <1>7, <1>8, <1>9, <1>10

\* The places: each action takes its command one step along its path.
LEMMA PlaceStep ==
  ASSUME OnPath, [Next]_vars
  PROVE  OnPath'
<1> USE DEF OnPath, Path, WithModel, Opening, Goto
<1>1. CASE UNCHANGED vars \/ Kill \/ DropModel \/ PluginSide \/ OutputSide \/ DriveSide
  BY <1>1 DEF vars, mvars, Kill, DropModel, PluginSide, OutputSide, DriveSide
<1>2. CASE ModelStep
  <2>1. CASE OpenPlugin \/ Ask \/ Refused
    BY <2>1 DEF OpenPlugin, Ask, Refused, Calling, Method, mvars
  <2>2. CASE Built
    BY <2>2 DEF Built
  <2>3. CASE Fed \/ AllFed \/ Encoded
    BY <2>3 DEF Fed, AllFed, Encoded
  <2> QED
    BY <1>2, <2>1, <2>2, <2>3 DEF ModelStep
<1>3. CASE ScanStep
  BY <1>3 DEF ScanStep, Prepare, AskScan, Generated, Learned, Recorded, EndScan, Conclude
<1>4. CASE FiniteStep
  <2>1. CASE StartScan \/ StartRun \/ StreamReply \/ Join
    BY <2>1 DEF StartScan, StartRun, StreamReply, Join
  <2>2. CASE StreamFlush \/ EndStream
    BY <2>2 DEF StreamFlush, EndStream, Conclude
  <2> QED
    BY <1>4, <2>1, <2>2 DEF FiniteStep
<1>5. CASE FileStep
  <2>1. CASE WriteTemp \/ Persist \/ Report \/ Classified \/ Filter
    BY <2>1 DEF WriteTemp, Persist, Report, Classified, Filter
  <2>2. CASE Drain
    BY <2>2 DEF Drain, Judged
  <2>3. CASE Start
    BY <2>3 DEF Start
  <2> QED
    BY <1>5, <2>1, <2>2, <2>3 DEF FileStep
<1> QED
  BY StepCases, <1>1, <1>2, <1>3, <1>4, <1>5

\* What was told before and after the model is built.
LEMMA ToldStep ==
  ASSUME CommandTypes, OnPath, ModelKnown, [Next]_vars
  PROVE  ToldOf'
<1> USE DEF OnPath, Path, WithModel, Opening, Goto, ModelKnown, ToldOf
<1>0. ASSUME NEW x PROVE Append(told, x) # <<>>
  <2>1. told \in Seq(Known \cup {x}) /\ x \in Known \cup {x}
    BY DEF CommandTypes
  <2>2. Len(Append(told, x)) = Len(told) + 1 /\ Len(told) \in Nat /\ Len(<<>>) = 0
    BY <2>1
  <2> QED
    BY <2>2
<1>1. CASE UNCHANGED vars \/ Kill \/ DropModel \/ PluginSide \/ OutputSide \/ DriveSide
  BY <1>1 DEF vars, mvars, Kill, DropModel, PluginSide, OutputSide, DriveSide
<1>2. CASE ModelStep
  <2>1. CASE OpenPlugin \/ Ask \/ Refused
    BY <2>1 DEF OpenPlugin, Ask, Refused, Calling, Method, mvars
  <2>2. CASE Built
    <3>1. <<"train">> # <<>>
      OBVIOUS
    <3>2. CASE pc = "describe"
      BY <2>2, <3>2 DEF Built
    <3>3. CASE pc = "build"
      <4>1. told' = <<"train">> /\ artifact' = artifact /\ op' = op /\ pc' \in {"save", "feed", "prepare"}
        BY <2>2, <3>3 DEF Built
      <4> QED
        BY <3>1, <4>1
    <3> QED
      BY <2>2, <3>2, <3>3 DEF Built
  <2>3. CASE Fed
    BY <1>0, <2>3 DEF Fed
  <2>4. CASE AllFed \/ Encoded
    BY <2>4 DEF AllFed, Encoded
  <2> QED
    BY <1>2, <2>1, <2>2, <2>3, <2>4 DEF ModelStep
<1>3. CASE ScanStep
  <2>1. CASE Generated \/ Learned
    BY <1>0, <2>1 DEF Generated, Learned
  <2>2. CASE Prepare \/ AskScan \/ Recorded \/ EndScan
    BY <2>2 DEF Prepare, AskScan, Recorded, EndScan, Conclude
  <2> QED
    BY <1>3, <2>1, <2>2 DEF ScanStep
<1>4. CASE FiniteStep
  <2>1. CASE StartScan \/ StartRun \/ StreamReply \/ Join
    BY <2>1 DEF StartScan, StartRun, StreamReply, Join
  <2>2. CASE StreamFlush \/ EndStream
    BY <2>2 DEF StreamFlush, EndStream, Conclude
  <2> QED
    BY <1>4, <2>1, <2>2 DEF FiniteStep
<1>5. CASE FileStep
  <2>1. CASE WriteTemp \/ Persist \/ Report \/ Classified \/ Filter
    BY <2>1 DEF WriteTemp, Persist, Report, Classified, Filter
  <2>2. CASE Drain
    BY <2>2 DEF Drain, Judged
  <2>3. CASE Start
    BY <2>3 DEF Start
  <2> QED
    BY <1>5, <2>1, <2>2, <2>3 DEF FileStep
<1> QED
  BY StepCases, <1>1, <1>2, <1>3, <1>4, <1>5

\* An artifact is whole before it is written, and written before it is renamed.
LEMMA FilesStep ==
  ASSUME OnPath, FilesReady, [Next]_vars
  PROVE  FilesReady'
<1> USE DEF OnPath, Path, WithModel, Opening, Goto, FilesReady
<1>1. CASE UNCHANGED vars \/ Kill \/ DropModel \/ PluginSide \/ OutputSide \/ DriveSide
  BY <1>1 DEF vars, mvars, Kill, DropModel, PluginSide, OutputSide, DriveSide
<1>2. CASE ModelStep
  <2>1. CASE OpenPlugin \/ Ask \/ Refused \/ Built \/ Fed \/ AllFed
    BY <2>1 DEF OpenPlugin, Ask, Refused, Built, Fed, AllFed, Calling, Method, mvars
  <2>2. CASE Encoded
    BY <2>2 DEF Encoded, Raised, File
  <2> QED
    BY <1>2, <2>1, <2>2 DEF ModelStep
<1>3. CASE ScanStep
  BY <1>3 DEF ScanStep, Prepare, AskScan, Generated, Learned, Recorded, EndScan, Conclude
<1>4. CASE FiniteStep
  BY <1>4 DEF FiniteStep, StartScan, StartRun, StreamReply, Join, StreamFlush, EndStream, Conclude
<1>5. CASE FileStep
  <2>1. CASE WriteTemp
    BY <2>1 DEF WriteTemp
  <2>2. CASE Filter
    BY <2>2 DEF Filter, File, Retained
  <2>3. CASE Persist \/ Drain \/ Report \/ Start \/ Classified
    BY <2>3 DEF Persist, Drain, Report, Start, Classified
  <2> QED
    BY <1>5, <2>1, <2>2, <2>3 DEF FileStep
<1> QED
  BY StepCases, <1>1, <1>2, <1>3, <1>4, <1>5

\* The drive: no step of the source, the driver or the engine leaves anything
\* unsettled behind that a completed drive should have settled.
LEMMA DriveSettles ==
  ASSUME Settles, DriveSide
  PROVE  Settles'
<1> USE DEF Settles, CompletedIsSettled
<1>0. pc' = pc
  BY DEF DriveSide, mvars
<1>1. CASE Produce
  BY <1>0, <1>1 DEF Produce
<1>2. CASE ProducerEnds
  BY <1>0, <1>2 DEF ProducerEnds
<1>3. CASE EngineStops
  BY <1>0, <1>3 DEF EngineStops
<1>4. CASE TakeBatch
  BY <1>0, <1>4 DEF TakeBatch, Over
<1>5. CASE NextReply
  BY <1>0, <1>5 DEF NextReply
<1>6. CASE NextSettles
  BY <1>0, <1>6 DEF NextSettles
<1>7. CASE NextFails
  BY <1>0, <1>7 DEF NextFails, Abandon
<1>8. CASE SendReply
  BY <1>0, <1>8 DEF SendReply
<1>9. CASE SeeCancel
  BY <1>0, <1>9 DEF SeeCancel, Abandon
<1>10. CASE Leave
  BY <1>0, <1>10 DEF Leave, Over
<1>11. CASE AwaitSource
  BY <1>0, <1>11 DEF AwaitSource, Abandon
<1>12. CASE FinishDrive
  BY <1>0, <1>12 DEF FinishDrive, Abandon
<1> QED
  BY <1>1, <1>2, <1>3, <1>4, <1>5, <1>6, <1>7, <1>8, <1>9, <1>10, <1>11, <1>12
     DEF DriveSide, SourceStep, DriverStep

LEMMA SettlesStep ==
  ASSUME OnPath, Settles, [Next]_vars
  PROVE  Settles'
<1> USE DEF Settles, CompletedIsSettled, Goto
<1>1. CASE UNCHANGED vars \/ Kill \/ DropModel \/ PluginSide \/ OutputSide
  BY <1>1 DEF vars, rvars, mvars, Kill, DropModel, PluginSide, OutputSide
<1>2. CASE DriveSide
  BY <1>2, DriveSettles
<1>3. CASE ModelStep
  <2>1. UNCHANGED rvars
    BY <1>3 DEF ModelStep, OpenPlugin, Ask, Refused, Built, Fed, AllFed, Encoded
  <2>2. pc' \notin {"start", "run", "stream"}
    <3>1. CASE Ask
      BY <3>1 DEF Ask, Calling, Method, mvars
    <3>2. CASE Built
      BY <3>2 DEF Built, OnPath, Path, WithModel, Opening
    <3>3. CASE OpenPlugin \/ Refused \/ Fed \/ AllFed \/ Encoded
      BY <3>3 DEF OpenPlugin, Refused, Fed, AllFed, Encoded
    <3> QED
      BY <1>3, <3>1, <3>2, <3>3 DEF ModelStep
  <2> QED
    BY <2>1, <2>2 DEF rvars
<1>4. CASE ScanStep
  <2>1. UNCHANGED rvars
    BY <1>4 DEF ScanStep, Prepare, AskScan, Generated, Learned, Recorded, EndScan
  <2>2. pc' \notin {"start", "run", "stream"}
    BY <1>4 DEF ScanStep, Prepare, AskScan, Generated, Learned, Recorded, EndScan, Conclude
  <2> QED
    BY <2>1, <2>2 DEF rvars
<1>5. CASE FiniteStep
  <2>1. CASE StartScan
    BY <2>1 DEF StartScan, rvars
  <2>2. CASE StartRun
    <3>1. CASE StartDrive(TRUE) /\ Goto("stream")
      BY <2>2, <3>1 DEF StartRun, StartDrive
    <3>2. CASE Goto("failed") /\ UNCHANGED rvars
      BY <3>2 DEF rvars
    <3> QED
      BY <2>2, <3>1, <3>2 DEF StartRun
  <2>3. CASE StreamReply
    BY <2>3 DEF StreamReply
  <2>4. CASE StreamFlush
    <3>1. CASE UNCHANGED <<rvars, pc>>
      BY <3>1 DEF rvars
    <3>2. CASE CancelDrive /\ Conclude(FALSE)
      BY <2>4, <3>2 DEF StreamFlush, CancelDrive, Conclude
    <3> QED
      BY <2>4, <3>1, <3>2 DEF StreamFlush, mvars
  <2>5. CASE EndStream \/ Join
    BY <2>5 DEF EndStream, Join, Conclude, rvars
  <2> QED
    BY <1>5, <2>1, <2>2, <2>3, <2>4, <2>5 DEF FiniteStep
<1>6. CASE FileStep
  <2>1. CASE WriteTemp \/ Persist \/ Report \/ Classified \/ Filter
    BY <2>1 DEF WriteTemp, Persist, Report, Classified, Filter, rvars
  <2>2. CASE Drain
    <3>1. pc' \in {"report", "join", "failed"}
      BY <2>2 DEF Drain
    <3>2. CASE DropRun
      BY <3>1, <3>2 DEF DropRun
    <3>3. CASE UNCHANGED rvars
      BY <3>1, <3>3 DEF rvars
    <3> QED
      BY <2>2, <3>2, <3>3 DEF Drain
  <2>3. CASE Start
    <3>1. CASE StartDrive(FALSE) /\ Goto("classify")
      BY <2>3, <3>1 DEF Start, StartDrive
    <3>2. CASE UNCHANGED rvars /\ pc' \notin {"start", "run", "stream"}
      BY <3>2 DEF rvars
    <3> QED
      BY <2>3, <3>1, <3>2 DEF Start
  <2> QED
    BY <1>6, <2>1, <2>2, <2>3 DEF FileStep
<1> QED
  BY StepCases, <1>1, <1>2, <1>3, <1>4, <1>5, <1>6

\* What each sequence operation does to the elements.
LEMMA RangeConcat ==
  ASSUME NEW T, NEW u \in Seq(T), NEW v \in Seq(T)
  PROVE  Range(u \o v) = Range(u) \cup Range(v)
<1>r. ASSUME NEW s \in Seq(T) PROVE Range(s) = {s[i] : i \in 1..Len(s)}
  BY DEF Range
<1> DEFINE w == u \o v
<1>1. /\ w \in Seq(T) /\ Len(w) = Len(u) + Len(v) /\ Len(u) \in Nat /\ Len(v) \in Nat
      /\ \A i \in 1..Len(u) : w[i] = u[i]
      /\ \A i \in 1..Len(v) : w[Len(u) + i] = v[i]
  BY ConcatFacts
<1> HIDE DEF w
<1>2. ASSUME NEW i \in 1..Len(w) PROVE w[i] \in Range(u) \cup Range(v)
  <2>1. CASE i <= Len(u)
    <3>1. i \in 1..Len(u) /\ w[i] = u[i]
      BY <1>1, <2>1
    <3> QED
      BY <1>r, <3>1
  <2>2. CASE i > Len(u)
    <3>1. i - Len(u) \in 1..Len(v) /\ i = Len(u) + (i - Len(u))
      BY <1>1, <2>2
    <3> DEFINE j == i - Len(u)
    <3>2. j \in 1..Len(v) /\ w[Len(u) + j] = v[j] /\ w[i] = v[j]
      BY <1>1, <3>1
    <3> HIDE DEF j
    <3> QED
      BY <1>r, <3>2
  <2> QED
    BY <1>1, <2>1, <2>2
<1>3. ASSUME NEW i \in 1..Len(u) PROVE u[i] \in Range(w)
  <2>1. i \in 1..Len(w) /\ w[i] = u[i]
    BY <1>1
  <2> QED
    BY <1>r, <1>1, <2>1
<1>4. ASSUME NEW i \in 1..Len(v) PROVE v[i] \in Range(w)
  <2>1. Len(u) + i \in 1..Len(w) /\ w[Len(u) + i] = v[i]
    BY <1>1
  <2> QED
    BY <1>r, <1>1, <2>1
<1>5. /\ Range(w) = {w[i] : i \in 1..Len(w)} /\ Range(u) = {u[i] : i \in 1..Len(u)}
      /\ Range(v) = {v[i] : i \in 1..Len(v)}
  BY <1>r, <1>1
<1>6. Range(w) = Range(u) \cup Range(v)
  <2>1. Range(w) \subseteq Range(u) \cup Range(v)
    BY <1>2, <1>5
  <2>2. Range(u) \subseteq Range(w)
    BY <1>3, <1>5
  <2>3. Range(v) \subseteq Range(w)
    BY <1>4, <1>5
  <2> QED
    BY <2>1, <2>2, <2>3
<1> QED
  BY <1>6 DEF w

LEMMA RangeOne == ASSUME NEW x PROVE Range(<<>>) = {} /\ Range(<<x>>) = {x}
  BY DEF Range

LEMMA RangeAppend ==
  ASSUME NEW T, NEW s \in Seq(T), NEW x \in T
  PROVE  Range(Append(s, x)) = Range(s) \cup {x}
<1>1. Append(s, x) = s \o <<x>> /\ <<x>> \in Seq(T)
  OBVIOUS
<1>2. Range(s \o <<x>>) = Range(s) \cup Range(<<x>>)
  BY <1>1, RangeConcat
<1>3. Range(<<x>>) = {x}
  BY RangeOne
<1> QED
  BY <1>1, <1>2, <1>3

LEMMA RangeTail ==
  ASSUME NEW T, NEW s \in Seq(T), s # <<>>
  PROVE  Range(s) = {Head(s)} \cup Range(Tail(s))
<1>1. s = <<Head(s)>> \o Tail(s) /\ <<Head(s)>> \in Seq(T) /\ Tail(s) \in Seq(T)
  OBVIOUS
<1>2. Range(<<Head(s)>> \o Tail(s)) = Range(<<Head(s)>>) \cup Range(Tail(s))
  BY <1>1, RangeConcat
<1> QED
  BY <1>1, <1>2, RangeOne

\* A reply goes from the session to the caller, and is never dropped on the way.
LEMMA HandedStep ==
  ASSUME CommandTypes, OnPath, Settles, HandedOver, [Next]_vars
  PROVE  HandedOver'
<1> SUFFICES ASSUME op = "standard", op' = op PROVE HandedOver'
  <2>1. op' = op
    BY StepCases
       DEF ModelStep, ScanStep, FiniteStep, FileStep, DropModel, Kill, PluginSide, OutputSide, DriveSide,
           OpenPlugin, Ask, Refused, Built, Fed, AllFed, Encoded, Prepare, AskScan, Generated, Learned,
           Recorded, EndScan, StartScan, StartRun, StreamReply, StreamFlush, EndStream, Join, WriteTemp,
           Persist, Drain, Report, Start, Classified, Filter, vars, mvars
  <2> QED
    BY <2>1 DEF HandedOver
<1> USE DEF HandedOver, Goto
<1>0. /\ pc \in {"start", "run", "stream", "drain", "join", "report", "ok", "failed", "killed"}
      /\ answered = Range(delivered) \cup Range(events) \cup Range(toSend)
  BY DEF OnPath, Path
<1>1. CASE UNCHANGED vars \/ Kill \/ DropModel \/ PluginSide \/ OutputSide
  BY <1>1 DEF vars, rvars, mvars, Kill, DropModel, PluginSide, OutputSide
<1>2. CASE DriveSide
  <2>0. UNCHANGED <<pc, scanned, records, delivered>>
    BY <1>2 DEF DriveSide, mvars
  <2>1. CASE NextReply
    <3>1. PICK a \in wire \ answered : toSend' = <<a>> /\ answered' = answered \cup {a}
      BY <2>1 DEF NextReply
    <3>2. toSend = <<>> /\ driver = "select" /\ outcome = "none" /\ UNCHANGED events
      BY <2>1 DEF NextReply, Settles
    <3>3. Range(toSend) = {} /\ Range(toSend') = {a}
      BY <3>1, <3>2 DEF Range
    <3>4. answered' = Range(delivered) \cup Range(events) \cup Range(toSend')
      BY <1>0, <3>1, <3>3
    <3> QED
      BY <2>0, <3>2, <3>4
  <2>2. CASE SendReply
    <3>1. /\ events' = events \o toSend /\ toSend' = <<>> /\ driver = "send" /\ outcome = "none"
          /\ UNCHANGED answered
      BY <2>2 DEF SendReply, Settles
    <3>2. Range(events \o toSend) = Range(events) \cup Range(toSend) /\ Range(<<>>) = {}
      <4>1. events \in Seq(Reply) /\ toSend \in Seq(Reply)
        BY DEF CommandTypes
      <4>2. Range(events \o toSend) = Range(events) \cup Range(toSend)
        BY <4>1, RangeConcat
      <4> QED
        BY <4>2, RangeOne
    <3> QED
      BY <1>0, <2>0, <3>1, <3>2
  <2>3. CASE Produce \/ ProducerEnds \/ EngineStops
    BY <2>0, <2>3 DEF Produce, ProducerEnds, EngineStops
  <2>4. CASE TakeBatch \/ NextSettles \/ Leave
    BY <2>0, <2>4 DEF TakeBatch, NextSettles, Leave
  <2>5. CASE NextFails \/ SeeCancel \/ AwaitSource \/ FinishDrive
    <3>1. UNCHANGED <<answered, events, toSend>> /\ driver # "end"
      BY <2>5 DEF NextFails, SeeCancel, AwaitSource, FinishDrive
    <3> QED
      BY <1>0, <2>0, <3>1 DEF Settles
  <2> QED
    BY <1>2, <2>1, <2>2, <2>3, <2>4, <2>5 DEF DriveSide, SourceStep, DriverStep
<1>3. ~ModelStep /\ ~ScanStep
  BY <1>0 DEF ModelStep, OpenPlugin, Ask, Refused, Built, Fed, AllFed, Encoded, Calling, Method,
              ScanStep, Prepare, AskScan, Generated, Learned, Recorded, EndScan
<1>4. CASE FiniteStep
  <2>1. CASE StartScan
    BY <2>1 DEF StartScan, rvars
  <2>2. CASE StartRun
    BY <2>2 DEF StartRun, StartDrive, rvars
  <2>3. CASE StreamReply
    <3>1. /\ events # <<>> /\ events' = Tail(events) /\ delivered' = Append(delivered, Head(events))
          /\ UNCHANGED <<answered, toSend, pc>> /\ pc = "stream"
      BY <2>3 DEF StreamReply
    <3>2. Head(events) \in Reply /\ delivered \in Seq(Reply) /\ events \in Seq(Reply)
      BY <3>1 DEF CommandTypes
    <3>3. /\ Range(events) = {Head(events)} \cup Range(Tail(events))
          /\ Range(Append(delivered, Head(events))) = Range(delivered) \cup {Head(events)}
      BY <3>1, <3>2, RangeTail, RangeAppend
    <3> QED
      BY <1>0, <3>1, <3>3
  <2>4. CASE StreamFlush
    <3>1. UNCHANGED <<answered, events, toSend, delivered>> /\ pc = "stream"
      BY <2>4 DEF StreamFlush, CancelDrive, rvars
    <3>2. pc' = "stream" \/ (pc' = "drain" /\ ~scanned')
      BY <2>4, <3>1 DEF StreamFlush, Conclude
    <3> QED
      BY <1>0, <3>1, <3>2
  <2>5. CASE EndStream
    BY <2>5 DEF EndStream, StreamEnds, Conclude, rvars
  <2>6. CASE Join
    BY <2>6 DEF Join, rvars
  <2> QED
    BY <1>4, <2>1, <2>2, <2>3, <2>4, <2>5, <2>6 DEF FiniteStep
<1>5. CASE FileStep
  <2>1. CASE Drain
    <3>1. /\ UNCHANGED <<answered, events, toSend, delivered, records, scanned>>
          /\ pc = "drain"
      BY <2>1 DEF Drain, DropRun, rvars
    <3>2. pc' = "failed" \/ (pc' = "join" /\ Judged /\ UNCHANGED rvars)
      BY <2>1 DEF Drain
    <3> QED
      BY <1>0, <3>1, <3>2 DEF Judged, rvars
  <2>2. CASE Report
    BY <2>2 DEF Report, rvars
  <2>3. ~(WriteTemp \/ Persist \/ Start \/ Classified \/ Filter)
    BY <1>0 DEF WriteTemp, Persist, Start, Classified, Filter
  <2> QED
    BY <1>5, <2>1, <2>2, <2>3 DEF FileStep
<1> QED
  BY StepCases, <1>1, <1>2, <1>3, <1>4, <1>5

-----------------------------------------------------------------------------
(* The writer.                                                               *)

\* The pieces of a channel are sequences of what is written.
LEMMA WrittenFacts ==
  ASSUME NEW ev \in Seq(Event), NEW event \in Event
  PROVE  /\ Written(ev, "Records") \in Seq(Reply) /\ Written(ev, "Feedback") \in Seq(Range(Batches))
         /\ \A kind \in {"Records", "Feedback"} :
              /\ Written(<<>>, kind) = <<>>
              /\ Written(Append(ev, event), kind)
                   = Written(ev, kind) \o (IF event.kind = kind THEN event.items ELSE <<>>)
              /\ ev # <<>> => Written(ev, kind)
                   = (IF Head(ev).kind = kind THEN Head(ev).items ELSE <<>>) \o Written(Tail(ev), kind)
<1> DEFINE T(kind) == IF kind = "Records" THEN Reply ELSE Range(Batches)
           Piece(e, kind) == IF e.kind = kind THEN e.items ELSE <<>>
<1>1. ASSUME NEW e \in Event, NEW kind \in {"Records", "Feedback"}
      PROVE  Piece(e, kind) \in Seq(T(kind))
  <2>1. <<>> \in Seq(T(kind))
    OBVIOUS
  <2>2. CASE e.kind = "Records"
    BY <2>1, <2>2 DEF Event
  <2>3. CASE e.kind = "Feedback"
    BY <2>1, <2>3 DEF Event
  <2> QED
    BY <2>2, <2>3 DEF Event
<1>2. ASSUME NEW u \in Seq(Event), NEW kind \in {"Records", "Feedback"}
      PROVE  /\ Pieces(u, kind) \in Seq(Seq(T(kind))) /\ Len(Pieces(u, kind)) = Len(u)
             /\ \A i \in 1..Len(u) : Pieces(u, kind)[i] = Piece(u[i], kind)
  <2>1. \A i \in 1..Len(u) : Piece(u[i], kind) \in Seq(T(kind))
    <3>1. \A i \in 1..Len(u) : u[i] \in Event
      OBVIOUS
    <3> HIDE DEF Piece, T
    <3> QED
      BY <1>1, <3>1
  <2>2. Pieces(u, kind) = [i \in 1..Len(u) |-> Piece(u[i], kind)] /\ Len(u) \in Nat
    BY DEF Pieces
  <2> HIDE DEF Piece, T
  <2> QED
    BY <2>1, <2>2
<1>3. ASSUME NEW kind \in {"Records", "Feedback"}
      PROVE  /\ Written(ev, kind) \in Seq(T(kind))
             /\ Written(<<>>, kind) = <<>>
             /\ Written(Append(ev, event), kind) = Written(ev, kind) \o Piece(event, kind)
             /\ ev # <<>> => Written(ev, kind) = Piece(Head(ev), kind) \o Written(Tail(ev), kind)
  <2> HIDE DEF Piece, T
  <2>1. Written(ev, kind) \in Seq(T(kind))
    BY <1>2, ConcatenatedType DEF Written
  <2>2. Written(<<>>, kind) = <<>>
    <3>1. Pieces(<<>>, kind) = <<>>
      BY DEF Pieces
    <3> QED
      BY <3>1, ConcatenatedEmpty DEF Written
  <2>3. Written(Append(ev, event), kind) = Written(ev, kind) \o Piece(event, kind)
    <3> DEFINE u == Append(ev, event)
               p == Pieces(ev, kind)
               q == Pieces(u, kind)
               x == Piece(event, kind)
    <3>1. /\ u \in Seq(Event) /\ Len(u) = Len(ev) + 1 /\ Len(ev) \in Nat /\ u[Len(ev) + 1] = event
          /\ \A i \in 1..Len(ev) : u[i] = ev[i]
      OBVIOUS
    <3>2. /\ p \in Seq(Seq(T(kind))) /\ Len(p) = Len(ev) /\ \A i \in 1..Len(ev) : p[i] = Piece(ev[i], kind)
          /\ q \in Seq(Seq(T(kind))) /\ Len(q) = Len(u) /\ \A i \in 1..Len(u) : q[i] = Piece(u[i], kind)
          /\ x \in Seq(T(kind))
      BY <1>1, <1>2, <3>1
    <3> HIDE DEF u, p, q, x
    <3> DEFINE Q == Seq(T(kind))
    <3>3. p \in Seq(Q) /\ q \in Seq(Q) /\ x \in Q
      BY <3>2
    <3> HIDE DEF Q
    <3>4. Append(p, x) \in Seq(Q) /\ Len(Append(p, x)) = Len(p) + 1 /\ Append(p, x)[Len(p) + 1] = x
          /\ \A i \in 1..Len(p) : Append(p, x)[i] = p[i]
      BY <3>3
    <3>5. q[Len(p) + 1] = x
      BY <3>1, <3>2 DEF x
    <3>6. \A i \in 1..Len(q) : q[i] = Append(p, x)[i]
      BY <3>1, <3>2, <3>4, <3>5
    <3>7. q = Append(p, x)
      BY <3>1, <3>2, <3>3, <3>4, <3>6, SameSequence
    <3> QED
      BY <3>3, <3>7, ConcatenatedAppend DEF Written, p, q, u, x
  <2>4. ASSUME ev # <<>> PROVE Written(ev, kind) = Piece(Head(ev), kind) \o Written(Tail(ev), kind)
    <3> DEFINE u == Tail(ev)
               p == Pieces(ev, kind)
               q == Pieces(u, kind)
    <3>1. /\ u \in Seq(Event) /\ Len(ev) = Len(u) + 1 /\ Len(u) \in Nat /\ Head(ev) = ev[1]
          /\ \A i \in 1..Len(u) : u[i] = ev[i + 1]
      BY <2>4
    <3>2. /\ p \in Seq(Seq(T(kind))) /\ Len(p) = Len(ev) /\ \A i \in 1..Len(ev) : p[i] = Piece(ev[i], kind)
          /\ q \in Seq(Seq(T(kind))) /\ Len(q) = Len(u) /\ \A i \in 1..Len(u) : q[i] = Piece(u[i], kind)
      BY <1>2, <3>1
    <3> HIDE DEF u, p, q
    <3> DEFINE Q == Seq(T(kind))
    <3>3. p \in Seq(Q) /\ q \in Seq(Q)
      BY <3>2
    <3> HIDE DEF Q
    <3>4. p # <<>> /\ Tail(p) \in Seq(Q) /\ Len(Tail(p)) = Len(q) /\ Head(p) = p[1]
          /\ \A i \in 1..Len(q) : Tail(p)[i] = p[i + 1]
      BY <3>1, <3>2, <3>3
    <3>5. \A i \in 1..Len(q) : q[i] = Tail(p)[i]
      BY <3>1, <3>2, <3>4
    <3>6. q = Tail(p)
      BY <3>3, <3>4, <3>5, SameSequence
    <3>7. Head(p) = Piece(Head(ev), kind)
      BY <3>1, <3>2, <3>4
    <3>8. Concatenated(p) = Head(p) \o Concatenated(Tail(p))
      BY <3>2, <3>4, ConcatenatedCons
    <3> QED
      BY <3>6, <3>7, <3>8 DEF Written, p, q, u
  <2> QED
    BY <2>1, <2>2, <2>3, <2>4
<1> QED
  BY <1>3

LEMMA WriterPlacesStep ==
  ASSUME OnPath, WriterPlaces, [Next]_vars
  PROVE  WriterPlaces'
<1> USE DEF WriterPlaces, OnPath, Path, WithModel, Opening, Goto
<1>1. CASE UNCHANGED vars \/ Kill \/ DropModel \/ PluginSide \/ DriveSide
  BY <1>1 DEF vars, ovars, mvars, Kill, DropModel, PluginSide, DriveSide
<1>2. CASE OutputSide
  <2>1. UNCHANGED <<pc, op, records>>
    BY <1>2 DEF OutputSide, mvars
  <2>2. CASE OpenFiles
    BY <2>1, <2>2 DEF OpenFiles
  <2>3. CASE TakeEvent \/ WriteLine
    BY <2>1, <2>3 DEF TakeEvent, WriteLine
  <2>4. CASE WriteError
    BY <2>1, <2>4 DEF WriteError
  <2>5. CASE FinishOutput
    BY <2>1, <2>5 DEF FinishOutput, Finished
  <2> QED
    BY <1>2, <2>2, <2>3, <2>4, <2>5 DEF OutputSide, OutputStep
<1>3. CASE ModelStep
  <2>1. CASE OpenPlugin \/ Ask \/ Refused
    BY <2>1 DEF OpenPlugin, Ask, Refused, Calling, Method, ovars, mvars
  <2>2. CASE Built
    BY <2>2 DEF Built, ovars
  <2>3. CASE Fed \/ AllFed \/ Encoded
    BY <2>3 DEF Fed, AllFed, Encoded, ovars
  <2> QED
    BY <1>3, <2>1, <2>2, <2>3 DEF ModelStep
<1>4. CASE ScanStep
  <2>1. CASE Prepare
    BY <2>1 DEF Prepare, StartWriter, ovars
  <2>2. CASE AskScan \/ Generated
    BY <2>2 DEF AskScan, Generated, ovars
  <2>3. CASE Learned \/ Recorded
    BY <2>3 DEF Learned, Recorded, CanSend, Listening
  <2>4. CASE EndScan
    BY <2>4 DEF EndScan, Conclude
  <2> QED
    BY <1>4, <2>1, <2>2, <2>3, <2>4 DEF ScanStep
<1>5. CASE FiniteStep
  <2>1. CASE StartScan
    BY <2>1 DEF StartScan, StartWriter
  <2>2. CASE StartRun \/ Join \/ EndStream
    BY <2>2 DEF StartRun, Join, EndStream, Conclude, ovars
  <2>3. CASE StreamReply
    BY <2>3 DEF StreamReply, ovars
  <2>4. CASE StreamFlush
    BY <2>4 DEF StreamFlush, Conclude, CanSend, Listening, Unsendable
  <2> QED
    BY <1>5, <2>1, <2>2, <2>3, <2>4 DEF FiniteStep
<1>6. CASE FileStep
  <2>1. CASE WriteTemp \/ Persist \/ Report \/ Classified \/ Filter
    BY <2>1 DEF WriteTemp, Persist, Report, Classified, Filter, ovars
  <2>2. CASE Drain
    BY <2>2 DEF Drain, Judged, ovars
  <2>3. CASE Start
    BY <2>3 DEF Start, ovars
  <2> QED
    BY <1>6, <2>1, <2>2, <2>3 DEF FileStep
<1> QED
  BY StepCases, <1>1, <1>2, <1>3, <1>4, <1>5, <1>6

\* What every scan's channel holds.
LEMMA WrittenTypes ==
  ASSUME CommandTypes
  PROVE  /\ Written(out, "Records") \in Seq(Reply) /\ Written(out, "Feedback") \in Seq(Range(Batches))
         /\ rows \in Seq(Reply) /\ records \in Seq(Reply) /\ Begun \in Seq(Range(Batches))
<1>1. RecordsEvent(<<>>) \in Event
  <2>1. <<>> \in Seq(Reply)
    OBVIOUS
  <2> QED
    BY <2>1 DEF RecordsEvent, Event
<1>2. out \in Seq(Event) /\ rows \in Seq(Reply) /\ records \in Seq(Reply) /\ Begun \in Seq(Range(Batches))
  <2>1. journal \in Seq(Range(Batches)) /\ lastLine.batch \in Seq(Range(Batches))
    BY DEF CommandTypes
  <2> QED
    BY <2>1 DEF Begun, CommandTypes
<1>3. Written(out, "Records") \in Seq(Reply) /\ Written(out, "Feedback") \in Seq(Range(Batches))
  BY <1>1, <1>2, WrittenFacts
<1> QED
  BY <1>2, <1>3

\* Writing a line begins no other.
LEMMA LineWritten ==
  ASSUME CommandTypes, WriteLine \/ WriteError
  PROVE  Begun' = Begun
<1>1. CASE journal' = journal /\ (lastLine' = lastLine \/ LineGrows)
  BY <1>1, LineGrown DEF Begun
<1>2. CASE journal' = journal \o lastLine.batch /\ lastLine' = NoLine
  <2>1. journal' \in Seq(Range(Batches)) /\ lastLine'.batch = <<>>
    BY <1>2 DEF CommandTypes, NoLine
  <2>2. journal' \o <<>> = journal'
    BY <2>1
  <2> QED
    BY <1>2, <2>1, <2>2 DEF Begun
<1> QED
  BY <1>1, <1>2 DEF WriteLine, WriteError

\* The writer takes an event from the channel.
LEMMA AccountsWritten ==
  ASSUME CommandTypes, Accounts, OutputSide
  PROVE  Accounts'
<1>0. UNCHANGED <<op, told, records, delivered>>
  BY DEF OutputSide, mvars
<1>1. Journalled' = Journalled
  BY <1>0 DEF Journalled
<1>2. CASE OpenFiles
  BY <1>0, <1>1, <1>2 DEF OpenFiles, Accounts, Begun
<1>3. CASE WriteError
  BY <1>3 DEF WriteError, Accounts
<1>4. CASE FinishOutput
  BY <1>0, <1>1, <1>4 DEF FinishOutput, Finished, Accounts, Begun
<1>5. CASE TakeEvent
  <2> DEFINE e == Head(out)
             Part(kind) == IF e.kind = kind THEN e.items ELSE <<>>
             r == Written(Tail(out), "Records")
             f == Written(Tail(out), "Feedback")
  <2>1. out # <<>> /\ out' = Tail(out) /\ writer = "recv"
    BY <1>5 DEF TakeEvent
  <2>2. e \in Event /\ Tail(out) \in Seq(Event) /\ out \in Seq(Event)
    BY <2>1 DEF CommandTypes
  <2>3. /\ r \in Seq(Reply) /\ f \in Seq(Range(Batches))
        /\ Written(out, "Records") = Part("Records") \o r
        /\ Written(out, "Feedback") = Part("Feedback") \o f
    <3> HIDE DEF e
    <3>1. Written(Tail(out), "Records") \in Seq(Reply) /\ Written(Tail(out), "Feedback") \in Seq(Range(Batches))
      BY <2>2, WrittenFacts
    <3>2. \A kind \in {"Records", "Feedback"} : Written(out, kind) = Part(kind) \o Written(Tail(out), kind)
      BY <2>1, <2>2, WrittenFacts DEF e
    <3> QED
      BY <3>1, <3>2
  <2>4. /\ Part("Records") \in Seq(Reply) /\ Part("Feedback") \in Seq(Range(Batches))
        /\ rows' = rows \o Part("Records") /\ Begun' = Begun \o Part("Feedback")
    <3>0. /\ <<>> \in Seq(Reply) /\ <<>> \in Seq(Range(Batches)) /\ rows \o <<>> = rows /\ Begun \o <<>> = Begun
          /\ Begun = journal
      <4>1. lastLine.batch = <<>> /\ <<>> \in Seq(Reply) /\ <<>> \in Seq(Range(Batches))
        BY <1>5 DEF TakeEvent, NoLine
      <4>2. journal \o <<>> = journal /\ rows \o <<>> = rows
        BY <4>1 DEF CommandTypes
      <4> QED
        BY <4>1, <4>2 DEF Begun
    <3>1. CASE e.kind = "Records"
      <4>1. e.items \in Seq(Reply) /\ rows' = rows \o e.items /\ UNCHANGED <<journal, lastLine>>
        BY <1>5, <2>2, <3>1 DEF TakeEvent, Event
      <4> QED
        BY <3>0, <3>1, <4>1 DEF Begun
    <3>2. CASE e.kind # "Records"
      <4>1. /\ e.kind = "Feedback" /\ e.items \in Seq(Range(Batches)) /\ rows' = rows
            /\ journal' = journal /\ lastLine'.batch = e.items
        BY <1>5, <2>2, <3>2 DEF TakeEvent, Event, NoLine
      <4> QED
        BY <3>0, <4>1 DEF Begun
    <3> QED
      BY <3>1, <3>2
  <2>5. /\ rows \o Written(out, "Records") = rows' \o Written(out', "Records")
        /\ Begun \o Written(out, "Feedback") = Begun' \o Written(out', "Feedback")
    <3>1. rows \in Seq(Reply) /\ Begun \in Seq(Range(Batches))
      BY WrittenTypes
    <3>2. out' = Tail(out) /\ r = Written(out', "Records") /\ f = Written(out', "Feedback")
      BY <2>1
    <3> HIDE DEF e, r, f, Part
    <3> DEFINE p == Part("Records")
               q == Part("Feedback")
    <3>a. p \in Seq(Reply) /\ q \in Seq(Range(Batches)) /\ r \in Seq(Reply) /\ f \in Seq(Range(Batches))
      BY <2>3, <2>4
    <3> HIDE DEF p, q
    <3>b. (rows \o p) \o r = rows \o (p \o r)
      BY <3>1, <3>a, ConcatAssoc
    <3>c. (Begun \o q) \o f = Begun \o (q \o f)
      BY <3>1, <3>a, ConcatAssoc
    <3>3. (rows \o Part("Records")) \o r = rows \o (Part("Records") \o r)
      BY <3>b DEF p
    <3>4. (Begun \o Part("Feedback")) \o f = Begun \o (Part("Feedback") \o f)
      BY <3>c DEF q
    <3> QED
      BY <2>3, <2>4, <3>2, <3>3, <3>4
  <2> QED
    BY <1>0, <1>1, <2>1, <2>5 DEF Accounts
<1>6. CASE WriteLine
  <2>1. UNCHANGED <<out, rows, writer>>
    BY <1>6 DEF WriteLine
  <2>2. Begun' = Begun
    BY <1>6, LineWritten
  <2> QED
    BY <1>0, <1>1, <2>1, <2>2 DEF Accounts
<1> QED
  BY <1>2, <1>3, <1>4, <1>5, <1>6 DEF OutputSide, OutputStep

\* Only a batch the scan has told is to be journaled.
LEMMA JournalledKept ==
  ASSUME CommandTypes, OnPath, ModelKnown, [Next]_vars, ~Learned
  PROVE  Journalled' = Journalled /\ op' = op
<1> USE DEF Goto
<1>1. ASSUME UNCHANGED <<op, told>> PROVE Journalled' = Journalled /\ op' = op
  BY <1>1 DEF Journalled
<1>2. CASE UNCHANGED vars \/ Kill \/ DropModel \/ PluginSide \/ OutputSide \/ DriveSide
  BY <1>1, <1>2 DEF vars, mvars, Kill, DropModel, PluginSide, OutputSide, DriveSide
<1>3. CASE ModelStep
  <2>1. CASE OpenPlugin \/ Ask \/ Refused \/ AllFed \/ Encoded
    BY <1>1, <2>1 DEF OpenPlugin, Ask, Refused, AllFed, Encoded, mvars
  <2>2. CASE Fed
    <3>1. op' = op /\ op = "feedback"
      BY <2>2 DEF Fed, OnPath, Path, WithModel, Opening
    <3> QED
      BY <3>1 DEF Journalled
  <2>3. CASE Built
    <3>1. CASE pc = "describe" \/ op # "scan"
      BY <2>3, <3>1, <1>1 DEF Built, Journalled
    <3>2. CASE pc = "build" /\ op = "scan"
      <4>1. op' = op /\ told = <<>> /\ told' = <<"train">>
        BY <2>3, <3>2 DEF Built, ModelKnown, ToldOf, Opening
      <4> DEFINE S == {"train", "generate"}
      <4>2. <<>> \in Seq(S) /\ <<"train">> = Append(<<>>, "train") /\ "train" \in S
        OBVIOUS
      <4> HIDE DEF S
      <4>a. Outside(Append(<<>>, "train"), S) = Outside(<<>>, S)
        BY <4>2, OutsideAppend
      <4>3. Outside(Append(<<>>, "train"), {"train", "generate"}) = Outside(<<>>, {"train", "generate"})
        BY <4>a DEF S
      <4> QED
        BY <4>1, <4>2, <4>3 DEF Journalled, BatchesOf
    <3> QED
      BY <2>3, <3>1, <3>2 DEF Built
  <2> QED
    BY <1>3, <2>1, <2>2, <2>3 DEF ModelStep
<1>4. CASE ScanStep
  <2>1. CASE Generated
    <3>1. op' = op /\ told' = Append(told, "generate") /\ told \in Seq(Known) /\ "generate" \in Known
      BY <2>1 DEF Generated, CommandTypes, Known
    <3>2. Outside(Append(told, "generate"), {"train", "generate"}) = Outside(told, {"train", "generate"})
      BY <3>1, OutsideAppend
    <3> QED
      BY <3>1, <3>2 DEF Journalled, BatchesOf
  <2>2. CASE Prepare \/ AskScan \/ Recorded \/ EndScan
    BY <1>1, <2>2 DEF Prepare, AskScan, Recorded, EndScan
  <2> QED
    BY <1>4, <2>1, <2>2 DEF ScanStep
<1>5. CASE FiniteStep
  BY <1>1, <1>5 DEF FiniteStep, StartScan, StartRun, StreamReply, StreamFlush, EndStream, Join
<1>6. CASE FileStep
  BY <1>1, <1>6 DEF FileStep, WriteTemp, Persist, Drain, Report, Start, Classified, Filter
<1> QED
  BY StepCases, <1>2, <1>3, <1>4, <1>5, <1>6

\* A batch that the model was told goes into the channel.
LEMMA AccountsLearned ==
  ASSUME CommandTypes, OnPath, ModelKnown, Accounts, Learned
  PROVE  Accounts' /\ writer' # "failed" /\ op' = op /\ Begun' = Begun
<1> DEFINE b == Batches[rounds]
           f == Written(out, "Feedback")
<1>1. /\ told' = Append(told, b) /\ out' = Append(out, FeedbackEvent(b)) /\ Listening
      /\ UNCHANGED <<op, writer, rows, records, delivered>> /\ Begun' = Begun
  BY DEF Learned, Send, CanSend, Begun
<1>2. op = "scan"
  BY DEF Learned, OnPath, Path, WithModel, Opening
<1>3. b \in Range(Batches) /\ b \in Known /\ b \notin {"train", "generate"}
  <2>1. rounds > 0
    BY DEF Learned, ModelKnown, Talking, ResultMatches, Answering, NoResult
  <2>2. rounds \in 1..Len(Batches) /\ Batches \in Seq(Range(Batches))
    BY <2>1, CommandAssumption DEF CommandTypes
  <2>3. b \in Range(Batches)
    BY <2>2
  <2> QED
    BY <2>3, CommandAssumption DEF Known
<1>4. FeedbackEvent(b) \in Event /\ FeedbackEvent(b).kind = "Feedback" /\ FeedbackEvent(b).items = <<b>>
  BY <1>3 DEF FeedbackEvent, Event
<1> HIDE DEF b
<1>5. /\ Written(out', "Records") = Written(out, "Records") \o <<>>
      /\ Written(out', "Feedback") = f \o <<b>>
  <2>1. out \in Seq(Event)
    BY DEF CommandTypes
  <2>2. \A kind \in {"Records", "Feedback"} :
          Written(Append(out, FeedbackEvent(b)), kind)
            = Written(out, kind) \o (IF FeedbackEvent(b).kind = kind THEN FeedbackEvent(b).items ELSE <<>>)
    BY <2>1, <1>4, WrittenFacts
  <2> QED
    BY <1>1, <1>4, <2>2
<1>6. Written(out, "Records") \o <<>> = Written(out, "Records")
  BY WrittenTypes
<1>7. Journalled' = Append(Journalled, b)
  <2>1. told \in Seq(Known)
    BY DEF CommandTypes
  <2>2. Outside(Append(told, b), {"train", "generate"}) = Append(Outside(told, {"train", "generate"}), b)
    BY <1>3, <2>1, OutsideAppend
  <2> QED
    BY <1>1, <1>2, <2>2 DEF Journalled, BatchesOf
<1>8. Append(Begun \o f, b) = Begun \o (f \o <<b>>)
  <2>1. Begun \in Seq(Range(Batches)) /\ f \in Seq(Range(Batches)) /\ <<b>> \in Seq(Range(Batches))
    BY <1>3, WrittenTypes
  <2> HIDE DEF f
  <2>2. (Begun \o f) \o <<b>> = Begun \o (f \o <<b>>)
    BY <2>1, ConcatAssoc
  <2>3. Begun \o f \in Seq(Range(Batches))
    BY <2>1
  <2>4. Append(Begun \o f, b) = (Begun \o f) \o <<b>>
    BY <1>3, <2>3
  <2> QED
    BY <2>2, <2>4
<1>9. Accounts'
  <2>1. Accounts => delivered = (rows \o Written(out, "Records")) \o records /\ Journalled = Begun \o f
    BY <1>1 DEF Accounts, Listening
  <2> QED
    BY <1>1, <1>5, <1>6, <1>7, <1>8, <2>1 DEF Accounts
<1> QED
  BY <1>1, <1>9 DEF Listening

\* A reply of an adaptive scan goes into the channel.
LEMMA AccountsRecorded ==
  ASSUME CommandTypes, OnPath, WriterPlaces, Accounts, Recorded, Journalled' = Journalled
  PROVE  Accounts'
<1> DEFINE d == Len(delivered)
           r == Written(out, "Records")
<1>1. /\ delivered' = Append(delivered, d) /\ out' = Append(out, RecordsEvent(<<d>>)) /\ Listening
      /\ UNCHANGED <<op, writer, rows, records>> /\ records = <<>> /\ Begun' = Begun
  BY DEF Recorded, Send, CanSend, WriterPlaces, OnPath, Path, WithModel, Opening, Begun
<1>2. d \in Reply
  BY DEF CommandTypes, Reply
<1>3. RecordsEvent(<<d>>) \in Event /\ RecordsEvent(<<d>>).kind = "Records" /\ RecordsEvent(<<d>>).items = <<d>>
  BY <1>2 DEF RecordsEvent, Event
<1> HIDE DEF d
<1>4. /\ Written(out', "Records") = r \o <<d>>
      /\ Written(out', "Feedback") = Written(out, "Feedback") \o <<>>
  <2>1. out \in Seq(Event)
    BY DEF CommandTypes
  <2>2. \A kind \in {"Records", "Feedback"} :
          Written(Append(out, RecordsEvent(<<d>>)), kind)
            = Written(out, kind) \o (IF RecordsEvent(<<d>>).kind = kind THEN RecordsEvent(<<d>>).items ELSE <<>>)
    BY <2>1, <1>3, WrittenFacts
  <2> QED
    BY <1>1, <1>3, <2>2
<1>5. Written(out, "Feedback") \o <<>> = Written(out, "Feedback")
  BY WrittenTypes
<1>6. Append((rows \o r) \o <<>>, d) = (rows \o (r \o <<d>>)) \o <<>>
  <2>1. rows \in Seq(Reply) /\ r \in Seq(Reply) /\ <<d>> \in Seq(Reply)
    BY <1>2, WrittenTypes
  <2> HIDE DEF r
  <2>2. (rows \o r) \o <<d>> = rows \o (r \o <<d>>)
    BY <2>1, ConcatAssoc
  <2>3. rows \o r \in Seq(Reply) /\ r \o <<d>> \in Seq(Reply)
    BY <2>1
  <2>4. rows \o (r \o <<d>>) \in Seq(Reply)
    BY <2>1, <2>3
  <2>5. (rows \o r) \o <<>> = rows \o r /\ (rows \o (r \o <<d>>)) \o <<>> = rows \o (r \o <<d>>)
    BY <2>3, <2>4
  <2>6. Append(rows \o r, d) = (rows \o r) \o <<d>>
    BY <1>2, <2>3
  <2> QED
    BY <2>2, <2>5, <2>6
<1>7. writer # "failed"
  BY <1>1 DEF Listening
<1> QED
  BY <1>1, <1>4, <1>5, <1>6, <1>7 DEF Accounts

\* So do those a finite scan has collected.
LEMMA AccountsStream ==
  ASSUME CommandTypes, Accounts, StreamReply \/ StreamFlush, Journalled' = Journalled
  PROVE  Accounts'
<1> DEFINE r == Written(out, "Records")
           base == rows \o r
<1>1. rows \in Seq(Reply) /\ r \in Seq(Reply) /\ records \in Seq(Reply)
  BY WrittenTypes
<1>2. base \in Seq(Reply)
  BY <1>1
<1>3. CASE StreamReply
  <2> DEFINE a == Head(events)
  <2>1. /\ records' = Append(records, a) /\ delivered' = Append(delivered, a) /\ events # <<>>
        /\ UNCHANGED <<out, writer, rows>> /\ Begun' = Begun
    BY <1>3 DEF StreamReply, ovars, Begun
  <2>2. a \in Reply
    BY <2>1 DEF CommandTypes
  <2> HIDE DEF a, base
  <2>3. Append(base \o records, a) = base \o Append(records, a)
    <3>1. <<a>> \in Seq(Reply)
      BY <2>2
    <3>2. (base \o records) \o <<a>> = base \o (records \o <<a>>)
      BY <1>1, <1>2, <3>1, ConcatAssoc
    <3>3. base \o records \in Seq(Reply)
      BY <1>1, <1>2
    <3>4. Append(base \o records, a) = (base \o records) \o <<a>> /\ Append(records, a) = records \o <<a>>
      BY <1>1, <2>2, <3>3
    <3> QED
      BY <3>2, <3>4
  <2> QED
    BY <2>1, <2>3 DEF Accounts, base
<1>4. CASE StreamFlush
  <2>1. UNCHANGED <<writer, rows, delivered>> /\ Begun' = Begun
    BY <1>4 DEF StreamFlush, Begun
  <2>2. CASE UNCHANGED <<records, out>>
    BY <2>1, <2>2 DEF Accounts
  <2>3. CASE CanSend /\ Send(RecordsEvent(records)) /\ records' = <<>>
    <3>1. RecordsEvent(records) \in Event /\ RecordsEvent(records).kind = "Records"
          /\ RecordsEvent(records).items = records
      BY <1>1 DEF RecordsEvent, Event
    <3>2. /\ Written(out', "Records") = r \o records
          /\ Written(out', "Feedback") = Written(out, "Feedback") \o <<>>
      <4>1. out \in Seq(Event) /\ out' = Append(out, RecordsEvent(records))
        BY <2>3 DEF CommandTypes, Send
      <4>2. \A kind \in {"Records", "Feedback"} :
              Written(Append(out, RecordsEvent(records)), kind)
                = Written(out, kind)
                    \o (IF RecordsEvent(records).kind = kind THEN RecordsEvent(records).items ELSE <<>>)
        BY <3>1, <4>1, WrittenFacts
      <4> QED
        BY <3>1, <4>1, <4>2
    <3>3. Written(out, "Feedback") \o <<>> = Written(out, "Feedback")
      BY WrittenTypes
    <3>4. base \o records = (rows \o (r \o records)) \o <<>>
      <4> HIDE DEF r
      <4>1. (rows \o r) \o records = rows \o (r \o records)
        BY <1>1, ConcatAssoc
      <4>2. r \o records \in Seq(Reply)
        BY <1>1
      <4>3. rows \o (r \o records) \in Seq(Reply)
        BY <1>1, <4>2
      <4> QED
        BY <4>1, <4>3
    <3>5. writer # "failed"
      BY <2>3 DEF CanSend, Listening
    <3> QED
      BY <2>1, <2>3, <3>2, <3>3, <3>4, <3>5 DEF Accounts
  <2> QED
    BY <1>4, <2>2, <2>3 DEF StreamFlush
<1> QED
  BY <1>3, <1>4

LEMMA BooksStep ==
  ASSUME CommandTypes, OnPath, ModelKnown, Books, [Next]_vars
  PROVE  Books'
<1> USE DEF Goto
<1>1. WriterPlaces'
  BY WriterPlacesStep DEF Books
<1>2. CASE Learned
  <2>1. Accounts' /\ writer' # "failed"
    BY <1>2, AccountsLearned DEF Books
  <2>2. Journalled' = Begun' \o Written(out', "Feedback")
    BY <2>1 DEF Accounts
  <2>3. Begun' \in Seq(Range(Batches)) /\ Written(out', "Feedback") \in Seq(Range(Batches))
    <3>1. CommandTypes'
      BY TypesStep
    <3>2. Begun' \in Seq(Range(Batches)) /\ out' \in Seq(Event)
      BY <3>1 DEF CommandTypes, Begun
    <3>3. RecordsEvent(<<>>) \in Event
      <4>1. <<>> \in Seq(Reply)
        OBVIOUS
      <4> QED
        BY <4>1 DEF RecordsEvent, Event
    <3> QED
      BY <3>2, <3>3, WrittenFacts
  <2>4. IsPrefix(Begun', Journalled')
    <3> DEFINE j == Begun'
               f == Written(out', "Feedback")
    <3>1. j \in Seq(Range(Batches)) /\ f \in Seq(Range(Batches)) /\ Journalled' = j \o f
      BY <2>2, <2>3
    <3> HIDE DEF j, f
    <3>2. Len(j) <= Len(j \o f) /\ SubSeq(j, 1, Len(j)) = SubSeq(j \o f, 1, Len(j))
      BY <3>1
    <3>3. IsPrefix(j, j \o f)
      BY <3>2 DEF IsPrefix
    <3> QED
      BY <3>1, <3>3 DEF j
  <2> QED
    BY <1>1, <2>1, <2>4 DEF Books
<1>3. CASE ~Learned
  <2>1. Journalled' = Journalled /\ op' = op
    BY <1>3, JournalledKept
  <2>2. ASSUME UNCHANGED <<journal, lastLine, records, delivered, out, rows>>, writer # "failed" \/ writer' = "failed"
        PROVE  Books'
    BY <1>1, <2>1, <2>2 DEF Books, Accounts, Begun
  <2>3. CASE UNCHANGED vars \/ Kill \/ DropModel \/ PluginSide \/ DriveSide
    BY <2>2, <2>3 DEF vars, ovars, mvars, Kill, DropModel, PluginSide, DriveSide
  <2>4. CASE OutputSide
    <3>1. Accounts'
      BY <2>4, AccountsWritten DEF Books
    <3>2. CASE TakeEvent
      <4>1. writer' # "failed" /\ CommandTypes'
        BY <3>2, TypesStep DEF TakeEvent
      <4> DEFINE j == Begun'
                 f == Written(out', "Feedback")
      <4>2. RecordsEvent(<<>>) \in Event
        <5>1. <<>> \in Seq(Reply)
          OBVIOUS
        <5> QED
          BY <5>1 DEF RecordsEvent, Event
      <4>3. j \in Seq(Range(Batches)) /\ out' \in Seq(Event)
        BY <4>1 DEF CommandTypes, Begun
      <4>4. f \in Seq(Range(Batches))
        BY <4>2, <4>3, WrittenFacts
      <4>5. Journalled' = j \o f
        BY <3>1, <4>1 DEF Accounts
      <4> HIDE DEF j, f
      <4>6. Len(j) <= Len(j \o f) /\ SubSeq(j, 1, Len(j)) = SubSeq(j \o f, 1, Len(j))
        BY <4>3, <4>4
      <4>7. IsPrefix(j, j \o f)
        BY <4>6 DEF IsPrefix
      <4>8. IsPrefix(Begun', Journalled')
        BY <4>5, <4>7 DEF j
      <4> QED
        BY <1>1, <3>1, <4>8 DEF Books
    <3>3. CASE OpenFiles \/ WriteLine \/ WriteError \/ FinishOutput
      <4>1. ASSUME OpenFiles \/ FinishOutput PROVE Begun' = Begun
        BY <4>1 DEF OpenFiles, FinishOutput, Begun
      <4>2. Begun' = Begun
        BY <3>3, <4>1, LineWritten
      <4> QED
        BY <1>1, <2>1, <3>1, <4>2 DEF Books
    <3> QED
      BY <2>4, <3>2, <3>3 DEF OutputSide, OutputStep
  <2>5. CASE ModelStep
    BY <2>2, <2>5 DEF ModelStep, OpenPlugin, Ask, Refused, Built, Fed, AllFed, Encoded, ovars, mvars
  <2>6. CASE ScanStep
    <3>1. CASE Recorded
      <4>1. Accounts' /\ Begun' = Begun
        BY <2>1, <3>1, AccountsRecorded DEF Books, Recorded, Begun
      <4> QED
        BY <1>1, <2>1, <4>1 DEF Books
    <3>2. CASE Prepare
      <4>1. writer = "none"
        BY <3>2 DEF Prepare, Books, WriterPlaces
      <4> QED
        BY <2>2, <3>2, <4>1 DEF Prepare, StartWriter, ovars
    <3>3. CASE AskScan \/ Generated \/ EndScan
      BY <2>2, <3>3 DEF AskScan, Generated, EndScan, Conclude, ovars
    <3> QED
      BY <1>3, <2>6, <3>1, <3>2, <3>3 DEF ScanStep
  <2>7. CASE FiniteStep
    <3>1. CASE StreamReply \/ StreamFlush
      <4>1. Accounts' /\ Begun' = Begun
        BY <2>1, <3>1, AccountsStream DEF Books, StreamReply, StreamFlush, ovars, Begun
      <4> QED
        BY <1>1, <2>1, <4>1 DEF Books
    <3>2. CASE StartScan
      <4>1. writer = "none"
        BY <3>2 DEF StartScan, Books, WriterPlaces
      <4> QED
        BY <2>2, <3>2, <4>1 DEF StartScan, StartWriter
    <3>3. CASE StartRun \/ EndStream \/ Join
      BY <2>2, <3>3 DEF StartRun, EndStream, Join, Conclude, ovars
    <3> QED
      BY <2>7, <3>1, <3>2, <3>3 DEF FiniteStep
  <2>8. CASE FileStep
    BY <2>2, <2>8 DEF FileStep, WriteTemp, Persist, Drain, Report, Start, Classified, Filter, ovars
  <2> QED
    BY StepCases, <2>3, <2>4, <2>5, <2>6, <2>7, <2>8
<1> QED
  BY <1>2, <1>3

-----------------------------------------------------------------------------
(* The model behind the plugin is the one the program believes it to be.     *)

\* A step that moves on elsewhere.
LEMMA TalkSame ==
  ASSUME Talking, UNCHANGED <<pvars, op, pc, artifact, told, todo, rounds, scanned>>
  PROVE  Talking'
<1>1. UNCHANGED <<native, sequence, failed, call, result, open, requests, responses, worker, stdin, stdout,
                  alive, model, op, pc, artifact, told, todo, rounds, scanned>>
  BY DEF pvars, cvars, tvars
<1>2. CallMatches'
  <2>1. Argument(call.method)' = Argument(call.method)
    BY <1>1 DEF Argument
  <2> QED
    BY <1>1, <2>1 DEF Talking, CallMatches, Fitting, Calling, Method
<1>3. ResultMatches'
  BY <1>1 DEF Talking, ResultMatches, Behind, Telling, TellingAt
<1>4. Attends'
  BY <1>1 DEF Talking, Attends, Idle
<1>5. RequestOnItsWay'
  BY <1>1 DEF Talking, RequestOnItsWay, LinesSeen, Behind
<1>6. LinesAreAnswers'
  BY <1>1 DEF Talking, LinesAreAnswers, LinesSeen, Behind, Telling, TellingAt
<1>7. OneAnswer'
  BY <1>1 DEF Talking, OneAnswer
<1>8. NativeRuns'
  BY <1>1 DEF Talking, NativeRuns, Behind, Idle
<1>9. InStep'
  BY <1>1 DEF Talking, InStep, Idle
<1> QED
  BY <1>2, <1>3, <1>4, <1>5, <1>6, <1>7, <1>8, <1>9 DEF Talking

\* The command goes elsewhere, while it waits for no answer or for one that it will
\* not use.
LEMMA TalkMoved ==
  ASSUME Talking, UNCHANGED <<pvars, op, told, scanned>>,
         \/ Idle
         \/ pc' \notin Answering /\ (~scanned \/ pc' = "killed")
              /\ (pc' = "killed" \/ (call # NoCall => call.method \in {"generate", "feedback"}))
  PROVE  Talking'
<1>1. UNCHANGED <<native, sequence, failed, call, result, open, requests, responses, worker, stdin, stdout,
                  alive, model, op, told, scanned>>
  BY DEF pvars, cvars, tvars
<1>2. CallMatches'
  <2>1. CASE Idle
    BY <1>1, <2>1 DEF CallMatches, Idle
  <2>2. CASE ~Idle
    BY <1>1, <2>2 DEF Talking, CallMatches, Fitting, Answering, Calling, Method
  <2> QED
    BY <2>1, <2>2
<1>3. ResultMatches'
  BY <1>1 DEF Talking, ResultMatches, Idle
<1>4. Attends'
  BY <1>1 DEF Talking, Attends, Idle
<1>5. RequestOnItsWay'
  BY <1>1 DEF Talking, RequestOnItsWay, LinesSeen, Behind, Idle
<1>6. LinesAreAnswers'
  BY <1>1 DEF Talking, LinesAreAnswers, LinesSeen, Idle
<1>7. OneAnswer'
  BY <1>1 DEF Talking, OneAnswer
<1>8. NativeRuns'
  BY <1>1 DEF Talking, NativeRuns, Behind, Idle
<1>9. InStep'
  BY <1>1 DEF Talking, InStep, Idle
<1> QED
  BY <1>2, <1>3, <1>4, <1>5, <1>6, <1>7, <1>8, <1>9 DEF Talking

\* The program takes an answer, and believes what it was told has changed.
LEMMA TalkTaken ==
  ASSUME Talking, pc \in Answering, result # NoResult, result.kind # "error", result' = NoResult,
         UNCHANGED <<clients, tvars>>, told' = Telling(result.kind)
  PROVE  Talking'
<1>1. UNCHANGED <<native, sequence, failed, call, open, requests, responses, worker, stdin, stdout,
                  alive, model>>
  BY DEF clients, tvars
<1>2. call = NoCall
  BY DEF Talking, CallMatches
<1>3. CallMatches' /\ ResultMatches' /\ Attends'
  BY <1>1, <1>2 DEF CallMatches, ResultMatches, Attends, Idle
<1>4. RequestOnItsWay'
  BY <1>1, <1>2 DEF Talking, RequestOnItsWay, LinesSeen
<1>5. LinesAreAnswers'
  BY <1>1, <1>2 DEF Talking, LinesAreAnswers, LinesSeen
<1>6. OneAnswer' /\ NativeRuns'
  BY <1>1, <1>2 DEF Talking, OneAnswer, NativeRuns
<1>7. InStep'
  <2>1. open /\ ~failed => Behind(Telling(result.kind))
    BY DEF Talking, ResultMatches
  <2> QED
    BY <1>1, <2>1 DEF InStep, Behind
<1> QED
  BY <1>3, <1>4, <1>5, <1>6, <1>7 DEF Talking

\* Or an error, after which the client is not used again.
LEMMA TalkRefused ==
  ASSUME Talking, pc \in Answering, result.kind = "error", result' = NoResult, UNCHANGED <<clients, tvars>>
  PROVE  Talking'
<1>1. UNCHANGED <<native, sequence, failed, call, open, requests, responses, worker, stdin, stdout,
                  alive, model>>
  BY DEF clients, tvars
<1>2. result # NoResult /\ call = NoCall
  BY DEF Talking, CallMatches, NoResult
<1>3. failed
  <2>1. "error" \notin Answers(pc)
    BY DEF Answering, Answers
  <2> QED
    BY <1>2, <2>1 DEF Talking, ResultMatches
<1> QED
  BY <1>1, <1>2, <1>3
     DEF Talking, CallMatches, ResultMatches, Attends, Idle, RequestOnItsWay, LinesAreAnswers, OneAnswer,
         NativeRuns, InStep

\* What the server answers: what was asked for, or a refusal.
Outcome(r, o) ==
  /\ Expected(r.method) \in {"descriptor", "null", "batch", "payload"}
  /\ o.value.kind \in {"error", "odd", Expected(r.method)}
  /\ o.value.kind = Expected(r.method)
       => /\ o.model = Changed(r)
          /\ o.value.log = IF r.method = "save" THEN model.log ELSE <<>>
          /\ r.method = "save" => model.loaded
  /\ o.value.kind # Expected(r.method) => o.value.log = <<>>
  /\ o.value = [kind |-> o.value.kind, log |-> o.value.log]

LEMMA DispatchFacts ==
  ASSUME NEW r, r.method \in {"describe", "train", "load", "generate", "feedback", "save"},
         NEW o \in Dispatch(r)
  PROVE  Outcome(r, o)
<1> USE DEF Outcome
<1>1. Expected(r.method) \in {"descriptor", "null", "batch", "payload"}
  BY DEF Expected
<1> DEFINE e == Expected(r.method)
           answer == [kind |-> e, log |-> IF r.method = "save" THEN model.log ELSE <<>>]
<1>2. e \notin {"error", "odd"}
  BY <1>1
<1> HIDE DEF e
<1>3. \/ \E m : o = [value |-> Value("error"), model |-> m]
      \/ o = [value |-> answer, model |-> Changed(r)] /\ (r.method \in NeedsModel => model.loaded)
      \/ o = [value |-> Value("odd"), model |-> Changed(r)]
  BY DEF Dispatch, e
<1>4. CASE \E m : o = [value |-> Value("error"), model |-> m]
  <2>1. o.value = [kind |-> "error", log |-> <<>>]
    BY <1>4 DEF Value
  <2> QED
    BY <1>1, <1>2, <2>1 DEF e
<1>5. CASE o = [value |-> answer, model |-> Changed(r)] /\ (r.method \in NeedsModel => model.loaded)
  <2>1. o.value = answer /\ o.model = Changed(r)
    BY <1>5
  <2>2. o.value.kind = e /\ o.value.log = (IF r.method = "save" THEN model.log ELSE <<>>)
        /\ o.value = [kind |-> o.value.kind, log |-> o.value.log]
    BY <2>1
  <2> QED
    BY <1>1, <1>5, <2>1, <2>2 DEF e, NeedsModel
<1>6. CASE o = [value |-> Value("odd"), model |-> Changed(r)]
  <2>1. o.value = [kind |-> "odd", log |-> <<>>]
    BY <1>6 DEF Value
  <2> QED
    BY <1>1, <1>2, <2>1 DEF e
<1> QED
  BY <1>3, <1>4, <1>5, <1>6

\* The methods that a place may ask for.
LEMMA FittingMethod ==
  ASSUME OnPath, NEW r, NEW n, Fitting(r, n), pc # "killed"
  PROVE  r.method \in {"describe", "train", "load", "generate", "feedback", "save"}
<1>1. CASE pc \in Calling
  BY <1>1 DEF Fitting, Calling, Method
<1>2. CASE pc \notin Calling
  BY <1>2 DEF Fitting
<1> QED
  BY <1>1, <1>2

\* What a place asks for is what it takes.
LEMMA FittingAnswers ==
  ASSUME OnPath, NEW r, NEW n, Fitting(r, n), pc \in Answering
  PROVE  Expected(r.method) \in Answers(pc)
<1>1. CASE pc = "describe"
  BY <1>1 DEF Fitting, Calling, Method, Expected, Answers
<1>2. CASE pc = "build"
  <2>1. r.method \in {"train", "load"}
    BY <1>2 DEF Fitting, Calling, Method
  <2> QED
    BY <1>2, <2>1 DEF Expected, Answers
<1>3. CASE pc = "feed"
  BY <1>3 DEF Fitting, Calling, Method, Expected, Answers
<1>4. CASE pc = "save"
  BY <1>4 DEF Fitting, Calling, Method, Expected, Answers
<1>5. CASE pc = "scan"
  BY <1>5 DEF Fitting, Calling, Method, Expected, Answers
<1> QED
  BY <1>1, <1>2, <1>3, <1>4, <1>5 DEF Answering

\* An answer of the kind asked for is that of a model that was told what the program
\* told it, and was now told once more.
LEMMA Answered ==
  ASSUME CommandTypes, OnPath, ToldOf, pc \in Answering, alive, Behind(told),
         NEW r, NEW n, Fitting(r, n), NEW o \in Dispatch(r), o.value.kind = Expected(r.method)
  PROVE  /\ o.value.kind \in Answers(pc)
         /\ o.value.kind = "payload" => o.value.log = told
         /\ TellingAt(o.value.kind, n) # <<>> => o.model = Loaded(TellingAt(o.value.kind, n))
<1>0. /\ r.method \in {"describe", "train", "load", "generate", "feedback", "save"}
      /\ op \in WithModel
      /\ pc \in {"feed", "save", "scan"} => told # <<>>
  <2>1. pc # "killed"
    BY DEF Answering
  <2>2. op \in WithModel
    BY DEF OnPath, Path, WithModel, Opening, Answering
  <2>3. pc \in {"feed", "save", "scan"} => pc \in Path(op) \ Opening
    BY DEF OnPath, Opening
  <2> QED
    BY <2>1, <2>2, <2>3, FittingMethod DEF ToldOf
<1>1. /\ o.model = Changed(r)
      /\ o.value.log = IF r.method = "save" THEN model.log ELSE <<>>
  <2>1. Outcome(r, o)
    BY <1>0, DispatchFacts
  <2> QED
    BY <2>1 DEF Outcome
<1>2. ASSUME told # <<>> PROVE model = Loaded(told) /\ model.log = told
  BY <1>2 DEF Behind, Loaded
<1>3. ASSUME NEW x PROVE told \o <<x>> = Append(told, x)
  <2>1. told \in Seq(Known \cup {x}) /\ x \in Known \cup {x}
    BY DEF CommandTypes
  <2> QED
    BY <2>1
<1>4. CASE pc = "describe"
  <2>1. r.method = "describe"
    BY <1>4 DEF Fitting, Calling, Method
  <2>2. o.value.kind = "descriptor" /\ o.model = model
    BY <1>1, <2>1 DEF Expected, Changed
  <2> QED
    BY <1>2, <1>4, <2>2 DEF Answers, TellingAt
<1>5. CASE pc = "build"
  <2>1. r.method = IF op = "train" THEN "train" ELSE "load"
    BY <1>5 DEF Fitting, Calling, Method
  <2>2. r.method = "load" => r.arg = artifact.log
    BY <1>5, <2>1 DEF Fitting, Calling, Method, Argument
  <2>3. o.value.kind = "null" /\ o.model = Loaded(IF op = "train" THEN <<"train">> ELSE artifact.log)
    BY <1>1, <2>1, <2>2 DEF Expected, Changed
  <2> QED
    BY <1>5, <2>3 DEF Answers, TellingAt
<1>6. CASE pc = "feed"
  <2>1. r.method = "feedback" /\ op = "feedback"
    BY <1>6 DEF Fitting, Calling, Method, OnPath, Path, WithModel, Opening
  <2>2. r.arg = <<Head(todo)>>
    <3>1. r.arg = Argument("feedback")
      BY <1>6, <2>1 DEF Fitting, Calling, Method
    <3>2. Argument("feedback") = <<Head(todo)>>
      BY <2>1 DEF Argument
    <3> QED
      BY <3>1, <3>2
  <2>3. o.value.kind = "null" /\ o.model = Loaded(told \o <<Head(todo)>>)
    BY <1>0, <1>1, <1>2, <1>6, <2>1, <2>2 DEF Expected, Changed
  <2> QED
    BY <1>3, <1>6, <2>3 DEF Answers, TellingAt
<1>7. CASE pc = "save"
  <2>1. r.method = "save"
    BY <1>7 DEF Fitting, Calling, Method
  <2>2. o.value.kind = "payload" /\ o.model = model /\ o.value.log = model.log
    BY <1>1, <2>1 DEF Expected, Changed
  <2> QED
    BY <1>0, <1>2, <1>7, <2>2 DEF Answers, TellingAt
<1>8. CASE pc = "scan"
  <2>1. r.method \in {"generate", "feedback"} /\ (r.method = "feedback" => r.arg = <<Batches[n]>>)
    BY <1>8 DEF Fitting, Calling, Method
  <2>2. CASE r.method = "generate"
    <3>1. o.value.kind = "batch" /\ o.model = Loaded(Append(told, "generate"))
      BY <1>0, <1>1, <1>2, <1>8, <2>2 DEF Expected, Changed
    <3> QED
      BY <1>8, <3>1 DEF Answers, TellingAt
  <2>3. CASE r.method = "feedback"
    <3>1. o.value.kind = "null" /\ o.model = Loaded(told \o <<Batches[n]>>)
      BY <1>0, <1>1, <1>2, <1>8, <2>1, <2>3 DEF Expected, Changed
    <3> QED
      BY <1>3, <1>8, <3>1 DEF Answers, TellingAt
  <2> QED
    BY <2>1, <2>2, <2>3
<1> QED
  BY <1>4, <1>5, <1>6, <1>7, <1>8 DEF Answering

\* A call that has gone wrong.
LEMMA TalkFailed ==
  ASSUME failed', call' = NoCall, result' = Value("error"), UNCHANGED <<pc, scanned>>,
         pc \in Answering \/ ~scanned \/ pc = "killed"
  PROVE  Talking'
<1>1. result' # NoResult /\ result'.kind = "error"
  BY DEF Value, NoResult
<1> QED
  BY <1>1 DEF Talking, CallMatches, ResultMatches, Attends, Idle, RequestOnItsWay, LinesAreAnswers, OneAnswer,
              NativeRuns, InStep

\* A call that ends with the answer it asked for, of a model that now has been told.
LEMMA TalkAnswered ==
  ASSUME call' = NoCall, result' # NoResult,
         pc \in Answering => /\ result'.kind \in Answers(pc)
                             /\ pc = "feed" => todo # <<>>
                             /\ pc = "scan" => rounds' > 0
                             /\ result'.kind = "payload" => result'.log = told
                             /\ Behind(Telling(result.kind))',
         UNCHANGED <<op, pc, told, todo, scanned>>, pc \in Answering \/ ~scanned \/ pc = "killed",
         requests' = <<>>, stdin' = <<>>, responses' = <<>>, worker' # "read", native' => alive',
         stdout' \in Seq(Line), \A i \in DOMAIN stdout' : stdout'[i].id <= sequence'
  PROVE  Talking'
<1>1. CallMatches' /\ Attends'
  BY DEF CallMatches, Attends
<1>2. ResultMatches'
  BY DEF ResultMatches
<1>3. RequestOnItsWay'
  BY DEF RequestOnItsWay
<1>4. LinesAreAnswers'
  <2>1. <<>> \in Seq(Line) /\ DOMAIN <<>> = {}
    OBVIOUS
  <2>2. LinesSeen' = {stdout'[i] : i \in DOMAIN stdout'}
    BY <2>1 DEF LinesSeen
  <2> QED
    BY <2>1, <2>2 DEF LinesAreAnswers
<1>5. OneAnswer' /\ NativeRuns'
  <2>1. Len(<<>>) <= 1
    OBVIOUS
  <2> QED
    BY <2>1 DEF OneAnswer, NativeRuns
<1>6. InStep'
  BY DEF InStep, Idle
<1> QED
  BY <1>1, <1>2, <1>3, <1>4, <1>5, <1>6 DEF Talking

LEMMA TalkConnected ==
  ASSUME Talking, Idle, told = <<>>, Connect, told' = told
  PROVE  Talking'
<1>1. call' = NoCall /\ result' = NoResult /\ native' = native /\ open' /\ alive' = TRUE
      /\ requests' = <<>> /\ responses' = <<>> /\ stdin' = <<>> /\ stdout' = <<>> /\ worker' # "read"
  BY DEF Connect, Idle
<1>2. <<>> \in Seq(Line) /\ DOMAIN <<>> = {} /\ Len(<<>>) <= 1
  OBVIOUS
<1>3. LinesSeen' = {}
  BY <1>1, <1>2 DEF LinesSeen
<1> QED
  BY <1>1, <1>2, <1>3
     DEF Talking, CallMatches, ResultMatches, Attends, Idle, RequestOnItsWay, LinesAreAnswers, OneAnswer,
         NativeRuns, InStep

LEMMA TalkDropped ==
  ASSUME Talking, DropModel
  PROVE  Talking'
<1>1. ~open' /\ call = NoCall /\ UNCHANGED <<call, result, failed, mvars>>
  BY DEF DropModel, Close
<1>2. UNCHANGED <<pc, op, told, todo, rounds, scanned>>
  BY <1>1 DEF mvars
<1>3. ResultMatches'
  BY <1>1, <1>2 DEF Talking, ResultMatches
<1>4. CallMatches' /\ Attends'
  BY <1>1, <1>2 DEF Talking, CallMatches, Attends, Idle
<1> QED
  BY <1>1, <1>3, <1>4 DEF Talking, RequestOnItsWay, LinesAreAnswers, OneAnswer, NativeRuns, InStep

LEMMA TalkTimedOut ==
  ASSUME Talking, Timeout, UNCHANGED mvars
  PROVE  Talking'
<1>1. call # NoCall /\ call.id > 0
  BY DEF Timeout, Talking, CallMatches
<1>2. ~Accepted(call, Garbage)
  BY <1>1 DEF Accepted, Garbage
<1>3. failed' /\ call' = NoCall /\ result' = Value("error") /\ UNCHANGED <<pc, scanned>>
  BY <1>2 DEF Timeout, Return, Latched, mvars
<1>4. pc \in Answering \/ ~scanned \/ pc = "killed"
  BY <1>1 DEF Talking, Attends, Idle
<1> QED
  BY <1>3, <1>4, TalkFailed

LEMMA TalkCrashed ==
  ASSUME Talking, Crash, UNCHANGED mvars
  PROVE  Talking'
<1>1. /\ ~native /\ alive' = FALSE
      /\ UNCHANGED <<native, sequence, failed, call, result, open, requests, responses, worker, stdin, stdout,
                     op, pc, artifact, told, todo, rounds, scanned>>
  BY DEF Crash, cvars, mvars
<1>2. CallMatches'
  <2>1. Argument(call.method)' = Argument(call.method)
    BY <1>1 DEF Argument
  <2> QED
    BY <1>1, <2>1 DEF Talking, CallMatches, Fitting, Calling, Method
<1>3. ResultMatches'
  BY <1>1 DEF Talking, ResultMatches, Behind
<1>4. Attends'
  BY <1>1 DEF Talking, Attends, Idle
<1>5. RequestOnItsWay'
  BY <1>1 DEF Talking, RequestOnItsWay, LinesSeen, Behind
<1>6. LinesAreAnswers'
  BY <1>1 DEF Talking, LinesAreAnswers, LinesSeen, Behind
<1>7. OneAnswer' /\ NativeRuns' /\ InStep'
  BY <1>1 DEF Talking, OneAnswer, NativeRuns, InStep
<1> QED
  BY <1>2, <1>3, <1>4, <1>5, <1>6, <1>7 DEF Talking

\* The caller is given a line of the worker.
LEMMA TalkReceived ==
  ASSUME CommandTypes, OnPath, Talking, Receive, UNCHANGED mvars, pc # "killed"
  PROVE  Talking'
<1> DEFINE line == Head(responses)
<1>1. /\ call # NoCall /\ responses # <<>> /\ Return(call, line) /\ responses' = Tail(responses)
      /\ UNCHANGED <<native, sequence, open, requests, worker, stdin, stdout, alive, model,
                     op, pc, artifact, told, todo, rounds, scanned>>
  BY DEF Receive, mvars
<1>2. /\ call.id = sequence /\ open /\ ~failed /\ result = NoResult /\ Fitting(call, rounds)
  BY <1>1 DEF Talking, CallMatches
<1>3. pc \in Answering \/ ~scanned \/ pc = "killed"
  BY <1>1 DEF Talking, Attends, Idle
<1>4. CASE ~Accepted(call, line)
  <2>1. failed' /\ call' = NoCall /\ result' = Value("error")
    BY <1>1, <1>4 DEF Return, Latched
  <2> QED
    BY <1>1, <1>3, <2>1, TalkFailed
<1>5. CASE Accepted(call, line)
  <2>1. call' = NoCall /\ result' = line.value
    BY <1>1, <1>5 DEF Return
  <2>2. responses \in Seq(Line) /\ stdout \in Seq(Line) /\ Len(responses) <= 1 /\ worker # "read"
    BY <1>1, <1>2 DEF Talking, LinesAreAnswers, OneAnswer
  <2>3. responses' = <<>>
    <3> HIDE DEF line
    <3>1. responses \in Seq(Line) /\ responses # <<>> /\ Len(responses) <= 1
      BY <1>1, <2>2
    <3>2. Len(responses) \in Nat /\ Len(responses) # 0 /\ Tail(responses) \in Seq(Line)
          /\ Len(Tail(responses)) = Len(responses) - 1
      BY <3>1
    <3>3. Len(Tail(responses)) = 0
      BY <3>1, <3>2
    <3>4. Tail(responses) = <<>>
      <4> DEFINE u == Tail(responses)
      <4>1. u \in Seq(Line) /\ Len(u) = 0
        BY <3>2, <3>3
      <4> HIDE DEF u
      <4>2. u = <<>>
        BY <4>1
      <4> QED
        BY <4>2 DEF u
    <3> QED
      BY <1>1, <3>4
  <2>4. line \in LinesSeen /\ \A i \in DOMAIN stdout : stdout[i] \in LinesSeen
    <3>1. 1 \in DOMAIN responses /\ line = responses[1]
      BY <1>1, <2>2
    <3> QED
      BY <3>1 DEF LinesSeen
  <2> HIDE DEF line
  <2>5. requests = <<>> /\ stdin = <<>>
    <3>1. line.id = sequence
      BY <1>2, <1>5 DEF Accepted
    <3> QED
      BY <1>2, <2>4, <3>1 DEF Talking, RequestOnItsWay
  <2>6. \A i \in DOMAIN stdout' : stdout'[i].id <= sequence'
    BY <1>1, <1>2, <2>4 DEF Talking, LinesAreAnswers
  <2>7. result' # NoResult
    <3>1. call.method \in {"describe", "train", "load", "generate", "feedback", "save"}
      BY <1>2, FittingMethod
    <3>2. Expected(call.method) \in {"descriptor", "null", "batch", "payload"}
      BY <3>1 DEF Expected
    <3>3. line.value.kind = Expected(call.method)
      BY <1>5 DEF Accepted
    <3> QED
      BY <2>1, <3>2, <3>3 DEF NoResult
  <2>8. ASSUME pc \in Answering
        PROVE  /\ result'.kind \in Answers(pc)
               /\ pc = "feed" => todo # <<>>
               /\ pc = "scan" => rounds' > 0
               /\ result'.kind = "payload" => result'.log = told
               /\ Behind(Telling(result.kind))'
    <3>1. Behind(Telling(line.value.kind)) /\ (line.value.kind = "payload" => line.value.log = told)
      BY <1>1, <1>2, <1>5, <2>4, <2>8 DEF Talking, LinesAreAnswers
    <3>2. TellingAt(result.kind, rounds)' = TellingAt(line.value.kind, rounds)
      BY <1>1, <2>1 DEF TellingAt
    <3>3. Behind(Telling(result.kind))'
      BY <1>1, <3>1, <3>2 DEF Behind, Telling
    <3>4. pc = "feed" => todo # <<>>
      BY <1>2 DEF Fitting
    <3>5. pc = "scan" => rounds' > 0
      BY <1>1, <1>2 DEF Fitting
    <3>6. line.value.kind \in Answers(pc)
      <4>1. line.value.kind = Expected(call.method)
        BY <1>5 DEF Accepted
      <4>2. Expected(call.method) \in Answers(pc)
        BY <1>2, <2>8, FittingAnswers
      <4> QED
        BY <4>1, <4>2
    <3> QED
      BY <2>1, <3>1, <3>3, <3>4, <3>5, <3>6
  <2>9. native' => alive'
    BY <1>1, <1>2 DEF Talking, RequestOnItsWay
  <2> QED
    BY <1>1, <1>2, <1>3, <2>1, <2>2, <2>3, <2>5, <2>6, <2>7, <2>8, <2>9, TalkAnswered
<1> QED
  BY <1>4, <1>5

\* A child or a worker that nobody waits for any more.
LEMMA TalkOver ==
  ASSUME Talking, ~open \/ failed, UNCHANGED <<cvars, mvars>>
  PROVE  Talking'
<1>1. UNCHANGED <<native, sequence, failed, call, result, open, op, pc, artifact, told, todo, rounds, scanned>>
  BY DEF cvars, mvars
<1>2. call = NoCall
  BY DEF Talking, CallMatches
<1>3. CallMatches' /\ Attends'
  BY <1>1, <1>2 DEF Talking, CallMatches, Attends, Idle
<1>4. ResultMatches'
  BY <1>1 DEF Talking, ResultMatches
<1> QED
  BY <1>1, <1>3, <1>4 DEF Talking, RequestOnItsWay, LinesAreAnswers, OneAnswer, NativeRuns, InStep

\* Lines on their way change nothing of what the client and the model know.
LEMMA TalkKept ==
  ASSUME Talking, UNCHANGED <<cvars, mvars, alive, model>>
  PROVE  CallMatches' /\ ResultMatches' /\ Attends' /\ InStep'
<1>1. UNCHANGED <<native, sequence, failed, call, result, open, alive, model,
                  op, pc, artifact, told, todo, rounds, scanned>>
  BY DEF cvars, mvars
<1>2. CallMatches'
  <2>1. Argument(call.method)' = Argument(call.method)
    BY <1>1 DEF Argument
  <2> QED
    BY <1>1, <2>1 DEF Talking, CallMatches, Fitting, Calling, Method
<1>3. ResultMatches'
  BY <1>1 DEF Talking, ResultMatches, Behind, Telling, TellingAt
<1>4. Attends' /\ InStep'
  BY <1>1 DEF Talking, Attends, Idle, InStep
<1> QED
  BY <1>2, <1>3, <1>4

\* A line is an answer before and after a step that changes neither the client nor
\* the model.
AnswerLine(line) ==
  /\ line.id <= sequence
  /\ call # NoCall /\ pc \in Answering /\ Accepted(call, line)
       => /\ Behind(Telling(line.value.kind))
          /\ line.value.kind = "payload" => line.value.log = told

LEMMA LineKept ==
  ASSUME NEW line, AnswerLine(line), UNCHANGED <<cvars, mvars, alive, model>>
  PROVE  AnswerLine(line)'
<1>1. UNCHANGED <<sequence, call, alive, model, op, pc, artifact, told, todo, rounds>>
  BY DEF cvars, mvars
<1>2. Accepted(call, line)' => Accepted(call, line)
  BY <1>1 DEF Accepted
<1>3. Telling(line.value.kind)' = Telling(line.value.kind)
  BY <1>1 DEF Telling, TellingAt
<1>4. AnswerLine(line)'
  BY <1>1, <1>2, <1>3 DEF AnswerLine, Behind
<1> QED
  BY <1>4

\* Garbage answers nothing.
LEMMA GarbageLine ==
  ASSUME CommandTypes, Talking
  PROVE  Garbage \in Line /\ Garbage.id = 0 /\ AnswerLine(Garbage) /\ (call # NoCall => ~Accepted(call, Garbage))
<1>1. <<>> \in Seq(Known) /\ "garbage" \in Kind
  BY DEF Kind
<1>2. Garbage \in Line /\ Garbage.id = 0
  BY <1>1 DEF Garbage, Value, Line
<1>3. call # NoCall => call.id > 0
  BY DEF Talking, CallMatches
<1>4. call # NoCall => ~Accepted(call, Garbage)
  BY <1>2, <1>3 DEF Accepted
<1>5. 0 <= sequence
  BY DEF CommandTypes
<1> QED
  BY <1>2, <1>4, <1>5 DEF AnswerLine

\* The worker hands the child the request, or says that it cannot.
LEMMA TalkTakenUp ==
  ASSUME CommandTypes, Talking, TakeRequest, UNCHANGED mvars
  PROVE  Talking'
<1>1. UNCHANGED <<cvars, mvars, alive, model, stdout>> /\ worker = "recv" /\ requests' = <<>>
  BY DEF TakeRequest
<1>2. UNCHANGED <<sequence, failed, call, open, native, pc, told>>
  BY <1>1 DEF cvars, mvars
<1>3. CASE ~open \/ failed
  BY <1>1, <1>3, TalkOver
<1>4. CASE open /\ ~failed
  <2>1. CallMatches' /\ ResultMatches' /\ Attends' /\ InStep'
    BY <1>1, TalkKept
  <2>2. requests # <<>>
    BY <1>4 DEF TakeRequest
  <2>9. NativeRuns'
    BY <1>2, <1>4, <2>2 DEF Talking, NativeRuns
  <2>3. /\ call # NoCall /\ requests = <<call>> /\ stdin = <<>> /\ responses = <<>>
        /\ \A line \in LinesSeen : line.id # sequence
        /\ pc \in Answering => Behind(told)
        /\ native => alive
    BY <1>4, <2>2 DEF Talking, RequestOnItsWay, OneAnswer
  <2>4. /\ responses \in Seq(Line) /\ stdout \in Seq(Line) /\ \A line \in LinesSeen : AnswerLine(line)
    BY <1>4 DEF Talking, LinesAreAnswers, AnswerLine
  <2>5. CASE alive
    <3>1. stdin' = Append(stdin, Head(requests)) /\ worker' = "read" /\ responses' = responses
      BY <2>2, <2>5 DEF TakeRequest
    <3>2. stdin' = <<call>>
      BY <2>3, <3>1
    <3>3. LinesSeen' = LinesSeen
      BY <1>1, <3>1 DEF LinesSeen
    <3>4. RequestOnItsWay'
      BY <1>1, <1>2, <2>3, <3>2, <3>3 DEF RequestOnItsWay, Behind
    <3>5. \A line \in LinesSeen' : AnswerLine(line)'
      BY <1>1, <2>4, <3>3, LineKept
    <3>6. LinesAreAnswers'
      BY <1>1, <2>4, <3>1, <3>5 DEF LinesAreAnswers, AnswerLine
    <3>7. OneAnswer'
      <4>1. Len(<<>>) <= 1
        OBVIOUS
      <4> QED
        BY <1>1, <1>2, <2>3, <3>1, <4>1 DEF OneAnswer
    <3> QED
      BY <2>1, <2>9, <3>4, <3>6, <3>7 DEF Talking
  <2>6. CASE ~alive
    <3>1. stdin' = stdin /\ Respond(Garbage)
      BY <2>2, <2>6 DEF TakeRequest
    <3>2. responses' = <<Garbage>> /\ worker' # "read"
      BY <1>4, <3>1 DEF Respond
    <3>3. <<Garbage>> \in Seq(Line) /\ Len(<<Garbage>>) <= 1
      BY GarbageLine
    <3>4. \A line \in LinesSeen' : line \in LinesSeen \/ line = Garbage
      <4>1. \A i \in DOMAIN <<Garbage>> : <<Garbage>>[i] = Garbage
        OBVIOUS
      <4> QED
        BY <1>1, <3>2, <4>1 DEF LinesSeen
    <3>5. \A line \in LinesSeen' : AnswerLine(line)'
      BY <1>1, <2>4, <3>4, LineKept, GarbageLine
    <3>6. LinesAreAnswers'
      BY <1>1, <2>4, <3>2, <3>3, <3>5 DEF LinesAreAnswers, AnswerLine
    <3>7. RequestOnItsWay'
      BY <1>1, <1>2, <2>3, <3>1 DEF RequestOnItsWay
    <3>8. OneAnswer'
      BY <1>1, <1>2, <2>3, <3>2, <3>3 DEF OneAnswer
    <3> QED
      BY <2>1, <2>9, <3>6, <3>7, <3>8 DEF Talking
  <2> QED
    BY <2>5, <2>6
<1> QED
  BY <1>3, <1>4

\* The worker reads a line of the child, or the end of its output.
LEMMA TalkRead ==
  ASSUME CommandTypes, Talking, Read, UNCHANGED mvars
  PROVE  Talking'
<1>1. UNCHANGED <<cvars, mvars, alive, model, requests, stdin>> /\ worker = "read"
  BY DEF Read
<1>2. UNCHANGED <<sequence, failed, call, open, native, pc, told>>
  BY <1>1 DEF cvars, mvars
<1>3. CASE ~open \/ failed
  BY <1>1, <1>3, TalkOver
<1>4. CASE open /\ ~failed
  <2>1. CallMatches' /\ ResultMatches' /\ Attends' /\ InStep'
    BY <1>1, TalkKept
  <2>2. call # NoCall /\ requests = <<>> /\ responses = <<>>
    BY <1>1, <1>4 DEF Talking, OneAnswer
  <2>3. sequence > 0
    BY <2>2 DEF Talking, CallMatches
  <2>4. /\ responses \in Seq(Line) /\ stdout \in Seq(Line) /\ \A line \in LinesSeen : AnswerLine(line)
    BY <1>4 DEF Talking, LinesAreAnswers, AnswerLine
  <2>5. PICK line : /\ Respond(line)
                    /\ \/ stdout # <<>> /\ line = Head(stdout) /\ stdout' = Tail(stdout)
                       \/ line = Garbage /\ stdout' = stdout
    BY DEF Read
  <2>6. responses' = <<line>> /\ worker' # "read"
    BY <1>4, <2>5 DEF Respond
  <2>7. line \in Line /\ stdout' \in Seq(Line) /\ (line \in LinesSeen \/ line = Garbage)
        /\ \A i \in DOMAIN stdout' : stdout'[i] \in LinesSeen
    <3>1. CASE stdout # <<>> /\ line = Head(stdout) /\ stdout' = Tail(stdout)
      <4>1. line = stdout[1] /\ 1 \in DOMAIN stdout /\ line \in Line /\ Tail(stdout) \in Seq(Line)
        BY <2>4, <3>1
      <4>2. \A i \in DOMAIN Tail(stdout) : i + 1 \in DOMAIN stdout /\ Tail(stdout)[i] = stdout[i + 1]
        BY <2>4, <3>1
      <4> QED
        BY <3>1, <4>1, <4>2 DEF LinesSeen
    <3>2. CASE line = Garbage /\ stdout' = stdout
      BY <2>4, <3>2, GarbageLine DEF LinesSeen
    <3> QED
      BY <2>5, <3>1, <3>2
  <2>8. <<line>> \in Seq(Line) /\ Len(<<line>>) <= 1 /\ \A i \in DOMAIN <<line>> : <<line>>[i] = line
    BY <2>7
  <2>9. \A l \in LinesSeen' : l \in LinesSeen \/ l = Garbage
    BY <2>6, <2>7, <2>8 DEF LinesSeen
  <2>10. \A l \in LinesSeen' : AnswerLine(l)'
    BY <1>1, <2>4, <2>9, LineKept, GarbageLine
  <2>11. LinesAreAnswers'
    BY <2>6, <2>7, <2>8, <2>10 DEF LinesAreAnswers, AnswerLine
  <2>12. RequestOnItsWay'
    <3>1. \/ requests = <<>> /\ stdin = <<>>
          \/ /\ <<requests, stdin>> \in {<<<<call>>, <<>>>>, <<<<>>, <<call>>>>}
             /\ \A l \in LinesSeen : l.id # sequence
             /\ pc \in Answering => Behind(told)
      BY <1>4 DEF Talking, RequestOnItsWay
    <3>2. native => alive
      BY <1>4 DEF Talking, RequestOnItsWay
    <3>3. (\A l \in LinesSeen : l.id # sequence) => \A l \in LinesSeen' : l.id # sequence'
      BY <1>2, <2>3, <2>9, GarbageLine
    <3> QED
      BY <1>1, <1>2, <2>2, <3>1, <3>2, <3>3 DEF RequestOnItsWay, Behind
  <2>13. OneAnswer'
    BY <1>1, <1>2, <2>2, <2>6, <2>8 DEF OneAnswer
  <2>14. NativeRuns'
    BY <1>1, <1>2, <1>4 DEF Talking, NativeRuns
  <2> QED
    BY <2>1, <2>11, <2>12, <2>13, <2>14 DEF Talking
<1> QED
  BY <1>3, <1>4

\* What was told is behind the plugin in the places where the program asks it.
LEMMA ToldWhereAsked ==
  ASSUME OnPath, ToldOf, pc \in Answering
  PROVE  pc \in {"feed", "save", "scan"} => told # <<>>
<1>1. op \in WithModel
  BY DEF OnPath, Path, WithModel, Opening, Answering
<1>2. pc \in {"feed", "save", "scan"} => pc \in Path(op) \ Opening
  BY DEF OnPath, Opening
<1> QED
  BY <1>1, <1>2 DEF ToldOf

\* A dispatched request's answer is a line.
LEMMA OutcomeType ==
  ASSUME CommandTypes, OnPath, ToldOf, pc # "killed", alive, pc \in Answering => Behind(told),
         NEW r, NEW n, Fitting(r, n), NEW o \in Dispatch(r)
  PROVE  o.value \in [kind : Kind, log : Seq(Known)]
<1>1. r.method \in {"describe", "train", "load", "generate", "feedback", "save"}
  BY FittingMethod
<1>2. Outcome(r, o)
  BY <1>1, DispatchFacts
<1>3. o.value.kind \in Kind
  BY <1>2 DEF Outcome, Kind
<1>4. o.value.log \in Seq(Known)
  <2>1. <<>> \in Seq(Known)
    OBVIOUS
  <2>2. CASE r.method = "save"
    <3>1. pc \in Calling
      BY <2>2 DEF Fitting
    <3>2. pc = "save"
      BY <2>2, <3>1 DEF Fitting, Calling, Method
    <3>3. told # <<>> /\ Behind(told)
      BY <3>2, ToldWhereAsked DEF Answering
    <3>4. model.log = told
      BY <3>3 DEF Behind, Loaded
    <3>5. o.value.log \in {told, <<>>}
      BY <1>2, <2>2, <3>4 DEF Outcome
    <3> QED
      BY <2>1, <3>5 DEF CommandTypes
  <2>3. CASE r.method # "save"
    <3>1. o.value.log = <<>>
      BY <1>2, <2>3 DEF Outcome
    <3> QED
      BY <2>1, <3>1
  <2> QED
    BY <2>2, <2>3
<1>5. o.value = [kind |-> o.value.kind, log |-> o.value.log]
  BY <1>2 DEF Outcome
<1> QED
  BY <1>3, <1>4, <1>5

\* The plugin serves the request.
LEMMA TalkServed ==
  ASSUME CommandTypes, OnPath, ToldOf, Talking, Serve, UNCHANGED mvars, pc # "killed"
  PROVE  Talking'
<1>1. UNCHANGED <<cvars, mvars, alive, requests, responses, worker>> /\ alive /\ stdin # <<>>
  BY DEF Serve
<1>2. UNCHANGED <<native, sequence, failed, call, result, open, op, pc, artifact, told, todo, rounds, scanned>>
  BY <1>1 DEF cvars, mvars
<1>3. CASE ~open \/ failed
  BY <1>1, <1>3, TalkOver
<1>4. CASE open /\ ~failed
  <2>1. /\ call # NoCall /\ requests = <<>> /\ stdin = <<call>>
        /\ \A line \in LinesSeen : line.id # sequence
        /\ pc \in Answering => Behind(told)
        /\ native => alive
    BY <1>1, <1>4 DEF Talking, RequestOnItsWay
  <2>2. call.id = sequence /\ result = NoResult /\ Fitting(call, rounds)
    BY <2>1 DEF Talking, CallMatches
  <2>3. Head(stdin) = call /\ Tail(stdin) = <<>>
    BY <2>1
  <2>4. PICK o \in Dispatch(call) :
          LET line == [id |-> call.id, value |-> o.value]
          IN  /\ model' = o.model
              /\ stdout' \in {Append(stdout, line), stdout \o <<line, line>>, Append(stdout, Garbage)}
    BY <2>3 DEF Serve
  <2>a. PICK line : line = [id |-> call.id, value |-> o.value]
    OBVIOUS
  <2>5. line \in Line /\ line.id = sequence /\ line.value = o.value
    <3>1. o.value \in [kind : Kind, log : Seq(Known)]
      BY <1>1, <2>1, <2>2, OutcomeType
    <3>2. call.id \in Nat
      BY <2>2 DEF CommandTypes
    <3> QED
      BY <2>2, <2>a, <3>1, <3>2 DEF Line
  <2>6. model' = o.model /\ stdout' \in {Append(stdout, line), stdout \o <<line, line>>, Append(stdout, Garbage)}
    BY <2>4, <2>a
  <2>7. stdin' = <<>>
    BY <2>3 DEF Serve
  <2>8. /\ responses \in Seq(Line) /\ stdout \in Seq(Line) /\ \A l \in LinesSeen : l.id <= sequence
    BY <1>4 DEF Talking, LinesAreAnswers
  <2>9. Garbage \in Line /\ Garbage.id = 0 /\ ~Accepted(call, Garbage)
    BY <2>1, GarbageLine
  <2>10. stdout' \in Seq(Line) /\ \A i \in DOMAIN stdout' : stdout'[i] \in {stdout[j] : j \in DOMAIN stdout} \cup {line, Garbage}
    <3>1. ASSUME NEW l \in Line, stdout' = Append(stdout, l)
          PROVE  stdout' \in Seq(Line) /\ \A i \in DOMAIN stdout' : stdout'[i] \in {stdout[j] : j \in DOMAIN stdout} \cup {l}
      BY <2>8, <3>1
    <3>2. ASSUME stdout' = stdout \o <<line, line>>
          PROVE  stdout' \in Seq(Line) /\ \A i \in DOMAIN stdout' : stdout'[i] \in {stdout[j] : j \in DOMAIN stdout} \cup {line}
      <4>1. <<line, line>> = Append(<<line>>, line) /\ <<line>> \in Seq(Line) /\ <<line, line>> \in Seq(Line)
        BY <2>5
      <4>2. stdout \o <<line, line>> = Append(Append(stdout, line), line)
        BY <2>5, <2>8
      <4>3. Append(stdout, line) \in Seq(Line) /\ \A i \in DOMAIN Append(stdout, line) :
               Append(stdout, line)[i] \in {stdout[j] : j \in DOMAIN stdout} \cup {line}
        BY <2>5, <2>8
      <4> DEFINE u == Append(stdout, line)
      <4>4. u \in Seq(Line) /\ \A i \in DOMAIN u : u[i] \in {stdout[j] : j \in DOMAIN stdout} \cup {line}
        BY <4>3
      <4>5. stdout' = Append(u, line)
        BY <3>2, <4>2
      <4> HIDE DEF u
      <4> QED
        BY <2>5, <4>4, <4>5
    <3> QED
      BY <2>5, <2>6, <2>9, <3>1, <3>2
  <2>11. \A l \in LinesSeen' : l \in LinesSeen \cup {line, Garbage}
    BY <1>1, <2>10 DEF LinesSeen
  <2>12. ASSUME pc \in Answering, Accepted(call, line)
         PROVE  /\ Behind(Telling(line.value.kind))'
                /\ line.value.kind = "payload" => line.value.log = told
    <3>1. o.value.kind = Expected(call.method)
      BY <2>5, <2>12 DEF Accepted
    <3>2. /\ o.value.kind = "payload" => o.value.log = told
          /\ TellingAt(o.value.kind, rounds) # <<>> => o.model = Loaded(TellingAt(o.value.kind, rounds))
      BY <1>1, <2>1, <2>2, <2>12, <3>1, Answered
    <3>3. Telling(o.value.kind)' = TellingAt(o.value.kind, rounds)
      BY <1>2 DEF Telling, TellingAt
    <3>4. Behind(Telling(o.value.kind))'
      BY <2>6, <3>2, <3>3 DEF Behind
    <3> QED
      BY <2>5, <3>2, <3>4
  <2>13. \A l \in LinesSeen' :
            /\ l.id <= sequence'
            /\ call' # NoCall /\ pc' \in Answering /\ Accepted(call, l)'
                 => /\ Behind(Telling(l.value.kind))'
                    /\ l.value.kind = "payload" => l.value.log = told'
    <3> SUFFICES ASSUME NEW l \in LinesSeen'
                 PROVE  /\ l.id <= sequence'
                        /\ call' # NoCall /\ pc' \in Answering /\ Accepted(call, l)'
                             => /\ Behind(Telling(l.value.kind))'
                                /\ l.value.kind = "payload" => l.value.log = told'
      OBVIOUS
    <3>0. Accepted(call, l)' => Accepted(call, l)
      BY <1>2 DEF Accepted
    <3>1. CASE l \in LinesSeen
      <4>1. ~Accepted(call, l)
        BY <2>1, <2>2, <3>1 DEF Accepted
      <4> QED
        BY <1>2, <2>8, <3>0, <3>1, <4>1
    <3>2. CASE l = Garbage
      <4>1. 0 <= sequence
        BY DEF CommandTypes
      <4> QED
        BY <1>2, <2>9, <3>0, <3>2, <4>1
    <3>3. CASE l = line
      <4>1. sequence <= sequence
        BY DEF CommandTypes
      <4> QED
        BY <1>2, <2>5, <2>12, <3>0, <3>3, <4>1
    <3> QED
      BY <2>11, <3>1, <3>2, <3>3
  <2>14. LinesAreAnswers'
    BY <1>1, <2>8, <2>10, <2>13 DEF LinesAreAnswers
  <2>15. CallMatches'
    <3>1. Argument(call.method)' = Argument(call.method)
      BY <1>2 DEF Argument
    <3> QED
      BY <1>2, <3>1 DEF Talking, CallMatches, Fitting, Calling, Method
  <2>16. ResultMatches' /\ Attends' /\ InStep'
    BY <1>2, <2>1, <2>2 DEF Talking, ResultMatches, Attends, Idle, InStep
  <2>17. RequestOnItsWay'
    BY <1>1, <1>2, <2>1, <2>7 DEF RequestOnItsWay
  <2>18. OneAnswer'
    BY <1>1, <1>2 DEF Talking, OneAnswer
  <2>19. NativeRuns'
    BY <1>1, <1>2, <1>4 DEF Talking, NativeRuns
  <2> QED
    BY <2>14, <2>15, <2>16, <2>17, <2>18, <2>19 DEF Talking
<1> QED
  BY <1>3, <1>4

\* A place makes its call: a native plugin runs in it, any other is sent a request.
LEMMA TalkCalled ==
  ASSUME CommandTypes, OnPath, ToldOf, Talking, Idle, pc \in Answering,
         NEW method, NEW arg, NEW n, Call(method, arg), rounds' = n,
         \A id : Fitting([id |-> id, method |-> method, arg |-> arg], n),
         UNCHANGED <<op, pc, artifact, told, todo, scanned>>
  PROVE  Talking'
<1>1. call = NoCall /\ result = NoResult /\ open /\ scanned
  BY DEF Idle, Call, OnPath, Answering
<1>2. UNCHANGED <<native, open, responses, worker, stdin, stdout, alive>>
  BY DEF Call
<1>3. CASE failed
  <2>1. failed' = failed /\ call' = NoCall /\ result' = Value("error")
    BY <1>1, <1>3 DEF Call
  <2> QED
    BY <1>3, <2>1, TalkFailed
<1>4. CASE ~failed
  <2>1. PICK r : r = [id |-> sequence + 1, method |-> method, arg |-> arg]
    OBVIOUS
  <2>2. /\ sequence' = sequence + 1
        /\ model' = model
        /\ IF native THEN CallNative(r) ELSE CallProcess(r)
    BY <1>4, <2>1 DEF Call
  <2>3. r.id = sequence + 1 /\ r.method = method /\ Fitting(r, n) /\ sequence \in Nat
    BY <2>1 DEF CommandTypes
  <2>4. /\ requests = <<>> /\ stdin = <<>> /\ responses = <<>> /\ worker # "read" /\ (native => alive)
        /\ responses \in Seq(Line) /\ stdout \in Seq(Line) /\ \A l \in LinesSeen : l.id <= sequence
    BY <1>1, <1>4 DEF Talking, RequestOnItsWay, OneAnswer, LinesAreAnswers
  <2>5. r.id # Garbage.id /\ ~Accepted(r, Garbage) /\ r # NoCall
    <3>1. r.id # 0
      BY <2>3
    <3> QED
      BY <3>1 DEF Garbage, Accepted, NoCall
  <2>6. ASSUME Return(r, Garbage) PROVE Talking'
    <3>1. failed' /\ call' = NoCall /\ result' = Value("error")
      BY <2>5, <2>6 DEF Return, Latched
    <3> QED
      BY <3>1, TalkFailed
  <2>7. \A i \in DOMAIN stdout : stdout[i] \in LinesSeen
    BY DEF LinesSeen
  <2>8. \A l \in LinesSeen : l.id \in Nat
    <3>1. ASSUME NEW u \in Seq(Line), NEW i \in DOMAIN u PROVE u[i].id \in Nat
      <4>1. u[i] \in Line
        OBVIOUS
      <4> QED
        BY <4>1 DEF Line
    <3> QED
      BY <2>4, <3>1 DEF LinesSeen
  <2>9. Behind(told)
    BY <1>1, <1>4 DEF Talking, InStep, Idle, Behind
  <2>10. ASSUME call' = r, UNCHANGED <<failed, result>>,
                 IF native THEN requests' = <<>> ELSE requests' = <<r>>
         PROVE  Talking'
    <3>1. CallMatches'
      <4>1. sequence' > 0
        BY <2>2, <2>3
      <4>2. Fitting(call, rounds)'
        <5>1. CASE pc \in Calling
          <6>1. method \in Method[pc] /\ r.arg = Argument(method)
            BY <2>3, <5>1 DEF Fitting
          <6>2. op # "feedback" => method # "feedback"
            BY <5>1, <6>1 DEF Calling, Method, OnPath, Path, Opening, WithModel
          <6>3. Argument(method)' = Argument(method)
            BY <6>2 DEF Argument
          <6> QED
            BY <2>3, <2>10, <5>1, <6>1, <6>3 DEF Fitting, Calling, Method
        <5>2. CASE pc \notin Calling
          BY <2>3, <2>10, <5>2 DEF Fitting, Calling, Method
        <5> QED
          BY <5>1, <5>2
      <4> QED
        BY <1>1, <1>2, <1>4, <2>2, <2>3, <2>10, <4>1, <4>2 DEF CallMatches
    <3>2. ResultMatches' /\ Attends' /\ InStep'
      BY <1>1, <2>5, <2>10 DEF ResultMatches, Attends, InStep, Idle
    <3>3. LinesSeen' = LinesSeen
      BY <1>2 DEF LinesSeen
    <3>4. \A l \in LinesSeen : l.id # sequence + 1 /\ l.id <= sequence + 1
      BY <2>3, <2>4, <2>8
    <3>5. Behind(told)'
      BY <1>2, <2>2, <2>9 DEF Behind
    <3>6. RequestOnItsWay'
      <4>1. \A l \in LinesSeen' : l.id # sequence'
        BY <2>2, <3>3, <3>4
      <4>2. <<requests', stdin'>> \in {<<<<>>, <<>>>>, <<<<call'>>, <<>>>>}
        BY <1>2, <2>4, <2>10
      <4>3. (native => alive)'
        BY <1>2, <2>4
      <4>4. CASE requests' = <<>> /\ stdin' = <<>>
        BY <4>3, <4>4 DEF RequestOnItsWay
      <4>5. CASE <<requests', stdin'>> = <<<<call'>>, <<>>>>
        BY <2>5, <2>10, <3>5, <4>1, <4>3, <4>5 DEF RequestOnItsWay
      <4> QED
        BY <4>2, <4>4, <4>5
    <3>7. LinesAreAnswers'
      <4>1. \A l \in LinesSeen' : l.id <= sequence' /\ ~Accepted(call, l)'
        BY <2>2, <2>3, <2>10, <3>3, <3>4 DEF Accepted
      <4> QED
        BY <1>2, <2>4, <4>1 DEF LinesAreAnswers
    <3>8. OneAnswer' /\ NativeRuns'
      <4>1. Len(<<>>) <= 1
        OBVIOUS
      <4> QED
        BY <1>2, <2>4, <2>10, <3>5, <4>1 DEF OneAnswer, NativeRuns
    <3> QED
      BY <3>1, <3>2, <3>6, <3>7, <3>8 DEF Talking
  <2>11. CASE native
    BY <2>2, <2>4, <2>10, <2>11 DEF CallNative
  <2>12. CASE ~native
    BY <2>2, <2>6, <2>10, <2>12 DEF CallProcess
  <2> QED
    BY <2>11, <2>12
<1> QED
  BY <1>3, <1>4

\* The library of a native plugin returns, with an answer or a code.
LEMMA TalkReturned ==
  ASSUME CommandTypes, OnPath, ToldOf, Talking, NativeReturns, UNCHANGED mvars, pc # "killed"
  PROVE  Talking'
<1>1. /\ native /\ call # NoCall
      /\ UNCHANGED <<native, sequence, open, requests, responses, worker, stdin, stdout, alive,
                     op, pc, artifact, told, todo, rounds, scanned>>
  BY DEF NativeReturns, mvars
<1>2. call.id = sequence /\ sequence > 0 /\ open /\ ~failed /\ Fitting(call, rounds)
  BY <1>1 DEF Talking, CallMatches
<1>3. pc \in Answering \/ ~scanned \/ pc = "killed"
  BY <1>1 DEF Talking, Attends, Idle
<1>4. /\ requests = <<>> /\ stdin = <<>> /\ responses = <<>> /\ worker # "read" /\ alive
      /\ pc \in Answering => Behind(told)
      /\ stdout \in Seq(Line) /\ \A l \in LinesSeen : l.id <= sequence
  BY <1>1, <1>2 DEF Talking, RequestOnItsWay, NativeRuns, LinesAreAnswers
<1>5. ASSUME failed', call' = NoCall, result' = Value("error") PROVE Talking'
  BY <1>1, <1>3, <1>5, TalkFailed
<1>6. CASE \E o \in Dispatch(call) : Return(call, [id |-> call.id, value |-> o.value]) /\ model' = o.model
  <2>1. PICK o \in Dispatch(call) : Return(call, [id |-> call.id, value |-> o.value]) /\ model' = o.model
    BY <1>6
  <2>2. PICK line : line = [id |-> call.id, value |-> o.value]
    OBVIOUS
  <2>3. Return(call, line) /\ line.id = call.id /\ line.value = o.value
    BY <2>1, <2>2
  <2>4. CASE ~Accepted(call, line)
    <3>1. failed' /\ call' = NoCall /\ result' = Value("error")
      BY <2>3, <2>4 DEF Return, Latched
    <3> QED
      BY <1>5, <3>1
  <2>5. CASE Accepted(call, line)
    <3>1. call' = NoCall /\ result' = o.value /\ o.value.kind = Expected(call.method)
      BY <2>3, <2>5 DEF Return, Accepted
    <3>2. result' # NoResult
      <4>1. call.method \in {"describe", "train", "load", "generate", "feedback", "save"}
        BY <1>2, FittingMethod
      <4>2. Expected(call.method) \in {"descriptor", "null", "batch", "payload"}
        BY <4>1 DEF Expected
      <4> QED
        BY <3>1, <4>2 DEF NoResult
    <3>3. ASSUME pc \in Answering
          PROVE  /\ result'.kind \in Answers(pc)
                 /\ pc = "feed" => todo # <<>>
                 /\ pc = "scan" => rounds' > 0
                 /\ result'.kind = "payload" => result'.log = told
                 /\ Behind(Telling(result.kind))'
      <4>1. /\ o.value.kind \in Answers(pc)
            /\ o.value.kind = "payload" => o.value.log = told
            /\ TellingAt(o.value.kind, rounds) # <<>> => o.model = Loaded(TellingAt(o.value.kind, rounds))
        BY <1>2, <1>4, <3>1, <3>3, Answered
      <4>2. Telling(result.kind)' = TellingAt(o.value.kind, rounds)
        BY <1>1, <3>1 DEF Telling, TellingAt
      <4>3. Behind(Telling(result.kind))'
        BY <2>1, <4>1, <4>2 DEF Behind
      <4>4. (pc = "feed" => todo # <<>>) /\ (pc = "scan" => rounds' > 0)
        BY <1>1, <1>2 DEF Fitting
      <4> QED
        BY <3>1, <4>1, <4>3, <4>4
    <3>4. stdout' \in Seq(Line) /\ \A i \in DOMAIN stdout' : stdout'[i].id <= sequence'
      BY <1>1, <1>4 DEF LinesSeen
    <3> QED
      BY <1>1, <1>3, <1>4, <3>1, <3>2, <3>3, <3>4, TalkAnswered
  <2> QED
    BY <2>4, <2>5
<1>7. CASE Return(call, Garbage)
  <2>1. ~Accepted(call, Garbage)
    BY <1>2 DEF Accepted, Garbage
  <2> QED
    BY <1>5, <1>7, <2>1 DEF Return, Latched
<1> QED
  BY <1>6, <1>7 DEF NativeReturns

LEMMA TalkingStep ==
  ASSUME CommandTypes, OnPath, ModelKnown, [Next]_vars
  PROVE  Talking'
<1> USE DEF Goto
<1>0. Talking /\ ToldOf
  BY DEF ModelKnown
<1>1. pc \in Answering \/ ~scanned \/ pc = "killed" \/ Idle
  BY <1>0 DEF Talking, Attends
<1>2. CASE UNCHANGED vars
  BY <1>0, <1>2, TalkSame DEF vars, mvars
<1>3. CASE Kill
  <2>1. UNCHANGED <<pvars, op, told, scanned>> /\ pc' = "killed"
    BY <1>3 DEF Kill
  <2> QED
    BY <1>0, <2>1, TalkMoved DEF Answering
<1>4. CASE DropModel
  BY <1>0, <1>4, TalkDropped
<1>5. CASE PluginSide
  <2>1. UNCHANGED mvars /\ pc # "killed"
    BY <1>5 DEF PluginSide
  <2>2. CASE Receive
    BY <1>0, <2>1, <2>2, TalkReceived
  <2>3. CASE Timeout
    BY <1>0, <2>1, <2>3, TalkTimedOut
  <2>4. CASE TakeRequest
    BY <1>0, <2>1, <2>4, TalkTakenUp
  <2>5. CASE Read
    BY <1>0, <2>1, <2>5, TalkRead
  <2>6. CASE Serve
    BY <1>0, <2>1, <2>6, TalkServed
  <2>7. CASE Crash
    BY <1>0, <2>1, <2>7, TalkCrashed
  <2>8. CASE NativeReturns
    BY <1>0, <2>1, <2>8, TalkReturned
  <2> QED
    BY <1>5, <2>2, <2>3, <2>4, <2>5, <2>6, <2>7, <2>8 DEF PluginSide
<1>6. CASE OutputSide \/ DriveSide
  BY <1>0, <1>6, TalkSame DEF OutputSide, DriveSide, mvars
<1>7. CASE ModelStep
  <2>1. CASE OpenPlugin
    <3>1. CASE Connect
      <4>1. told = <<>> /\ told' = told /\ Idle
        BY <1>0, <2>1 DEF OpenPlugin, ToldOf, Opening
      <4> QED
        BY <1>0, <3>1, <4>1, TalkConnected
    <3>2. CASE UNCHANGED pvars
      <4>1. UNCHANGED <<pvars, op, told, scanned>> /\ Idle
        BY <2>1, <3>2 DEF OpenPlugin
      <4> QED
        BY <1>0, <4>1, TalkMoved
    <3> QED
      BY <2>1, <3>1, <3>2 DEF OpenPlugin
  <2>2. CASE Ask
    <3>1. pc \in Answering /\ pc \in Calling /\ Idle /\ ~(pc = "feed" /\ todo = <<>>)
          /\ UNCHANGED <<op, pc, artifact, told, todo, scanned, rounds>>
      BY <2>2 DEF Ask, Calling, Method, Answering, mvars
    <3>2. PICK method : method \in Method[pc] /\ Call(method, Argument(method))
      BY <2>2 DEF Ask
    <3>3. PICK n : rounds' = n /\ n = rounds
      BY <3>1
    <3>4. PICK arg : arg = Argument(method)
      OBVIOUS
    <3>5. ASSUME NEW id PROVE Fitting([id |-> id, method |-> method, arg |-> arg], n)
      BY <3>1, <3>2, <3>4 DEF Fitting, Calling, Method
    <3> QED
      BY <1>0, <3>1, <3>2, <3>3, <3>4, <3>5, TalkCalled
  <2>3. CASE Refused
    BY <1>0, <2>3, TalkRefused DEF Refused, Calling, Method, Answering
  <2>4. CASE Built
    <3>1. /\ pc \in Answering /\ result # NoResult /\ result.kind # "error" /\ result' = NoResult
          /\ UNCHANGED <<clients, tvars>>
      BY <2>4 DEF Built, Answering, NoResult
    <3>2. told' = Telling(result.kind)
      BY <2>4 DEF Built, Telling, TellingAt
    <3> QED
      BY <1>0, <3>1, <3>2, TalkTaken
  <2>5. CASE Fed
    <3>1. /\ pc \in Answering /\ result # NoResult /\ result.kind # "error" /\ result' = NoResult
          /\ UNCHANGED <<clients, tvars>>
      BY <2>5 DEF Fed, Answering, NoResult
    <3>2. told' = Telling(result.kind)
      BY <2>5 DEF Fed, Telling, TellingAt
    <3> QED
      BY <1>0, <3>1, <3>2, TalkTaken
  <2>6. CASE AllFed
    BY <1>0, <2>6, TalkMoved DEF AllFed
  <2>7. CASE Encoded
    <3>1. /\ pc \in Answering /\ result # NoResult /\ result.kind # "error" /\ result' = NoResult
          /\ UNCHANGED <<clients, tvars>>
      BY <2>7 DEF Encoded, Answering, NoResult
    <3>2. told' = Telling(result.kind)
      BY <2>7 DEF Encoded, Telling, TellingAt
    <3> QED
      BY <1>0, <3>1, <3>2, TalkTaken
  <2> QED
    BY <1>7, <2>1, <2>2, <2>3, <2>4, <2>5, <2>6, <2>7 DEF ModelStep
<1>8. CASE ScanStep
  <2>1. CASE Prepare
    <3>1. Idle
      BY <1>1, <2>1 DEF Prepare, Answering, OnPath
    <3> QED
      BY <1>0, <2>1, <3>1, TalkMoved DEF Prepare
  <2>2. CASE AskScan
    <3>1. pc \in Answering /\ pc = "scan" /\ Idle /\ rounds' = rounds + 1 /\ rounds \in Nat
          /\ op = "scan" /\ UNCHANGED <<op, pc, artifact, told, todo, scanned>>
      BY <2>2 DEF AskScan, Answering, OnPath, Path, Opening, WithModel, CommandTypes
    <3>2. PICK method : method \in {"generate", "feedback"} /\ Call(method, Argument(method))
      BY <2>2 DEF AskScan
    <3>3. PICK n : rounds' = n /\ n = rounds + 1
      BY <3>1
    <3>4. PICK arg : arg = Argument(method)
      OBVIOUS
    <3>5. ASSUME NEW id PROVE Fitting([id |-> id, method |-> method, arg |-> arg], n)
      <4>1. n > 0
        BY <3>1, <3>3
      <4>2. method = "feedback" => arg = <<Batches[n]>>
        BY <3>1, <3>3, <3>4 DEF Argument
      <4> QED
        BY <3>1, <3>2, <4>1, <4>2 DEF Fitting, Calling, Method
    <3> QED
      BY <1>0, <3>1, <3>2, <3>3, <3>4, <3>5, TalkCalled
  <2>3. CASE Generated
    <3>1. /\ pc \in Answering /\ result # NoResult /\ result.kind # "error" /\ result' = NoResult
          /\ UNCHANGED <<clients, tvars>>
      BY <2>3 DEF Generated, Answering, NoResult
    <3>2. told' = Telling(result.kind)
      BY <2>3 DEF Generated, Telling, TellingAt
    <3> QED
      BY <1>0, <3>1, <3>2, TalkTaken
  <2>4. CASE Learned
    <3>1. /\ pc \in Answering /\ result # NoResult /\ result.kind # "error" /\ result' = NoResult
          /\ UNCHANGED <<clients, tvars>>
      BY <2>4 DEF Learned, Answering, NoResult
    <3>2. told' = Telling(result.kind)
      BY <2>4 DEF Learned, Telling, TellingAt
    <3> QED
      BY <1>0, <3>1, <3>2, TalkTaken
  <2>5. CASE Recorded
    BY <1>0, <2>5, TalkSame DEF Recorded
  <2>6. CASE EndScan
    <3>1. CASE Idle /\ Conclude(TRUE) /\ UNCHANGED result
      <4>1. scanned /\ scanned' = TRUE /\ UNCHANGED <<clients, tvars, op, told>>
        BY <2>6, <3>1 DEF EndScan, Conclude, OnPath
      <4>2. scanned' = scanned
        BY <4>1 DEF CommandTypes
      <4>3. UNCHANGED pvars
        BY <3>1, <4>1 DEF clients, pvars, cvars
      <4> QED
        BY <1>0, <3>1, <4>1, <4>2, <4>3, TalkMoved
    <3>2. CASE Conclude(FALSE) /\ result' = NoResult
      <4>1. ~scanned' /\ pc' = "drain" /\ pc = "scan" /\ UNCHANGED <<clients, tvars, op, told>>
        BY <2>6, <3>2 DEF EndScan, Conclude
      <4>2. UNCHANGED <<native, sequence, failed, call, open, requests, responses, worker, stdin, stdout, alive,
                        model>>
        BY <4>1 DEF clients, tvars
      <4>3. CallMatches'
        <5> SUFFICES ASSUME call # NoCall PROVE CallMatches'
          BY <4>2 DEF CallMatches
        <5>1. /\ call.id = sequence /\ sequence > 0 /\ open /\ ~failed
              /\ call.method \in {"generate", "feedback"}
          BY <1>0, <4>1 DEF Talking, CallMatches, Fitting, Calling, Method
        <5> QED
          BY <3>2, <4>1, <4>2, <5>1 DEF CallMatches, Fitting, Calling, Method
      <4>4. ResultMatches' /\ Attends' /\ InStep'
        BY <3>2, <4>1 DEF ResultMatches, Attends, InStep
      <4>5. RequestOnItsWay'
        BY <1>0, <4>1, <4>2 DEF Talking, RequestOnItsWay, LinesSeen, Answering
      <4>6. LinesAreAnswers'
        BY <1>0, <4>1, <4>2 DEF Talking, LinesAreAnswers, LinesSeen, Answering
      <4>7. OneAnswer' /\ NativeRuns'
        BY <1>0, <4>1, <4>2 DEF Talking, OneAnswer, NativeRuns, Answering
      <4> QED
        BY <4>3, <4>4, <4>5, <4>6, <4>7 DEF Talking
    <3> QED
      BY <2>6, <3>1, <3>2 DEF EndScan
  <2> QED
    BY <1>8, <2>1, <2>2, <2>3, <2>4, <2>5, <2>6 DEF ScanStep
<1>9. CASE FiniteStep
  <2>1. Idle /\ scanned /\ UNCHANGED <<pvars, op, told>>
    BY <1>1, <1>9 DEF FiniteStep, StartScan, StartRun, StreamReply, StreamFlush, EndStream, Join, OnPath,
                      Answering
  <2>2. CASE UNCHANGED scanned
    BY <1>0, <2>1, <2>2, TalkMoved
  <2>3. CASE scanned' = TRUE
    <3>1. scanned' = scanned
      BY <2>1, <2>3 DEF CommandTypes
    <3> QED
      BY <1>0, <2>1, <3>1, TalkMoved
  <2>4. CASE scanned' = FALSE
    <3>1. UNCHANGED <<native, sequence, failed, call, result, open, requests, responses, worker, stdin, stdout,
                      alive, model>>
      BY <2>1 DEF pvars, cvars, tvars
    <3>2. CallMatches' /\ ResultMatches' /\ Attends' /\ InStep'
      BY <2>1, <2>4, <3>1 DEF CallMatches, ResultMatches, Attends, InStep, Idle
    <3>3. RequestOnItsWay'
      BY <1>0, <2>1, <3>1 DEF Talking, RequestOnItsWay, LinesSeen, Idle
    <3>4. LinesAreAnswers'
      BY <1>0, <2>1, <3>1 DEF Talking, LinesAreAnswers, LinesSeen, Idle
    <3>5. OneAnswer' /\ NativeRuns'
      BY <1>0, <2>1, <3>1 DEF Talking, OneAnswer, NativeRuns, Idle
    <3> QED
      BY <3>2, <3>3, <3>4, <3>5 DEF Talking
  <2> QED
    BY <1>9, <2>2, <2>3, <2>4
       DEF FiniteStep, StartScan, StartRun, StreamReply, StreamFlush, EndStream, Join, Conclude
<1>10. CASE FileStep
  <2>1. UNCHANGED <<pvars, op, told, scanned>>
    BY <1>10 DEF FileStep, WriteTemp, Persist, Drain, Report, Start, Classified, Filter
  <2>2. CASE Idle
    BY <1>0, <2>1, <2>2, TalkMoved
  <2>3. CASE ~Idle
    <3>1. ~scanned /\ pc = "drain"
      BY <1>1, <1>10, <2>3
         DEF FileStep, WriteTemp, Persist, Drain, Report, Start, Classified, Filter, OnPath, Answering
    <3>2. pc' = "failed"
      BY <1>10, <3>1 DEF FileStep, WriteTemp, Persist, Drain, Report, Start, Classified, Filter, Judged
    <3>3. call # NoCall => call.method \in {"generate", "feedback"}
      BY <1>0, <3>1 DEF Talking, CallMatches, Fitting, Calling, Method
    <3> QED
      BY <1>0, <2>1, <3>1, <3>2, <3>3, TalkMoved DEF Answering
  <2> QED
    BY <2>2, <2>3
<1> QED
  BY StepCases, <1>2, <1>3, <1>4, <1>5, <1>6, <1>7, <1>8, <1>9, <1>10

-----------------------------------------------------------------------------
(* The invariant.                                                            *)

LEMMA CommandStepIInv == CommandIInv /\ [Next]_vars => CommandIInv'
<1> SUFFICES ASSUME CommandIInv, [Next]_vars PROVE CommandIInv'
  OBVIOUS
<1>1. CommandTypes /\ OnPath /\ ModelKnown /\ Books /\ Settles /\ HandedOver /\ FilesReady
  BY DEF CommandIInv
<1>2. CommandTypes'
  BY <1>1, TypesStep
<1>3. OnPath' /\ FilesReady'
  BY <1>1, PlaceStep, FilesStep
<1>4. ToldOf' /\ Talking'
  BY <1>1, ToldStep, TalkingStep
<1>5. Books'
  BY <1>1, BooksStep
<1>6. Settles' /\ HandedOver'
  BY <1>1, SettlesStep, HandedStep
<1> QED
  BY <1>2, <1>3, <1>4, <1>5, <1>6 DEF CommandIInv, ModelKnown

\* All that is said above of a command holds at every step of it, whatever the
\* plugin answers, whichever write fails and wherever it is killed.
THEOREM CommandInvariant == Spec => []CommandIInv
<1>1. Init => CommandIInv
  BY CommandInitIInv
<1>2. CommandIInv /\ [Next]_vars => CommandIInv'
  BY CommandStepIInv
<1> QED
  BY <1>1, <1>2, PTL DEF Spec

\* The model behind the plugin is the one the program believes it to be: no call
\* that ClientProtocol::request() reports as done was left undone, done twice or
\* out of order.
THEOREM CommandInStep == Spec => []InStep
<1>1. CommandIInv => InStep
  BY DEF CommandIInv, ModelKnown, Talking
<1> QED
  BY <1>1, CommandInvariant, PTL

\* A beginning of a sequence is one of all that continue it.
LEMMA PrefixOfMore ==
  ASSUME NEW S, NEW j \in Seq(S), NEW p \in Seq(S), NEW u \in Seq(S), IsPrefix(j \o p, u)
  PROVE  IsPrefix(j, u)
<1> DEFINE q == j \o p
<1>1. q \in Seq(S) /\ Len(q) = Len(j) + Len(p) /\ \A i \in 1..Len(j) : q[i] = j[i]
  OBVIOUS
<1> HIDE DEF q
<1>2. Len(q) <= Len(u) /\ SubSeq(q, 1, Len(q)) = SubSeq(u, 1, Len(q))
  BY DEF IsPrefix, q
<1>3. Len(j) <= Len(u) /\ Len(j) <= Len(q)
  BY <1>1, <1>2
<1>4. \A i \in 1..Len(q) : SubSeq(q, 1, Len(q))[i] = q[i] /\ SubSeq(u, 1, Len(q))[i] = u[i]
  BY <1>1, <1>2
<1>5. \A i \in 1..Len(j) : j[i] = u[i]
  BY <1>1, <1>2, <1>3, <1>4
<1>6. SubSeq(j, 1, Len(j)) = SubSeq(u, 1, Len(j))
  BY <1>3, <1>5
<1> QED
  BY <1>3, <1>6 DEF IsPrefix

\* At any time, and so after any failure or kill, the lines of the journal are a
\* beginning of what the model was told.  Its file ends in a part of a line, and
\* is then refused by the feedback command, only if the writer was at that line
\* when it failed or was killed.
THEOREM CommandJournals == Spec => []JournalIsReplayable
<1>1. ASSUME CommandIInv PROVE JournalIsReplayable
  <2>0. /\ journal \in Seq(Range(Batches)) /\ lastLine.batch \in Seq(Range(Batches))
        /\ told \in Seq(Known) /\ IsPrefix(Begun, Journalled) /\ WriterPlaces
    BY <1>1 DEF CommandIInv, CommandTypes, Books
  <2>1. BatchesOf(told) \in Seq(Known)
    <3>1. BatchesOf(told) \in Seq(Known \ {"train", "generate"})
      BY <2>0, OutsideFacts DEF BatchesOf
    <3> QED
      BY <3>1
  <2>2. journal \in Seq(Known) /\ lastLine.batch \in Seq(Known) /\ Begun \in Seq(Known)
    <3>1. Range(Batches) \subseteq Known
      BY DEF Known
    <3> QED
      BY <2>0, <3>1 DEF Begun
  <2>3. IsPrefix(Begun, BatchesOf(told))
    <3>1. CASE op = "scan"
      BY <2>0, <3>1 DEF Journalled
    <3>2. CASE op # "scan"
      <4>1. Len(Begun) <= 0
        BY <2>0, <3>2 DEF Journalled, IsPrefix
      <4>2. Begun = <<>>
        BY <2>2, <4>1
      <4> QED
        BY <2>1, <4>2 DEF IsPrefix
    <3> QED
      BY <3>1, <3>2
  <2>4. IsPrefix(journal, BatchesOf(told))
    BY <2>1, <2>2, <2>3, PrefixOfMore DEF Begun
  <2>5. ~Readable => writer \in {"recv", "failed"}
    BY <2>0 DEF Readable, NoLine, WriterPlaces
  <2>6. ASSUME op = "scan", writer = "ok" \/ pc = "ok" PROVE Readable /\ journal = BatchesOf(told)
    <3>1. writer = "ok" /\ out = <<>> /\ lastLine = NoLine
      BY <2>0, <2>6 DEF WriterPlaces
    <3>2. BatchesOf(told) = (journal \o <<>>) \o Written(out, "Feedback")
      BY <1>1, <2>6, <3>1 DEF CommandIInv, Books, Accounts, Journalled, Begun, NoLine
    <3>3. Written(out, "Feedback") = <<>>
      <4>1. Pieces(out, "Feedback") = <<>>
        BY <3>1 DEF Pieces
      <4> QED
        BY <4>1, ConcatenatedEmpty DEF Written
    <3>4. (journal \o <<>>) \o <<>> = journal
      BY <2>0
    <3> QED
      BY <3>1, <3>2, <3>3, <3>4 DEF Readable, NoLine
  <2> QED
    BY <2>3, <2>4, <2>5, <2>6 DEF JournalIsReplayable, Loadable, Begun
<1> QED
  BY <1>1, CommandInvariant, PTL

\* A finite scan completes only when all its targets are settled, and a scan that
\* succeeds, finite or adaptive, has in its file every record it was handed: what
\* the buffer of the csv writer holds at the end is not lost.
THEOREM CommandOutputs == Spec => []OutputIsWhole
<1>1. ASSUME CommandIInv PROVE OutputIsWhole
  <2>0. CommandTypes /\ OnPath /\ Accounts /\ WriterPlaces /\ Settles /\ HandedOver
    BY <1>1 DEF CommandIInv, Books
  <2>1. CompletedIsSettled
    BY <2>0 DEF Settles
  <2>2. ASSUME pc = "ok", op \in {"scan", "standard"} PROVE saved = delivered
    <3>1. writer = "ok" /\ out = <<>> /\ saved = rows
      BY <2>0, <2>2 DEF WriterPlaces
    <3>2. records = <<>>
      BY <2>0, <2>2 DEF WriterPlaces, HandedOver, OnPath
    <3>3. Written(out, "Records") = <<>>
      <4>1. Pieces(out, "Records") = <<>>
        BY <3>1 DEF Pieces
      <4> QED
        BY <4>1, ConcatenatedEmpty DEF Written
    <3>4. rows \in Seq(Reply) /\ <<>> \in Seq(Reply)
      BY <2>0 DEF CommandTypes
    <3>5. delivered = (rows \o <<>>) \o <<>>
      BY <2>0, <3>1, <3>2, <3>3 DEF Accounts
    <3> QED
      BY <3>1, <3>4, <3>5
  <2>3. ASSUME pc = "ok", op = "standard" PROVE {delivered[i] : i \in DOMAIN delivered} = answered
    <3>1. outcome = "Completed" /\ events = <<>>
      BY <2>0, <2>3 DEF HandedOver, OnPath
    <3>2. toSend = <<>>
      BY <2>1, <3>1 DEF CompletedIsSettled
    <3>3. answered = Range(delivered) \cup Range(events) \cup Range(toSend)
      BY <2>0, <2>3 DEF HandedOver
    <3>4. Range(<<>>) = {}
      BY RangeOne
    <3> QED
      BY <3>1, <3>2, <3>3, <3>4 DEF Range
  <2> QED
    BY <2>1, <2>2, <2>3 DEF OutputIsWhole
<1> QED
  BY <1>1, CommandInvariant, PTL

\* The artifact changes only to what the model answered to "save", which is the
\* model that was told all the program told it, one revision on.
LEMMA ArtifactStep ==
  ASSUME CommandIInv, [Next]_vars, artifact' # artifact, op # "dealias"
  PROVE  artifact' = File(artifact.rev + 1, told)
<1>1. Encoded \/ Filter
  BY StepCases
     DEF ModelStep, ScanStep, FiniteStep, FileStep, DropModel, Kill, PluginSide, OutputSide, DriveSide,
         OpenPlugin, Ask, Refused, Built, Fed, AllFed, Prepare, AskScan, Generated, Learned, Recorded,
         EndScan, StartScan, StartRun, StreamReply, StreamFlush, EndStream, Join, WriteTemp, Persist,
         Drain, Report, Start, Classified, vars, mvars
<1>2. ~Filter
  BY DEF Filter, CommandIInv, OnPath, Path, WithModel, Opening
<1>3. pc = "save" /\ result.kind = "payload" /\ artifact' = Raised
  BY <1>1, <1>2 DEF Encoded
<1>4. result.log = told
  BY <1>3 DEF CommandIInv, ModelKnown, Talking, ResultMatches, Answering, NoResult
<1> QED
  BY <1>3, <1>4 DEF Raised

\* The output file changes only to the artifact, when its temporary file is
\* renamed; after a scan the journal is by then complete.
LEMMA DiskStep ==
  ASSUME CommandIInv, [Next]_vars, disk' # disk
  PROVE  /\ disk'.whole
         /\ disk' = artifact
         /\ op = "dealias" => disk'.log = Retained
         /\ op = "scan" => writer = "ok" /\ journal = BatchesOf(told)
<1>1. Persist
  BY StepCases
     DEF ModelStep, ScanStep, FiniteStep, FileStep, DropModel, Kill, PluginSide, OutputSide, DriveSide,
         OpenPlugin, Ask, Refused, Built, Fed, AllFed, Encoded, Prepare, AskScan, Generated, Learned,
         Recorded, EndScan, StartScan, StartRun, StreamReply, StreamFlush, EndStream, Join, WriteTemp,
         Drain, Report, Start, Classified, Filter, vars, mvars
<1>2. pc = "persist" /\ disk' = temp
  BY <1>1 DEF Persist
<1>3. artifact.whole /\ temp = artifact /\ (op = "dealias" => artifact.log = Retained)
  BY <1>2 DEF CommandIInv, FilesReady
<1>4. ASSUME op = "scan" PROVE writer = "ok" /\ journal = BatchesOf(told)
  <2>1. writer = "ok" /\ out = <<>> /\ lastLine = NoLine
    BY <1>2, <1>4 DEF CommandIInv, Books, WriterPlaces
  <2>2. Written(out, "Feedback") = <<>>
    <3>1. Pieces(out, "Feedback") = <<>>
      BY <2>1 DEF Pieces
    <3> QED
      BY <3>1, ConcatenatedEmpty DEF Written
  <2>3. BatchesOf(told) = (journal \o <<>>) \o <<>>
    BY <1>4, <2>1, <2>2 DEF CommandIInv, Books, Accounts, Journalled, Begun, NoLine
  <2>4. journal \in Seq(Range(Batches))
    BY DEF CommandIInv, CommandTypes
  <2> QED
    BY <2>1, <2>3, <2>4
<1> QED
  BY <1>2, <1>3, <1>4

\* Artifact and output file go only from one whole content to the next: a model
\* of all the program told it, one revision on, and after a scan only once all
\* of its output and journal are written.  A command killed between any two
\* steps leaves the old file or the new one.
THEOREM CommandSavesWhole == Spec => SavedIsWhole
<1> DEFINE Saves == /\ artifact' # artifact /\ op # "dealias"
                         => artifact' = File(artifact.rev + 1, told)
                    /\ disk' # disk
                         => /\ disk'.whole
                            /\ disk' = artifact
                            /\ op = "dealias" => disk'.log = Retained
                            /\ op = "scan" => writer = "ok" /\ journal = BatchesOf(told)
<1>1. CommandIInv /\ [Next]_vars => [Saves]_vars
  BY ArtifactStep, DiskStep
<1> QED
  BY <1>1, CommandInvariant, PTL DEF Spec, SavedIsWhole
=============================================================================
