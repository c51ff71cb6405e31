------------------------------- MODULE Drive --------------------------------
(***************************************************************************)
(* A fixed source of targets driven through a probing session: the scan of *)
(* a target list that filters aliases (run_dealias() and drive_source() in *)
(* scan/src/finite/mod.rs), and the classification of a list without       *)
(* scanning it (run() in scan/src/dealias/mod.rs).  A source thread fills  *)
(* a small channel, one task moves batches into the session when it has    *)
(* the room, and, when it scans, hands the replies to the caller.          *)
(*                                                                         *)
(* The session (module Session) is the set of targets it has not settled.  *)
(***************************************************************************)
EXTENDS Naturals, Sequences, FiniteSets, Functions

CONSTANTS
  Targets,       \* the source: a sequence of targets
  BatchMax,      \* TARGET_BATCH_SIZE
  InputCap,      \* capacity of the source's channel (4)
  InFlight,      \* max_in_flight of the session
  EventCap,      \* capacity of the caller's channel
  DriveFails     \* whether the source and the engine may fail

ASSUME DriveAssumption ==
  /\ {BatchMax, InputCap, EventCap} \subseteq Nat \ {0}
  /\ InFlight \in Nat /\ InFlight >= BatchMax
  /\ DriveFails \in BOOLEAN
  /\ Targets \in Seq(Range(Targets))

VARIABLES
  scanning,      \* targets are probed, not only classified
  producer,      \* the source thread: "off", "fill", "ok" or "failed"
  drawn,         \* targets drawn from the source
  input,         \* batches in its channel
  driver,        \* "off", "select", "send", "source", "finish" or "end"
  ended,         \* the channel's end was seen
  wire,          \* targets the session has not settled
  answered,      \* targets it has a reply of
  toSend,        \* replies the caller is yet to be given
  events,        \* the caller's channel
  engine,        \* "on", "ok" or "failed"
  cancel, cancelled,   \* the engine's token, and the one that says who cancelled
  asked,         \* history: the caller cancelled
  outcome        \* "none", "Completed", "Cancelled" or "Failed"

rvars == <<scanning, producer, drawn, input, driver, ended, wire, answered, toSend, events,
           engine, cancel, cancelled, asked, outcome>>

DriveInit ==
  /\ scanning = FALSE /\ producer = "off" /\ drawn = 0 /\ input = <<>>
  /\ driver = "off" /\ ended = FALSE /\ wire = {} /\ answered = {} /\ toSend = <<>>
  /\ events = <<>> /\ engine = "on"
  /\ cancel = FALSE /\ cancelled = FALSE /\ asked = FALSE /\ outcome = "none"

\* The engine and the source thread are started.
StartDrive(scans) ==
  /\ scanning' = scans /\ producer' = "fill" /\ driver' = "select"
  /\ UNCHANGED <<drawn, input, ended, wire, answered, toSend, events, engine, cancel,
                 cancelled, asked, outcome>>

-----------------------------------------------------------------------------
(* The source thread.                                                      *)

Produce ==
  /\ producer = "fill" /\ ~cancel /\ driver # "end"
  /\ drawn < Len(Targets) /\ Len(input) < InputCap
  /\ \E n \in 1..BatchMax :
        /\ drawn' = drawn + n /\ drawn' <= Len(Targets)
        /\ n = BatchMax \/ drawn' = Len(Targets)
        /\ input' = Append(input, SubSeq(Targets, drawn + 1, drawn + n))
  /\ UNCHANGED <<scanning, producer, driver, ended, wire, answered, toSend, events, engine,
                 cancel, cancelled, asked, outcome>>

\* It ends with the source, when it is cancelled, when nobody takes its batches
\* any more, or with an item that is no address.
ProducerEnds ==
  /\ producer = "fill"
  /\ \/ (drawn = Len(Targets) \/ cancel \/ driver = "end") /\ producer' = "ok"
     \/ DriveFails /\ drawn < Len(Targets) /\ producer' = "failed"
  /\ UNCHANGED <<scanning, drawn, input, driver, ended, wire, answered, toSend, events,
                 engine, cancel, cancelled, asked, outcome>>

-----------------------------------------------------------------------------
(* The engine, and the caller's token.                                     *)

EngineStops ==
  /\ engine = "on" /\ driver # "off"
  /\ \/ (cancel \/ driver = "finish") /\ engine' = "ok"
     \/ DriveFails /\ engine' = "failed"
  /\ UNCHANGED <<scanning, producer, drawn, input, driver, ended, wire, answered, toSend,
                 events, cancel, cancelled, asked, outcome>>

\* Run::cancel().
CancelDrive ==
  /\ cancel' = TRUE /\ cancelled' = TRUE /\ asked' = TRUE
  /\ UNCHANGED <<scanning, producer, drawn, input, driver, ended, wire, answered, toSend,
                 events, engine, outcome>>

-----------------------------------------------------------------------------
(* drive_source().                                                         *)

\* It returns early: the session is dropped, and with it the scan job, which
\* cancels the scan unless its task was already taken; the guard cancels the
\* engine.  The task then names the outcome of a scan.
Abandon(taken) ==
  /\ driver' = "end" /\ cancel' = TRUE /\ cancelled' = (cancelled \/ ~taken)
  /\ outcome' = IF scanning /\ cancelled' THEN "Cancelled" ELSE "Failed"

Over == ended /\ wire = {}

\* A batch is taken when there is room for a full one.
Capacity == InFlight - Cardinality(wire)

TakeBatch ==
  /\ driver = "select" /\ ~Over /\ ~ended
  /\ Capacity >= BatchMax
  /\ IF input # <<>>
     THEN /\ wire' = wire \cup Range(Head(input))
          /\ input' = Tail(input)
          /\ UNCHANGED ended
     ELSE /\ producer \in {"ok", "failed"}
          /\ ended' = TRUE
          /\ UNCHANGED <<wire, input>>
  /\ UNCHANGED <<scanning, producer, drawn, driver, answered, toSend, events, engine,
                 cancel, cancelled, asked, outcome>>

\* session.next(): a reply of a target, a target that is settled, or the error
\* of an engine that has ended.
NextReply ==
  /\ driver = "select" /\ scanning /\ ~Over
  /\ \E a \in wire \ answered : toSend' = <<a>> /\ answered' = answered \cup {a}
  /\ driver' = "send"
  /\ UNCHANGED <<scanning, producer, drawn, input, ended, wire, events, engine, cancel,
                 cancelled, asked, outcome>>

NextSettles ==
  /\ driver = "select" /\ ~Over
  /\ \E a \in wire : wire' = wire \ {a}
  /\ UNCHANGED <<scanning, producer, drawn, input, driver, ended, answered, toSend, events,
                 engine, cancel, cancelled, asked, outcome>>

NextFails ==
  /\ driver = "select" /\ ~Over /\ engine # "on"
  /\ Abandon(TRUE)
  /\ UNCHANGED <<scanning, producer, drawn, input, ended, wire, answered, toSend, events,
                 engine, asked>>

\* Each reply waits for room in the caller's channel.
SendReply ==
  /\ driver = "send" /\ Len(events) < EventCap
  /\ events' = events \o toSend /\ toSend' = <<>>
  /\ driver' = "select"
  /\ UNCHANGED <<scanning, producer, drawn, input, ended, wire, answered, engine, cancel,
                 cancelled, asked, outcome>>

\* Both waits end when the caller cancels.
SeeCancel ==
  /\ driver \in {"select", "send"} /\ scanning /\ cancelled /\ ~Over
  /\ Abandon(FALSE)
  /\ UNCHANGED <<scanning, producer, drawn, input, ended, wire, answered, toSend, events,
                 engine, asked>>

Leave ==
  /\ driver = "select" /\ Over
  /\ driver' = "source"
  /\ UNCHANGED <<scanning, producer, drawn, input, ended, wire, answered, toSend, events,
                 engine, cancel, cancelled, asked, outcome>>

\* The source thread's result, and then the engine's.
AwaitSource ==
  /\ driver = "source"
  /\ \/ producer = "ok" /\ driver' = "finish" /\ UNCHANGED <<cancel, cancelled, outcome>>
     \/ producer = "failed" /\ Abandon(FALSE)
  /\ UNCHANGED <<scanning, producer, drawn, input, ended, wire, answered, toSend, events,
                 engine, asked>>

FinishDrive ==
  /\ driver = "finish"
  /\ \/ engine = "failed" /\ Abandon(TRUE)
     \/ /\ engine = "ok"
        /\ driver' = "end"
        /\ outcome' = IF scanning /\ cancelled THEN "Cancelled" ELSE "Completed"
        /\ UNCHANGED <<cancel, cancelled>>
  /\ UNCHANGED <<scanning, producer, drawn, input, ended, wire, answered, toSend, events,
                 engine, asked>>

\* The caller drops the run: its task is aborted.
DropRun ==
  /\ driver' = "end" /\ cancel' = TRUE /\ cancelled' = TRUE
  /\ UNCHANGED <<scanning, producer, drawn, input, ended, wire, answered, toSend, events,
                 engine, asked, outcome>>

SourceStep == Produce \/ ProducerEnds
DriverStep == TakeBatch \/ NextReply \/ NextSettles \/ NextFails \/ SendReply \/ SeeCancel
              \/ Leave \/ AwaitSource \/ FinishDrive

-----------------------------------------------------------------------------
(* Properties.                                                             *)

\* A run that completes has settled every target of its source, and handed over
\* every reply it was given.
CompletedIsSettled ==
  outcome = "Completed" => /\ drawn = Len(Targets) /\ input = <<>> /\ wire = {}
                           /\ toSend = <<>>

\* A run is reported as cancelled only if its caller cancelled it; every other
\* end that comes too early is a failure, with the error that caused it.
OnlyCallerCancels == outcome = "Cancelled" => asked
=============================================================================
