------------------------------- MODULE Engine -------------------------------
(***************************************************************************)
(* One finite scan: the engine's tasks (scan/src/engine) and the task that *)
(* forwards their replies to the caller and names the outcome              *)
(* (scan/src/finite/mod.rs).                                               *)
(*                                                                         *)
(*    source thread -> txq -> senders     receivers -> results             *)
(*                                          -> forwarder -> events         *)
(*                                                                         *)
(* Any task may fail, the caller may cancel or stop reading at any time,   *)
(* and the token "cancel" stops every task.  Targets are only counted; a   *)
(* batch is the number of its targets.  A scan without a planned number of *)
(* targets has Planned = SourceLen.                                        *)
(***************************************************************************)
EXTENDS SeqUtil

CONSTANTS
  Worker,        \* network workers: each is a sender and a receiver
  SourceLen,     \* targets the source yields
  Planned,       \* target_count
  BatchSize,     \* TARGET_BATCH_SIZE
  Burst,         \* burst_size() of the rate limiter
  TxCap, ResultCap, EventCap,   \* channel capacities
  MaxReplies,    \* bound: replies that arrive in a behaviour
  Window,        \* whether the receive window is positive
  Faults         \* whether the source and the interface may fail

ASSUME EngineAssumption ==
  /\ {SourceLen, Planned, MaxReplies} \subseteq Nat
  /\ {BatchSize, Burst, TxCap, ResultCap, EventCap} \subseteq Nat \ {0}
  /\ IsFiniteSet(Worker) /\ Worker # {}
  /\ {Window, Faults} \subseteq BOOLEAN

VARIABLES
  cancel,        \* the engine's token: all its tasks stop
  cancelled,     \* the caller's token
  gen,           \* the source thread: "fill", "send", "ok" or "failed"
  held,          \* the batch it has filled
  drawn,         \* targets drawn from the source
  txq,
  sender,        \* sender[w]: "idle", "busy", "ok", "failed" or "aborted"
  left,          \* left[w]: targets of its batch not yet transmitted
  inBurst,       \* inBurst[w]: frames of its burst transmitted, not yet counted
  receiver,      \* receiver[w]: "recv", "push", "ok", "failed" or "aborted"
  results,       \* replies in the channel; a number, they are alike
  open,          \* the channel's receiving end
  phase,         \* run_engine: "send", "window", "drain", "ok" or "failed"
  forward,       \* forward_run: "next", "deliver", "join" or "end"
  events,        \* replies the caller has not read
  delivered,     \* replies handed to the caller
  generated, sent, replies, errors,   \* Counters
  transmitted,   \* history: frames handed to the interface
  outcome

vars == <<cancel, cancelled, gen, held, drawn, txq, sender, left, inBurst, receiver, results,
          open, phase, forward, events, delivered, generated, sent, replies, errors, transmitted,
          outcome>>

\* A task that is over; the ends it had of the channels are dropped.
Gone == {"ok", "failed", "aborted"}

Smaller(m, n) == IF m < n THEN m ELSE n

Init ==
  /\ cancel = FALSE /\ cancelled = FALSE
  /\ gen = "fill" /\ held = 0 /\ drawn = 0
  /\ txq = <<>>
  /\ sender = [w \in Worker |-> "idle"] /\ left = [w \in Worker |-> 0]
  /\ inBurst = [w \in Worker |-> 0] /\ transmitted = 0
  /\ receiver = [w \in Worker |-> "recv"]
  /\ results = 0 /\ open = TRUE
  /\ phase = "send"
  /\ forward = "next" /\ events = 0 /\ delivered = 0
  /\ generated = 0 /\ sent = 0 /\ replies = 0 /\ errors = 0
  /\ outcome = "none"

-----------------------------------------------------------------------------
(* The source thread: produce_targets().                                   *)

\* The receiving ends of txq are the senders.
Sinkless == \A w \in Worker : sender[w] \in Gone

\* The next batch, at most what is planned and what the source has.
Fill ==
  /\ gen = "fill" /\ ~cancel /\ generated < Planned /\ drawn < SourceLen
  /\ held' = Smaller(BatchSize, Smaller(Planned - generated, SourceLen - drawn))
  /\ drawn' = drawn + held'
  /\ gen' = "send"
  /\ UNCHANGED <<cancel, cancelled, txq, sender, left, inBurst, receiver, results, open, phase,
                 forward, events, delivered, generated, sent, replies, errors, transmitted,
                 outcome>>

Enqueue ==
  /\ gen = "send" /\ ~cancel /\ ~Sinkless /\ Len(txq) < TxCap
  /\ txq' = Append(txq, held)
  /\ generated' = generated + held
  /\ gen' = "fill" /\ held' = 0
  /\ UNCHANGED <<cancel, cancelled, drawn, sender, left, inBurst, receiver, results, open,
                 phase, forward, events, delivered, sent, replies, errors, transmitted,
                 outcome>>

\* The thread ends: an exhausted source is an error unless the plan is met.
Short == ~cancel /\ generated < Planned

SourceEnds ==
  /\ \/ gen \in {"fill", "send"} /\ cancel /\ gen' = "ok"
     \/ gen = "send" /\ Sinkless /\ gen' = "ok"
     \/ /\ gen = "fill" /\ (generated >= Planned \/ drawn >= SourceLen)
        /\ gen' = IF Short THEN "failed" ELSE "ok"
     \/ Faults /\ gen = "fill" /\ gen' = "failed"
  /\ UNCHANGED <<cancel, cancelled, held, drawn, txq, sender, left, inBurst, receiver, results,
                 open, phase, forward, events, delivered, generated, sent, replies, errors,
                 transmitted, outcome>>

-----------------------------------------------------------------------------
(* The senders: send_targets().                                            *)

Take(w) ==
  /\ phase # "failed" /\ sender[w] = "idle" /\ txq # <<>>
  /\ sender' = [sender EXCEPT ![w] = "busy"]
  /\ left' = [left EXCEPT ![w] = Head(txq)]
  /\ txq' = Tail(txq)
  /\ UNCHANGED <<cancel, cancelled, gen, held, drawn, inBurst, receiver, results, open, phase,
                 forward, events, delivered, generated, sent, replies, errors, transmitted, outcome>>

\* A burst is begun only when the scan is not cancelled; one that was begun may
\* go on until the cancellation is seen.
InTheBurst(w) == sender[w] = "busy" /\ (inBurst[w] > 0 \/ ~cancel)

Transmit(w) ==
  /\ InTheBurst(w) /\ left[w] > 0 /\ inBurst[w] < Burst
  /\ left' = [left EXCEPT ![w] = @ - 1]
  /\ inBurst' = [inBurst EXCEPT ![w] = @ + 1]
  /\ transmitted' = transmitted + 1
  /\ UNCHANGED <<cancel, cancelled, gen, held, drawn, txq, sender, receiver, results, open,
                 phase, forward, events, delivered, generated, sent, replies, errors, outcome>>

\* add_sent(): only now are the frames of the burst counted.
Sent_Burst(w) == Smaller(Burst, inBurst[w] + left[w])
Sent(w) == inBurst[w]
AddSent(w) == sent' = sent + Sent(w) /\ inBurst' = [inBurst EXCEPT ![w] = 0]

\* The whole burst is transmitted and flushed.
CountBurst(w) ==
  /\ sender[w] = "busy" /\ inBurst[w] > 0
  /\ left[w] = 0 \/ inBurst[w] = Burst
  /\ AddSent(w)
  /\ sender' = [sender EXCEPT ![w] = IF left[w] = 0 THEN "idle" ELSE "busy"]
  /\ UNCHANGED <<cancel, cancelled, gen, held, drawn, txq, left, receiver, results, open, phase,
                 forward, events, delivered, generated, replies, errors, transmitted, outcome>>

\* The interface refuses a frame, or the flush: everything stops.
TransmitFails(w) ==
  /\ Faults /\ InTheBurst(w)
  /\ AddSent(w)
  /\ errors' = errors + 1
  /\ sender' = [sender EXCEPT ![w] = "failed"]
  /\ cancel' = TRUE
  /\ UNCHANGED <<cancelled, gen, held, drawn, txq, left, receiver, results, open, phase, forward,
                 events, delivered, generated, replies, transmitted, outcome>>

\* Cancelled, perhaps inside a burst, or no targets to come.
Drained_Early == gen \in {"ok", "failed"}
Drained == gen \in {"ok", "failed"} /\ txq = <<>>

SenderEnds(w) ==
  /\ sender[w] \in {"idle", "busy"}
  /\ cancel \/ (sender[w] = "idle" /\ Drained)
  /\ AddSent(w)
  /\ sender' = [sender EXCEPT ![w] = "ok"]
  /\ UNCHANGED <<cancel, cancelled, gen, held, drawn, txq, left, receiver, results, open, phase,
                 forward, events, delivered, generated, replies, errors, transmitted, outcome>>

\* The last flush fails: an error that cancels and counts nothing.
FlushFails(w) ==
  /\ Faults /\ phase # "failed" /\ sender[w] = "idle" /\ Drained
  /\ sender' = [sender EXCEPT ![w] = "failed"]
  /\ UNCHANGED <<cancel, cancelled, gen, held, drawn, txq, left, inBurst, receiver, results,
                 open, phase, forward, events, delivered, generated, sent, replies, errors,
                 transmitted, outcome>>

\* A sender of a failed engine is aborted wherever it waits; of the burst it is in
\* nothing is counted.
AbortSender(w) ==
  /\ phase = "failed" /\ sender[w] \in {"idle", "busy"}
  /\ sender' = [sender EXCEPT ![w] = "aborted"]
  /\ UNCHANGED <<cancel, cancelled, gen, held, drawn, txq, left, inBurst, receiver, results,
                 open, phase, forward, events, delivered, generated, sent, replies, errors,
                 transmitted, outcome>>

-----------------------------------------------------------------------------
(* The receivers: receive_records().                                       *)

\* A reply is decoded and counted, then waits for room in the channel: the
\* wait ends when the channel closes, and not when the scan is cancelled.  A
\* receiver that waits for a frame may take one although it is cancelled.
Decode(w) ==
  /\ receiver[w] = "recv"
  /\ transmitted > 0 /\ replies < MaxReplies
  /\ replies' = replies + 1
  /\ receiver' = [receiver EXCEPT ![w] = "push"]
  /\ UNCHANGED <<cancel, cancelled, gen, held, drawn, txq, sender, left, inBurst, results,
                 open, phase, forward, events, delivered, generated, sent, errors, transmitted,
                 outcome>>

Push(w) ==
  /\ receiver[w] = "push" /\ open /\ results < ResultCap
  /\ results' = results + 1
  /\ receiver' = [receiver EXCEPT ![w] = IF cancel THEN "ok" ELSE "recv"]
  /\ UNCHANGED <<cancel, cancelled, gen, held, drawn, txq, sender, left, inBurst, open, phase,
                 forward, events, delivered, generated, sent, replies, errors, transmitted,
                 outcome>>

ReceiverEnds(w) ==
  /\ (receiver[w] = "recv" /\ cancel) \/ (receiver[w] = "push" /\ ~open)
  /\ receiver' = [receiver EXCEPT ![w] = "ok"]
  /\ UNCHANGED <<cancel, cancelled, gen, held, drawn, txq, sender, left, inBurst, results,
                 open, phase, forward, events, delivered, generated, sent, replies, errors,
                 transmitted, outcome>>

ReceiveFails(w) ==
  /\ Faults /\ receiver[w] = "recv"
  /\ receiver' = [receiver EXCEPT ![w] = "failed"]
  /\ errors' = errors + 1
  /\ cancel' = TRUE
  /\ UNCHANGED <<cancelled, gen, held, drawn, txq, sender, left, inBurst, results, open, phase,
                 forward, events, delivered, generated, sent, replies, transmitted, outcome>>

-----------------------------------------------------------------------------
(* The engine's own task: run_engine().                                    *)

AllSent      == gen = "ok" /\ \A w \in Worker : sender[w] = "ok"
SendFailed   == gen = "failed" \/ \E w \in Worker : sender[w] = "failed"
AllReceived  == \A w \in Worker : receiver[w] = "ok"
ReceiverFailed == \E w \in Worker : receiver[w] = "failed"

\* All targets are sent: replies are awaited for the receive window.
OpenWindow ==
  /\ phase = "send" /\ AllSent
  /\ IF Window /\ ~cancel
     THEN phase' = "window" /\ UNCHANGED cancel
     ELSE phase' = "drain" /\ cancel' = TRUE
  /\ UNCHANGED <<cancelled, gen, held, drawn, txq, sender, left, inBurst, receiver, results,
                 open, forward, events, delivered, generated, sent, replies, errors,
                 transmitted, outcome>>

CloseWindow ==
  /\ phase = "window"
  /\ phase' = "drain" /\ cancel' = TRUE
  /\ UNCHANGED <<cancelled, gen, held, drawn, txq, sender, left, inBurst, receiver, results,
                 open, forward, events, delivered, generated, sent, replies, errors,
                 transmitted, outcome>>

EngineDone ==
  /\ phase = "drain" /\ AllReceived
  /\ phase' = "ok"
  /\ UNCHANGED <<cancel, cancelled, gen, held, drawn, txq, sender, left, inBurst, receiver,
                 results, open, forward, events, delivered, generated, sent, replies, errors,
                 transmitted, outcome>>

\* try_join! returns at the first failure: the other tasks are aborted, each at
\* its next await, and the source thread is cancelled by its drop guard.  Only a
\* sender inside a burst does anything until then that matters (AbortSender).
FailFast == (phase = "send" /\ SendFailed) \/ ReceiverFailed

EngineFailed ==
  /\ phase \in {"send", "window", "drain"} /\ FailFast
  /\ phase' = "failed"
  /\ cancel' = (cancel \/ gen \in {"fill", "send"})
  /\ receiver' = [w \in Worker |-> IF receiver[w] \in Gone THEN receiver[w] ELSE "aborted"]
  /\ sender' = [w \in Worker |-> IF sender[w] = "idle" THEN "aborted" ELSE sender[w]]
  /\ UNCHANGED <<cancelled, gen, held, drawn, txq, left, inBurst, results, open,
                 forward, events, delivered, generated, sent, replies, errors, transmitted,
                 outcome>>

-----------------------------------------------------------------------------
(* The forwarder: forward_run().                                           *)

\* The channel ends when it is empty and all receivers are gone.
Exhausted == results = 0 /\ \A w \in Worker : receiver[w] \in Gone

\* join() closes the channel, which frees receivers that wait for room.
Joined_Open == open
Joined == FALSE

\* A reply is fetched, unless the run is cancelled.
Fetch ==
  /\ forward = "next" /\ ~cancelled
  /\ \/ results > 0 /\ results' = results - 1 /\ forward' = "deliver"
     \/ Exhausted /\ forward' = "join" /\ UNCHANGED results
  /\ open' = IF forward' = "join" THEN Joined ELSE open
  /\ UNCHANGED <<cancel, cancelled, gen, held, drawn, txq, sender, left, inBurst, receiver,
                 phase, events, delivered, generated, sent, replies, errors, transmitted,
                 outcome>>

DeliverReply ==
  /\ forward = "deliver" /\ events < EventCap
  /\ events' = events + 1
  /\ delivered' = delivered + 1
  /\ forward' = "next"
  /\ UNCHANGED <<cancel, cancelled, gen, held, drawn, txq, sender, left, inBurst, receiver,
                 results, open, phase, generated, sent, replies, errors, transmitted, outcome>>

\* Cancelled: the engine is cancelled too, and its result is awaited with the
\* channel closed.
GiveUp ==
  /\ forward \in {"next", "deliver"} /\ cancelled
  /\ cancel' = TRUE
  /\ forward' = "join" /\ open' = Joined
  /\ UNCHANGED <<cancelled, gen, held, drawn, txq, sender, left, inBurst, receiver, results,
                 phase, events, delivered, generated, sent, replies, errors, transmitted,
                 outcome>>

\* The outcome follows the engine's result and the caller's token.
Named == IF cancelled THEN "Cancelled" ELSE "Completed"

NameOutcome ==
  /\ forward = "join" /\ phase \in {"ok", "failed"}
  /\ outcome' = IF phase = "failed" THEN "Failed" ELSE Named
  /\ forward' = "end"
  /\ UNCHANGED <<cancel, cancelled, gen, held, drawn, txq, sender, left, inBurst, receiver,
                 results, open, phase, events, delivered, generated, sent, replies, errors,
                 transmitted>>

-----------------------------------------------------------------------------
(* The caller.                                                             *)

Read ==
  /\ events > 0 /\ events' = events - 1
  /\ UNCHANGED <<cancel, cancelled, gen, held, drawn, txq, sender, left, inBurst, receiver,
                 results, open, phase, forward, delivered, generated, sent, replies, errors,
                 transmitted, outcome>>

CancelRun ==
  /\ ~cancelled /\ outcome = "none"
  /\ cancelled' = TRUE /\ cancel' = TRUE
  /\ UNCHANGED <<gen, held, drawn, txq, sender, left, inBurst, receiver, results, open, phase,
                 forward, events, delivered, generated, sent, replies, errors, transmitted,
                 outcome>>

Ended == outcome # "none" /\ events = 0 /\ gen \in {"ok", "failed"} /\ UNCHANGED vars

-----------------------------------------------------------------------------
Source  == Fill \/ Enqueue \/ SourceEnds
SenderStep(w)   == \/ Take(w) \/ Transmit(w) \/ CountBurst(w) \/ TransmitFails(w)
                   \/ SenderEnds(w) \/ FlushFails(w) \/ AbortSender(w)
ReceiverStep(w) == Decode(w) \/ Push(w) \/ ReceiverEnds(w) \/ ReceiveFails(w)
RunEngine == OpenWindow \/ CloseWindow \/ EngineDone \/ EngineFailed
Forwarder == Fetch \/ DeliverReply \/ GiveUp \/ NameOutcome

Next ==
  \/ Source \/ RunEngine \/ Forwarder \/ Read \/ CancelRun \/ Ended
  \/ \E w \in Worker : SenderStep(w) \/ ReceiverStep(w)

Spec == Init /\ [][Next]_vars

\* Every task runs whenever it can; replies and failures are not promised, and
\* neither is that the caller reads or cancels.
Fairness ==
  /\ WF_vars(Source) /\ WF_vars(RunEngine) /\ WF_vars(Forwarder)
  /\ \A w \in Worker : /\ WF_vars(SenderStep(w))
                       /\ WF_vars(Push(w) \/ ReceiverEnds(w))

FairSpec == Spec /\ Fairness

-----------------------------------------------------------------------------
(* Properties.                                                             *)

InTxq     == Total(txq)
InSenders == SumOver(left, Worker)
InBursts  == SumOver(inBurst, Worker)

\* Every generated target is transmitted, or still on its way; a failed scan or
\* a cancelled one may drop the rest.  A scan that names itself completed has met
\* its plan, counted every target it generated as sent, and delivered every
\* reply it counted.  An error is never hidden, neither by a cancellation nor by
\* the other tasks ending well.
CompletedIsWhole ==
  /\ generated = transmitted + InTxq + InSenders
  /\ outcome = "Completed" => generated = Planned /\ sent = generated /\ delivered = replies
  /\ outcome \in {"Completed", "Cancelled"} => errors = 0

\* The counter of frames sent follows the wire, in whatever order bursts, errors,
\* cancellations and aborts cut each other short: a frame is counted once, it is
\* missing only while its burst lasts, and forever only when a failed engine
\* aborted its sender inside the burst.  A scan that completed or was cancelled
\* reports exactly what it transmitted.
CountFollowsWire ==
  /\ transmitted = sent + InBursts
  /\ \A w \in Worker : inBurst[w] > 0 =>
        /\ inBurst[w] <= Burst
        /\ sender[w] = "busy" \/ (sender[w] = "aborted" /\ phase = "failed")
  /\ outcome \in {"Completed", "Cancelled"} => sent = transmitted

\* With a caller that reads, every scan ends; and a cancelled one even when the
\* caller reads nothing more, the source waits for room and the receivers wait
\* for room.
ScanEnds ==
  /\ WF_vars(Read) => <>(outcome # "none")
  /\ cancelled ~> outcome # "none"
=============================================================================
