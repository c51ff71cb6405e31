-------------------------------- MODULE Link --------------------------------
(***************************************************************************)
(* A packet link (link/src/lib.rs) as one worker of a scan uses it: a      *)
(* transmitter of either backend, or the receiver.  A sending worker gives *)
(* frames to try_send(), to send() when there is no room, and ends a burst *)
(* with flush(); send() and flush() await the socket, and are dropped      *)
(* there when the scan is cancelled.                                       *)
(***************************************************************************)
EXTENDS Integers

CONSTANTS
  FrameCount, RingCount, TxBatch, WakeBatch, TxSlots, RxSlots, KickBatch,
  MaxFrames,     \* bound: frames given to the transmitter, or that arrive
  MaxRefusals,   \* bound: calls the kernel refuses for now
  KernelFails         \* whether the kernel may fail a call, and frames may be malformed

ASSUME LinkAssumption ==
  /\ {FrameCount, RingCount, TxBatch, WakeBatch, TxSlots, RxSlots, KickBatch} \subseteq Nat \ {0}
  /\ TxBatch < RingCount
  /\ {MaxFrames, MaxRefusals} \subseteq Nat
  /\ KernelFails \in BOOLEAN

X == INSTANCE AfXdp
P == INSTANCE AfPacket

VARIABLES
  backend,   \* "af-packet", "af-xdp", or "rx"
  tx, rx,    \* the link
  call,      \* [at, sending, retried]: where the worker is in send() or flush()
  frames,     \* frames given to the transmitter, or that have arrived
  last       \* the last frame received

linkVars == <<backend, tx, rx, call, frames, last>>

At(place) == [call EXCEPT !.at = place]
NoCall == [at |-> "idle", sending |-> FALSE, retried |-> FALSE]

\* Interface::tx() and rx().
LinkInit ==
  /\ backend \in {"af-packet", "af-xdp", "rx"}
  /\ tx = CASE backend = "af-packet" -> P!Open(MaxRefusals)
            [] backend = "af-xdp" -> X!Open(MaxRefusals)
            [] backend = "rx" -> 0
  /\ rx = IF backend = "rx" THEN P!OpenRx ELSE 0
  /\ call = [NoCall EXCEPT !.at = IF backend = "rx" THEN "recv" ELSE "idle"]
  /\ frames = 0 /\ last = 0

-----------------------------------------------------------------------------
(* Transmission.                                                           *)

TrySend(frame) ==
  IF backend = "af-packet" THEN P!TrySend(tx, frame, KernelFails) ELSE X!TrySend(tx, frame, KernelFails)

FlushStep ==
  IF backend = "af-packet" THEN P!FlushStep(tx, KernelFails) ELSE X!FlushStep(tx, KernelFails)

Frame == {"fits"} \cup IF KernelFails THEN {"large"} ELSE {}

\* try_send() on a new frame: an error ends the worker.
Give ==
  /\ backend # "rx" /\ call.at \in {"idle", "flushed"} /\ frames < MaxFrames
  /\ frames' = frames + 1
  /\ \E frame \in Frame : \E o \in TrySend(frame) :
        /\ tx' = o.tx
        /\ call' = CASE o.result = "sent" -> NoCall
                     [] o.result = "full" -> [NoCall EXCEPT !.at = "try", !.sending = TRUE]
                     [] o.result = "error" -> At("failed")
  /\ UNCHANGED <<backend, rx, last>>

\* send(): the same frame again, then a flush, and after a second refusal a
\* wait as well.
Retry ==
  /\ call.at = "try"
  /\ \E o \in TrySend("fits") :
        /\ tx' = o.tx
        /\ call' = At(CASE o.result = "sent" -> "idle" [] o.result = "full" -> "flush"
                        [] o.result = "error" -> "failed")
  /\ UNCHANGED <<backend, rx, frames, last>>

EndBurst ==
  /\ backend # "rx" /\ call.at = "idle"
  /\ call' = [NoCall EXCEPT !.at = "flush"]
  /\ UNCHANGED <<backend, tx, rx, frames, last>>

\* Where flush() returns to.
Flushed ==
  IF ~call.sending THEN [NoCall EXCEPT !.at = "flushed"]
  ELSE [call EXCEPT !.at = IF call.retried THEN "room" ELSE "try", !.retried = TRUE]

Flush ==
  /\ call.at = "flush"
  /\ \E o \in FlushStep :
        /\ tx' = o.tx
        /\ call' = CASE o.result = "again" -> call
                     [] o.result = "wake" -> At("wake")
                     [] o.result = "wait" -> At("flush wait")
                     [] o.result = "done" -> Flushed
                     [] o.result = "error" -> At("failed")
  /\ UNCHANGED <<backend, rx, frames, last>>

\* The end of the AF_XDP flush: the kernel is told of what it was not.
ForceWake ==
  /\ call.at = "wake"
  /\ \E o \in X!WakeStep(tx, KernelFails) :
        /\ tx' = o.tx
        /\ call' = CASE o.result = "done" -> Flushed
                     [] o.result = "wait" -> At("wake wait")
                     [] o.result = "error" -> At("failed")
  /\ UNCHANGED <<backend, rx, frames, last>>

\* wait_writable(): the readiness is used up.
Waiting == {"flush wait", "wake wait", "room"}

WaitWritable ==
  /\ call.at \in Waiting /\ tx.ready
  /\ tx' = [tx EXCEPT !.ready = FALSE]
  /\ call' = At(CASE call.at = "flush wait" -> "flush" [] call.at = "wake wait" -> "wake"
                  [] call.at = "room" -> "try")
  /\ UNCHANGED <<backend, rx, frames, last>>

\* The worker ends; a cancelled one drops the call where it waits.
Close ==
  /\ backend # "rx" /\ call.at \in {"idle", "flushed", "failed"} \cup Waiting
  /\ tx' \in IF backend = "af-packet" THEN P!Drop(tx, KernelFails) ELSE X!Drop(tx, KernelFails)
  /\ call' = At("closed")
  /\ UNCHANGED <<backend, rx, frames, last>>

-----------------------------------------------------------------------------
(* Reception: recv().                                                      *)

Recv ==
  /\ call.at = "recv"
  /\ LET o == P!TryRecv(rx)
     IN  /\ rx' = o.rx
         /\ call' = CASE o.got = 0 -> At("recv wait") [] o.got < 0 -> At("failed")
                      [] OTHER -> call
         /\ last' = IF o.got > 0 THEN o.got ELSE last
  /\ UNCHANGED <<backend, tx, frames>>

WaitReadable ==
  /\ call.at = "recv wait" /\ rx.ready
  /\ rx' = [rx EXCEPT !.ready = FALSE]
  /\ call' = At("recv")
  /\ UNCHANGED <<backend, tx, frames, last>>

-----------------------------------------------------------------------------
(* The kernel.                                                             *)

Arrive ==
  /\ backend = "rx" /\ frames < MaxFrames
  /\ frames' = frames + 1
  /\ \E frame \in {frames'} \cup IF KernelFails THEN {-frames'} ELSE {} : rx' = P!Arrive(rx, frame)
  /\ UNCHANGED <<backend, tx, call, last>>

Complete ==
  /\ \/ backend = "af-packet" /\ tx' \in P!Completes(tx)
     \/ /\ backend = "af-xdp" /\ tx.awake /\ tx.ring > 0 /\ tx.done < RingCount
        /\ tx' = X!Transmitted(tx, 1)
     \/ backend = "af-xdp" /\ X!MaySleep(tx) /\ tx' = X!Sleep(tx)
  /\ UNCHANGED <<backend, rx, call, frames, last>>

Done ==
  /\ call.at \in {"closed", "failed"} \/ (call.at = "recv wait" /\ ~rx.ready)
  /\ UNCHANGED linkVars

LinkNext ==
  \/ Give \/ Retry \/ EndBurst \/ Flush \/ ForceWake \/ WaitWritable \/ Close
  \/ Recv \/ WaitReadable \/ Arrive \/ Complete \/ Done

\* The kernel transmits what it has taken, and the executor runs a worker
\* whose socket is ready.
LinkFairness ==
  /\ WF_linkVars(Complete)
  /\ WF_linkVars(Retry) /\ WF_linkVars(Flush) /\ WF_linkVars(ForceWake) /\ WF_linkVars(WaitWritable)
  /\ WF_linkVars(Recv) /\ WF_linkVars(WaitReadable)

LinkSpec == LinkInit /\ [][LinkNext]_linkVars /\ LinkFairness

-----------------------------------------------------------------------------
(* Properties.                                                             *)

\* No step loses a frame of the UMEM: one that is refused, does not fit or
\* cannot be queued returns to where it came from (afxdp.rs:41-69, 163-180).
\* The slots requested of an AF_PACKET ring are always those from the
\* kernel's place to the program's, without a gap at which the kernel would
\* stop (afpacket.rs:79-107); and since flush_now() forgets what is pending
\* even when the kernel took only a part of it (afpacket.rs:131-141), the
\* ring must never be full of requests that no flush will speak of again.
\* When a flush has returned, nothing is pending, and the kernel of an AF_XDP
\* socket has been told of everything, however often it refused
\* (afxdp.rs:71-80, 212-220).
FramesAccounted ==
  /\ backend = "af-xdp" => X!Accounted(tx)
  /\ backend = "af-packet" => P!Contiguous(tx) /\ P!NotStuck(tx)
  /\ call.at = "flushed" => tx.pending = 0 /\ (backend = "af-xdp" => tx.wake = 0)

\* The receiver stays in step with the kernel around the ring until it meets
\* a frame with invalid bounds, on which it ends; so frames are received in
\* the order they arrived (afpacket.rs:191-225).
ReceivedInOrder ==
  backend = "rx" =>
    /\ call.at # "failed" => P!RxInStep(rx)
    /\ \A i \in DOMAIN rx.slot : rx.slot[i] > 0 => rx.slot[i] > last

\* A send() or flush() always returns: a full ring, a full completion ring or
\* a refusal is followed by an event that the wait sees.
CallsReturn ==
  call.at \in {"try", "flush", "wake"} \cup Waiting
    ~> call.at \in {"idle", "flushed", "failed", "closed"}
=============================================================================
