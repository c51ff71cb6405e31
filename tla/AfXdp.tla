-------------------------------- MODULE AfXdp --------------------------------
(***************************************************************************)
(* The AF_XDP transmitter (link/src/afxdp.rs).  A frame of the UMEM is     *)
(* free, pending in user space, in the transmit ring, or in the completion *)
(* ring; frames are alike, so each place is the number of its frames.  An  *)
(* operator of the transmitter is the set of its possible outcomes: the    *)
(* driver transmits at any moment, and the kernel may refuse a call.       *)
(***************************************************************************)
EXTENDS Integers, FiniteSetsExt

CONSTANTS
  FrameCount, RingCount,   \* FRAME_COUNT, RING_COUNT
  TxBatch, WakeBatch       \* TX_BATCH, TX_WAKE_BATCH

\* "wake" is queued_since_wake.  Of the driver: whether it is awake, whether
\* the socket has become writable, and how often the kernel may still refuse
\* a call (a bound).
Open(refusals) ==
  [free |-> FrameCount, pending |-> 0, ring |-> 0, done |-> 0, wake |-> 0,
   awake |-> FALSE, ready |-> TRUE, refusals |-> refusals]

Outcome(t, result) == [tx |-> t, result |-> result]
When(condition, outcomes) == IF condition THEN outcomes ELSE {}

\* What the driver may have done between two steps of the transmitter.
Transmitted(t, n) ==
  [t EXCEPT !.ring = @ - n, !.done = @ + n, !.ready = @ \/ n > 0]

Meanwhile(t) ==
  {Transmitted(t, n) :
     n \in IF t.awake THEN 0..Min({t.ring, RingCount - t.done}) ELSE {0}}

\* The driver sleeps with nothing to transmit, or no room to report it.
Sleep(t) == [t EXCEPT !.awake = FALSE]
MaySleep(t) == t.awake /\ (t.ring = 0 \/ t.done = RingCount)

\* A refusal is followed by a writable socket.
Refused(t) == [t EXCEPT !.refusals = @ - 1, !.ready = TRUE]

-----------------------------------------------------------------------------
Reap(t) == [t EXCEPT !.free = @ + t.done, !.done = 0]

Kick_Forgets(t, faults) ==
  IF t.wake = 0
  THEN {Outcome(t, "no")}
  ELSE {Outcome([t EXCEPT !.wake = 0, !.awake = TRUE], "ok")}
       \cup When(t.refusals > 0, {Outcome([Refused(t) EXCEPT !.wake = 0], "no")})
       \cup When(faults, {Outcome(t, "error")})

\* kick(): nothing to announce, announced, or not now.
Kick(t, faults) ==
  IF t.wake = 0
  THEN {Outcome(t, "no")}
  ELSE {Outcome([t EXCEPT !.wake = 0, !.awake = TRUE], "ok")}
       \cup When(t.refusals > 0, {Outcome(Refused(t), "no")})
       \cup When(faults, {Outcome(t, "error")})

\* try_flush(): the completions, then as much of the batch as has room; a
\* full ring, or enough of it, is announced.
Queue(t, n) ==
  [t EXCEPT !.pending = @ - n, !.ring = @ + n, !.wake = @ + n]

MustKick(t, n) == t.wake >= WakeBatch \/ (n = 0 /\ t.pending > 0)

Queued(t, faults) ==
  LET n == Min({t.pending, RingCount - t.ring})
  IN  {[tx |-> Queue(t, n), n |-> n]}
      \cup When(t.refusals > 0, {[tx |-> Reap(Refused(t)), n |-> 0]})
      \cup When(faults, {[tx |-> t, n |-> -1]})

TryFlush(t, faults) ==
  UNION {IF q.n = -1 THEN {Outcome(q.tx, "error")}
         ELSE IF MustKick(q.tx, q.n)
         THEN {Outcome(k.tx, IF k.result = "error" THEN "error"
                             ELSE IF q.n = 0 THEN "none" ELSE "some") : k \in Kick(q.tx, faults)}
         ELSE {Outcome(q.tx, IF q.n = 0 THEN "none" ELSE "some")} :
         q \in UNION {Queued(u, faults) : u \in Meanwhile(Reap(t))}}

\* try_alloc_packet(): a free frame, if need be after a look at the
\* completions; none leaves free at 0.
Alloc(t) == IF t.free > 0 THEN t ELSE Reap(t)
Take(t) == [t EXCEPT !.free = @ - 1]

\* try_send(): "large" is a frame that does not fit a packet.
Append_Lost(t, frame) ==
  IF frame = "large" THEN Take(t) ELSE [Take(t) EXCEPT !.pending = @ + 1]
Append(t, frame) ==
  IF frame = "large" THEN t ELSE [Take(t) EXCEPT !.pending = @ + 1]

TrySend(t, frame, faults) ==
  LET u == Append(Alloc(t), frame)
  IN  CASE t.pending >= TxBatch -> {Outcome(t, "full")}
        [] t.pending < TxBatch /\ Alloc(t).free = 0 -> {Outcome(Alloc(t), "full")}
        [] OTHER ->
             IF frame = "large" THEN {Outcome(u, "error")}
             ELSE IF u.pending < TxBatch THEN {Outcome(u, "sent")}
             ELSE {Outcome(f.tx, IF f.result = "error" THEN "error" ELSE "sent") :
                     f \in TryFlush(u, faults)}

\* flush() from the head of its loop to an await or its end.
FlushStep(t, faults) ==
  IF t.pending = 0
  THEN {Outcome(t, "wake")}
  ELSE UNION {IF f.result = "none" /\ f.tx.pending > 0
              THEN {Outcome(k.tx, CASE k.result = "ok" -> "again" [] k.result = "no" -> "wait"
                                    [] k.result = "error" -> "error") : k \in Kick(f.tx, faults)}
              ELSE {Outcome(f.tx, IF f.result = "error" THEN "error" ELSE "again")} :
              f \in TryFlush(t, faults)}

\* force_wake(), likewise.
WakeStep(t, faults) ==
  IF t.wake = 0
  THEN {Outcome(t, "done")}
  ELSE {Outcome(k.tx, CASE k.result = "ok" -> "done" [] k.result = "no" -> "wait"
                        [] k.result = "error" -> "error") : k \in Kick(t, faults)}

\* drop(): one more try, whatever comes of it.
Drop(t, faults) ==
  UNION {{k.tx : k \in Kick(f.tx, faults)} : f \in TryFlush(t, faults)}

-----------------------------------------------------------------------------
\* No frame of the UMEM is ever lost, and what the kernel has not been told
\* of is in the ring or beyond it.
Accounted(t) ==
  /\ t.free + t.pending + t.ring + t.done = FrameCount
  /\ t.pending <= TxBatch /\ t.ring <= RingCount /\ t.done <= RingCount
=============================================================================
