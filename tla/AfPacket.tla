------------------------------- MODULE AfPacket -------------------------------
(***************************************************************************)
(* The AF_PACKET rings (link/src/afpacket.rs): a transmitter and a         *)
(* receiver, each with the slots it shares with the kernel.  The kernel    *)
(* goes around a ring on its own ("head"), the program with "current".     *)
(***************************************************************************)
EXTENDS Integers, Sequences, FiniteSetsExt

CONSTANTS
  TxSlots, RxSlots,   \* frame_count of the two rings
  KickBatch           \* TX_KICK_BATCH

Next(index, frame_count) == IF index + 1 = frame_count THEN 0 ELSE index + 1
Ahead(index, n, frame_count) == (index + n) % frame_count

Outcome(t, result) == [tx |-> t, result |-> result]
When(condition, outcomes) == IF condition THEN outcomes ELSE {}

-----------------------------------------------------------------------------
(* The transmitter.                                                        *)

Open(refusals) ==
  [slot |-> [i \in 0..(TxSlots - 1) |-> "available"], current |-> 0, pending |-> 0,
   head |-> 0, ready |-> TRUE, refusals |-> refusals]

\* The slots the kernel will find requested, from its head on.
Requested(t) ==
  Max({n \in 0..TxSlots : \A k \in 0..(n - 1) : t.slot[Ahead(t.head, k, TxSlots)] = "request"})

\* send(): the kernel takes the first n of them.
TakeRequests(t, n) ==
  [t EXCEPT !.head = Ahead(@, n, TxSlots),
            !.slot = [i \in DOMAIN @ |->
                        IF \E k \in 0..(n - 1) : i = Ahead(t.head, k, TxSlots)
                        THEN "sending" ELSE @[i]]]

\* A slot whose frame was transmitted is available again.
Completes(t) ==
  {[t EXCEPT !.slot[i] = "available", !.ready = TRUE] : i \in {j \in DOMAIN t.slot : t.slot[j] = "sending"}}

\* The kernel rejects the frame at its head and stays there.
Rejects(t) ==
  When(t.slot[t.head] = "request", {[t EXCEPT !.slot[t.head] = "wrong"]})

Refused(t) == [t EXCEPT !.refusals = @ - 1, !.ready = TRUE]

\* How many frames a send() takes that the kernel does not refuse: on a
\* socket that does not block it may stop short, once it has taken one.
Taken(t) == IF Requested(t) = 0 THEN {0} ELSE 1..Requested(t)

\* flush_now(): whatever was taken, nothing is pending afterwards.
FlushNow(t, faults) ==
  IF t.pending = 0
  THEN {Outcome(t, "ok")}
  ELSE {Outcome([TakeRequests(t, n) EXCEPT !.pending = 0], "ok") : n \in Taken(t)}
       \cup When(t.refusals > 0, {Outcome(Refused(t), "wait")})
       \cup When(faults, {Outcome(u, "error") : u \in {t} \cup Rejects(t)})

\* try_send(): "large" stands for a frame the ring has no room for, or
\* shorter than an Ethernet header.
Advance(t) == Next(t.current, TxSlots)

Request(t) ==
  [t EXCEPT !.slot[t.current] = "request", !.current = Advance(t), !.pending = @ + 1]

TrySend(t, frame, faults) ==
  CASE frame = "large" -> {Outcome(t, "error")}
    [] frame # "large" /\ t.slot[t.current] = "wrong" ->
         {Outcome([t EXCEPT !.slot[t.current] = "available"], "error")}
    [] frame # "large" /\ t.slot[t.current] \in {"request", "sending"} -> {Outcome(t, "full")}
    [] OTHER ->
         IF Request(t).pending < KickBatch THEN {Outcome(Request(t), "sent")}
         ELSE {Outcome(f.tx, IF f.result = "error" THEN "error" ELSE "sent") :
                 f \in FlushNow(Request(t), faults)}

\* flush() up to an await or its end, and drop().
FlushStep(t, faults) ==
  {Outcome(f.tx, IF f.result = "ok" THEN "done" ELSE f.result) : f \in FlushNow(t, faults)}

Drop(t, faults) == {f.tx : f \in FlushNow(t, faults)}

\* The slots requested and not taken are those from the kernel's head to
\* current: the kernel never meets a gap it would wait at.
Contiguous(t) ==
  LET behind == (t.current - t.head) % TxSlots
      waiting == {i \in DOMAIN t.slot : t.slot[i] = "request"}
  IN  "wrong" \in {t.slot[i] : i \in DOMAIN t.slot}
      \/ /\ Requested(t) = IF behind = 0 /\ waiting # {} THEN TxSlots ELSE behind
         /\ waiting = {Ahead(t.head, k, TxSlots) : k \in 0..(Requested(t) - 1)}

\* With nothing pending no flush wakes the kernel, so then the ring must not
\* be full of requests: a slot is free, or its frame is being transmitted.
NotStuck(t) == t.pending = 0 => \E i \in DOMAIN t.slot : t.slot[i] # "request"

-----------------------------------------------------------------------------
(* The receiver.  A slot is 0 when it is the kernel's; otherwise it holds  *)
(* the number of the frame, negative if its bounds are invalid.            *)

OpenRx == [slot |-> [i \in 0..(RxSlots - 1) |-> 0], current |-> 0, head |-> 0, ready |-> FALSE]

\* The kernel writes a frame where it is, or drops it when the ring is full.
Arrive(r, frame) ==
  IF r.slot[r.head] = 0
  THEN [r EXCEPT !.slot[r.head] = frame, !.head = Next(@, RxSlots), !.ready = TRUE]
  ELSE r

\* try_recv(): nothing yet, a frame, or an error that gives the slot back and
\* leaves current where it is.
TryRecv_NoRelease(r) == [rx |-> [r EXCEPT !.current = Next(@, RxSlots)], got |-> r.slot[r.current]]
TryRecv(r) ==
  LET frame == r.slot[r.current]
  IN  CASE frame = 0 -> [rx |-> r, got |-> 0]
        [] frame < 0 -> [rx |-> [r EXCEPT !.slot[r.current] = 0], got |-> frame]
        [] OTHER -> [rx |-> [r EXCEPT !.slot[r.current] = 0, !.current = Next(@, RxSlots)],
                     got |-> frame]

\* current is the oldest slot the kernel has filled.
RxInStep(r) ==
  LET filled == {i \in DOMAIN r.slot : r.slot[i] # 0}
      behind == (r.head - r.current) % RxSlots
  IN  filled = {Ahead(r.current, k, RxSlots) :
                  k \in 0..((IF behind = 0 /\ filled # {} THEN RxSlots ELSE behind) - 1)}
=============================================================================
