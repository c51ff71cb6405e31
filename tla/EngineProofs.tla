----------------------------- MODULE EngineProofs -----------------------------
(* What a finite scan counts and reports, proved for any number of workers,  *)
(* any source and plan, batches, bursts and channels of any size, whatever   *)
(* fails and whenever the caller cancels.                                    *)
EXTENDS Engine, Facts, TLAPS

SenderStates   == {"idle", "busy"} \cup Gone
ReceiverStates == {"recv", "push"} \cup Gone

EngineTypes ==
  /\ cancel \in BOOLEAN /\ cancelled \in BOOLEAN /\ open \in BOOLEAN
  /\ gen \in {"fill", "send", "ok", "failed"}
  /\ held \in Nat /\ drawn \in Nat /\ generated \in Nat /\ sent \in Nat
  /\ txq \in Seq(Nat)
  /\ sender \in [Worker -> SenderStates] /\ left \in [Worker -> Nat]
  /\ inBurst \in [Worker -> Nat] /\ transmitted \in Nat
  /\ receiver \in [Worker -> ReceiverStates]
  /\ results \in Nat /\ events \in Nat /\ delivered \in Nat /\ replies \in Nat
  /\ errors \in Nat
  /\ phase \in {"send", "window", "drain", "ok", "failed"}
  /\ forward \in {"next", "deliver", "join", "end"}
  /\ outcome \in {"none", "Completed", "Cancelled", "Failed"}

\* Every target generated is transmitted or on its way, none beyond the plan.
TargetsCounted ==
  /\ generated = transmitted + InTxq + InSenders
  /\ generated + held <= Planned
  /\ gen = "fill" => held = 0

\* A frame that is transmitted is counted, or in the burst of a sender that is in
\* it, or that was aborted in it.
InBurst(w) == sender[w] = "busy" \/ (sender[w] = "aborted" /\ phase = "failed")
BurstsCounted ==
  /\ transmitted = sent + InBursts
  /\ \A w \in Worker : inBurst[w] <= Burst /\ (inBurst[w] > 0 => InBurst(w))

\* A worker is done early only if everything stops; a source that ended by itself
\* has met its plan.
Stopped == \E w \in Worker : sender[w] = "failed" \/ receiver[w] = "failed"
SourceWhole ==
  /\ \A w \in Worker : sender[w] \in Gone => cancel \/ gen \in {"ok", "failed"}
  /\ phase = "failed" => cancel \/ gen \in {"ok", "failed"}
  /\ gen = "ok" /\ ~cancel => generated = Planned
  /\ phase = "send" /\ cancel => cancelled \/ Stopped

\* A sender without a cancellation ends when there is nothing left to send.
SendersWhole ==
  /\ \A w \in Worker : sender[w] = "idle" => left[w] = 0
  /\ ~cancel => \A w \in Worker : sender[w] = "ok" =>
                   left[w] = 0 /\ gen \in {"ok", "failed"} /\ txq = <<>>

\* Beyond the sending phase all senders are done, and without a cancellation by
\* the caller, or a receiver that failed, nothing is left behind.
AllTransmitted ==
  phase \in {"window", "drain", "ok"} =>
    /\ gen = "ok" /\ \A w \in Worker : sender[w] = "ok"
    /\ \/ cancelled
       \/ \E w \in Worker : receiver[w] = "failed"
       \/ generated = Planned /\ txq = <<>> /\ \A w \in Worker : left[w] = 0

\* Every reply counted is delivered or on its way, unless the caller cancelled or
\* the engine failed: the channel is closed before only when it is empty and the receivers are done.
Pushing == {w \in Worker : receiver[w] = "push"}
InForward == IF forward = "deliver" THEN 1 ELSE 0
RepliesCounted ==
  /\ forward \in {"join", "end"} <=> ~open
  /\ ~cancelled /\ phase # "failed" =>
       replies = delivered + InForward + results + Cardinality(Pushing)
  /\ ~open => cancelled \/ (results = 0 /\ \A w \in Worker : receiver[w] \in Gone)

\* An error stays with the worker it happened to, and fails the engine.
ErrorsKept ==
  /\ errors > 0 => Stopped
  /\ phase = "ok" => \A w \in Worker : receiver[w] = "ok"

\* The outcome is named once the engine is done.
OutcomeNamed ==
  /\ outcome # "none" <=> forward = "end"
  /\ forward = "end" => phase \in {"ok", "failed"}
  /\ outcome \in {"Completed", "Cancelled"} => phase = "ok"
  /\ outcome = "Completed" => ~cancelled

EngineIInv ==
  /\ EngineTypes
  /\ TargetsCounted
  /\ BurstsCounted
  /\ SourceWhole
  /\ SendersWhole
  /\ AllTransmitted
  /\ RepliesCounted
  /\ ErrorsKept
  /\ OutcomeNamed

-----------------------------------------------------------------------------
(* The steps.                                                               *)

\* What an assignment to one worker does.
LEMMA WorkerUpdate ==
  ASSUME NEW T, NEW f \in [Worker -> T], NEW w \in Worker, NEW x \in T
  PROVE  /\ [f EXCEPT ![w] = x] \in [Worker -> T]
         /\ [f EXCEPT ![w] = x][w] = x
         /\ \A v \in Worker \ {w} : [f EXCEPT ![w] = x][v] = f[v]
  OBVIOUS

\* What counting a burst leaves.
LEMMA BurstFacts ==
  ASSUME EngineTypes, NEW w \in Worker
  PROVE  /\ left[w] \in Nat /\ inBurst[w] \in Nat
         /\ AddSent(w) => /\ sent' \in Nat /\ inBurst' \in [Worker -> Nat] /\ inBurst'[w] = 0
                          /\ \A v \in Worker \ {w} : inBurst'[v] = inBurst[v]
<1>1. left[w] \in Nat /\ inBurst[w] \in Nat /\ sent + inBurst[w] \in Nat
  BY DEF EngineTypes
<1>2. ASSUME AddSent(w)
      PROVE  /\ sent' \in Nat /\ inBurst' \in [Worker -> Nat] /\ inBurst'[w] = 0
             /\ \A v \in Worker \ {w} : inBurst'[v] = inBurst[v]
  BY <1>1, <1>2 DEF AddSent, Sent, EngineTypes
<1> QED
  BY <1>1, <1>2

\* The types of what a step of each task leaves.
LEMMA TypesStep ==
  ASSUME EngineTypes, [Next]_vars
  PROVE  EngineTypes'
<1> USE DEF EngineTypes
<1>1. CASE UNCHANGED vars
  BY <1>1 DEF vars
<1>2. CASE Fill
  <2>1. Planned - generated \in Int /\ Planned - generated > 0
        /\ SourceLen - drawn \in Int /\ SourceLen - drawn > 0
    BY <1>2, EngineAssumption DEF Fill
  <2>2. held' \in Nat
    BY <1>2, <2>1, EngineAssumption DEF Fill, Smaller
  <2> QED
    BY <1>2, <2>2 DEF Fill
<1>3. CASE Enqueue
  BY <1>3 DEF Enqueue
<1>4. CASE SourceEnds
  BY <1>4 DEF SourceEnds
<1>5. CASE RunEngine
  <2>1. CASE OpenWindow
    BY <2>1 DEF OpenWindow
  <2>2. CASE CloseWindow \/ EngineDone
    BY <2>2 DEF CloseWindow, EngineDone
  <2>3. CASE EngineFailed
    <3>1. /\ cancel' \in BOOLEAN /\ sender' \in [Worker -> SenderStates]
          /\ receiver' \in [Worker -> ReceiverStates]
      BY <2>3 DEF EngineFailed, SenderStates, ReceiverStates, Gone
    <3> QED
      BY <2>3, <3>1 DEF EngineFailed
  <2> QED
    BY <1>5, <2>1, <2>2, <2>3 DEF RunEngine
<1>6. CASE Forwarder
  <2>1. CASE Fetch
    <3>1. open' \in BOOLEAN
      BY <2>1 DEF Fetch, Joined
    <3>2. results' \in Nat /\ forward' \in {"deliver", "join"}
      BY <2>1 DEF Fetch
    <3> QED
      BY <2>1, <3>1, <3>2 DEF Fetch
  <2>2. CASE DeliverReply
    BY <2>2 DEF DeliverReply
  <2>3. CASE GiveUp
    BY <2>3 DEF GiveUp, Joined
  <2>4. CASE NameOutcome
    BY <2>4 DEF NameOutcome, Named
  <2> QED
    BY <1>6, <2>1, <2>2, <2>3, <2>4 DEF Forwarder
<1>7. CASE Read \/ CancelRun
  <2>1. CASE Read
    BY <2>1 DEF Read
  <2>2. CASE CancelRun
    BY <2>2 DEF CancelRun
  <2> QED
    BY <1>7, <2>1, <2>2
<1>8. ASSUME NEW w \in Worker, SenderStep(w) PROVE EngineTypes'
  <2>1. CASE Take(w)
    <3>1. Head(txq) \in Nat /\ Tail(txq) \in Seq(Nat)
      BY <2>1 DEF Take
    <3> QED
      BY <2>1, <3>1 DEF Take, SenderStates
  <2>2. CASE Transmit(w)
    <3>1. left[w] - 1 \in Nat /\ inBurst[w] + 1 \in Nat /\ transmitted + 1 \in Nat
      BY <2>2 DEF Transmit
    <3> QED
      BY <2>2, <3>1 DEF Transmit
  <2>3. CASE CountBurst(w)
    BY <2>3, BurstFacts DEF CountBurst, SenderStates
  <2>4. CASE TransmitFails(w)
    BY <2>4, BurstFacts DEF TransmitFails, SenderStates, Gone
  <2>5. CASE SenderEnds(w)
    BY <2>5, BurstFacts DEF SenderEnds, SenderStates, Gone
  <2>6. CASE FlushFails(w)
    BY <2>6 DEF FlushFails, SenderStates, Gone
  <2>7. CASE AbortSender(w)
    BY <2>7 DEF AbortSender, SenderStates, Gone
  <2> QED
    BY <1>8, <2>1, <2>2, <2>3, <2>4, <2>5, <2>6, <2>7 DEF SenderStep
<1>9. ASSUME NEW w \in Worker, ReceiverStep(w) PROVE EngineTypes'
  <2>1. CASE Decode(w)
    BY <2>1 DEF Decode, ReceiverStates
  <2>2. CASE Push(w)
    BY <2>2 DEF Push, ReceiverStates, Gone
  <2>3. CASE ReceiverEnds(w)
    BY <2>3 DEF ReceiverEnds, ReceiverStates, Gone
  <2>4. CASE ReceiveFails(w)
    BY <2>4 DEF ReceiveFails, ReceiverStates, Gone
  <2> QED
    BY <1>9, <2>1, <2>2, <2>3, <2>4 DEF ReceiverStep
<1> QED
  BY <1>1, <1>2, <1>3, <1>4, <1>5, <1>6, <1>7, <1>8, <1>9 DEF Next, Source, Ended

\* Targets move from the source through the channel to the wire.
LEMMA TargetsStep ==
  ASSUME EngineTypes, TargetsCounted, SendersWhole, [Next]_vars
  PROVE  TargetsCounted'
<1>0. Total(txq) \in Nat /\ SumOver(left, Worker) \in Nat
  BY TotalType, SumOverType, EngineAssumption DEF EngineTypes
<1>1. ASSUME NEW w \in Worker, NEW n \in Nat
      PROVE  /\ SumOver([left EXCEPT ![w] = n], Worker) = (SumOver(left, Worker) - left[w]) + n
             /\ left[w] <= SumOver(left, Worker) /\ left[w] \in Nat
  <2> DEFINE f == left
             h == [left EXCEPT ![w] = n]
  <2>1. /\ f \in [Worker -> Nat] /\ h \in [Worker -> Nat] /\ IsFiniteSet(Worker)
        /\ h[w] = n /\ \A v \in Worker \ {w} : h[v] = f[v]
    BY WorkerUpdate, EngineAssumption DEF EngineTypes
  <2> HIDE DEF f, h
  <2>2. SumOver(h, Worker) = (SumOver(f, Worker) - f[w]) + h[w] /\ f[w] <= SumOver(f, Worker)
    BY <2>1, SumOverChange
  <2>3. f[w] \in Nat
    BY <2>1
  <2> QED
    BY <2>1, <2>2, <2>3 DEF f, h
<1>2. ASSUME NEW w \in Worker, Transmit(w) PROVE TargetsCounted'
  <2>1. left[w] - 1 \in Nat /\ left[w] \in Nat
    BY <1>2, BurstFacts DEF Transmit
  <2>2. InSenders' = (InSenders - left[w]) + (left[w] - 1)
    BY <1>1, <1>2, <2>1 DEF InSenders, Transmit
  <2>3. InSenders \in Nat /\ InTxq \in Nat /\ transmitted \in Nat
    BY <1>0 DEF InSenders, InTxq, EngineTypes
  <2>4. transmitted' + InTxq' + InSenders' = transmitted + InTxq + InSenders
    BY <1>2, <2>1, <2>2, <2>3 DEF InTxq, Transmit
  <2> QED
    BY <1>2, <2>4 DEF TargetsCounted, Transmit
<1>3. CASE Fill
  <2>1. InTxq' = InTxq /\ InSenders' = InSenders /\ UNCHANGED <<generated, transmitted>> /\ gen' # "fill"
    BY <1>3 DEF Fill, InTxq, InSenders
  <2>2. held' <= Planned - generated
    BY <1>3, EngineAssumption DEF Fill, Smaller, EngineTypes
  <2>3. generated \in Nat /\ Planned \in Nat /\ held' \in Int
    BY <1>3, EngineAssumption DEF EngineTypes, Fill, Smaller
  <2> DEFINE h == held' g == generated
  <2>5. h <= Planned - g /\ g \in Nat /\ Planned \in Nat /\ h \in Int
    BY <2>2, <2>3
  <2> HIDE DEF h, g
  <2>4. g + h <= Planned
    BY <2>5
  <2> USE DEF h, g
  <2> QED
    BY <2>1, <2>4 DEF TargetsCounted
<1>4. CASE Enqueue
  <2>1. Total(Append(txq, held)) = Total(txq) + held
    BY TotalAppend DEF EngineTypes
  <2>2. InTxq' = InTxq + held /\ InSenders' = InSenders
    BY <1>4, <2>1 DEF Enqueue, InTxq, InSenders
  <2>3. InSenders \in Nat /\ InTxq \in Nat
    BY <1>0 DEF InSenders, InTxq
  <2> QED
    BY <1>4, <2>2, <2>3 DEF Enqueue, TargetsCounted, EngineTypes
<1>5. ASSUME NEW w \in Worker, Take(w), left[w] = 0 PROVE TargetsCounted'
  <2>1. Head(txq) \in Nat /\ txq \in Seq(Nat) /\ txq # <<>>
    BY <1>5 DEF Take, EngineTypes
  <2>2. Total(txq) = Head(txq) + Total(Tail(txq)) /\ Tail(txq) \in Seq(Nat)
    BY <2>1, TotalCons
  <2>3. InSenders' = (InSenders - left[w]) + Head(txq)
    BY <1>1, <1>5, <2>1 DEF Take, InSenders
  <2>4. Total(Tail(txq)) \in Nat
    BY <2>2, TotalType
  <2>5. InTxq' + InSenders' = InTxq + InSenders
    BY <1>0, <1>5, <2>1, <2>2, <2>3, <2>4 DEF Take, InTxq, InSenders
  <2>6. transmitted \in Nat /\ InTxq \in Nat /\ InSenders \in Nat /\ InTxq' \in Nat /\ InSenders' \in Nat
    BY <1>0, <1>1, <1>5, <2>1, <2>2, <2>3, <2>4 DEF Take, InTxq, InSenders, EngineTypes
  <2> DEFINE q == InTxq' t == InSenders' m == InTxq n == InSenders
  <2>7. transmitted \in Nat /\ q \in Nat /\ t \in Nat /\ m \in Nat /\ n \in Nat /\ q + t = m + n
    BY <2>5, <2>6
  <2> HIDE DEF q, t, m, n
  <2>8. transmitted + q + t = transmitted + m + n
    BY <2>7
  <2> USE DEF q, t, m, n
  <2> QED
    BY <1>5, <2>8 DEF Take, TargetsCounted
<1>7. CASE UNCHANGED <<generated, transmitted, txq, left, held>> /\ (gen' # gen => gen' # "fill")
  BY <1>7 DEF TargetsCounted, InTxq, InSenders
<1>6. ASSUME NEW w \in Worker,
             CountBurst(w) \/ TransmitFails(w) \/ SenderEnds(w) \/ FlushFails(w) \/ AbortSender(w)
      PROVE  TargetsCounted'
  BY <1>6, <1>7 DEF CountBurst, TransmitFails, SenderEnds, FlushFails, AbortSender
<1>8. CASE SourceEnds \/ RunEngine \/ Forwarder \/ Read \/ CancelRun \/ UNCHANGED vars
  BY <1>7, <1>8 DEF SourceEnds, RunEngine, OpenWindow, CloseWindow, EngineDone, EngineFailed,
     Forwarder, Fetch, DeliverReply, GiveUp, NameOutcome, Read, CancelRun, vars
<1>9. ASSUME NEW w \in Worker, ReceiverStep(w) PROVE TargetsCounted'
  BY <1>7, <1>9 DEF ReceiverStep, Decode, Push, ReceiverEnds, ReceiveFails
<1> QED
  BY <1>2, <1>3, <1>4, <1>5, <1>6, <1>8, <1>9 DEF Next, Source, Ended, SenderStep, SendersWhole, Take

\* What a sender changes, and what a receiver does.
LEMMA SenderChanges ==
  ASSUME EngineTypes, NEW w \in Worker, SenderStep(w)
  PROVE  /\ sender[w] \in {"idle", "busy"}
         /\ \A v \in Worker \ {w} : sender'[v] = sender[v] /\ left'[v] = left[v]
         /\ UNCHANGED <<cancelled, gen, held, drawn, receiver, results, open, phase, forward,
                        events, delivered, generated, replies, outcome>>
         /\ cancel' # cancel => cancel' /\ sender'[w] = "failed"
<1>1. UNCHANGED <<cancelled, gen, held, drawn, receiver, results, open, phase, forward,
                  events, delivered, generated, replies, outcome>>
  BY DEF SenderStep, Take, Transmit, CountBurst, TransmitFails, SenderEnds,
     FlushFails, AbortSender
<1>2. sender[w] \in {"idle", "busy"}
  BY DEF SenderStep, InTheBurst, Take, Transmit, CountBurst, TransmitFails, SenderEnds,
     FlushFails, AbortSender
<1>3. \A v \in Worker \ {w} : sender'[v] = sender[v]
  BY DEF SenderStep, Take, Transmit, CountBurst, TransmitFails, SenderEnds,
     FlushFails, AbortSender, EngineTypes
<1>4. \A v \in Worker \ {w} : left'[v] = left[v]
  BY DEF SenderStep, Take, Transmit, CountBurst, TransmitFails, SenderEnds,
     FlushFails, AbortSender, EngineTypes
<1>5. cancel' # cancel => cancel' /\ sender'[w] = "failed"
  BY DEF SenderStep, Take, Transmit, CountBurst, TransmitFails, SenderEnds,
     FlushFails, AbortSender, EngineTypes
<1> QED
  BY <1>1, <1>2, <1>3, <1>4, <1>5

LEMMA ReceiverChanges ==
  ASSUME EngineTypes, NEW w \in Worker, ReceiverStep(w)
  PROVE  /\ receiver[w] \in {"recv", "push"}
         /\ \A v \in Worker \ {w} : receiver'[v] = receiver[v]
         /\ UNCHANGED <<cancelled, gen, held, drawn, txq, sender, left, inBurst, open, phase,
                        forward, events, delivered, generated, sent, transmitted, outcome>>
         /\ cancel' # cancel => cancel' /\ receiver'[w] = "failed"
         /\ errors' # errors => receiver'[w] = "failed"
<1>1. UNCHANGED <<cancelled, gen, held, drawn, txq, sender, left, inBurst, open, phase,
                  forward, events, delivered, generated, sent, transmitted, outcome>>
  BY DEF ReceiverStep, Decode, Push, ReceiverEnds, ReceiveFails
<1>2. receiver[w] \in {"recv", "push"}
  BY DEF ReceiverStep, Decode, Push, ReceiverEnds, ReceiveFails
<1>3. \A v \in Worker \ {w} : receiver'[v] = receiver[v]
  BY DEF ReceiverStep, Decode, Push, ReceiverEnds, ReceiveFails, EngineTypes
<1>4. /\ cancel' # cancel => cancel' /\ receiver'[w] = "failed"
      /\ errors' # errors => receiver'[w] = "failed"
  BY DEF ReceiverStep, Decode, Push, ReceiverEnds, ReceiveFails, EngineTypes
<1> QED
  BY <1>1, <1>2, <1>3, <1>4

\* Frames move from the burst of a sender to the counter, or stay in it.
LEMMA BurstsStep ==
  ASSUME EngineTypes, BurstsCounted, [Next]_vars
  PROVE  BurstsCounted'
<1> DEFINE Bounded(v) == inBurst[v] <= Burst /\ (inBurst[v] > 0 => InBurst(v))
<1>0. SumOver(inBurst, Worker) \in Nat /\ Burst \in Nat \ {0} /\ sent \in Nat /\ transmitted \in Nat
  BY SumOverType, EngineAssumption DEF EngineTypes
<1>1. transmitted = sent + InBursts /\ \A v \in Worker : Bounded(v)
  BY DEF BurstsCounted
<1>2. ASSUME transmitted' = sent' + InBursts', \A v \in Worker : Bounded(v)'
      PROVE  BurstsCounted'
  BY <1>2 DEF BurstsCounted
<1>3. ASSUME NEW w \in Worker, NEW n \in Nat, inBurst' = [inBurst EXCEPT ![w] = n]
      PROVE  /\ InBursts' = (InBursts - inBurst[w]) + n
             /\ inBurst[w] <= InBursts /\ inBurst[w] \in Nat /\ InBursts \in Nat
  <2> DEFINE f == inBurst
             h == [inBurst EXCEPT ![w] = n]
  <2>1. /\ f \in [Worker -> Nat] /\ h \in [Worker -> Nat] /\ IsFiniteSet(Worker)
        /\ h[w] = n /\ \A v \in Worker \ {w} : h[v] = f[v]
    BY WorkerUpdate, EngineAssumption DEF EngineTypes
  <2> HIDE DEF f, h
  <2>2. SumOver(h, Worker) = (SumOver(f, Worker) - f[w]) + h[w] /\ f[w] <= SumOver(f, Worker)
    BY <2>1, SumOverChange
  <2>3. f[w] \in Nat
    BY <2>1
  <2> QED
    BY <1>0, <1>3, <2>1, <2>2, <2>3 DEF f, h, InBursts
<1>4. ASSUME NEW w \in Worker, SenderStep(w), NEW v \in Worker \ {w}, inBurst'[v] = inBurst[v]
      PROVE  Bounded(v)'
  <2>1. sender'[v] = sender[v] /\ phase' = phase
    BY <1>4, SenderChanges
  <2> QED
    BY <1>1, <1>4, <2>1 DEF InBurst
<1>5. ASSUME NEW w \in Worker, Transmit(w) PROVE BurstsCounted'
  <2>1. inBurst[w] + 1 \in Nat /\ inBurst[w] < Burst /\ inBurst[w] \in Nat
    BY <1>5, BurstFacts DEF Transmit
  <2>2. InBursts' = (InBursts - inBurst[w]) + (inBurst[w] + 1)
    BY <1>3, <1>5, <2>1 DEF Transmit
  <2>3. transmitted' = sent' + InBursts'
    BY <1>0, <1>1, <1>5, <2>1, <2>2 DEF Transmit, InBursts
  <2>4. inBurst'[w] = inBurst[w] + 1 /\ sender'[w] = "busy"
    BY <1>5 DEF Transmit, InTheBurst, EngineTypes
  <2>5. Bounded(w)'
    BY <1>0, <2>1, <2>4 DEF InBurst
  <2>6. \A v \in Worker \ {w} : inBurst'[v] = inBurst[v]
    BY <1>5 DEF Transmit, EngineTypes
  <2> QED
    BY <1>2, <1>4, <1>5, <2>3, <2>5, <2>6 DEF SenderStep
<1>6. ASSUME NEW w \in Worker, CountBurst(w) \/ TransmitFails(w) \/ SenderEnds(w)
      PROVE  BurstsCounted'
  <2>1. /\ AddSent(w) /\ transmitted' = transmitted
    BY <1>6 DEF CountBurst, TransmitFails, SenderEnds
  <2>2. /\ InBursts' = (InBursts - inBurst[w]) + 0
        /\ inBurst[w] <= InBursts /\ inBurst[w] \in Nat /\ InBursts \in Nat
    BY <1>3, <2>1 DEF AddSent
  <2>3. transmitted' = sent' + InBursts'
    BY <1>0, <1>1, <2>1, <2>2 DEF AddSent, Sent
  <2>4. Bounded(w)'
    BY <1>0, <2>1, BurstFacts
  <2>5. \A v \in Worker \ {w} : inBurst'[v] = inBurst[v]
    BY <2>1, BurstFacts
  <2> QED
    BY <1>2, <1>4, <1>6, <2>3, <2>4, <2>5 DEF SenderStep
<1>7. ASSUME NEW w \in Worker, Take(w) \/ FlushFails(w) \/ AbortSender(w)
      PROVE  BurstsCounted'
  <2>1. UNCHANGED <<inBurst, sent, transmitted>>
    BY <1>7 DEF Take, FlushFails, AbortSender
  <2>2. Bounded(w)'
    <3>1. CASE Take(w) \/ FlushFails(w)
      <4>1. inBurst[w] = 0
        BY <1>1, <3>1 DEF Take, FlushFails, InBurst, EngineTypes
      <4> QED
        BY <1>0, <2>1, <4>1
    <3>2. CASE AbortSender(w)
      <4>1. sender'[w] = "aborted" /\ phase' = "failed"
        BY <3>2 DEF AbortSender, EngineTypes
      <4> QED
        BY <1>1, <2>1, <4>1 DEF InBurst
    <3> QED
      BY <1>7, <3>1, <3>2
  <2>3. InBursts' = InBursts
    BY <2>1 DEF InBursts
  <2> QED
    BY <1>1, <1>2, <1>4, <1>7, <2>1, <2>2, <2>3 DEF SenderStep
<1>8. ASSUME UNCHANGED <<inBurst, sent, transmitted>>, phase = "failed" => phase' = "failed",
             \A v \in Worker : sender[v] \in {"busy", "aborted"} => sender'[v] = sender[v]
      PROVE  BurstsCounted'
  <2>1. \A v \in Worker : Bounded(v)'
    BY <1>1, <1>8 DEF InBurst
  <2>2. InBursts' = InBursts
    BY <1>8 DEF InBursts
  <2> QED
    BY <1>1, <1>2, <1>8, <2>1, <2>2
<1>9. CASE EngineFailed
  <2>1. UNCHANGED <<inBurst, sent, transmitted>> /\ phase' = "failed"
    BY <1>9 DEF EngineFailed
  <2>2. \A v \in Worker : sender[v] \in {"busy", "aborted"} => sender'[v] = sender[v]
    BY <1>9 DEF EngineFailed, EngineTypes
  <2> QED
    BY <1>8, <2>1, <2>2
<1>10. CASE OpenWindow \/ CloseWindow \/ EngineDone
  <2>1. UNCHANGED <<inBurst, sent, transmitted, sender>> /\ phase # "failed"
    BY <1>10 DEF OpenWindow, CloseWindow, EngineDone
  <2> QED
    BY <1>8, <2>1
<1>11. CASE Source \/ Forwarder \/ Read \/ CancelRun \/ UNCHANGED vars
  <2>1. UNCHANGED <<inBurst, sent, transmitted, sender, phase>>
    BY <1>11 DEF Source, Fill, Enqueue, SourceEnds, Forwarder, Fetch, DeliverReply, GiveUp,
       NameOutcome, Read, CancelRun, vars
  <2> QED
    BY <1>8, <2>1
<1>12. ASSUME NEW w \in Worker, ReceiverStep(w) PROVE BurstsCounted'
  BY <1>8, <1>12, ReceiverChanges
<1> QED
  BY <1>5, <1>6, <1>7, <1>9, <1>10, <1>11, <1>12 DEF Next, SenderStep, RunEngine, Ended

\* A worker that failed stays so.
LEMMA FailuresStay ==
  ASSUME EngineTypes, [Next]_vars, NEW v \in Worker
  PROVE  /\ sender[v] \in {"ok", "failed"} => sender'[v] = sender[v] /\ left'[v] = left[v]
         /\ receiver[v] \in {"ok", "failed"} => receiver'[v] = receiver[v]
<1>1. CASE UNCHANGED <<sender, left, receiver>>
  BY <1>1
<1>2. ASSUME NEW w \in Worker, SenderStep(w) \/ ReceiverStep(w)
      PROVE  /\ sender[v] \in {"ok", "failed"} => sender'[v] = sender[v] /\ left'[v] = left[v]
             /\ receiver[v] \in {"ok", "failed"} => receiver'[v] = receiver[v]
  <2>1. CASE SenderStep(w)
    BY <2>1, SenderChanges
  <2>2. CASE ReceiverStep(w)
    BY <2>2, ReceiverChanges
  <2> QED
    BY <1>2, <2>1, <2>2
<1>3. CASE EngineFailed
  BY <1>3 DEF EngineFailed, Gone, EngineTypes
<1>4. CASE OpenWindow \/ CloseWindow \/ EngineDone
  BY <1>1, <1>4 DEF OpenWindow, CloseWindow, EngineDone
<1>5. CASE Source \/ Forwarder \/ Read \/ CancelRun \/ UNCHANGED vars
  BY <1>1, <1>5 DEF Source, Fill, Enqueue, SourceEnds, Forwarder, Fetch, DeliverReply, GiveUp,
     NameOutcome, Read, CancelRun, vars
<1> QED
  BY <1>2, <1>3, <1>4, <1>5 DEF Next, Ended, RunEngine

\* The token is set by a failure, by the caller, or with the sending phase over.
LEMMA TokenStep ==
  ASSUME EngineTypes, SourceWhole, [Next]_vars
  PROVE  phase' = "send" /\ cancel' => cancelled' \/ Stopped'
<1>1. ASSUME NEW w \in Worker, SenderStep(w) PROVE phase' = "send" /\ cancel' => cancelled' \/ Stopped'
  <2>1. CASE cancel' # cancel
    BY <1>1, <2>1, SenderChanges DEF Stopped
  <2>2. CASE cancel' = cancel
    BY <1>1, <2>2, SenderChanges, FailuresStay DEF Stopped, SourceWhole
  <2> QED
    BY <2>1, <2>2
<1>2. ASSUME NEW w \in Worker, ReceiverStep(w) PROVE phase' = "send" /\ cancel' => cancelled' \/ Stopped'
  <2>1. CASE cancel' # cancel
    BY <1>2, <2>1, ReceiverChanges DEF Stopped
  <2>2. CASE cancel' = cancel
    BY <1>2, <2>2, ReceiverChanges, FailuresStay DEF Stopped, SourceWhole
  <2> QED
    BY <2>1, <2>2
<1>3. CASE UNCHANGED <<phase, cancel, cancelled, sender, receiver>>
  BY <1>3 DEF Stopped, SourceWhole
<1>4. CASE Source \/ DeliverReply \/ Fetch \/ NameOutcome \/ Read \/ UNCHANGED vars
  BY <1>3, <1>4 DEF Source, Fill, Enqueue, SourceEnds, Fetch, DeliverReply, NameOutcome, Read, vars
<1>5. CASE RunEngine
  BY <1>5 DEF RunEngine, OpenWindow, CloseWindow, EngineDone, EngineFailed
<1>6. CASE GiveUp \/ CancelRun
  BY <1>6 DEF GiveUp, CancelRun
<1> QED
  BY <1>1, <1>2, <1>4, <1>5, <1>6 DEF Next, Forwarder, Ended

\* The source's and the senders' ends.
LEMMA SourceStep ==
  ASSUME EngineTypes, TargetsCounted, SourceWhole, [Next]_vars
  PROVE  SourceWhole'
<1> DEFINE Over  == cancel \/ gen \in {"ok", "failed"}
           Early == (phase = "failed" => Over) /\ \A w \in Worker : sender[w] \in Gone => Over
           Whole == gen = "ok" /\ ~cancel => generated = Planned
<1>1. Early /\ Whole
  BY DEF SourceWhole
<1>2. ASSUME NEW w \in Worker, SenderStep(w) PROVE Early' /\ Whole'
  <2>1. cancel => cancel'
    BY <1>2, SenderChanges DEF EngineTypes
  <2>2. sender'[w] \in Gone => Over'
    <3>1. CASE Take(w) \/ Transmit(w) \/ CountBurst(w)
      BY <3>1 DEF Take, Transmit, CountBurst, InTheBurst, Gone, EngineTypes
    <3>2. CASE TransmitFails(w) \/ SenderEnds(w) \/ FlushFails(w)
      BY <3>2 DEF TransmitFails, SenderEnds, FlushFails, Drained
    <3>3. CASE AbortSender(w)
      BY <1>1, <3>3 DEF AbortSender
    <3> QED
      BY <1>2, <3>1, <3>2, <3>3 DEF SenderStep
  <2>3. Early'
    BY <1>1, <1>2, <2>1, <2>2, SenderChanges
  <2> QED
    BY <1>1, <1>2, <2>1, <2>3, SenderChanges
<1>3. ASSUME NEW w \in Worker, ReceiverStep(w) PROVE Early' /\ Whole'
  <2>1. cancel => cancel'
    BY <1>3, ReceiverChanges DEF EngineTypes
  <2> QED
    BY <1>1, <1>3, <2>1, ReceiverChanges
<1>4. ASSUME Fill \/ Enqueue
      PROVE  Early' /\ Whole'
  BY <1>1, <1>4 DEF Fill, Enqueue
<1>5. ASSUME SourceEnds
      PROVE  Early' /\ Whole'
  <2>1. gen' \in {"ok", "failed"} /\ UNCHANGED <<cancel, generated>>
    BY <1>5 DEF SourceEnds
  <2>2. CASE gen = "send" /\ Sinkless /\ ~cancel
    <3>1. PICK w \in Worker : TRUE
      BY EngineAssumption
    <3> QED
      BY <1>1, <2>2, <3>1 DEF Sinkless
  <2>3. CASE gen = "fill" /\ ~cancel /\ gen' = "ok"
    <3>1. ~ (generated < Planned)
      BY <1>5, <2>3 DEF SourceEnds, Short
    <3>2. generated + held <= Planned /\ generated \in Nat /\ held \in Nat /\ Planned \in Nat
      BY EngineAssumption DEF TargetsCounted, EngineTypes
    <3>3. generated = Planned
      BY <3>1, <3>2
    <3> QED
      BY <2>1, <3>3
  <2>4. gen' = "ok" /\ ~cancel => gen = "fill" \/ (gen = "send" /\ Sinkless)
    BY <1>5 DEF SourceEnds
  <2> QED
    BY <2>1, <2>2, <2>3, <2>4
<1>6. ASSUME cancel => cancel', UNCHANGED <<sender, gen, generated>>,
             phase' = "failed" => phase = "failed"
      PROVE  Early' /\ Whole'
  BY <1>1, <1>6
<1>7. ASSUME OpenWindow \/ CloseWindow \/ EngineDone \/ Forwarder \/ Read \/ CancelRun \/ UNCHANGED vars
      PROVE  Early' /\ Whole'
  <2>1. UNCHANGED <<sender, gen, generated>> /\ (phase' = "failed" => phase = "failed")
    BY <1>7 DEF OpenWindow, CloseWindow, EngineDone, Forwarder, Fetch, DeliverReply, GiveUp,
       NameOutcome, Read, CancelRun, vars
  <2>2. cancel => cancel'
    BY <1>7 DEF OpenWindow, CloseWindow, EngineDone, Forwarder, Fetch, DeliverReply, GiveUp,
       NameOutcome, Read, CancelRun, vars
  <2> QED
    BY <1>6, <2>1, <2>2
<1>9. ASSUME EngineFailed PROVE Early' /\ Whole'
  <2>1. Over' /\ (cancel => cancel') /\ UNCHANGED <<gen, generated>>
    BY <1>9 DEF EngineFailed, EngineTypes
  <2> QED
    BY <1>1, <2>1
<1>8. Early' /\ Whole'
  BY <1>2, <1>3, <1>4, <1>5, <1>7, <1>9 DEF Next, Source, Ended, RunEngine
<1> QED
  BY <1>8, TokenStep DEF SourceWhole

\* A sender ends by itself with its batch sent and the channel empty.
LEMMA SendersStep ==
  ASSUME EngineTypes, SendersWhole, SourceWhole, [Next]_vars
  PROVE  SendersWhole'
<1> DEFINE Idle(w) == sender[w] = "idle" => left[w] = 0
           Done(w) == ~cancel => (sender[w] = "ok" =>
                                    left[w] = 0 /\ gen \in {"ok", "failed"} /\ txq = <<>>)
<1>1. \A w \in Worker : Idle(w) /\ Done(w)
  BY DEF SendersWhole
<1>2. ASSUME \A w \in Worker : Idle(w)' /\ Done(w)' PROVE SendersWhole'
  BY <1>2 DEF SendersWhole
<1>3. ASSUME NEW w \in Worker, SenderStep(w) PROVE \A v \in Worker : Idle(v)' /\ Done(v)'
  <2>1. Idle(w)' /\ Done(w)'
    <3>1. CASE Take(w)
      BY <3>1 DEF Take, EngineTypes
    <3>2. CASE Transmit(w)
      BY <3>2 DEF Transmit, InTheBurst
    <3>3. CASE CountBurst(w)
      BY <3>3 DEF CountBurst, EngineTypes
    <3>4. CASE SenderEnds(w)
      <4>1. sender'[w] = "ok" /\ UNCHANGED <<cancel, gen, txq, left>>
        BY <3>4 DEF SenderEnds, EngineTypes
      <4>2. ~cancel => sender[w] = "idle" /\ Drained
        BY <3>4 DEF SenderEnds, EngineTypes
      <4> QED
        BY <1>1, <4>1, <4>2 DEF Drained
    <3>5. CASE TransmitFails(w) \/ FlushFails(w) \/ AbortSender(w)
      BY <3>5 DEF TransmitFails, FlushFails, AbortSender, EngineTypes
    <3> QED
      BY <1>3, <3>1, <3>2, <3>3, <3>4, <3>5 DEF SenderStep
  <2>2. ASSUME NEW v \in Worker \ {w} PROVE Idle(v)' /\ Done(v)'
    <3>1. sender'[v] = sender[v] /\ left'[v] = left[v] /\ gen' = gen
      BY <1>3, <2>2, SenderChanges
    <3>2. ~cancel' => ~cancel
      BY <1>3, SenderChanges DEF EngineTypes
    <3>3. txq = <<>> => txq' = txq
      BY <1>3 DEF SenderStep, Take, Transmit, CountBurst, TransmitFails, SenderEnds,
     FlushFails, AbortSender
    <3> QED
      BY <1>1, <2>2, <3>1, <3>2, <3>3
  <2> QED
    BY <2>1, <2>2
<1>4. ASSUME cancel => cancel', UNCHANGED <<sender, left, gen, txq>>
      PROVE  \A v \in Worker : Idle(v)' /\ Done(v)'
  BY <1>1, <1>4
<1>5. ASSUME NEW w \in Worker, ReceiverStep(w) PROVE \A v \in Worker : Idle(v)' /\ Done(v)'
  <2>1. cancel => cancel'
    BY <1>5, ReceiverChanges DEF EngineTypes
  <2> QED
    BY <1>4, <1>5, <2>1, ReceiverChanges
<1>6. ASSUME Fill \/ Enqueue \/ SourceEnds PROVE \A v \in Worker : Idle(v)' /\ Done(v)'
  <2>1. UNCHANGED <<sender, left, cancel>> /\ gen \in {"fill", "send"}
    <3>1. CASE SourceEnds
      BY <3>1 DEF SourceEnds
    <3> QED
      BY <1>6, <3>1 DEF Fill, Enqueue
  <2>2. ASSUME NEW v \in Worker, ~cancel PROVE sender[v] # "ok"
    BY <2>1, <2>2 DEF SourceWhole, Gone
  <2> QED
    BY <1>1, <2>1, <2>2
<1>7. ASSUME OpenWindow \/ CloseWindow \/ EngineDone \/ Forwarder \/ Read \/ CancelRun \/ UNCHANGED vars
      PROVE  \A v \in Worker : Idle(v)' /\ Done(v)'
  <2>1. UNCHANGED <<sender, left, gen, txq>>
    BY <1>7 DEF OpenWindow, CloseWindow, EngineDone, Forwarder, Fetch, DeliverReply, GiveUp,
       NameOutcome, Read, CancelRun, vars
  <2>2. cancel => cancel'
    BY <1>7 DEF OpenWindow, CloseWindow, EngineDone, Forwarder, Fetch, DeliverReply, GiveUp,
       NameOutcome, Read, CancelRun, vars
  <2> QED
    BY <1>4, <2>1, <2>2
<1>8. ASSUME EngineFailed PROVE \A v \in Worker : Idle(v)' /\ Done(v)'
  <2>1. UNCHANGED <<left, gen, txq>> /\ (cancel => cancel')
    BY <1>8 DEF EngineFailed, EngineTypes
  <2>2. \A v \in Worker : sender'[v] # "idle" /\ (sender'[v] = "ok" => sender[v] = "ok")
    BY <1>8 DEF EngineFailed, EngineTypes
  <2> QED
    BY <1>1, <2>1, <2>2
<1> QED
  BY <1>2, <1>3, <1>5, <1>6, <1>7, <1>8 DEF Next, Source, Ended, RunEngine

\* The sending phase ends with all targets sent, unless the scan is to stop; after
\* it no sender and no source moves.
LEMMA TransmittedStep ==
  ASSUME EngineTypes, SourceWhole, SendersWhole, AllTransmitted, [Next]_vars
  PROVE  AllTransmitted'
<1> DEFINE Reason == \/ cancelled
                     \/ \E w \in Worker : receiver[w] = "failed"
                     \/ generated = Planned /\ txq = <<>> /\ \A w \in Worker : left[w] = 0
<1>1. CASE OpenWindow
  <2>1. /\ gen = "ok" /\ \A w \in Worker : sender[w] = "ok"
        /\ UNCHANGED <<gen, sender, cancelled, receiver, generated, txq, left>>
    BY <1>1 DEF OpenWindow, AllSent
  <2>2. Reason
    <3>1. CASE cancel
      BY <1>1, <2>1, <3>1 DEF SourceWhole, Stopped, OpenWindow
    <3>2. CASE ~cancel
      <4>1. PICK w \in Worker : TRUE
        BY EngineAssumption
      <4> QED
        BY <2>1, <3>2, <4>1 DEF SourceWhole, SendersWhole
    <3> QED
      BY <3>1, <3>2 DEF EngineTypes
  <2> QED
    BY <2>1, <2>2 DEF AllTransmitted
<1>2. CASE phase' \notin {"window", "drain", "ok"}
  BY <1>2 DEF AllTransmitted
<1>3. ASSUME phase \in {"window", "drain", "ok"} PROVE AllTransmitted'
  <2>1. gen = "ok" /\ (\A w \in Worker : sender[w] = "ok") /\ Reason
    BY <1>3 DEF AllTransmitted
  <2>2. \A w \in Worker : sender'[w] = sender[w] /\ left'[w] = left[w]
                          /\ (receiver[w] = "failed" => receiver'[w] = "failed")
    BY <2>1, FailuresStay
  <2>3. UNCHANGED <<gen, generated, txq>> /\ (cancelled => cancelled')
    <3>1. CASE \E w \in Worker : SenderStep(w)
      BY <2>1, <3>1, SenderChanges
    <3>2. CASE \E w \in Worker : ReceiverStep(w)
      BY <3>2, ReceiverChanges
    <3>3. ~ Source
      BY <2>1 DEF Source, Fill, Enqueue, SourceEnds
    <3>4. CASE RunEngine \/ Forwarder \/ Read \/ CancelRun \/ UNCHANGED vars
      <4>1. UNCHANGED <<gen, generated, txq>>
        BY <3>4 DEF RunEngine, OpenWindow, CloseWindow, EngineDone, EngineFailed, Forwarder,
           Fetch, DeliverReply, GiveUp, NameOutcome, Read, CancelRun, vars
      <4>2. cancelled => cancelled'
        BY <3>4 DEF RunEngine, OpenWindow, CloseWindow, EngineDone, EngineFailed, Forwarder,
           Fetch, DeliverReply, GiveUp, NameOutcome, Read, CancelRun, vars
      <4> QED
        BY <4>1, <4>2
    <3> QED
      BY <3>1, <3>2, <3>3, <3>4 DEF Next, Ended
  <2> QED
    BY <2>1, <2>2, <2>3 DEF AllTransmitted
<1>4. ~OpenWindow /\ phase \notin {"window", "drain", "ok"} => phase' \notin {"window", "drain", "ok"}
  <2>1. SUFFICES ASSUME ~OpenWindow, phase \notin {"window", "drain", "ok"}, phase' # phase
                 PROVE  phase' \notin {"window", "drain", "ok"}
    OBVIOUS
  <2>2. ~ \E w \in Worker : SenderStep(w) \/ ReceiverStep(w)
    BY <2>1, SenderChanges, ReceiverChanges
  <2>3. ~ (Source \/ Forwarder \/ Read \/ CancelRun \/ UNCHANGED vars)
    BY <2>1 DEF Source, Fill, Enqueue, SourceEnds, Forwarder, Fetch, DeliverReply, GiveUp,
       NameOutcome, Read, CancelRun, vars
  <2>4. CASE RunEngine
    BY <2>1, <2>4 DEF RunEngine, CloseWindow, EngineDone, EngineFailed
  <2> QED
    BY <2>2, <2>3, <2>4 DEF Next, Ended
<1> QED
  BY <1>1, <1>2, <1>3, <1>4

\* Errors stay, and an engine that is done had none in its receivers.
LEMMA ErrorsStep ==
  ASSUME EngineTypes, ErrorsKept, [Next]_vars
  PROVE  ErrorsKept'
<1>1. Stopped => Stopped'
  BY FailuresStay DEF Stopped
<1>2. errors' # errors => Stopped'
  <2>1. ASSUME NEW w \in Worker, SenderStep(w), errors' # errors PROVE sender'[w] = "failed"
    BY <2>1 DEF SenderStep, Take, Transmit, CountBurst, TransmitFails, SenderEnds,
     FlushFails, AbortSender, EngineTypes
  <2>2. ASSUME NEW w \in Worker, ReceiverStep(w), errors' # errors PROVE receiver'[w] = "failed"
    BY <2>2, ReceiverChanges
  <2>3. Source \/ RunEngine \/ Forwarder \/ Read \/ CancelRun \/ UNCHANGED vars => errors' = errors
    BY DEF Source, Fill, Enqueue, SourceEnds, RunEngine, OpenWindow, CloseWindow, EngineDone,
       EngineFailed, Forwarder, Fetch, DeliverReply, GiveUp, NameOutcome, Read, CancelRun, vars
  <2> QED
    BY <2>1, <2>2, <2>3 DEF Next, Stopped, Ended
<1>3. phase' = "ok" => \A w \in Worker : receiver[w] = "ok"
  <2>1. CASE phase = "ok"
    BY <2>1 DEF ErrorsKept
  <2>2. CASE phase # "ok" /\ RunEngine
    BY <2>2 DEF RunEngine, OpenWindow, CloseWindow, EngineDone, EngineFailed, AllReceived
  <2>3. (\E w \in Worker : SenderStep(w) \/ ReceiverStep(w)) => phase' = phase
    BY SenderChanges, ReceiverChanges
  <2>4. Source \/ Forwarder \/ Read \/ CancelRun \/ UNCHANGED vars => phase' = phase
    BY DEF Source, Fill, Enqueue, SourceEnds, Forwarder, Fetch, DeliverReply, GiveUp,
       NameOutcome, Read, CancelRun, vars
  <2> QED
    BY <2>1, <2>2, <2>3, <2>4 DEF Next, Ended
<1>4. phase' = "ok" => \A w \in Worker : receiver'[w] = "ok"
  BY <1>3, FailuresStay
<1> QED
  BY <1>1, <1>2, <1>4 DEF ErrorsKept

\* The workers with a reply that waits for room are finitely many.
LEMMA PushingFacts ==
  /\ IsFiniteSet(Pushing) /\ Cardinality(Pushing) \in Nat
  /\ \A w \in Worker : Cardinality(Pushing \cup {w})
                         = IF w \in Pushing THEN Cardinality(Pushing) ELSE Cardinality(Pushing) + 1
  /\ \A w \in Worker : Cardinality(Pushing \ {w})
                         = IF w \in Pushing THEN Cardinality(Pushing) - 1 ELSE Cardinality(Pushing)
<1>1. IsFiniteSet(Pushing)
  BY FS_Subset, EngineAssumption DEF Pushing
<1> QED
  BY <1>1, FS_CardinalityType, FS_AddElement, FS_RemoveElement

\* Replies move from the receivers through the channel to the caller.
LEMMA RepliesStep ==
  ASSUME EngineTypes, RepliesCounted, OutcomeNamed, [Next]_vars
  PROVE  RepliesCounted'
<1> DEFINE n == Cardinality(Pushing)
           Balanced == ~cancelled /\ phase # "failed" =>
                         replies = delivered + InForward + results + n
           Closed == /\ forward \in {"join", "end"} <=> ~open
                     /\ ~open => \/ cancelled
                                 \/ results = 0 /\ \A w \in Worker : receiver[w] \in Gone
<1>1. Balanced /\ Closed
  BY DEF RepliesCounted
<1>2. ASSUME Balanced', Closed' PROVE RepliesCounted'
  BY <1>2 DEF RepliesCounted
<1>3. /\ n \in Nat /\ replies \in Nat /\ delivered \in Nat /\ results \in Nat
      /\ open \in BOOLEAN /\ cancelled \in BOOLEAN
  BY PushingFacts DEF EngineTypes
<1>4. ASSUME UNCHANGED <<receiver, results, open, phase, forward, delivered, replies>>,
             cancelled => cancelled'
      PROVE  Balanced' /\ Closed'
  BY <1>1, <1>4 DEF Pushing, InForward
<1>5. CASE \E w \in Worker : SenderStep(w)
  <2>1. UNCHANGED <<receiver, results, open, phase, forward, delivered, replies, cancelled>>
    BY <1>5, SenderChanges
  <2> QED
    BY <1>2, <1>4, <2>1
<1>6. CASE Source \/ Read \/ CancelRun \/ UNCHANGED vars
  <2>1. UNCHANGED <<receiver, results, open, phase, forward, delivered, replies>>
    BY <1>6 DEF Source, Fill, Enqueue, SourceEnds, Read, CancelRun, vars
  <2>2. cancelled => cancelled'
    BY <1>6 DEF Source, Fill, Enqueue, SourceEnds, Read, CancelRun, vars
  <2> QED
    BY <1>2, <1>4, <2>1, <2>2
<1>7. CASE RunEngine
  <2>1. CASE EngineFailed
    <3>1. /\ UNCHANGED <<results, open, forward, cancelled>> /\ phase' = "failed"
          /\ \A w \in Worker : receiver'[w] \in Gone
      BY <2>1 DEF EngineFailed, Gone
    <3>2. Balanced' /\ Closed'
      BY <1>1, <3>1
    <3> QED
      BY <1>2, <3>2
  <2>2. CASE OpenWindow \/ CloseWindow \/ EngineDone
    <3>1. /\ UNCHANGED <<receiver, results, open, forward, delivered, replies, cancelled>>
          /\ phase = "failed" => phase' = "failed"
      BY <2>2 DEF OpenWindow, CloseWindow, EngineDone
    <3>2. Pushing' = Pushing /\ InForward' = InForward
      BY <3>1 DEF Pushing, InForward
    <3>3. Balanced' /\ Closed'
      BY <1>1, <3>1, <3>2
    <3> QED
      BY <1>2, <3>3
  <2> QED
    BY <1>7, <2>1, <2>2 DEF RunEngine
<1>8. ASSUME NEW w \in Worker, ReceiverStep(w) PROVE RepliesCounted'
  <2>1. /\ receiver[w] \in {"recv", "push"}
        /\ UNCHANGED <<open, phase, forward, delivered, cancelled>>
        /\ InForward' = InForward
    BY <1>8, ReceiverChanges DEF InForward
  <2>2. open \/ cancelled
    BY <1>1, <2>1 DEF Gone
  <2>3. Closed'
    BY <1>1, <2>1, <2>2
  <2>4. CASE Decode(w)
    <3>1. Pushing' = Pushing \cup {w} /\ w \notin Pushing
      BY <2>4 DEF Decode, Pushing, EngineTypes
    <3>2. n' = n + 1
      BY <3>1, PushingFacts
    <3>3. replies' = replies + 1 /\ results' = results
      BY <2>4 DEF Decode
    <3> HIDE DEF n
    <3>4. Balanced'
      BY <1>1, <1>3, <2>1, <3>2, <3>3 DEF InForward
    <3> QED
      BY <1>2, <2>3, <3>4
  <2>5. CASE Push(w)
    <3>1. Pushing' = Pushing \ {w} /\ w \in Pushing
      BY <2>5 DEF Push, Pushing, EngineTypes
    <3>2. n' = n - 1
      BY <3>1, PushingFacts
    <3>3. replies' = replies /\ results' = results + 1
      BY <2>5 DEF Push
    <3> HIDE DEF n
    <3>4. Balanced'
      BY <1>1, <1>3, <2>1, <3>2, <3>3 DEF InForward
    <3> QED
      BY <1>2, <2>3, <3>4
  <2>6. CASE ReceiverEnds(w) \/ ReceiveFails(w)
    <3>1. UNCHANGED <<replies, results>>
      BY <2>6 DEF ReceiverEnds, ReceiveFails
    <3>2. ~cancelled => receiver[w] = "recv"
      BY <2>2, <2>6, <1>3 DEF ReceiverEnds, ReceiveFails
    <3>3. ~cancelled => Pushing' = Pushing
      BY <2>6, <3>2 DEF ReceiverEnds, ReceiveFails, Pushing, EngineTypes
    <3>4. Balanced'
      BY <1>1, <2>1, <3>1, <3>3
    <3> QED
      BY <1>2, <2>3, <3>4
  <2> QED
    BY <1>8, <2>4, <2>5, <2>6 DEF ReceiverStep
<1>9. CASE Fetch
  <2>1. /\ forward = "next" /\ ~cancelled /\ UNCHANGED <<receiver, phase, delivered, replies, cancelled>>
        /\ Pushing' = Pushing /\ InForward = 0 /\ open
    BY <1>1, <1>9 DEF Fetch, Pushing, InForward
  <2>2. CASE forward' = "deliver"
    <3>1. results' = results - 1 /\ InForward' = 1 /\ open'
      BY <1>9, <2>1, <2>2 DEF Fetch, InForward
    <3>2. n' = n
      BY <2>1
    <3>3. Closed'
      BY <2>2, <3>1
    <3> HIDE DEF n
    <3>4. Balanced'
      BY <1>1, <1>3, <2>1, <3>1, <3>2
    <3> QED
      BY <1>2, <3>3, <3>4
  <2>3. CASE forward' = "join"
    <3>1. results = 0 /\ UNCHANGED results /\ ~open' /\ InForward' = 0 /\ Exhausted
      BY <1>9, <2>1, <2>3 DEF Fetch, InForward, Joined, Exhausted
    <3>3. Closed'
      BY <2>1, <2>3, <3>1 DEF Exhausted
    <3>4. Balanced'
      BY <1>1, <2>1, <3>1
    <3> QED
      BY <1>2, <3>3, <3>4
  <2> QED
    BY <1>9, <2>2, <2>3 DEF Fetch
<1>10. CASE DeliverReply
  <2>1. /\ forward = "deliver" /\ forward' = "next" /\ delivered' = delivered + 1
        /\ UNCHANGED <<receiver, results, open, phase, replies, cancelled>>
        /\ Pushing' = Pushing /\ InForward = 1 /\ InForward' = 0
    BY <1>10 DEF DeliverReply, Pushing, InForward
  <2>2. n' = n
    BY <2>1
  <2>3. Closed'
    BY <1>1, <2>1
  <2> HIDE DEF n
  <2>4. Balanced'
    BY <1>1, <1>3, <2>1, <2>2
  <2> QED
    BY <1>2, <2>3, <2>4
<1>11. CASE GiveUp
  BY <1>2, <1>11 DEF GiveUp, Joined
<1>12. CASE NameOutcome
  <2>1. /\ forward = "join" /\ forward' = "end" /\ Pushing' = Pushing /\ InForward = 0 /\ InForward' = 0
        /\ UNCHANGED <<receiver, results, open, phase, delivered, replies, cancelled>>
    BY <1>12 DEF NameOutcome, Pushing, InForward
  <2>2. Balanced' /\ Closed'
    BY <1>1, <2>1
  <2> QED
    BY <1>2, <2>2
<1> QED
  BY <1>5, <1>6, <1>7, <1>8, <1>9, <1>10, <1>11, <1>12 DEF Next, Forwarder, Ended

\* The outcome is named once, from the engine's result and the caller's token.
LEMMA OutcomeStep ==
  ASSUME EngineTypes, OutcomeNamed, ErrorsKept, [Next]_vars
  PROVE  OutcomeNamed'
<1>1. CASE UNCHANGED <<outcome, forward, phase, cancelled>>
  BY <1>1 DEF OutcomeNamed
<1>2. CASE \E w \in Worker : SenderStep(w) \/ ReceiverStep(w)
  BY <1>1, <1>2, SenderChanges, ReceiverChanges
<1>3. CASE Source \/ Read \/ UNCHANGED vars
  BY <1>1, <1>3 DEF Source, Fill, Enqueue, SourceEnds, Read, vars
<1>4. CASE RunEngine
  <2>1. UNCHANGED <<outcome, forward, cancelled>>
    BY <1>4 DEF RunEngine, OpenWindow, CloseWindow, EngineDone, EngineFailed
  <2>2. phase \notin {"ok", "failed"}
    BY <1>4 DEF RunEngine, OpenWindow, CloseWindow, EngineDone, EngineFailed
  <2> QED
    BY <2>1, <2>2 DEF OutcomeNamed
<1>5. CASE CancelRun
  BY <1>5 DEF CancelRun, OutcomeNamed
<1>6. CASE Fetch \/ DeliverReply \/ GiveUp
  <2>1. UNCHANGED <<outcome, phase, cancelled>> /\ forward # "end" /\ forward' # "end"
    BY <1>6 DEF Fetch, DeliverReply, GiveUp
  <2> QED
    BY <2>1 DEF OutcomeNamed
<1>7. CASE NameOutcome
  <2>1. forward' = "end" /\ UNCHANGED <<phase, cancelled>> /\ phase \in {"ok", "failed"}
    BY <1>7 DEF NameOutcome
  <2>2. outcome' = IF phase = "failed" THEN "Failed" ELSE IF cancelled THEN "Cancelled" ELSE "Completed"
    BY <1>7 DEF NameOutcome, Named
  <2> QED
    BY <2>1, <2>2 DEF OutcomeNamed
<1> QED
  BY <1>2, <1>3, <1>4, <1>5, <1>6, <1>7 DEF Next, Forwarder, Ended

-----------------------------------------------------------------------------
(* The theorems.                                                            *)

\* A scan begins with nothing generated.
LEMMA EngineInitIInv == Init => EngineIInv
<1> SUFFICES ASSUME Init PROVE EngineIInv
  OBVIOUS
<1> USE DEF Init
<1>1. EngineTypes
  BY <<>> \in Seq(Nat) DEF EngineTypes, SenderStates, ReceiverStates
<1>2. TargetsCounted /\ BurstsCounted
  <2>1. <<>> \in Seq(Nat)
    OBVIOUS
  <2>2. InTxq = 0 /\ InSenders = 0 /\ InBursts = 0
    BY <2>1, TotalEmpty, SumOverZero, EngineAssumption DEF InTxq, InSenders, InBursts
  <2> QED
    BY <2>2, EngineAssumption DEF TargetsCounted, BurstsCounted
<1>3. RepliesCounted
  <2>1. Pushing = {}
    BY DEF Pushing
  <2> QED
    BY <2>1, FS_EmptySet DEF RepliesCounted, InForward
<1> QED
  BY <1>1, <1>2, <1>3
     DEF EngineIInv, SourceWhole, SendersWhole, AllTransmitted, ErrorsKept, OutcomeNamed, Stopped, Gone

\* The inductive invariant holds throughout every scan.
THEOREM EngineInvariant == Spec => []EngineIInv
<1>1. EngineIInv /\ [Next]_vars => EngineIInv'
  <2> SUFFICES ASSUME EngineIInv, [Next]_vars PROVE EngineIInv'
    OBVIOUS
  <2>1. /\ EngineTypes /\ TargetsCounted /\ BurstsCounted /\ SourceWhole /\ SendersWhole /\ AllTransmitted
        /\ RepliesCounted /\ ErrorsKept /\ OutcomeNamed
    BY DEF EngineIInv
  <2>2. EngineTypes' /\ TargetsCounted' /\ BurstsCounted' /\ SourceWhole' /\ SendersWhole'
    BY <2>1, TypesStep, TargetsStep, BurstsStep, SourceStep, SendersStep
  <2>3. AllTransmitted' /\ RepliesCounted' /\ ErrorsKept' /\ OutcomeNamed'
    BY <2>1, TransmittedStep, RepliesStep, ErrorsStep, OutcomeStep
  <2> QED
    BY <2>2, <2>3 DEF EngineIInv
<1> QED
  BY <1>1, EngineInitIInv, PTL DEF Spec

\* An engine that is done has counted every frame.
LEMMA CountedInTheEnd ==
  ASSUME EngineIInv, outcome \in {"Completed", "Cancelled"}
  PROVE  sent = transmitted
<1>1. EngineTypes /\ AllTransmitted /\ OutcomeNamed /\ BurstsCounted
  BY DEF EngineIInv
<1>2. phase = "ok" /\ \A w \in Worker : sender[w] = "ok"
  BY <1>1 DEF OutcomeNamed, AllTransmitted
<1>3. \A w \in Worker : inBurst[w] = 0
  BY <1>1, <1>2 DEF BurstsCounted, InBurst, EngineTypes
<1>4. InBursts = 0
  BY <1>3, SumOverZero, EngineAssumption DEF InBursts
<1> QED
  BY <1>1, <1>4 DEF BurstsCounted, EngineTypes

\* What is generated is transmitted or on its way; a scan that is called completed
\* has met its plan, sent all of it and delivered every reply; no error is hidden.
THEOREM EngineCompletes == Spec => []CompletedIsWhole
<1>1. EngineIInv => CompletedIsWhole
  <2> SUFFICES ASSUME EngineIInv PROVE CompletedIsWhole
    OBVIOUS
  <2>1. /\ EngineTypes /\ TargetsCounted /\ AllTransmitted
        /\ RepliesCounted /\ ErrorsKept /\ OutcomeNamed
    BY DEF EngineIInv
  <2>2. ASSUME outcome \in {"Completed", "Cancelled"}
        PROVE  errors = 0 /\ \A w \in Worker : receiver[w] = "ok"
    <3>1. phase = "ok"
      BY <2>1, <2>2 DEF OutcomeNamed
    <3>2. \A w \in Worker : receiver[w] = "ok" /\ sender[w] = "ok"
      BY <2>1, <3>1 DEF ErrorsKept, AllTransmitted
    <3>3. ~(errors > 0) /\ errors \in Nat
      BY <2>1, <3>2 DEF ErrorsKept, Stopped, EngineTypes
    <3> QED
      BY <3>2, <3>3
  <2>3. ASSUME outcome = "Completed"
        PROVE  generated = Planned /\ sent = generated /\ delivered = replies
    <3>1. phase = "ok" /\ ~cancelled /\ forward = "end"
      BY <2>1, <2>3 DEF OutcomeNamed
    <3>2. generated = Planned /\ txq = <<>> /\ \A w \in Worker : left[w] = 0
      BY <2>1, <2>2, <2>3, <3>1 DEF AllTransmitted
    <3>3. InTxq = 0 /\ InSenders = 0
      BY <2>1, <3>2, TotalEmpty, SumOverZero, EngineAssumption DEF InTxq, InSenders, EngineTypes
    <3>4. sent = generated
      BY <2>1, <2>3, <3>3, CountedInTheEnd DEF TargetsCounted, EngineTypes
    <3>5. Pushing = {} /\ InForward = 0 /\ results = 0
      BY <2>1, <3>1 DEF RepliesCounted, InForward, Pushing, Gone
    <3>6. Cardinality(Pushing) = 0
      BY <3>5, FS_EmptySet
    <3>7. delivered = replies
      BY <2>1, <3>1, <3>5, <3>6 DEF RepliesCounted, EngineTypes
    <3> QED
      BY <3>2, <3>4, <3>7
  <2> QED
    BY <2>1, <2>2, <2>3 DEF CompletedIsWhole, TargetsCounted
<1> QED
  BY <1>1, EngineInvariant, PTL

\* The counter of frames sent is exact for a scan that completed or was cancelled,
\* and for one that failed it misses at most a burst of each aborted sender.
THEOREM EngineCounts == Spec => []CountFollowsWire
<1>1. EngineIInv => CountFollowsWire
  BY CountedInTheEnd DEF CountFollowsWire, EngineIInv, BurstsCounted, InBurst
<1> QED
  BY <1>1, EngineInvariant, PTL
=============================================================================
