------------------------------- MODULE Session -------------------------------
(***************************************************************************)
(* A probing session of the scan crate (scan/src/session.rs): the task     *)
(* that owns the alias Detector, keeps count of the probes on the wire and *)
(* turns replies, tests and deadlines into feedback for the model.         *)
(*                                                                         *)
(* The session talks to the engine's sender and receiver tasks through     *)
(* three bounded channels:                                                 *)
(*     txq      batches to transmit        session -> senders              *)
(*     ackq     batches transmitted        senders -> session              *)
(*     results  replies                    receivers -> session            *)
(* next() is one pass of the session: pump (alias tests, then the outbox), *)
(* then one event.  Its parts are steps of their own, in the order of the  *)
(* code, because the senders and receivers run between them.  Between two  *)
(* passes the caller may submit targets, or have addresses considered.     *)
(*                                                                         *)
(* A batch is a sequence of discovery targets or the three samples of an   *)
(* alias test; a test's id is its prefix, which is tested only once.       *)
(* Deadlines are in the order of the acknowledgements, so that "the first  *)
(* deadline has passed" may become true at any time.                       *)
(***************************************************************************)
EXTENDS Detector, SeqUtil

CONSTANTS
  Sender,        \* sender tasks
  NoPrefix,      \* the prefix field of a discovery batch
  Batches,       \* the batches of targets a caller may submit
  Asked,         \* addresses a caller may have considered, unprobed
  MaxSubmit,     \* how often one target may be submitted
  MaxInFlight,   \* max_in_flight
  TxCap, AckCap, ResultCap,   \* capacities of the channels
  DrainMax,      \* replies handled in one drain (4096)
  MaxReplies,    \* bound: replies delivered in a behaviour
  Faults         \* whether the engine may fail

ASSUME SessionAssumption ==
  /\ NoPrefix \notin Prefix
  /\ IsFiniteSet(Sender)
  /\ Batches \subseteq Seq(Addr) \ {<<>>}
  /\ Asked \subseteq Addr
  /\ {MaxSubmit, MaxInFlight, MaxReplies} \subseteq Nat
  /\ {TxCap, AckCap, ResultCap, DrainMax} \subseteq Nat \ {0}
  /\ Depth > 0 => MaxInFlight >= 3
  /\ Faults \in BOOLEAN

VARIABLES
  pc,            \* where the session's task is
  resolving,     \* addresses next() is about to consider, before all else
  probes,        \* Session.pending: the copies, and what is known, of a target
  waiting,       \* waiting[p]: addresses waiting for the test of p
  waitingCount,
  outbox,        \* batches not yet in txq
  deadlines,     \* acknowledged batches, the earliest deadline first
  tests,         \* alias tests submitted and not expired
  wire,          \* probes submitted and not expired
  sent, aliasSent,
  dirty,         \* the pump has pushed feedback
  drained,       \* replies handled by the current drain
  granted        \* targets the caller has been promised room for

svars == <<pc, resolving, probes, waiting, waitingCount, outbox, deadlines, tests,
           wire, sent, aliasSent, dirty, drained, granted>>

VARIABLES
  txq, ackq, results,   \* the channels
  sending,              \* the batch each sender has transmitted, unacknowledged
  onAir,                \* batches transmitted: their probes may be answered
  delivered,            \* replies delivered so far
  statsSent,            \* the engine's count of probes transmitted
  up                    \* the engine has not failed

evars == <<txq, ackq, results, sending, onAir, delivered, statsSent, up>>

VARIABLES
  submitted,     \* history: how often each target was submitted or considered
  told,          \* history: the feedback about each address, in order
  announced,     \* history: prefixes announced as aliased
  due,           \* history: targets with a direct reply queued at the deadline
  records        \* history: the records written about each target

hvars == <<submitted, told, announced, due, records>>

vars == <<dvars, svars, evars, hvars>>

-----------------------------------------------------------------------------
(* Batches and replies.                                                    *)

Discovery(targets) == [purpose |-> "Discovery", targets |-> targets, test |-> NoPrefix]
AliasTest(p)       == [purpose |-> "Alias", targets |-> <<>>, test |-> p]
NoBatch            == Discovery(<<>>)

Size(batch) == IF batch.purpose = "Alias" THEN 3 ELSE Len(batch.targets)

Targets(batch)   == {batch.targets[i] : i \in DOMAIN batch.targets}
Copies(batch, a) == Occurrences(batch.targets, a)

\* The targets that are not aliased by now.
Unaliased(targets) == Outside(targets, aliases)

\* The replies that a transmitted batch may cause.
Answers(batch) ==
  IF batch.purpose = "Alias"
  THEN {[purpose |-> "Alias", test |-> batch.test, slot |-> s, direct |-> TRUE] : s \in Slot}
  ELSE {[purpose |-> "Discovery", target |-> a, direct |-> d] :
          a \in Targets(batch), d \in BOOLEAN}

\* A target that is not pending.
NoProbe == [copies |-> 0, active |-> FALSE, responded |-> FALSE, reported |-> FALSE]

\* Session.pending once the copies of a batch are gone, save those of the kept.
Without(batch, kept) ==
  [a \in Addr |->
    LET left == probes[a].copies - IF a \in kept THEN 0 ELSE Copies(batch, a)
    IN  IF left = 0 THEN NoProbe ELSE [probes[a] EXCEPT !.copies = left]]

\* "waiting" once the tests of ps are resolved.
StillWaiting_Kept(ps) == waiting
StillWaiting(ps) == [p \in Prefix |-> IF p \in ps THEN {} ELSE waiting[p]]

Quiet    == resolving = {} /\ discovered = {}
Capacity == IF MaxInFlight > wire + waitingCount THEN MaxInFlight - wire - waitingCount ELSE 0
Settled_Unawaited == wire = 0 /\ outbox = <<>>
Settled  == wire = 0 /\ outbox = <<>> /\ \A p \in Prefix : waiting[p] = {}

-----------------------------------------------------------------------------
SessionInit ==
  /\ DetectorInit
  /\ pc = "caller" /\ resolving = {}
  /\ probes = [a \in Addr |-> NoProbe]
  /\ waiting = [p \in Prefix |-> {}] /\ waitingCount = 0
  /\ outbox = <<>> /\ deadlines = <<>> /\ tests = {}
  /\ wire = 0 /\ sent = 0 /\ aliasSent = 0
  /\ dirty = FALSE /\ drained = 0 /\ granted = 0
  /\ txq = <<>> /\ ackq = <<>> /\ results = <<>>
  /\ sending = [s \in Sender |-> NoBatch]
  /\ onAir = {} /\ delivered = 0 /\ statsSent = 0 /\ up = TRUE
  /\ submitted = [a \in Addr |-> 0]
  /\ told = [a \in Addr |-> <<>>]
  /\ announced = {} /\ due = {}
  /\ records = [a \in Addr |-> {}]

-----------------------------------------------------------------------------
(* The verdict on one address.                                             *)

\* report(): unless the feedback on a pending target was already given.
Report(a, kind) ==
  IF probes[a].copies > 0 /\ probes[a].reported
  THEN UNCHANGED <<probes, told>>
  ELSE /\ told' = [told EXCEPT ![a] = Append(@, kind)]
       /\ probes' = [probes EXCEPT ![a].reported = probes[a].copies > 0]

\* consider(): ask the detector; report its verdict or wait for the test.
Verdict(a) ==
  /\ Consider(a)
  /\ \/ /\ Aliased(a)
        /\ Report(a, "Skipped")
        /\ UNCHANGED <<waiting, waitingCount>>
     \/ /\ NotDetected(a)
        /\ Report(a, "Active")
        /\ UNCHANGED <<waiting, waitingCount>>
     \/ \E l \in Level :
        /\ Waits(a, l)
        /\ waiting' = [waiting EXCEPT ![PrefixAt[a][l]] = @ \cup {a}]
        /\ waitingCount' = IF a \in waiting[PrefixAt[a][l]] THEN waitingCount
                                                            ELSE waitingCount + 1
        /\ UNCHANGED <<probes, told>>

\* The addresses that resolve() took from "waiting", or the one a reply came
\* from, are considered one after the other, in any order.
ConsiderNext ==
  /\ discovered = {}
  /\ \E a \in resolving : Verdict(a) /\ resolving' = resolving \ {a}
  /\ UNCHANGED <<pc, outbox, deadlines, tests, wire, sent, aliasSent, dirty, drained,
                 granted, evars, submitted, announced, due, records>>

\* publish_aliases(): announce a new alias and resolve what waited for it.
PublishAliases ==
  /\ discovered # {}
  /\ TakeAliases
  /\ announced' = announced \cup discovered
  /\ resolving' = resolving \cup UNION {waiting[p] : p \in discovered}
  /\ waiting' = StillWaiting(discovered)
  /\ waitingCount' = waitingCount - Cardinality(UNION {waiting[p] : p \in discovered})
  /\ UNCHANGED <<pc, probes, outbox, deadlines, tests, wire, sent, aliasSent, dirty,
                 drained, granted, evars, submitted, told, due, records>>

-----------------------------------------------------------------------------
(* The caller.                                                             *)

\* The caller reads the room left, and starts to produce that many targets.
Plan ==
  /\ pc = "caller" /\ Quiet /\ granted = 0
  /\ \E b \in Batches : \A a \in Targets(Discovery(b)) : submitted[a] < MaxSubmit
  /\ granted' = Capacity
  /\ granted' > 0
  /\ UNCHANGED <<dvars, pc, resolving, probes, waiting, waitingCount, outbox, deadlines,
                 tests, wire, sent, aliasSent, dirty, drained, evars, hvars>>

\* The model wrote no target, or the candidate filter kept none.
Decline ==
  /\ pc \in {"caller", "select"} /\ Quiet /\ granted > 0
  /\ pc' = "caller" /\ granted' = 0
  /\ UNCHANGED <<dvars, resolving, probes, waiting, waitingCount, outbox, deadlines, tests,
                 wire, sent, aliasSent, dirty, drained, evars, hvars>>

\* submit(): the targets are ready, which interrupts a next() that waits.
Submit(b) ==
  /\ pc \in {"caller", "select"} /\ Quiet /\ Len(b) <= granted
  /\ \A a \in Targets(Discovery(b)) : submitted[a] + Copies(Discovery(b), a) <= MaxSubmit
  /\ LET accepted == Unaliased(b)
         batch == Discovery(accepted)
     IN  /\ probes' = [a \in Addr |-> [probes[a] EXCEPT !.copies = @ + Copies(batch, a)]]
         /\ wire' = wire + Len(accepted)
         /\ outbox' = IF accepted = <<>> THEN outbox ELSE Append(outbox, batch)
  /\ told' = [a \in Addr |-> IF a \in aliases
                             THEN told[a] \o [i \in 1..Copies(Discovery(b), a) |-> "Skipped"]
                             ELSE told[a]]
  /\ submitted' = [a \in Addr |-> submitted[a] + Copies(Discovery(b), a)]
  /\ pc' = "caller" /\ granted' = 0
  /\ UNCHANGED <<dvars, resolving, waiting, waitingCount, deadlines, tests, sent, aliasSent,
                 dirty, drained, evars, announced, due, records>>

\* consider(), from the address filter of dealias::run.
Ask(a) ==
  /\ pc \in {"caller", "select"} /\ Quiet /\ Capacity > 0
  /\ submitted[a] < MaxSubmit
  /\ resolving' = {a}
  /\ submitted' = [submitted EXCEPT ![a] = @ + 1]
  /\ pc' = "caller"
  /\ UNCHANGED <<dvars, probes, waiting, waitingCount, outbox, deadlines, tests, wire, sent,
                 aliasSent, dirty, drained, granted, evars, told, announced, due, records>>

\* next() begins; the caller has taken the feedback so far, and has targets in
\* the making, addresses to come, or probes and tests to wait for.
CallNext ==
  /\ pc = "caller" /\ Quiet
  /\ granted > 0 \/ ~Settled \/ \E a \in Asked : submitted[a] < MaxSubmit
  /\ pc' = "pump" /\ dirty' = FALSE
  /\ UNCHANGED <<dvars, resolving, probes, waiting, waitingCount, outbox, deadlines, tests,
                 wire, sent, aliasSent, drained, granted, evars, hvars>>

\* finish(): the caller stops once all is settled; the senders end and the
\* engine's count of transmitted probes must be the session's.
FinishSession ==
  /\ pc = "caller" /\ Quiet /\ Settled /\ granted = 0
  /\ pc' = IF up /\ statsSent = sent + aliasSent THEN "finished" ELSE "failed"
  /\ UNCHANGED <<dvars, resolving, probes, waiting, waitingCount, outbox, deadlines, tests,
                 wire, sent, aliasSent, dirty, drained, granted, evars, hvars>>

-----------------------------------------------------------------------------
(* next(): the pump.                                                       *)

\* As long as three more probes fit, alias tests go before everything else.
PumpTest ==
  /\ pc = "pump" /\ wire + 3 <= MaxInFlight /\ queue # <<>>
  /\ NextTest
  /\ LET handed == samples' \ samples
     IN  /\ tests' = tests \cup handed
         /\ wire' = wire + 3 * Cardinality(handed)
         /\ outbox' = IF handed = {} THEN outbox
                      ELSE <<AliasTest(CHOOSE p \in handed : TRUE)>> \o outbox
  /\ UNCHANGED <<pc, resolving, probes, waiting, waitingCount, deadlines, sent, aliasSent,
                 dirty, drained, granted, evars, hvars>>

PumpTested ==
  /\ pc = "pump" /\ (wire + 3 > MaxInFlight \/ queue = <<>>)
  /\ pc' = "flush"
  /\ UNCHANGED <<dvars, resolving, probes, waiting, waitingCount, outbox, deadlines, tests,
                 wire, sent, aliasSent, dirty, drained, granted, evars, hvars>>

\* A batch that txq has no room for goes back to the front of the outbox.
Requeued_Lost(rest) == Tail(outbox)
Requeued(rest) == <<rest>> \o Tail(outbox)

\* The first batch of the outbox loses the targets that are aliased by now;
\* what is left goes to txq, or back when txq is full.
PumpBatch ==
  /\ pc = "flush" /\ outbox # <<>>
  /\ LET batch == Head(outbox)
         kept  == Unaliased(batch.targets)
         gone  == {a \in Targets(batch) : a \in aliases}
         rest  == [batch EXCEPT !.targets = kept]
         full  == Size(rest) > 0 /\ Len(txq) >= TxCap
     IN  /\ wire' = wire - (Len(batch.targets) - Len(kept))
         /\ told' = [a \in Addr |-> IF a \in gone /\ ~probes[a].reported
                                    THEN Append(told[a], "Skipped") ELSE told[a]]
         /\ probes' = [a \in Addr |-> IF a \in gone
                         THEN [Without(batch, Addr \ gone)[a]
                                 EXCEPT !.reported = probes[a].copies > Copies(batch, a)]
                         ELSE probes[a]]
         /\ dirty' = (dirty \/ told' # told)
         /\ IF Size(rest) = 0
            THEN outbox' = Tail(outbox) /\ UNCHANGED <<pc, txq>>
            ELSE IF ~up
            THEN pc' = "failed" /\ outbox' = Tail(outbox) /\ UNCHANGED txq
            ELSE IF full
            THEN /\ outbox' = Requeued(rest)
                 /\ pc' = IF dirty' THEN "return" ELSE "select"
                 /\ UNCHANGED txq
            ELSE outbox' = Tail(outbox) /\ txq' = Append(txq, rest) /\ UNCHANGED pc
  /\ UNCHANGED <<dvars, resolving, waiting, waitingCount, deadlines, tests, sent, aliasSent,
                 drained, granted, ackq, results, sending, onAir, delivered, statsSent, up,
                 submitted, announced, due, records>>

PumpDone ==
  /\ pc = "flush" /\ outbox = <<>>
  /\ pc' = IF dirty THEN "return" ELSE "select"
  /\ UNCHANGED <<dvars, resolving, probes, waiting, waitingCount, outbox, deadlines, tests,
                 wire, sent, aliasSent, dirty, drained, granted, evars, hvars>>

-----------------------------------------------------------------------------
(* next(): one event.                                                      *)

\* A sample's reply counts for its test while its test is on.
SampleReply_Single(reply) ==
  /\ aliases' = aliases \cup Members(reply.test)
  /\ UNCHANGED <<complete, pending, replies, queue, samples, discovered>>
SampleReply(reply) ==
  IF reply.test \in samples THEN Reply(reply.test, reply.slot) ELSE UNCHANGED dvars

\* reply(): a sample counts for its test; the first direct reply of a pending
\* target has the target considered.
HandleReply(reply) ==
  IF reply.purpose = "Alias"
  THEN /\ SampleReply(reply)
       /\ UNCHANGED <<probes, resolving, records>>
  ELSE /\ LET a == reply.target
              found == reply.direct /\ ~probes[a].active
          IN  IF probes[a].copies = 0
              THEN UNCHANGED <<probes, resolving, records>>
              ELSE /\ probes' = [probes EXCEPT ![a].responded = TRUE,
                                               ![a].active = @ \/ found]
                   /\ resolving' = IF found THEN {a} ELSE {}
                   /\ records' = [records EXCEPT ![a] = @ \cup {"reply"}]
       /\ UNCHANGED dvars

RecvReply ==
  /\ pc = "select" /\ results # <<>>
  /\ HandleReply(Head(results))
  /\ results' = Tail(results)
  /\ pc' = "drain" /\ drained' = 0
  /\ UNCHANGED <<waiting, waitingCount, outbox, deadlines, tests, wire, sent, aliasSent,
                 dirty, granted, txq, ackq, sending, onAir, delivered, statsSent, up,
                 submitted, told, announced, due>>

\* drain_replies(): one more of the queued replies.
DrainReply ==
  /\ pc \in {"drain", "timeout"} /\ Quiet /\ results # <<>> /\ drained < DrainMax
  /\ HandleReply(Head(results))
  /\ results' = Tail(results)
  /\ drained' = drained + 1
  /\ UNCHANGED <<pc, waiting, waitingCount, outbox, deadlines, tests, wire, sent, aliasSent,
                 dirty, granted, txq, ackq, sending, onAir, delivered, statsSent, up,
                 submitted, told, announced, due>>

\* ... and its end: only an emptied queue lets a deadline expire anything.
Emptied_Inverted == results # <<>> /\ drained = DrainMax
Emptied_Anyway == TRUE
Emptied == results = <<>> /\ drained < DrainMax

DrainEnd ==
  /\ pc \in {"drain", "timeout"} /\ Quiet
  /\ Emptied \/ results = <<>> \/ drained = DrainMax
  /\ pc' = IF pc = "timeout" /\ Emptied THEN "expire" ELSE "return"
  /\ drained' = 0
  /\ UNCHANGED <<dvars, resolving, probes, waiting, waitingCount, outbox, deadlines, tests,
                 wire, sent, aliasSent, dirty, granted, evars, hvars>>

\* A batch was transmitted: its deadline starts.
Count(batch) ==
  IF batch.purpose = "Alias"
  THEN aliasSent' = aliasSent + Size(batch) /\ UNCHANGED sent
  ELSE sent' = sent + Size(batch) /\ UNCHANGED aliasSent

RecvAck ==
  /\ pc = "select" /\ ackq # <<>>
  /\ Count(Head(ackq))
  /\ deadlines' = Append(deadlines, Head(ackq))
  /\ ackq' = Tail(ackq)
  /\ pc' = "return"
  /\ UNCHANGED <<dvars, resolving, probes, waiting, waitingCount, outbox, tests, wire, dirty,
                 drained, granted, txq, results, sending, onAir, delivered, statsSent, up,
                 hvars>>

\* The first deadline passes.
Deadline ==
  /\ pc = "select" /\ deadlines # <<>>
  /\ pc' = "timeout" /\ drained' = 0
  /\ due' = {results[i].target : i \in
               {j \in DOMAIN results : results[j].purpose = "Discovery" /\ results[j].direct}}
  /\ UNCHANGED <<dvars, resolving, probes, waiting, waitingCount, outbox, deadlines, tests,
                 wire, sent, aliasSent, dirty, granted, evars, submitted, told, announced,
                 records>>

\* The outbox is retried after a millisecond.
RetryOutbox ==
  /\ pc = "select" /\ outbox # <<>>
  /\ pc' = "return"
  /\ UNCHANGED <<dvars, resolving, probes, waiting, waitingCount, outbox, deadlines, tests,
                 wire, sent, aliasSent, dirty, drained, granted, evars, hvars>>

\* The engine has ended: no replies and no acknowledgements will come.
EngineLost ==
  /\ pc = "select" /\ ~up /\ (results = <<>> \/ ackq = <<>>)
  /\ pc' = "failed"
  /\ UNCHANGED <<dvars, resolving, probes, waiting, waitingCount, outbox, deadlines, tests,
                 wire, sent, aliasSent, dirty, drained, granted, evars, hvars>>

\* next() returns.
Return ==
  /\ pc = "return" /\ Quiet
  /\ pc' = "caller"
  /\ UNCHANGED <<dvars, resolving, probes, waiting, waitingCount, outbox, deadlines, tests,
                 wire, sent, aliasSent, dirty, drained, granted, evars, hvars>>

-----------------------------------------------------------------------------
(* next(): expire(), one batch whose deadline has passed per step.         *)

\* The next batch is due as well, or not yet.
ExpireNext == pc' \in {"return"} \cup (IF Len(deadlines) > 1 THEN {"expire"} ELSE {})

\* A test is over: what waited for it is resolved.
ExpireTest ==
  /\ pc = "expire" /\ Quiet
  /\ Head(deadlines).purpose = "Alias"
  /\ LET p == Head(deadlines).test
     IN  /\ Finish(p)
         /\ tests' = tests \ {p}
         /\ resolving' = waiting[p]
         /\ waiting' = StillWaiting({p})
         /\ waitingCount' = waitingCount - Cardinality(waiting[p])
  /\ deadlines' = Tail(deadlines)
  /\ wire' = wire - 3
  /\ ExpireNext
  /\ UNCHANGED <<probes, outbox, sent, aliasSent, dirty, drained, granted, evars, hvars>>

\* A target that expires without a verdict, or without any reply.
Unjudged_Active(a) == ~probes[a].reported
Unjudged(a) == ~probes[a].active /\ ~probes[a].reported
Silent(a) == ~probes[a].responded

\* Targets whose last copy expires without a reply are inactive, or skipped if
\* they were aliased meanwhile.
ExpireTargets ==
  /\ pc = "expire" /\ Quiet
  /\ Head(deadlines).purpose = "Discovery"
  /\ LET batch == Head(deadlines)
         last  == {a \in Targets(batch) : probes[a].copies = Copies(batch, a)}
     IN  /\ probes' = Without(batch, {})
         /\ wire' = wire - Size(batch)
         /\ told' = [a \in Addr |->
                      IF a \in last /\ Unjudged(a)
                      THEN Append(told[a], IF a \in aliases THEN "Skipped" ELSE "Inactive")
                      ELSE told[a]]
         /\ records' = [a \in Addr |-> IF a \in last /\ Silent(a)
                                       THEN records[a] \cup {"timeout"} ELSE records[a]]
  /\ deadlines' = Tail(deadlines)
  /\ ExpireNext
  /\ UNCHANGED <<dvars, resolving, waiting, waitingCount, outbox, tests, sent, aliasSent,
                 dirty, drained, granted, evars, submitted, announced, due>>

-----------------------------------------------------------------------------
(* The engine, as far as the session sees it.                              *)

\* A sender transmits the probes of the next batch ...
SendBatch(s) ==
  /\ up /\ sending[s] = NoBatch /\ txq # <<>>
  /\ sending' = [sending EXCEPT ![s] = Head(txq)]
  /\ txq' = Tail(txq)
  /\ onAir' = onAir \cup {Head(txq)}
  /\ statsSent' = statsSent + Size(Head(txq))
  /\ UNCHANGED <<dvars, svars, ackq, results, delivered, up, hvars>>

\* ... and acknowledges it.
Acknowledge(s) ==
  /\ up /\ sending[s] # NoBatch /\ Len(ackq) < AckCap
  /\ ackq' = Append(ackq, sending[s])
  /\ sending' = [sending EXCEPT ![s] = NoBatch]
  /\ UNCHANGED <<dvars, svars, txq, results, onAir, delivered, statsSent, up, hvars>>

\* A reply arrives: late, twice, or from a router, but never unasked.
Deliver ==
  /\ up /\ delivered < MaxReplies /\ Len(results) < ResultCap
  /\ \E batch \in onAir : \E reply \in Answers(batch) : results' = Append(results, reply)
  /\ delivered' = delivered + 1
  /\ UNCHANGED <<dvars, svars, txq, ackq, sending, onAir, statsSent, up, hvars>>

\* A sender or a receiver fails, which ends them all; queued batches are lost.
EngineFails ==
  /\ Faults /\ up /\ pc # "finished"
  /\ up' = FALSE
  /\ txq' = <<>> /\ sending' = [s \in Sender |-> NoBatch]
  /\ UNCHANGED <<dvars, svars, ackq, results, onAir, delivered, statsSent, hvars>>

-----------------------------------------------------------------------------
Ended == pc \in {"finished", "failed"} /\ UNCHANGED vars

Pump  == PumpTest \/ PumpTested \/ PumpBatch \/ PumpDone
Event == RecvReply \/ RecvAck \/ Deadline \/ RetryOutbox \/ EngineLost
Handle == ConsiderNext \/ PublishAliases \/ DrainReply \/ DrainEnd \/ ExpireTest
            \/ ExpireTargets \/ Return
Caller == Plan \/ Decline \/ (\E b \in Batches : Submit(b)) \/ (\E a \in Asked : Ask(a))
            \/ CallNext \/ FinishSession
Engine == (\E s \in Sender : SendBatch(s) \/ Acknowledge(s)) \/ Deliver \/ EngineFails

SessionNext == Pump \/ Event \/ Handle \/ Caller \/ Engine \/ Ended

SessionSpec == SessionInit /\ [][SessionNext]_vars

\* The session's task and the senders run whenever they can; the caller keeps
\* calling next(), gets its targets or none, and ends when all is settled.
\* select! picks among its ready branches at random, so that one that is ready
\* again and again is taken: strong fairness for the events.
SessionFairness ==
  /\ WF_vars(Pump) /\ WF_vars(Handle) /\ SF_vars(EngineLost)
  /\ SF_vars(RecvReply) /\ SF_vars(RecvAck) /\ SF_vars(Deadline)
  /\ WF_vars(CallNext) /\ SF_vars(FinishSession)
  /\ SF_vars(Decline)
  /\ \A s \in Sender : WF_vars(SendBatch(s)) /\ WF_vars(Acknowledge(s))

SessionFairSpec == SessionSpec /\ SessionFairness

-----------------------------------------------------------------------------
(* Properties.                                                             *)

\* The batches submitted and not expired, unless the engine lost some.
Senders     == CHOOSE f \in [1..Cardinality(Sender) -> Sender] :
                 \A i, j \in DOMAIN f : f[i] = f[j] => i = j
Held        == [i \in 1..Cardinality(Sender) |-> sending[Senders[i]]]
Outstanding == outbox \o txq \o ackq \o deadlines \o Held

Sizes(batches)        == [i \in DOMAIN batches |-> Size(batches[i])]
TargetCounts(batches) == [i \in DOMAIN batches |-> Len(batches[i].targets)]
CopiesIn(batches, a)  == [i \in DOMAIN batches |-> Copies(batches[i], a)]

\* While the engine works, "wire" and the copies of every target count exactly
\* the probes that are queued, being sent, or waiting for their deadline: no
\* path through the outbox, a full txq or an expiry loses or doubles one.  So
\* the targets on the wire stay within max_in_flight, and the session's counts
\* never disagree with the engine's: it fails only if the engine did.
EveryProbeCounted ==
  /\ up => /\ wire = Total(Sizes(Outstanding))
           /\ \A a \in Addr : probes[a].copies = Total(CopiesIn(Outstanding, a))
  /\ Total(TargetCounts(Outstanding)) <= MaxInFlight
  /\ pc = "failed" => ~up

\* An address only ever waits for a test that is still to end, and that can
\* still decide about it; and every such test is queued once, or handed out.
WaitersServed ==
  /\ EveryTestHeld
  /\ \A p \in Prefix : waiting[p] # {} => p \in pending
  /\ discovered = {} => \A p \in Prefix : waiting[p] \subseteq Members(p) \ aliases
  /\ tests = samples
  /\ waitingCount = Cardinality({w \in Prefix \X Addr : w[2] \in waiting[w[1]]})

\* The model gets at most one verdict per submission of a target.
OneVerdict == \A a \in Addr : Len(told[a]) <= submitted[a]

\* When the session calls itself settled, every target has had its verdict, no
\* test is open, no target is pending, and every probe was acknowledged.
SettledIsComplete ==
  (pc = "caller" /\ Quiet /\ Settled) =>
    /\ \A a \in Addr : submitted[a] > 0 => told[a] # <<>>
    /\ pending = {} /\ tests = {} /\ waitingCount = 0
    /\ \A a \in Addr : probes[a] = NoProbe
    /\ up => statsSent = sent + aliasSent

\* A target is not declared inactive when its reply was there at the deadline.
RepliesBeatDeadlines ==
  [][\A a \in due : told'[a] # Append(told[a], "Inactive")]_vars

\* All probes on the wire, those of alias tests too, stay within max_in_flight.
ProbesWithinMax == wire <= MaxInFlight

\* The session comes to an end, whatever the order of replies and deadlines.
SessionEnds == <>(pc \in {"finished", "failed"})

-----------------------------------------------------------------------------
(* What the model sees of a session that probes no target twice.           *)

VerdictOn(a) ==
  IF Len(told[a]) = 0 THEN IF submitted[a] > 0 THEN "asked" ELSE "none"
  ELSE IF Len(told[a]) = 1 THEN told[a][1] ELSE "contradicted"

Promise == INSTANCE Feedback WITH
  verdict <- [a \in Addr |-> VerdictOn(a)],
  covered <- InitAliases \cup UNION {Members(p) : p \in announced}

\* The session implements Feedback: from the model's side there is one verdict
\* per target, and it agrees with the aliases announced before and after it.
KeepsPromise == Promise!Spec
=============================================================================
