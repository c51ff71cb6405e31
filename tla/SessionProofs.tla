--------------------------- MODULE SessionProofs ---------------------------
(* Theorems about Session and the detector it extends, for every address    *)
(* space, set of prefix lengths, number of senders and capacity of the      *)
(* channels.  The invariants come in layers; the proof of each uses the     *)
(* ones before it.                                                          *)
EXTENDS Session, Facts, TLAPS

---------------------------------------------------------------------------
(* The detector, for every address space and every set of prefix lengths.   *)

\* The inductive invariant: besides the types, that no test is lost, that the
\* tests of an address run from its shortest prefix to its longest, and that
\* no queued prefix is covered.
DetectorIInv ==
  /\ DetectorTypeOK
  /\ EveryTestHeld
  /\ CoarseFirst
  /\ NeverRetested
  /\ QueuedUncovered

-----------------------------------------------------------------------------
(* Lemmas on one step.                                                      *)

\* What consider() adds: the prefix of an unaliased address whose shorter
\* prefixes have all been tested.
LEMMA NewTestFacts ==
  ASSUME NEW a \in Addr, NEW p \in NewTest(a)
  PROVE  /\ p \in Prefix \ (pending \cup complete)
         /\ ~Covered(p)
         /\ \E l \in Level : /\ p = PrefixAt[a][l]
                             /\ \A m \in 1..(l - 1) : PrefixAt[a][m] \in complete
  BY PrefixAssumption DEF NewTest, Waits, Covered, Members

\* No queued prefix is covered, so next_test() hands out the front of the queue.
LEMMA NextTestTakesFront ==
  ASSUME DetectorTypeOK, QueuedUncovered, NextTest
  PROVE  /\ pending' = pending
         /\ \/ queue = <<>> /\ queue' = <<>> /\ samples' = samples
            \/ queue # <<>> /\ queue' = Tail(queue)
                            /\ samples' = samples \cup {queue[1]}
         /\ UNCHANGED <<aliases, complete, replies, discovered>>
<1>1. PICK k \in 1..(Len(queue) + 1) :
         /\ \A i \in 1..(k - 1) : Covered(queue[i])
         /\ queue' = SubSeq(queue, k + 1, Len(queue))
         /\ pending' = pending \ {queue[i] : i \in 1..(k - 1)}
         /\ samples' = samples \cup {queue[i] : i \in {k} \cap DOMAIN queue}
         /\ UNCHANGED <<aliases, complete, replies, discovered>>
  BY DEF NextTest
<1>2. k = 1
  BY <1>1 DEF DetectorTypeOK, QueuedUncovered
<1>3. CASE queue = <<>>
  BY <1>1, <1>2, <1>3
<1>4. CASE queue # <<>>
  BY <1>1, <1>2, <1>4 DEF DetectorTypeOK
<1> QED
  BY <1>3, <1>4

\* Two prefixes of one address are never pending together.
LEMMA OnePendingPrefix ==
  ASSUME CoarseFirst, NEW a \in Addr, NEW l \in Level, NEW m \in Level,
         PrefixAt[a][l] \in pending, PrefixAt[a][m] \in pending
  PROVE  l = m
<1>1. CASE l < m
  BY <1>1, PrefixAssumption DEF CoarseFirst, Level
<1>2. CASE m < l
  BY <1>2, PrefixAssumption DEF CoarseFirst, Level
<1> QED
  BY <1>1, <1>2, PrefixAssumption DEF Level

\* The aliases that a reply to a test adds leave every other pending prefix
\* uncovered: an address of it lies in no other prefix under test.
LEMMA ReplyKeepsOthersUncovered ==
  ASSUME CoarseFirst, NEW p \in pending, NEW q \in pending, p # q, ~Covered(q)
  PROVE  ~(Members(q) \subseteq aliases \cup Members(p))
<1>1. PICK a \in Members(q) : a \notin aliases
  BY DEF Covered
<1>2. PICK l \in Level : PrefixAt[a][l] = q
  BY <1>1 DEF Members
<1>3. a \notin Members(p)
  BY <1>1, <1>2, OnePendingPrefix DEF Members
<1> QED
  BY <1>1, <1>3

\* next_test() keeps every test either queued or handed out.
LEMMA NextTestHolds ==
  ASSUME DetectorTypeOK, EveryTestHeld, queue # <<>>,
         queue' = Tail(queue), pending' = pending,
         samples' = samples \cup {queue[1]}
  PROVE  DetectorTypeOK /\ EveryTestHeld'
<1> USE DEF DetectorTypeOK, EveryTestHeld
<1>1. /\ Len(queue) \in Nat \ {0}
      /\ DOMAIN queue = 1..Len(queue)
      /\ DOMAIN queue' = 1..(Len(queue) - 1)
      /\ \A i \in DOMAIN queue' : queue'[i] = queue[i + 1]
  OBVIOUS
<1>2. \A p \in pending' : p \in samples' \/ \E i \in DOMAIN queue' : queue'[i] = p
  <2> SUFFICES ASSUME NEW p \in pending, p \notin samples, p # queue[1]
               PROVE  \E i \in DOMAIN queue' : queue'[i] = p
    BY <1>1
  <2>1. PICK i \in DOMAIN queue : queue[i] = p
    OBVIOUS
  <2>2. i - 1 \in DOMAIN queue' /\ queue'[i - 1] = p
    BY <1>1, <2>1
  <2> QED
    BY <2>2
<1>3. \A i \in DOMAIN queue' : queue'[i] \in pending' \ samples'
  BY <1>1
<1>4. \A i, j \in DOMAIN queue' : queue'[i] = queue'[j] => i = j
  BY <1>1
<1> QED
  BY <1>2, <1>3, <1>4

-----------------------------------------------------------------------------
(* The invariant.                                                           *)

\* Nothing is tested at first.
LEMMA DetectorInitIInv == DetectorInit => DetectorIInv
  BY PrefixAssumption DEF DetectorInit, DetectorIInv, DetectorTypeOK, EveryTestHeld,
     CoarseFirst, NeverRetested, QueuedUncovered

\* consider() queues a test only when its prefix is not covered, after the
\* coarser ones, and once.
LEMMA ConsiderIInv ==
  ASSUME DetectorIInv, NEW a \in Addr, Consider(a)
  PROVE  DetectorIInv'
<1> USE DEF DetectorIInv
<1>1. CASE NewTest(a) = {}
  BY <1>1 DEF Consider, DetectorTypeOK, EveryTestHeld, CoarseFirst, NeverRetested,
     QueuedUncovered, Covered
<1>2. CASE NewTest(a) # {}
  <2>1. PICK p \in NewTest(a) : /\ pending' = pending \cup {p}
                                /\ queue' = Append(queue, p)
    BY <1>2 DEF Consider
  <2>2. UNCHANGED <<aliases, complete, replies, samples, discovered>>
    BY DEF Consider
  <2>3. /\ p \in Prefix \ (pending \cup complete)
        /\ ~Covered(p)
    BY NewTestFacts
  <2>4. PICK l \in Level : /\ p = PrefixAt[a][l]
                           /\ \A m \in 1..(l - 1) : PrefixAt[a][m] \in complete
    BY NewTestFacts
  <2>5. DetectorTypeOK'
    BY <2>1, <2>2, <2>3 DEF DetectorTypeOK
  <2>6. /\ DOMAIN queue' = 1..(Len(queue) + 1)
        /\ DOMAIN queue = 1..Len(queue)
        /\ \A i \in DOMAIN queue : queue'[i] = queue[i]
        /\ queue'[Len(queue) + 1] = p
        /\ Len(queue) \in Nat
    BY <2>1, <2>3 DEF DetectorTypeOK
  <2>7. EveryTestHeld'
    BY <2>1, <2>2, <2>3, <2>6 DEF EveryTestHeld, DetectorTypeOK
  <2>8. CoarseFirst'
    <3> SUFFICES ASSUME NEW b \in Addr, NEW k \in Level, NEW m \in 1..(k - 1),
                        PrefixAt[b][k] \in pending' \cup complete
                 PROVE  PrefixAt[b][m] \in complete \ pending'
      BY <2>2 DEF CoarseFirst
    <3>1. m \in Level
      BY PrefixAssumption DEF Level
    <3>2. CASE PrefixAt[b][k] = p
      <4>1. k = l /\ PrefixAt[b][m] = PrefixAt[a][m]
        BY <2>4, <3>1, <3>2, PrefixAssumption DEF Level
      <4> QED
        BY <2>1, <2>3, <2>4, <4>1 DEF NeverRetested
    <3>3. CASE PrefixAt[b][k] # p
      BY <2>1, <2>3, <3>3 DEF CoarseFirst
    <3> QED
      BY <3>2, <3>3
  <2>9. NeverRetested'
    BY <2>1, <2>2, <2>3 DEF NeverRetested
  <2>10. QueuedUncovered'
    BY <2>2, <2>3, <2>6 DEF QueuedUncovered, Covered, Members
  <2> QED
    BY <2>5, <2>7, <2>8, <2>9, <2>10
<1> QED
  BY <1>1, <1>2

\* next_test() moves a test from the queue to the caller, and gives up covered
\* ones.
LEMMA NextTestIInv ==
  ASSUME DetectorIInv, NextTest
  PROVE  DetectorIInv'
<1> USE DEF DetectorIInv
<1>1. /\ pending' = pending
      /\ UNCHANGED <<aliases, complete, replies, discovered>>
  BY NextTestTakesFront
<1>2. CoarseFirst' /\ NeverRetested'
  BY <1>1 DEF CoarseFirst, NeverRetested
<1>3. CASE queue = <<>> /\ queue' = <<>> /\ samples' = samples
  BY <1>1, <1>2, <1>3 DEF DetectorTypeOK, EveryTestHeld, QueuedUncovered, Covered
<1>4. CASE queue # <<>> /\ queue' = Tail(queue) /\ samples' = samples \cup {queue[1]}
  <2>1. queue[1] \in pending
    BY <1>4 DEF EveryTestHeld, DetectorTypeOK
  <2>2. DetectorTypeOK'
    BY <1>1, <1>4, <2>1 DEF DetectorTypeOK
  <2>3. EveryTestHeld'
    BY <1>1, <1>4, NextTestHolds
  <2>4. QueuedUncovered'
    BY <1>1, <1>4 DEF QueuedUncovered, Covered, DetectorTypeOK
  <2> QED
    BY <1>2, <2>2, <2>3, <2>4
<1> QED
  BY <1>3, <1>4, NextTestTakesFront

\* reply() may cover prefixes, but never that of a queued test it leaves.
LEMMA ReplyIInv ==
  ASSUME DetectorIInv, NEW p \in Prefix, NEW s \in Slot, Reply(p, s)
  PROVE  DetectorIInv'
<1> USE DEF DetectorIInv
<1>1. /\ p \in samples /\ p \in pending
      /\ replies' = [replies EXCEPT ![p] = @ \cup {s}]
      /\ UNCHANGED <<complete, pending, queue, samples>>
      /\ aliases' = aliases \/ aliases' = aliases \cup Members(p)
      /\ discovered' = discovered \/ discovered' = discovered \cup {p}
  BY DEF Reply
<1>2. DetectorTypeOK'
  BY <1>1 DEF DetectorTypeOK, Members
<1>3. EveryTestHeld' /\ CoarseFirst' /\ NeverRetested'
  BY <1>1 DEF EveryTestHeld, CoarseFirst, NeverRetested
<1>4. QueuedUncovered'
  <2> SUFFICES ASSUME NEW i \in DOMAIN queue
               PROVE  ~(Members(queue[i]) \subseteq aliases')
    BY <1>1 DEF QueuedUncovered, Covered, Members
  <2>1. queue[i] \in pending /\ queue[i] # p /\ ~Covered(queue[i])
    BY <1>1 DEF EveryTestHeld, QueuedUncovered
  <2>2. ~(Members(queue[i]) \subseteq aliases \cup Members(p))
    BY <1>1, <2>1, ReplyKeepsOthersUncovered
  <2> QED
    BY <1>1, <2>2
<1> QED
  BY <1>2, <1>3, <1>4

\* finish() ends a test that was handed out, for good.
LEMMA FinishIInv ==
  ASSUME DetectorIInv, NEW p \in Prefix, Finish(p)
  PROVE  DetectorIInv'
<1> USE DEF DetectorIInv
<1>1. DetectorTypeOK'
  BY DEF Finish, DetectorTypeOK
<1>2. EveryTestHeld'
  BY DEF Finish, EveryTestHeld
<1>3. CoarseFirst' /\ NeverRetested'
  BY DEF Finish, CoarseFirst, NeverRetested
<1>4. QueuedUncovered'
  BY DEF Finish, QueuedUncovered, Covered
<1> QED
  BY <1>1, <1>2, <1>3, <1>4

\* Every operation of the detector keeps its invariant.
LEMMA DetectorStepIInv == DetectorIInv /\ [DetectorNext]_dvars => DetectorIInv'
<1> SUFFICES ASSUME DetectorIInv, [DetectorNext]_dvars
             PROVE  DetectorIInv'
  OBVIOUS
<1>1. ASSUME NEW a \in Addr, Consider(a) PROVE DetectorIInv'
  BY <1>1, ConsiderIInv
<1>2. CASE NextTest
  BY <1>2, NextTestIInv
<1>3. ASSUME NEW p \in Prefix, NEW s \in Slot, Reply(p, s) PROVE DetectorIInv'
  BY <1>3, ReplyIInv
<1>4. ASSUME NEW p \in Prefix, Finish(p) PROVE DetectorIInv'
  BY <1>4, FinishIInv
<1>5. CASE TakeAliases
  BY <1>5 DEF TakeAliases, DetectorIInv, DetectorTypeOK, EveryTestHeld, CoarseFirst,
     NeverRetested, QueuedUncovered, Covered
<1>6. CASE UNCHANGED dvars
  BY <1>6 DEF dvars, DetectorIInv, DetectorTypeOK, EveryTestHeld, CoarseFirst,
     NeverRetested, QueuedUncovered, Covered
<1> QED
  BY <1>1, <1>2, <1>3, <1>4, <1>5, <1>6 DEF DetectorNext

\* The detector's state keeps its types, loses no test, tests from the shortest
\* prefix on and never retests.
THEOREM DetectorInvariant == DetectorSpec => []DetectorIInv
<1> QED
  BY DetectorInitIInv, DetectorStepIInv, PTL DEF DetectorSpec

\* next_test() never finds a covered prefix in the queue.
THEOREM DetectorNeverSkips == DetectorSpec => []QueuedUncovered
<1>1. DetectorIInv => QueuedUncovered
  BY DEF DetectorIInv
<1> QED
  BY <1>1, DetectorInvariant, PTL

\* A step never changes the verdict "not detected" of an address.
LEMMA CleanStep ==
  ASSUME DetectorIInv, [DetectorNext]_dvars, NEW a \in Addr, NotDetected(a)
  PROVE  NotDetected(a)'
<1> USE DEF DetectorIInv, NotDetected
<1>1. ASSUME NEW b \in Addr, Consider(b) PROVE NotDetected(a)'
  BY <1>1 DEF Consider
<1>2. CASE NextTest
  BY <1>2 DEF NextTest
<1>3. ASSUME NEW p \in Prefix, NEW s \in Slot, Reply(p, s) PROVE NotDetected(a)'
  <2>1. p \in pending /\ complete' = complete
        /\ (aliases' = aliases \/ aliases' = aliases \cup Members(p))
    BY <1>3 DEF Reply
  <2>2. a \notin Members(p)
    BY <2>1 DEF Members, NeverRetested
  <2> QED
    BY <2>1, <2>2
<1>4. ASSUME NEW p \in Prefix, Finish(p) PROVE NotDetected(a)'
  BY <1>4 DEF Finish
<1>5. CASE TakeAliases
  BY <1>5 DEF TakeAliases
<1>6. CASE UNCHANGED dvars
  BY <1>6 DEF dvars
<1> QED
  BY <1>1, <1>2, <1>3, <1>4, <1>5, <1>6 DEF DetectorNext

\* An address reported as not aliased is never covered by a later alias.
THEOREM DetectorCleanStaysClean == DetectorSpec => CleanStaysClean
<1>1. DetectorIInv /\ [DetectorNext]_dvars
        => [\A a \in Addr : NotDetected(a) => NotDetected(a)']_dvars
  BY CleanStep
<1> QED
  BY <1>1, DetectorInvariant, PTL DEF DetectorSpec, CleanStaysClean

-----------------------------------------------------------------------------
(* The types, and the detector within the session.                          *)

BatchType ==
  [purpose : {"Discovery"}, targets : Seq(Addr), test : {NoPrefix}]
    \cup [purpose : {"Alias"}, targets : {<<>>}, test : Prefix]

ReplyType ==
  [purpose : {"Alias"}, test : Prefix, slot : Slot, direct : {TRUE}]
    \cup [purpose : {"Discovery"}, target : Addr, direct : BOOLEAN]

ChannelsOK ==
  /\ outbox \in Seq(BatchType)
  /\ txq \in Seq(BatchType)
  /\ ackq \in Seq(BatchType)
  /\ deadlines \in Seq(BatchType)
  /\ sending \in [Sender -> BatchType]
  /\ onAir \subseteq BatchType
  /\ results \in Seq(ReplyType)
  /\ pc \in {"timeout", "expire"} => deadlines # <<>>

SessionTypeOK ==
  /\ ChannelsOK
  /\ resolving \subseteq Addr
  /\ waiting \in [Prefix -> SUBSET Addr]

\* The types and the detector's own invariant.
SessionTypes == SessionTypeOK /\ DetectorIInv

\* The first element of a sequence, and the rest.
LEMMA HeadTail ==
  ASSUME NEW T, NEW s \in Seq(T), s # <<>>
  PROVE  Head(s) \in T /\ Tail(s) \in Seq(T) /\ Len(Tail(s)) = Len(s) - 1 /\ Len(s) \in Nat \ {0}
  OBVIOUS

\* A sequence without places is empty.
LEMMA EmptyByLength ==
  ASSUME NEW T, NEW s \in Seq(T), Len(s) = 0
  PROVE  s = <<>>
  OBVIOUS

\* A sequence of two or more has a rest.
LEMMA LongTail ==
  ASSUME NEW T, NEW s \in Seq(T), Len(s) > 1
  PROVE  Tail(s) # <<>>
<1>1. s # <<>> /\ Len(s) \in Nat
  OBVIOUS
<1>2. Len(Tail(s)) = Len(s) - 1
  BY <1>1, HeadTail
<1>3. Len(<<>>) = 0
  OBVIOUS
<1>4. Len(s) - 1 # 0
  <2> DEFINE n == Len(s)
  <2>1. n \in Nat /\ n > 1
    BY <1>1
  <2> HIDE DEF n
  <2>2. n - 1 # 0
    BY <2>1
  <2> QED
    BY <2>2 DEF n
<1> QED
  BY <1>2, <1>3, <1>4, Zenon

\* The alias filter of a batch keeps all copies of a target, or none.
LEMMA UnaliasedType ==
  ASSUME NEW s \in Seq(Addr)
  PROVE  /\ Unaliased(s) \in Seq(Addr)
         /\ Len(Unaliased(s)) <= Len(s)
         /\ \A a : Copies(Discovery(Unaliased(s)), a)
                     = IF a \in aliases THEN 0 ELSE Copies(Discovery(s), a)
  <1>1. /\ Unaliased(s) \in Seq(Addr \ aliases)
        /\ Len(Unaliased(s)) <= Len(s)
        /\ \A a : Occurrences(Unaliased(s), a)
                    = IF a \in aliases THEN 0 ELSE Occurrences(s, a)
    <2>1. \A S : /\ Outside(s, S) \in Seq(Addr \ S)
                 /\ Len(Outside(s, S)) <= Len(s)
                 /\ \A a : Occurrences(Outside(s, S), a)
                             = IF a \in S THEN 0 ELSE Occurrences(s, a)
      BY OutsideFacts, Zenon
    <2> QED
      BY <2>1 DEF Unaliased
  <1>2. Seq(Addr \ aliases) \subseteq Seq(Addr)
    OBVIOUS
  <1> QED
    BY <1>1, <1>2 DEF Copies, Discovery

\* What is left of a batch is a batch.
LEMMA RestType ==
  ASSUME NEW batch \in BatchType
  PROVE  [batch EXCEPT !.targets = Unaliased(batch.targets)] \in BatchType
<1>1. CASE batch \in [purpose : {"Discovery"}, targets : Seq(Addr), test : {NoPrefix}]
  BY <1>1, UnaliasedType DEF BatchType
<1>2. CASE batch \in [purpose : {"Alias"}, targets : {<<>>}, test : Prefix]
  <2>1. <<>> \in Seq(Addr) /\ Len(<<>>) = 0
    OBVIOUS
  <2>2. Unaliased(<<>>) \in Seq(Addr) /\ Len(Unaliased(<<>>)) <= 0 
    BY <2>1, UnaliasedType
  <2>3. Unaliased(<<>>) = <<>>
    BY <2>2
  <2> QED
    BY <1>2, <2>3 DEF BatchType
<1> QED
  BY <1>1, <1>2 DEF BatchType

\* A reply to a batch is about a target, or the test, of that batch.
LEMMA AnswerType ==
  ASSUME NEW batch \in BatchType, NEW reply \in Answers(batch)
  PROVE  reply \in ReplyType
<1>1. CASE batch.purpose = "Alias"
  <2>1. batch.test \in Prefix
    BY <1>1 DEF BatchType
  <2>2. PICK k \in Slot : reply = [purpose |-> "Alias", test |-> batch.test, slot |-> k, direct |-> TRUE]
    BY <1>1 DEF Answers
  <2> QED
    BY <2>1, <2>2 DEF ReplyType
<1>2. CASE batch.purpose # "Alias"
  <2>1. batch.targets \in Seq(Addr)
    BY <1>2 DEF BatchType
  <2>2. Targets(batch) \subseteq Addr
    BY <2>1 DEF Targets
  <2>3. PICK a \in Targets(batch), d \in BOOLEAN :
           reply = [purpose |-> "Discovery", target |-> a, direct |-> d]
    BY <1>2 DEF Answers
  <2> QED
    BY <2>2, <2>3 DEF ReplyType
<1> QED
  BY <1>1, <1>2

\* The empty batch is a batch.
LEMMA NoBatchType == NoBatch \in BatchType
  BY DEF NoBatch, Discovery, BatchType

\* The types hold at first.
LEMMA SessionInitTypes == SessionInit => SessionTypes
<1> SUFFICES ASSUME SessionInit PROVE SessionTypes
  OBVIOUS
<1>1. DetectorIInv
  BY DetectorInitIInv DEF SessionInit
<1>2. SessionTypeOK
  BY DEF SessionInit, SessionTypeOK, ChannelsOK, BatchType, NoBatch, Discovery
<1> QED
  BY <1>1, <1>2 DEF SessionTypes

\* Every step of the session is a step of the detector, or leaves it alone.
LEMMA SessionStepRefines ==
  ASSUME SessionTypeOK, [SessionNext]_vars
  PROVE  [DetectorNext]_dvars
<1> USE DEF SessionTypeOK, ChannelsOK
<1>1. CASE Pump
  BY <1>1 DEF Pump, PumpTest, PumpTested, PumpBatch, PumpDone, DetectorNext
<1>2. ASSUME HandleReply(Head(results)), results # <<>> PROVE [DetectorNext]_dvars
  <2>1. Head(results) \in ReplyType
    BY <1>2, HeadTail
  <2>2. CASE Head(results).purpose = "Alias"
    BY <1>2, <2>1, <2>2 DEF HandleReply, SampleReply, ReplyType, DetectorNext
  <2>3. CASE Head(results).purpose # "Alias"
    BY <1>2, <2>3 DEF HandleReply
  <2> QED
    BY <2>2, <2>3
<1>3. CASE Event
  BY <1>2, <1>3 DEF Event, RecvReply, RecvAck, Deadline, RetryOutbox, EngineLost
<1>4. CASE Handle
  <2>1. CASE ConsiderNext
    BY <2>1 DEF ConsiderNext, Verdict, DetectorNext
  <2>2. CASE PublishAliases
    BY <2>2 DEF PublishAliases, DetectorNext
  <2>3. CASE DrainReply
    BY <1>2, <2>3 DEF DrainReply
  <2>4. CASE ExpireTest
    <3>1. Head(deadlines) \in BatchType
      BY <2>4, HeadTail DEF ExpireTest
    <3>2. Head(deadlines).test \in Prefix
      BY <2>4, <3>1 DEF ExpireTest, BatchType
    <3> QED
      BY <2>4, <3>2 DEF ExpireTest, DetectorNext
  <2>5. CASE DrainEnd \/ ExpireTargets \/ Return
    BY <2>5 DEF DrainEnd, ExpireTargets, Return
  <2> QED
    BY <1>4, <2>1, <2>2, <2>3, <2>4, <2>5 DEF Handle
<1>5. CASE Caller
  BY <1>5 DEF Caller, Plan, Decline, Submit, Ask, CallNext, FinishSession
<1>6. CASE Engine
  BY <1>6 DEF Engine, SendBatch, Acknowledge, Deliver, EngineFails
<1>7. CASE Ended \/ UNCHANGED vars
  BY <1>7 DEF Ended, vars
<1> QED
  BY <1>1, <1>3, <1>4, <1>5, <1>6, <1>7 DEF SessionNext

\* A reply changes no queue, and has at most its target considered.
LEMMA HandleReplyTypes ==
  ASSUME SessionTypeOK, NEW reply \in ReplyType, HandleReply(reply)
  PROVE  resolving' \in SUBSET Addr
<1>1. CASE reply.purpose = "Alias"
  BY <1>1 DEF HandleReply, SessionTypeOK
<1>2. CASE reply.purpose # "Alias"
  BY <1>2 DEF HandleReply, SessionTypeOK, ReplyType
<1> QED
  BY <1>1, <1>2

\* The pump puts batches into the outbox and the channel.
LEMMA PumpTypes ==
  ASSUME SessionTypes, Pump
  PROVE  SessionTypeOK'
<1> USE DEF SessionTypes, SessionTypeOK, ChannelsOK
<1>1. CASE PumpTest
  <2>1. /\ UNCHANGED <<txq, ackq, deadlines, sending, onAir, results, pc, resolving, waiting>>
        /\ pc = "pump"
    BY <1>1 DEF PumpTest, evars
  <2>2. queue # <<>> /\ NextTest
    BY <1>1 DEF PumpTest
  <2>3. samples' \ samples \subseteq {queue[1]} /\ queue[1] \in Prefix
    BY <2>2, NextTestTakesFront DEF DetectorIInv, DetectorTypeOK
  <2>4. outbox' = outbox \/ outbox' = <<AliasTest(queue[1])>> \o outbox
    <3>1. CASE samples' \ samples = {}
      BY <1>1, <3>1 DEF PumpTest
    <3>2. CASE samples' \ samples = {queue[1]}
      <4>1. (CHOOSE p \in {queue[1]} : TRUE) = queue[1]
        OBVIOUS
      <4> QED
        BY <1>1, <3>2, <4>1 DEF PumpTest
    <3> QED
      BY <2>3, <3>1, <3>2
  <2>5. <<AliasTest(queue[1])>> \in Seq(BatchType)
    BY <2>3 DEF AliasTest, BatchType
  <2>6. outbox' \in Seq(BatchType)
    BY <2>4, <2>5, SMTT(60)
  <2> QED
    BY <2>1, <2>6
<1>2. CASE PumpTested
  BY <1>2 DEF PumpTested, evars
<1>3. CASE PumpBatch
  <2> DEFINE batch == Head(outbox)
             rest  == [batch EXCEPT !.targets = Unaliased(batch.targets)]
  <2>1. /\ UNCHANGED <<ackq, deadlines, sending, onAir, results, resolving, waiting>>
        /\ pc' \in {"flush", "failed", "return", "select"}
        /\ outbox' = Tail(outbox) \/ outbox' = <<rest>> \o Tail(outbox)
        /\ txq' = txq \/ txq' = Append(txq, rest)
    BY <1>3 DEF PumpBatch, Requeued
  <2>2. batch \in BatchType /\ Tail(outbox) \in Seq(BatchType)
    BY <1>3, HeadTail DEF PumpBatch
  <2>3. rest \in BatchType
    BY <2>2, RestType
  <2> HIDE DEF rest
  <2>4. outbox' \in Seq(BatchType) /\ txq' \in Seq(BatchType)
    <3>1. <<rest>> \o Tail(outbox) \in Seq(BatchType) /\ Append(txq, rest) \in Seq(BatchType)
      BY <2>2, <2>3
    <3> QED
      BY <2>1, <2>2, <3>1
  <2> QED
    BY <2>1, <2>4
<1>4. CASE PumpDone
  BY <1>4 DEF PumpDone, evars
<1> QED
  BY <1>1, <1>2, <1>3, <1>4 DEF Pump

\* Every step keeps the types.
LEMMA SessionStepTypes ==
  ASSUME SessionTypes, [SessionNext]_vars
  PROVE  SessionTypeOK'
<1> USE DEF SessionTypes, SessionTypeOK, ChannelsOK
<1>1. CASE Pump
  BY <1>1, PumpTypes
<1>2. CASE Event
  <2>1. CASE RecvReply
    <3>1. Head(results) \in ReplyType /\ Tail(results) \in Seq(ReplyType)
      BY <2>1, HeadTail DEF RecvReply
    <3>2. resolving' \in SUBSET Addr
      BY <2>1, <3>1, HandleReplyTypes DEF RecvReply
    <3> QED
      BY <2>1, <3>1, <3>2 DEF RecvReply
  <2>2. CASE RecvAck
    <3>1. Head(ackq) \in BatchType /\ Tail(ackq) \in Seq(BatchType)
      BY <2>2, HeadTail DEF RecvAck
    <3> QED
      BY <2>2, <3>1 DEF RecvAck
  <2>3. CASE Deadline \/ RetryOutbox \/ EngineLost
    BY <2>3 DEF Deadline, RetryOutbox, EngineLost, evars
  <2> QED
    BY <1>2, <2>1, <2>2, <2>3 DEF Event
<1>3. CASE Handle
  <2>1. CASE ConsiderNext
    <3>1. UNCHANGED <<outbox, txq, ackq, deadlines, sending, onAir, results, pc>>
      BY <2>1 DEF ConsiderNext, evars
    <3>2. resolving' \subseteq Addr
      BY <2>1 DEF ConsiderNext
    <3>3. PICK a \in Addr : Verdict(a)
      BY <2>1 DEF ConsiderNext
    <3>4. waiting' \in [Prefix -> SUBSET Addr]
      BY <3>3 DEF Verdict
    <3> QED
      BY <3>1, <3>2, <3>4
  <2>2. CASE PublishAliases
    <3>1. UNCHANGED <<outbox, txq, ackq, deadlines, sending, onAir, results, pc>>
      BY <2>2 DEF PublishAliases, evars
    <3>2. discovered \subseteq Prefix
      BY DEF DetectorIInv, DetectorTypeOK
    <3>3. resolving' \subseteq Addr
      BY <2>2, <3>2 DEF PublishAliases
    <3>4. waiting' \in [Prefix -> SUBSET Addr]
      BY <2>2 DEF PublishAliases, StillWaiting
    <3> QED
      BY <3>1, <3>3, <3>4
  <2>3. CASE DrainReply
    <3>1. Head(results) \in ReplyType /\ Tail(results) \in Seq(ReplyType)
      BY <2>3, HeadTail DEF DrainReply
    <3>2. resolving' \in SUBSET Addr
      BY <2>3, <3>1, HandleReplyTypes DEF DrainReply
    <3> QED
      BY <2>3, <3>1, <3>2 DEF DrainReply
  <2>4. CASE DrainEnd \/ Return
    BY <2>4 DEF DrainEnd, Return, evars
  <2>5. ASSUME pc = "expire", ExpireNext, deadlines' = Tail(deadlines)
        PROVE  deadlines' \in Seq(BatchType) /\ (pc' \in {"timeout", "expire"} => deadlines' # <<>>)
    <3>1. deadlines # <<>>
      BY <2>5
    <3>2. /\ Tail(deadlines) \in Seq(BatchType) /\ Len(deadlines) \in Nat
          /\ Len(Tail(deadlines)) = Len(deadlines) - 1
      BY <3>1, HeadTail
    <3>3. Len(deadlines) > 1 => Tail(deadlines) # <<>>
      BY LongTail
    <3> QED
      BY <2>5, <3>2, <3>3 DEF ExpireNext
  <2>6. CASE ExpireTest
    <3>1. UNCHANGED <<outbox, txq, ackq, sending, onAir, results>>
      BY <2>6 DEF ExpireTest, evars
    <3>2. Head(deadlines).test \in Prefix
      BY <2>6, HeadTail DEF ExpireTest, BatchType
    <3>3. resolving' \subseteq Addr /\ waiting' \in [Prefix -> SUBSET Addr]
      BY <2>6, <3>2 DEF ExpireTest, StillWaiting
    <3> QED
      BY <2>5, <2>6, <3>1, <3>3 DEF ExpireTest
  <2>7. CASE ExpireTargets
    <3>1. UNCHANGED <<outbox, txq, ackq, sending, onAir, results, resolving, waiting>>
      BY <2>7 DEF ExpireTargets, evars
    <3> QED
      BY <2>5, <2>7, <3>1 DEF ExpireTargets
  <2> QED
    BY <1>3, <2>1, <2>2, <2>3, <2>4, <2>6, <2>7 DEF Handle
<1>4. CASE Caller
  <2>1. CASE Plan \/ Decline \/ CallNext \/ FinishSession
    BY <2>1 DEF Plan, Decline, CallNext, FinishSession, evars
  <2>2. ASSUME NEW b \in Batches, Submit(b) PROVE SessionTypeOK'
    <3>1. b \in Seq(Addr)
      BY SessionAssumption
    <3>2. Discovery(Unaliased(b)) \in BatchType
      BY <3>1, UnaliasedType DEF Discovery, BatchType
    <3>3. outbox' \in Seq(BatchType)
      BY <2>2, <3>2 DEF Submit
    <3> QED
      BY <2>2, <3>3 DEF Submit, evars
  <2>3. ASSUME NEW a \in Asked, Ask(a) PROVE SessionTypeOK'
    BY <2>3, SessionAssumption DEF Ask, evars
  <2> QED
    BY <1>4, <2>1, <2>2, <2>3 DEF Caller
<1>5. CASE Engine
  <2>1. ASSUME NEW s \in Sender, SendBatch(s) PROVE SessionTypeOK'
    <3>1. Head(txq) \in BatchType /\ Tail(txq) \in Seq(BatchType)
      BY <2>1, HeadTail DEF SendBatch
    <3> QED
      BY <2>1, <3>1 DEF SendBatch, svars
  <2>2. ASSUME NEW s \in Sender, Acknowledge(s) PROVE SessionTypeOK'
    BY <2>2, NoBatchType DEF Acknowledge, svars
  <2>3. CASE Deliver
    <3>0. PICK batch \in onAir : \E reply \in Answers(batch) : results' = Append(results, reply)
      BY <2>3 DEF Deliver
    <3>1. PICK reply \in Answers(batch) : results' = Append(results, reply)
      BY <3>0
    <3>2. reply \in ReplyType
      BY <3>1, AnswerType
    <3> QED
      BY <2>3, <3>1, <3>2 DEF Deliver, svars
  <2>4. CASE EngineFails
    BY <2>4, NoBatchType DEF EngineFails, svars
  <2> QED
    BY <1>5, <2>1, <2>2, <2>3, <2>4 DEF Engine
<1>6. CASE Ended \/ UNCHANGED vars
  BY <1>6 DEF Ended, vars, svars, evars
<1> QED
  BY <1>1, <1>2, <1>3, <1>4, <1>5, <1>6 DEF SessionNext

\* Every step keeps the types and the detector's invariant.
LEMMA SessionTypesStep == SessionTypes /\ [SessionNext]_vars => SessionTypes'
  BY SessionStepTypes, SessionStepRefines, DetectorStepIInv DEF SessionTypes

\* The session's channels and sets keep their types, and within it the
\* detector's invariant holds.
THEOREM SessionTypesInvariant == SessionSpec => []SessionTypes
  BY SessionInitTypes, SessionTypesStep, PTL DEF SessionSpec

\* The session implements the detector: it asks about addresses, hands tests
\* out, counts replies and ends tests only as the detector allows.
THEOREM SessionImplementsDetector == SessionSpec => DetectorSpec
<1>1. SessionInit => DetectorInit
  BY DEF SessionInit
<1>2. SessionTypes /\ [SessionNext]_vars => [DetectorNext]_dvars
  BY SessionStepRefines DEF SessionTypes
<1> QED
  BY <1>1, <1>2, SessionTypesInvariant, PTL DEF SessionSpec, DetectorSpec

\* Within a session, the detector's promises hold.
THEOREM SessionKeepsDetector == SessionSpec => []QueuedUncovered /\ CleanStaysClean
  BY SessionImplementsDetector, DetectorNeverSkips, DetectorCleanStaysClean, PTL

-----------------------------------------------------------------------------
(* Addresses that wait for a test.                                          *)

Waiters == {w \in Prefix \X Addr : w[2] \in waiting[w[1]]}

\* Addresses wait for open tests of prefixes of their own, which can still
\* decide about them, and waitingCount is their number.
WaitersIInv ==
  /\ \A p \in Prefix : waiting[p] \subseteq Members(p)
  /\ \A p \in Prefix : waiting[p] # {} => p \in pending
  /\ \A p \in Prefix \ discovered : waiting[p] \cap aliases = {}
  /\ tests = samples
  /\ IsFiniteSet(Waiters)
  /\ waitingCount = Cardinality(Waiters)

\* One more address waits.
LEMMA WaiterJoins ==
  ASSUME SessionTypeOK, IsFiniteSet(Waiters), NEW p \in Prefix, NEW a \in Addr,
         waiting' = [waiting EXCEPT ![p] = @ \cup {a}]
  PROVE  /\ IsFiniteSet(Waiters')
         /\ Cardinality(Waiters') = IF a \in waiting[p] THEN Cardinality(Waiters)
                                                       ELSE Cardinality(Waiters) + 1
<1>1. Waiters' = Waiters \cup {<<p, a>>}
  BY DEF Waiters, SessionTypeOK
<1>2. <<p, a>> \in Waiters <=> a \in waiting[p]
  BY DEF Waiters
<1> QED
  BY <1>1, <1>2, FS_AddElement

\* The addresses that wait for the tests in ps leave, each once.
LEMMA WaitersLeave ==
  ASSUME SessionTypeOK, IsFiniteSet(Waiters), NEW ps \in SUBSET Prefix,
         \A p, q \in ps : p # q => waiting[p] \cap waiting[q] = {},
         waiting' = StillWaiting(ps)
  PROVE  /\ IsFiniteSet(Waiters')
         /\ Cardinality(Waiters')
              = Cardinality(Waiters) - Cardinality(UNION {waiting[p] : p \in ps})
<1> DEFINE Gone == {w \in Waiters : w[1] \in ps}
           Addresses == UNION {waiting[p] : p \in ps}
           first == [w \in Gone |-> w[2]]
<1>1. Waiters' = Waiters \ Gone
  BY DEF Waiters, StillWaiting, SessionTypeOK
<1>2. Waiters \cap Gone = Gone /\ IsFiniteSet(Gone)
  BY FS_Subset
<1>3. first \in Bijection(Gone, Addresses)
  <2>1. \A w \in Gone : first[w] \in Addresses
    BY DEF Waiters
  <2>2. \A v, w \in Gone : first[v] = first[w] => v = w
    BY DEF Waiters
  <2>3. \A a \in Addresses : \E w \in Gone : first[w] = a
    <3> SUFFICES ASSUME NEW p \in ps, NEW a \in waiting[p]
                 PROVE  \E w \in Gone : first[w] = a
      OBVIOUS
    <3>1. <<p, a>> \in Gone
      BY DEF Waiters, SessionTypeOK
    <3> QED
      BY <3>1
  <2> QED
    BY <2>1, <2>2, <2>3 DEF Bijection, Injection, Surjection, IsInjective
<1>4. ExistsBijection(Gone, Addresses)
  BY <1>3 DEF ExistsBijection
<1> HIDE DEF Gone, Addresses
<1>5. Cardinality(Addresses) = Cardinality(Gone)
  BY <1>2, <1>4, FS_Bijection
<1> QED
  <2>1. /\ IsFiniteSet(Waiters \ Gone)
        /\ Cardinality(Waiters \ Gone) = Cardinality(Waiters) - Cardinality(Waiters \cap Gone)
    BY FS_Difference
  <2> QED
    BY <1>1, <1>2, <1>5, <2>1 DEF Addresses

\* Addresses that wait for different tests are different.
LEMMA WaitersApart ==
  ASSUME SessionTypes, WaitersIInv, NEW p \in Prefix, NEW q \in Prefix, p # q
  PROVE  waiting[p] \cap waiting[q] = {}
<1> SUFFICES ASSUME NEW a \in waiting[p], a \in waiting[q] PROVE FALSE
  OBVIOUS
<1>1. p \in pending /\ q \in pending /\ a \in Members(p) /\ a \in Members(q)
  BY DEF WaitersIInv
<1> QED
  BY <1>1, OnePendingPrefix DEF Members, SessionTypes, DetectorIInv

\* consider() has an address wait for a test that is open.
LEMMA WaitersVerdict ==
  ASSUME SessionTypes, WaitersIInv, NEW a \in Addr, Verdict(a), UNCHANGED tests
  PROVE  WaitersIInv'
<1>1. UNCHANGED <<aliases, complete, samples, discovered>> /\ pending \subseteq pending'
  BY DEF Verdict, Consider
<1>2. CASE UNCHANGED <<waiting, waitingCount>>
  BY <1>1, <1>2 DEF WaitersIInv, Waiters, Members
<1>3. ASSUME NEW l \in Level, Waits(a, l),
             waiting' = [waiting EXCEPT ![PrefixAt[a][l]] = @ \cup {a}],
             waitingCount' = IF a \in waiting[PrefixAt[a][l]] THEN waitingCount
                                                             ELSE waitingCount + 1
      PROVE  WaitersIInv'
  <2> DEFINE p == PrefixAt[a][l]
  <2>1. p \in Prefix /\ a \in Members(p) /\ a \notin aliases
    BY <1>3, PrefixAssumption DEF Members, Waits
  <2>2. p \in pending'
    <3>1. CASE NewTest(a) = {}
      BY <3>1, <1>1, <1>3 DEF NewTest
    <3>2. CASE NewTest(a) # {}
      <4>1. PICK q \in NewTest(a) : pending' = pending \cup {q}
        BY <3>2 DEF Verdict, Consider
      <4>2. PICK m \in Level : q = PrefixAt[a][m] /\ Waits(a, m)
        BY <4>1 DEF NewTest
      <4>3. m = l
        BY <4>2, <1>3, PrefixAssumption DEF Waits, Level
      <4> QED
        BY <4>1, <4>2, <4>3
    <3> QED
      BY <3>1, <3>2
  <2>3. \A q \in Prefix : waiting'[q] = IF q = p THEN waiting[q] \cup {a} ELSE waiting[q]
    BY <1>3, <2>1 DEF SessionTypes, SessionTypeOK
  <2> HIDE DEF p
  <2>4. IsFiniteSet(Waiters') /\ waitingCount' = Cardinality(Waiters')
    BY <1>3, <2>1, WaiterJoins DEF p, WaitersIInv, SessionTypes
  <2> QED
    <3>1. \A q \in Prefix : waiting'[q] \subseteq Members(q)' /\ (waiting'[q] # {} => q \in pending')
      <4>1. \A q : Members(q)' = Members(q)
        BY DEF Members
      <4>2. \A q \in Prefix : waiting[q] \subseteq Members(q) /\ (waiting[q] # {} => q \in pending)
        BY DEF WaitersIInv
      <4> QED
        BY <1>1, <2>1, <2>2, <2>3, <4>1, <4>2
    <3>2. \A q \in Prefix \ discovered' : waiting'[q] \cap aliases' = {}
      BY <1>1, <2>1, <2>3 DEF WaitersIInv
    <3>3. tests' = samples'
      BY <1>1 DEF WaitersIInv
    <3> QED
      BY <2>4, <3>1, <3>2, <3>3 DEF WaitersIInv
<1> QED
  BY <1>2, <1>3 DEF Verdict

\* A reply of a sample may alias a prefix, which is then to be announced.
LEMMA WaitersReply ==
  ASSUME SessionTypes, WaitersIInv, NEW reply \in ReplyType, HandleReply(reply),
         UNCHANGED <<waiting, waitingCount, tests>>
  PROVE  WaitersIInv'
<1>1. Waiters' = Waiters
  BY DEF Waiters
<1>2. CASE UNCHANGED dvars
  BY <1>1, <1>2 DEF WaitersIInv, dvars, Members
<1>3. ASSUME NEW p \in Prefix, NEW s \in Slot, Reply(p, s) PROVE WaitersIInv'
  <2>1. /\ UNCHANGED <<pending, samples>> /\ p \in pending
        /\ \/ UNCHANGED <<aliases, discovered>>
           \/ aliases' = aliases \cup Members(p) /\ discovered' = discovered \cup {p}
    BY <1>3 DEF Reply
  <2>2. ASSUME NEW q \in Prefix, q # p PROVE waiting[q] \cap Members(p) = {}
    <3> SUFFICES ASSUME NEW a \in waiting[q], a \in Members(p) PROVE FALSE
      OBVIOUS
    <3>1. q \in pending /\ a \in Members(q)
      BY DEF WaitersIInv
    <3> QED
      BY <2>1, <2>2, <3>1, OnePendingPrefix DEF Members, SessionTypes, DetectorIInv
  <2>3. \A q \in Prefix \ discovered' : waiting[q] \cap aliases' = {}
    BY <2>1, <2>2 DEF WaitersIInv
  <2> QED
    BY <1>1, <2>1, <2>3 DEF WaitersIInv, Members
<1>4. CASE reply.purpose = "Alias"
  <2>1. reply.test \in Prefix /\ reply.slot \in Slot
    BY <1>4 DEF ReplyType
  <2> QED
    BY <1>2, <1>3, <1>4, <2>1 DEF HandleReply, SampleReply
<1> QED
  BY <1>2, <1>4 DEF HandleReply

\* Every step keeps what is known of the addresses that wait.
LEMMA WaitersStep ==
  ASSUME SessionTypes, WaitersIInv, [SessionNext]_vars
  PROVE  WaitersIInv'
<1>same. ASSUME UNCHANGED <<dvars, waiting, waitingCount, tests>> PROVE WaitersIInv'
  BY <1>same DEF WaitersIInv, Waiters, dvars, Members
<1>1. CASE PumpTest
  <2>1. /\ UNCHANGED <<waiting, waitingCount, aliases, discovered, pending>>
        /\ samples \subseteq samples'
        /\ tests' = tests \cup (samples' \ samples)
    BY <1>1, NextTestTakesFront DEF PumpTest, SessionTypes, DetectorIInv
  <2> QED
    BY <2>1 DEF WaitersIInv, Waiters, Members
<1>2. CASE PumpTested \/ PumpBatch \/ PumpDone
  BY <1>2, <1>same DEF PumpTested, PumpBatch, PumpDone
<1>3. CASE RecvReply \/ DrainReply
  <2>1. Head(results) \in ReplyType
    BY <1>3, HeadTail DEF RecvReply, DrainReply, SessionTypes, SessionTypeOK, ChannelsOK
  <2> QED
    BY <1>3, <2>1, WaitersReply DEF RecvReply, DrainReply
<1>4. CASE RecvAck \/ Deadline \/ RetryOutbox \/ EngineLost
  BY <1>4, <1>same DEF RecvAck, Deadline, RetryOutbox, EngineLost
<1>5. CASE ConsiderNext
  BY <1>5, WaitersVerdict DEF ConsiderNext, SessionTypes, SessionTypeOK
<1>6. CASE PublishAliases
  <2>1. discovered \subseteq Prefix
    BY DEF SessionTypes, DetectorIInv, DetectorTypeOK
  <2>2. /\ waiting' = StillWaiting(discovered) /\ discovered' = {}
        /\ waitingCount' = waitingCount - Cardinality(UNION {waiting[p] : p \in discovered})
        /\ UNCHANGED <<aliases, pending, samples, tests>>
    BY <1>6 DEF PublishAliases, TakeAliases
  <2>3. /\ IsFiniteSet(Waiters')
        /\ Cardinality(Waiters')
              = Cardinality(Waiters) - Cardinality(UNION {waiting[p] : p \in discovered})
    <3>1. \A p, q \in discovered : p # q => waiting[p] \cap waiting[q] = {}
      BY <2>1, WaitersApart
    <3> QED
      BY <2>1, <2>2, <3>1, WaitersLeave DEF SessionTypes, WaitersIInv
  <2>4. \A p \in Prefix : waiting'[p] = IF p \in discovered THEN {} ELSE waiting[p]
    BY <2>2 DEF StillWaiting
  <2> QED
    BY <2>2, <2>3, <2>4 DEF WaitersIInv, Members
<1>7. CASE ExpireTest
  <2> DEFINE p == Head(deadlines).test
  <2>1. p \in Prefix
    BY <1>7, HeadTail DEF ExpireTest, BatchType, SessionTypes, SessionTypeOK, ChannelsOK
  <2>2. /\ waiting' = StillWaiting({p}) /\ tests' = tests \ {p}
        /\ waitingCount' = waitingCount - Cardinality(waiting[p])
        /\ Finish(p)
    BY <1>7 DEF ExpireTest
  <2> HIDE DEF p
  <2>3. UNION {waiting[q] : q \in {p}} = waiting[p]
    OBVIOUS
  <2>4. IsFiniteSet(Waiters') /\ waitingCount' = Cardinality(Waiters')
    BY <2>1, <2>2, <2>3, WaitersLeave DEF SessionTypes, WaitersIInv
  <2>5. \A q \in Prefix : waiting'[q] = IF q = p THEN {} ELSE waiting[q]
    BY <2>2 DEF StillWaiting
  <2> QED
    BY <2>1, <2>2, <2>4, <2>5 DEF WaitersIInv, Members, Finish
<1>8. CASE DrainEnd \/ ExpireTargets \/ Return
  BY <1>8, <1>same DEF DrainEnd, ExpireTargets, Return
<1>9. CASE Caller
  BY <1>9, <1>same DEF Caller, Plan, Decline, Submit, Ask, CallNext, FinishSession
<1>10. CASE Engine
  BY <1>10, <1>same DEF Engine, SendBatch, Acknowledge, Deliver, EngineFails, svars
<1>11. CASE Ended \/ UNCHANGED vars
  BY <1>11, <1>same DEF Ended, vars, svars
<1> QED
  BY <1>1, <1>2, <1>3, <1>4, <1>5, <1>6, <1>7, <1>8, <1>9, <1>10, <1>11
     DEF SessionNext, Pump, Event, Handle

\* Nobody waits at first.
LEMMA WaitersInit == SessionInit => WaitersIInv
<1> SUFFICES ASSUME SessionInit PROVE WaitersIInv
  OBVIOUS
<1>1. Waiters = {}
  BY DEF SessionInit, Waiters
<1> QED
  BY <1>1, FS_EmptySet DEF SessionInit, DetectorInit, WaitersIInv

\* Addresses wait only for open tests that can still decide about them, and
\* waitingCount counts them.
THEOREM SessionWaiters == SessionSpec => []WaitersIInv
<1>1. SessionTypes /\ WaitersIInv /\ [SessionNext]_vars => WaitersIInv'
  BY WaitersStep
<1> QED
  BY <1>1, WaitersInit, SessionTypesInvariant, PTL DEF SessionSpec

\* An address only ever waits for a test that is still to end, and that can
\* still decide about it; and every such test is queued once, or handed out.
THEOREM SessionWaitersServed == SessionSpec => []WaitersServed
<1>1. SessionTypes /\ WaitersIInv => WaitersServed
  BY DEF SessionTypes, DetectorIInv, WaitersIInv, WaitersServed, Waiters
<1> QED
  BY <1>1, SessionTypesInvariant, SessionWaiters, PTL

-----------------------------------------------------------------------------
(* The batches outstanding, and their weight.                               *)

Weightings == {f \in [BatchType -> Nat] : f[NoBatch] = 0}

SizeOf      == [b \in BatchType |-> Size(b)]
TargetsOf   == [b \in BatchType |-> Len(b.targets)]
CopiesOf(a) == [b \in BatchType |-> Copies(b, a)]
TestOf(p)   == [b \in BatchType |-> IF b.test = p THEN 1 ELSE 0]

Load(f) == Weigh(outbox, f) + Weigh(txq, f) + Weigh(ackq, f) + Weigh(deadlines, f)
             + Weigh(Held, f)

\* A batch is a test of three probes, or as many probes as it has targets.
LEMMA BatchFacts ==
  ASSUME NEW b \in BatchType
  PROVE  /\ b.targets \in Seq(Addr) /\ Len(b.targets) \in Nat
         /\ b.purpose = "Alias" => b.targets = <<>> /\ Len(b.targets) = 0 /\ b.test \in Prefix
         /\ b.purpose # "Alias" => b = Discovery(b.targets)
         /\ Size(b) \in Nat /\ Len(b.targets) <= Size(b)
         /\ \A a : Copies(b, a) \in Nat
         /\ b.purpose = "Alias" => \A a : Copies(b, a) = 0
<1>1. CASE b \in [purpose : {"Discovery"}, targets : Seq(Addr), test : {NoPrefix}]
  <2>1. b.targets \in Seq(Addr) /\ Len(b.targets) \in Nat /\ b.purpose # "Alias" /\ b.purpose = "Discovery"
        /\ b.test = NoPrefix
    BY <1>1
  <2>2. b = Discovery(b.targets)
    BY <1>1 DEF Discovery
  <2>3. \A a : Copies(b, a) \in Nat
    BY <2>1, OccurrencesType DEF Copies
  <2>4. Size(b) = Len(b.targets)
    BY <2>1 DEF Size
  <2> QED
    BY <2>1, <2>2, <2>3, <2>4
<1>2. CASE b \in [purpose : {"Alias"}, targets : {<<>>}, test : Prefix]
  <2>1. b.purpose = "Alias" /\ b.targets = <<>> /\ b.test \in Prefix
    BY <1>2
  <2>2. \A a : Copies(b, a) = 0
    BY <2>1, OccurrencesEmpty DEF Copies
  <2>3. <<>> \in Seq(Addr) /\ Len(<<>>) = 0
    OBVIOUS
  <2> QED
    BY <2>1, <2>2, <2>3 DEF Size
<1> QED
  BY <1>1, <1>2 DEF BatchType

\* The empty batch weighs nothing.
LEMMA NoBatchFacts ==
  /\ NoBatch \in BatchType /\ Size(NoBatch) = 0 /\ Len(NoBatch.targets) = 0
  /\ \A a : Copies(NoBatch, a) = 0
<1>1. NoBatch.targets = <<>> /\ NoBatch.purpose # "Alias" /\ Len(<<>>) = 0
  BY DEF NoBatch, Discovery
<1>2. \A a : Copies(NoBatch, a) = 0
  BY <1>1, OccurrencesEmpty DEF Copies
<1> QED
  BY <1>1, <1>2, NoBatchType DEF Size

\* No prefix stands for "no test".
LEMMA PrefixNotNone == NoPrefix \notin Prefix
  BY SessionAssumption

\* The measures of a batch: its size, targets, copies of a target, its test.
LEMMA WeightingsFacts ==
  /\ SizeOf \in Weightings /\ TargetsOf \in Weightings
  /\ \A a : CopiesOf(a) \in Weightings
  /\ \A p \in Prefix : TestOf(p) \in Weightings
  /\ \A b \in BatchType : TargetsOf[b] <= SizeOf[b]
<1>1. SizeOf \in Weightings
  BY BatchFacts, NoBatchFacts DEF SizeOf, Weightings
<1>2. TargetsOf \in Weightings
  BY BatchFacts, NoBatchFacts DEF TargetsOf, Weightings
<1>3. \A a : CopiesOf(a) \in Weightings
  BY BatchFacts, NoBatchFacts DEF CopiesOf, Weightings
<1>4. \A b \in BatchType : TargetsOf[b] <= SizeOf[b]
  BY BatchFacts DEF SizeOf, TargetsOf
<1>5. \A p \in Prefix : TestOf(p) \in Weightings
  <2>1. NoBatch.test = NoPrefix
    BY DEF NoBatch, Discovery
  <2>2. \A p \in Prefix : TestOf(p) \in [BatchType -> Nat]
    BY DEF TestOf
  <2>3. \A p \in Prefix : TestOf(p)[NoBatch] = 0
    BY <2>1, NoBatchType, PrefixNotNone DEF TestOf
  <2> QED
    BY <2>2, <2>3 DEF Weightings
<1> QED
  BY <1>1, <1>2, <1>3, <1>4, <1>5

\* The senders are numbered, each once.
LEMMA SendersFacts ==
  /\ Cardinality(Sender) \in Nat
  /\ Senders \in [1..Cardinality(Sender) -> Sender]
  /\ \A i, j \in 1..Cardinality(Sender) : Senders[i] = Senders[j] => i = j
  /\ \A s \in Sender : \E i \in 1..Cardinality(Sender) : Senders[i] = s
<1> DEFINE n == Cardinality(Sender)
           Ok(f) == f \in [1..n -> Sender] /\ \A i, j \in DOMAIN f : f[i] = f[j] => i = j
<1>1. n \in Nat /\ ExistsBijection(1..n, Sender)
  BY SessionAssumption, FS_CardinalityType
<1>2. PICK g : g \in Bijection(1..n, Sender)
  BY <1>1 DEF ExistsBijection
<1>3. Ok(g)
  BY <1>2 DEF Bijection, Injection, IsInjective
<1>4. Senders = CHOOSE f \in [1..n -> Sender] : \A i, j \in DOMAIN f : f[i] = f[j] => i = j
  BY DEF Senders
<1>5. Ok(Senders)
  BY <1>3, <1>4, ZenonT(60)
<1>6. Senders \in Injection(1..n, Sender)
  BY <1>5 DEF Injection, IsInjective
<1>7. IsFiniteSet(1..n) /\ Cardinality(1..n) = n /\ IsFiniteSet(Sender)
  BY <1>1, FS_Interval, SessionAssumption
<1>8. Senders \in Surjection(1..n, Sender)
  BY <1>6, <1>7, FS_Injection
<1> QED
  BY <1>1, <1>5, <1>8 DEF Surjection

\* The batches being sent, as a sequence.
LEMMA HeldType ==
  ASSUME SessionTypeOK
  PROVE  Held \in Seq(BatchType) /\ Len(Held) = Cardinality(Sender)
<1>1. Held \in [1..Cardinality(Sender) -> BatchType] /\ Cardinality(Sender) \in Nat
  BY SendersFacts DEF Held, SessionTypeOK, ChannelsOK
<1> QED
  BY <1>1

\* When a sender changes its batch, so does one place of Held.
LEMMA HeldChange ==
  ASSUME SessionTypeOK, NEW s \in Sender, NEW b \in BatchType,
         sending' = [sending EXCEPT ![s] = b], NEW f \in Weightings
  PROVE  Weigh(Held', f) = (Weigh(Held, f) - f[sending[s]]) + f[b]
<1>1. PICK i \in 1..Cardinality(Sender) : Senders[i] = s
  BY SendersFacts
<1>2. Held' = [Held EXCEPT ![i] = b]
  <2>1. \A j \in 1..Cardinality(Sender) :
           sending'[Senders[j]] = IF j = i THEN b ELSE sending[Senders[j]]
    BY <1>1, SendersFacts DEF SessionTypeOK, ChannelsOK
  <2>2. Held' = [j \in 1..Cardinality(Sender) |-> IF j = i THEN b ELSE sending[Senders[j]]]
    BY <2>1 DEF Held
  <2> QED
    BY <2>2 DEF Held
<1>3. Held[i] = sending[s] /\ Held \in Seq(BatchType) /\ i \in 1..Len(Held)
  BY <1>1, HeldType DEF Held
<1>4. f \in [BatchType -> Nat]
  BY DEF Weightings
<1>5. Weigh([Held EXCEPT ![i] = b], f) = (Weigh(Held, f) - f[Held[i]]) + f[b]
  BY <1>3, <1>4, WeighExcept
<1> QED
  BY <1>2, <1>3, <1>5

\* The parts of a load are numbers.
LEMMA LoadParts ==
  ASSUME SessionTypeOK, NEW f \in Weightings
  PROVE  /\ Weigh(outbox, f) \in Nat /\ Weigh(txq, f) \in Nat /\ Weigh(ackq, f) \in Nat
         /\ Weigh(deadlines, f) \in Nat /\ Weigh(Held, f) \in Nat
         /\ \A b \in BatchType : f[b] \in Nat
         /\ f \in [BatchType -> Nat]
<1>1. f \in [BatchType -> Nat]
  BY DEF Weightings
<1> QED
  BY <1>1, HeldType, WeightsType DEF SessionTypeOK, ChannelsOK

\* The load is what the outstanding batches weigh together.
LEMMA LoadIsWeight ==
  ASSUME SessionTypeOK, NEW f \in Weightings
  PROVE  Weigh(Outstanding, f) = Load(f) /\ Outstanding \in Seq(BatchType) /\ Load(f) \in Nat
<1> DEFINE o1 == outbox \o txq
           o2 == o1 \o ackq
           o3 == o2 \o deadlines
<1>1. f \in [BatchType -> Nat] /\ outbox \in Seq(BatchType) /\ txq \in Seq(BatchType)
      /\ ackq \in Seq(BatchType) /\ deadlines \in Seq(BatchType) /\ Held \in Seq(BatchType)
  BY LoadParts, HeldType DEF SessionTypeOK, ChannelsOK
<1>2. o1 \in Seq(BatchType) /\ Weigh(o1, f) = Weigh(outbox, f) + Weigh(txq, f)
  BY <1>1, WeighConcat
<1> HIDE DEF o1
<1>3. o2 \in Seq(BatchType) /\ Weigh(o2, f) = Weigh(o1, f) + Weigh(ackq, f)
  BY <1>1, <1>2, WeighConcat
<1> HIDE DEF o2
<1>4. o3 \in Seq(BatchType) /\ Weigh(o3, f) = Weigh(o2, f) + Weigh(deadlines, f)
  BY <1>1, <1>3, WeighConcat
<1> HIDE DEF o3
<1>5. o3 \o Held \in Seq(BatchType) /\ Weigh(o3 \o Held, f) = Weigh(o3, f) + Weigh(Held, f)
  BY <1>1, <1>4, WeighConcat
<1>6. Outstanding = o3 \o Held
  BY DEF Outstanding, o3, o2, o1
<1>7. Load(f) \in Nat
  BY LoadParts DEF Load
<1> QED
  BY <1>2, <1>3, <1>4, <1>5, <1>6, <1>7 DEF Load

\* The pump hands out the first test of the queue, which goes ahead of the outbox.
LEMMA PumpTestFacts ==
  ASSUME SessionTypes, PumpTest
  PROVE  /\ queue[1] \in Prefix /\ AliasTest(queue[1]) \in BatchType
         /\ outbox' = <<AliasTest(queue[1])>> \o outbox
         /\ wire' = wire + 3 /\ wire + 3 <= MaxInFlight
<1>1. queue # <<>> /\ NextTest
  BY DEF PumpTest
<1>2. queue[1] \in pending \ samples /\ queue[1] \in Prefix
  BY <1>1 DEF SessionTypes, DetectorIInv, DetectorTypeOK, EveryTestHeld
<1>3. samples' \ samples = {queue[1]}
  BY <1>1, <1>2, NextTestTakesFront DEF SessionTypes, DetectorIInv
<1>4. (CHOOSE p \in {queue[1]} : TRUE) = queue[1] /\ Cardinality({queue[1]}) = 1
  BY FS_Singleton
<1>5. AliasTest(queue[1]) \in BatchType
  BY <1>2 DEF AliasTest, BatchType
<1>6. {queue[1]} # {}
  OBVIOUS
<1>7. outbox' = <<AliasTest(queue[1])>> \o outbox
  BY <1>3, <1>4, <1>6 DEF PumpTest
<1>8. wire' = wire + 3 * 1 /\ wire + 3 <= MaxInFlight
  BY <1>3, <1>4 DEF PumpTest
<1>9. 3 * 1 = 3
  OBVIOUS
<1> QED
  BY <1>2, <1>5, <1>7, <1>8, <1>9

Rest(b) == [b EXCEPT !.targets = Unaliased(b.targets)]

\* What is left of a batch without its aliased targets.
LEMMA RestFacts ==
  ASSUME NEW b \in BatchType
  PROVE  /\ Rest(b) \in BatchType
         /\ Len(Rest(b).targets) <= Len(b.targets)
         /\ Size(Rest(b)) = Size(b) - (Len(b.targets) - Len(Unaliased(b.targets)))
         /\ Size(Rest(b)) <= Size(b)
         /\ \A a : Copies(Rest(b), a) = IF a \in aliases THEN 0 ELSE Copies(b, a)
         /\ Size(Rest(b)) = 0 => Rest(b) = NoBatch
<1> DEFINE r == Rest(b)
<1>1. r \in BatchType /\ r.targets = Unaliased(b.targets) /\ r.purpose = b.purpose
  BY RestType DEF Rest, BatchType
<1>2. /\ b.targets \in Seq(Addr) /\ Len(b.targets) \in Nat
      /\ b.purpose = "Alias" => b.targets = <<>> /\ Len(b.targets) = 0
      /\ r.purpose = "Alias" => Len(r.targets) = 0
      /\ r.purpose # "Alias" => r = Discovery(r.targets)
      /\ r.targets \in Seq(Addr) /\ Len(r.targets) \in Nat
  BY <1>1, BatchFacts
<1>3. Len(r.targets) <= Len(b.targets)
  BY <1>1, <1>2, UnaliasedType
<1>4. \A a : Copies(r, a) = IF a \in aliases THEN 0 ELSE Copies(b, a)
  <2>1. \A a : Copies(Discovery(Unaliased(b.targets)), a)
                 = IF a \in aliases THEN 0 ELSE Copies(Discovery(b.targets), a)
    BY <1>2, UnaliasedType
  <2> QED
    BY <1>1, <2>1 DEF Copies, Discovery
<1>5. CASE b.purpose = "Alias"
  <2>1. Size(b) = 3 /\ Size(r) = 3 /\ Len(b.targets) = 0 /\ Len(r.targets) = 0
    BY <1>1, <1>2, <1>5 DEF Size
  <2> QED
    BY <1>1, <1>4, <2>1
<1>6. CASE b.purpose # "Alias"
  <2>1. Size(b) = Len(b.targets) /\ Size(r) = Len(r.targets)
    BY <1>1, <1>6 DEF Size
  <2>2. Len(r.targets) = 0 => r = NoBatch
    <3>1. Len(r.targets) = 0 => r.targets = <<>>
      BY <1>2, EmptyByLength
    <3> QED
      BY <1>1, <1>2, <1>6, <3>1 DEF NoBatch
  <2> DEFINE m == Len(b.targets)
             n == Len(r.targets)
  <2>3. m \in Nat /\ n \in Nat /\ n <= m
    BY <1>2, <1>3
  <2> HIDE DEF m, n
  <2>4. n = m - (m - n)
    BY <2>3
  <2> QED
    BY <1>1, <1>3, <1>4, <2>1, <2>2, <2>4 DEF m, n
<1> QED
  BY <1>5, <1>6

\* What the pump does with the first batch of the outbox.
LEMMA PumpBatchFacts ==
  ASSUME SessionTypes, PumpBatch
  PROVE  /\ outbox # <<>> /\ Head(outbox) \in BatchType /\ Tail(outbox) \in Seq(BatchType)
         /\ wire' = wire - (Len(Head(outbox).targets) - Len(Unaliased(Head(outbox).targets)))
         /\ \/ /\ outbox' = <<Rest(Head(outbox))>> \o Tail(outbox) /\ txq' = txq
            \/ /\ outbox' = Tail(outbox)
               /\ txq' = txq /\ (~up \/ Rest(Head(outbox)) = NoBatch)
            \/ /\ outbox' = Tail(outbox) /\ txq' = Append(txq, Rest(Head(outbox)))
         /\ pc' = "failed" => ~up
         /\ UNCHANGED <<ackq, deadlines, sending>>
<1> DEFINE b == Head(outbox)
           r == [b EXCEPT !.targets = Unaliased(b.targets)]
<1>1. outbox # <<>> /\ b \in BatchType /\ Tail(outbox) \in Seq(BatchType)
  BY HeadTail DEF PumpBatch, SessionTypes, SessionTypeOK, ChannelsOK
<1>2. r = Rest(b) /\ (Size(r) = 0 => r = NoBatch)
  BY <1>1, RestFacts DEF Rest
<1>3. /\ wire' = wire - (Len(b.targets) - Len(Unaliased(b.targets)))
      /\ \/ outbox' = <<r>> \o Tail(outbox) /\ txq' = txq
         \/ outbox' = Tail(outbox) /\ txq' = txq /\ (~up \/ Size(r) = 0)
         \/ outbox' = Tail(outbox) /\ txq' = Append(txq, r)
      /\ pc' = "failed" => ~up
      /\ UNCHANGED <<ackq, deadlines, sending>>
  BY DEF PumpBatch, Requeued
<1> HIDE DEF b, r
<1> QED
  BY <1>1, <1>2, <1>3 DEF b

-----------------------------------------------------------------------------
(* What each step does to the load.                                         *)

\* A test handed out adds its batch to the load.
LEMMA LoadPumpTest ==
  ASSUME SessionTypes, PumpTest, NEW f \in Weightings
  PROVE  Load(f)' = Load(f) + f[AliasTest(queue[1])]
<1>1. SessionTypeOK /\ f \in [BatchType -> Nat] /\ outbox \in Seq(BatchType)
  BY LoadParts DEF SessionTypes, SessionTypeOK, ChannelsOK
<1>p. /\ Weigh(outbox, f) \in Nat /\ Weigh(txq, f) \in Nat /\ Weigh(ackq, f) \in Nat
      /\ Weigh(deadlines, f) \in Nat /\ Weigh(Held, f) \in Nat
  BY <1>1, LoadParts
<1>2. /\ AliasTest(queue[1]) \in BatchType
      /\ outbox' = <<AliasTest(queue[1])>> \o outbox
      /\ UNCHANGED <<txq, ackq, deadlines, sending>>
  BY PumpTestFacts DEF PumpTest, evars
<1>3. Weigh(outbox', f) = f[AliasTest(queue[1])] + Weigh(outbox, f)
  BY <1>1, <1>2, WeighCons
<1>4. Held' = Held
  BY <1>2 DEF Held
<1>5. f[AliasTest(queue[1])] \in Nat
  BY <1>1, <1>2
<1> QED
  <2>l. Load(f)' = Weigh(outbox', f) + Weigh(txq, f) + Weigh(ackq, f) + Weigh(deadlines, f)
                    + Weigh(Held, f)
    BY <1>2, <1>4 DEF Load
  <2>m. Load(f) = Weigh(outbox, f) + Weigh(txq, f) + Weigh(ackq, f) + Weigh(deadlines, f)
                    + Weigh(Held, f)
    BY DEF Load
  <2> QED
    BY <2>l, <2>m, <1>p, <1>3, <1>5

\* A submission adds its targets, without the aliased ones.
LEMMA LoadSubmit ==
  ASSUME SessionTypes, NEW b \in Batches, Submit(b), NEW f \in Weightings
  PROVE  Load(f)' = Load(f) + f[Discovery(Unaliased(b))]
<1>1. SessionTypeOK /\ f \in [BatchType -> Nat] /\ outbox \in Seq(BatchType)
  BY LoadParts DEF SessionTypes, SessionTypeOK, ChannelsOK
<1>p. /\ Weigh(outbox, f) \in Nat /\ Weigh(txq, f) \in Nat /\ Weigh(ackq, f) \in Nat
      /\ Weigh(deadlines, f) \in Nat /\ Weigh(Held, f) \in Nat
  BY <1>1, LoadParts
<1>2. Discovery(Unaliased(b)) \in BatchType
  BY SessionAssumption, UnaliasedType DEF Discovery, BatchType
<1>3. UNCHANGED <<txq, ackq, deadlines, sending>>
  BY DEF Submit, evars
<1>4. Weigh(outbox', f) = Weigh(outbox, f) + f[Discovery(Unaliased(b))]
  <2>1. CASE Unaliased(b) = <<>>
    <3>1. outbox' = outbox /\ f[Discovery(Unaliased(b))] = 0
      BY <2>1 DEF Submit, Weightings, NoBatch
    <3> QED
      BY <3>1, <1>1, LoadParts
  <2>2. CASE Unaliased(b) # <<>>
    <3>1. outbox' = Append(outbox, Discovery(Unaliased(b)))
      BY <2>2 DEF Submit
    <3> QED
      BY <1>1, <1>2, <3>1, WeighAppend
  <2> QED
    BY <2>1, <2>2
<1>5. Held' = Held
  BY <1>3 DEF Held
<1>6. f[Discovery(Unaliased(b))] \in Nat
  BY <1>1, <1>2
<1> QED
  <2>l. Load(f)' = Weigh(outbox', f) + Weigh(txq, f) + Weigh(ackq, f) + Weigh(deadlines, f)
                    + Weigh(Held, f)
    BY <1>3, <1>5 DEF Load
  <2>m. Load(f) = Weigh(outbox, f) + Weigh(txq, f) + Weigh(ackq, f) + Weigh(deadlines, f)
                    + Weigh(Held, f)
    BY DEF Load
  <2> QED
    BY <2>l, <2>m, <1>p, <1>4, <1>6

\* The pump finds the engine failed, and drops what is left of the first batch.
PumpLoses == ~up /\ outbox' = Tail(outbox) /\ txq' = txq

\* The pump takes from the load what it drops, or, the engine gone, a batch.
LEMMA LoadPumpBatch ==
  ASSUME SessionTypes, PumpBatch, NEW f \in Weightings
  PROVE  /\ f[Head(outbox)] <= Load(f)
         /\ Load(f)' = (Load(f) - f[Head(outbox)])
                          + IF PumpLoses THEN 0 ELSE f[Rest(Head(outbox))]
<1> DEFINE b == Head(outbox)
           r == Rest(b)
<1>1. SessionTypeOK /\ f \in [BatchType -> Nat] /\ outbox \in Seq(BatchType) /\ txq \in Seq(BatchType)
  BY LoadParts DEF SessionTypes, SessionTypeOK, ChannelsOK
<1>p. /\ Weigh(outbox, f) \in Nat /\ Weigh(txq, f) \in Nat /\ Weigh(ackq, f) \in Nat
      /\ Weigh(deadlines, f) \in Nat /\ Weigh(Held, f) \in Nat
  BY <1>1, LoadParts
<1>2. /\ outbox # <<>> /\ b \in BatchType /\ Tail(outbox) \in Seq(BatchType)
      /\ \/ outbox' = <<r>> \o Tail(outbox) /\ txq' = txq
         \/ outbox' = Tail(outbox) /\ txq' = txq /\ (~up \/ r = NoBatch)
         \/ outbox' = Tail(outbox) /\ txq' = Append(txq, r)
      /\ UNCHANGED <<ackq, deadlines, sending>>
  BY PumpBatchFacts
<1>3. r \in BatchType
  BY <1>2, RestFacts
<1>4. Weigh(outbox, f) = f[b] + Weigh(Tail(outbox), f) /\ Weigh(Tail(outbox), f) \in Nat
  BY <1>1, <1>2, WeighTail, WeightsType
<1>5. Held' = Held
  BY <1>2 DEF Held
<1> HIDE DEF b, r
<1>6. f[b] \in Nat /\ f[r] \in Nat /\ f[NoBatch] = 0
  BY <1>1, <1>2, <1>3 DEF Weightings
<1>7. f[b] <= Load(f)
  BY <1>4, <1>6, <1>p DEF Load
<1>8. CASE outbox' = <<r>> \o Tail(outbox) /\ txq' = txq
  <2>1. Weigh(outbox', f) = f[r] + Weigh(Tail(outbox), f)
    BY <1>1, <1>2, <1>3, <1>8, WeighCons
  <2>2. Load(f)' = (Load(f) - f[b]) + f[r]
    <3>l. Load(f)' = Weigh(outbox', f) + Weigh(txq, f) + Weigh(ackq, f) + Weigh(deadlines, f)
                      + Weigh(Held, f)
      BY <1>2, <1>5, <1>8 DEF Load
    <3>m. Load(f) = Weigh(outbox, f) + Weigh(txq, f) + Weigh(ackq, f) + Weigh(deadlines, f)
                      + Weigh(Held, f)
      BY DEF Load
    <3> QED
      BY <3>l, <3>m, <1>p, <1>4, <1>6, <2>1
  <2>3. <<r>> \o Tail(outbox) # Tail(outbox)
    <3> DEFINE t == Tail(outbox)
    <3>1. t \in Seq(BatchType)
      BY <1>2
    <3> HIDE DEF t
    <3>2. Len(<<r>> \o t) = Len(t) + 1 /\ Len(t) \in Nat
      BY <1>3, <3>1
    <3>3. <<r>> \o t # t
      BY <3>2
    <3> QED
      BY <3>3 DEF t
  <2>4. ~PumpLoses
    BY <1>8, <2>3 DEF PumpLoses
  <2> QED
    BY <1>7, <2>2, <2>4 DEF b, r
<1>9. CASE outbox' = Tail(outbox) /\ txq' = txq /\ (~up \/ r = NoBatch)
  <2>2. Load(f)' = Load(f) - f[b]
    <3>l. Load(f)' = Weigh(Tail(outbox), f) + Weigh(txq, f) + Weigh(ackq, f) + Weigh(deadlines, f)
                      + Weigh(Held, f)
      BY <1>2, <1>5, <1>9 DEF Load
    <3>m. Load(f) = Weigh(outbox, f) + Weigh(txq, f) + Weigh(ackq, f) + Weigh(deadlines, f)
                      + Weigh(Held, f)
      BY DEF Load
    <3> QED
      BY <3>l, <3>m, <1>p, <1>4, <1>6
  <2>3. Load(f) \in Nat
    BY <1>1, LoadIsWeight
  <2>4. (r = NoBatch => (Load(f) - f[b]) + f[r] = Load(f) - f[b]) /\ Load(f) - f[b] = (Load(f) - f[b]) + 0
    BY <1>6, <2>3
  <2>5. ~PumpLoses => r = NoBatch
    BY <1>9 DEF PumpLoses
  <2> QED
    BY <1>7, <2>2, <2>4, <2>5 DEF b, r
<1>10. CASE outbox' = Tail(outbox) /\ txq' = Append(txq, r)
  <2>1. Weigh(txq', f) = Weigh(txq, f) + f[r]
    BY <1>1, <1>3, <1>10, WeighAppend
  <2>2. Load(f)' = (Load(f) - f[b]) + f[r]
    <3>l. Load(f)' = Weigh(Tail(outbox), f) + Weigh(txq', f) + Weigh(ackq, f) + Weigh(deadlines, f)
                      + Weigh(Held, f)
      BY <1>2, <1>5, <1>10 DEF Load
    <3>m. Load(f) = Weigh(outbox, f) + Weigh(txq, f) + Weigh(ackq, f) + Weigh(deadlines, f)
                      + Weigh(Held, f)
      BY DEF Load
    <3> QED
      BY <3>l, <3>m, <1>p, <1>4, <1>6, <2>1
  <2>3. Append(txq, r) # txq
    <3>1. Len(Append(txq, r)) = Len(txq) + 1 /\ Len(txq) \in Nat
      BY <1>1, <1>3
    <3> QED
      BY <3>1
  <2>4. ~PumpLoses
    BY <1>10, <2>3 DEF PumpLoses
  <2> QED
    BY <1>7, <2>2, <2>4 DEF b, r
<1> QED
  BY <1>2, <1>8, <1>9, <1>10

\* An acknowledged batch still counts until it expires.
LEMMA LoadRecvAck ==
  ASSUME SessionTypes, RecvAck, NEW f \in Weightings
  PROVE  /\ Load(f)' = Load(f)
         /\ Weigh(ackq, f) = f[Head(ackq)] + Weigh(ackq', f) /\ Weigh(ackq', f) \in Nat
         /\ Held' = Held /\ Head(ackq) \in BatchType
<1>1. /\ SessionTypeOK /\ f \in [BatchType -> Nat] /\ ackq \in Seq(BatchType) /\ deadlines \in Seq(BatchType)
      /\ ackq # <<>> /\ Head(ackq) \in BatchType /\ Tail(ackq) \in Seq(BatchType)
  BY LoadParts, HeadTail DEF SessionTypes, SessionTypeOK, ChannelsOK, RecvAck
<1>p. /\ Weigh(outbox, f) \in Nat /\ Weigh(txq, f) \in Nat /\ Weigh(ackq, f) \in Nat
      /\ Weigh(deadlines, f) \in Nat /\ Weigh(Held, f) \in Nat
  BY <1>1, LoadParts
<1>2. /\ deadlines' = Append(deadlines, Head(ackq)) /\ ackq' = Tail(ackq)
      /\ UNCHANGED <<outbox, txq, sending>>
  BY DEF RecvAck
<1>3. Weigh(ackq, f) = f[Head(ackq)] + Weigh(ackq', f) /\ Weigh(ackq', f) \in Nat
  BY <1>1, <1>2, WeighTail, WeightsType
<1>4. Weigh(deadlines', f) = Weigh(deadlines, f) + f[Head(ackq)] /\ f[Head(ackq)] \in Nat
  BY <1>1, <1>2, WeighAppend
<1>5. Held' = Held
  BY <1>2 DEF Held
<1>6. Load(f)' = Load(f)
  BY <1>2, <1>3, <1>4, <1>5, <1>p DEF Load
<1> QED
  BY <1>1, <1>3, <1>5, <1>6

\* An expired batch leaves the load.
LEMMA LoadExpire ==
  ASSUME SessionTypes, ExpireTest \/ ExpireTargets, NEW f \in Weightings
  PROVE  /\ Load(f)' = Load(f) - f[Head(deadlines)] /\ f[Head(deadlines)] <= Load(f)
         /\ Held' = Held /\ Head(deadlines) \in BatchType
<1>1. /\ SessionTypeOK /\ f \in [BatchType -> Nat] /\ deadlines \in Seq(BatchType)
      /\ deadlines # <<>> /\ Head(deadlines) \in BatchType /\ Tail(deadlines) \in Seq(BatchType)
  BY LoadParts, HeadTail DEF SessionTypes, SessionTypeOK, ChannelsOK, ExpireTest, ExpireTargets
<1>p. /\ Weigh(outbox, f) \in Nat /\ Weigh(txq, f) \in Nat /\ Weigh(ackq, f) \in Nat
      /\ Weigh(deadlines, f) \in Nat /\ Weigh(Held, f) \in Nat
  BY <1>1, LoadParts
<1>2. deadlines' = Tail(deadlines) /\ UNCHANGED <<outbox, txq, ackq, sending>>
  BY DEF ExpireTest, ExpireTargets, evars
<1>3. /\ Weigh(deadlines, f) = f[Head(deadlines)] + Weigh(deadlines', f)
      /\ Weigh(deadlines', f) \in Nat /\ f[Head(deadlines)] \in Nat
  BY <1>1, <1>2, WeighTail, WeightsType
<1>4. Held' = Held
  BY <1>2 DEF Held
<1>5. Load(f)' = Load(f) - f[Head(deadlines)] /\ f[Head(deadlines)] <= Load(f)
  <2>l. Load(f)' = Weigh(outbox, f) + Weigh(txq, f) + Weigh(ackq, f) + Weigh(deadlines', f)
                    + Weigh(Held, f)
    BY <1>2, <1>4 DEF Load
  <2>m. Load(f) = Weigh(outbox, f) + Weigh(txq, f) + Weigh(ackq, f) + Weigh(deadlines, f)
                    + Weigh(Held, f)
    BY DEF Load
  <2> QED
    BY <2>l, <2>m, <1>p, <1>3, SMTT(60)
<1> QED
  BY <1>1, <1>4, <1>5

\* A batch being sent still counts.
LEMMA LoadSend ==
  ASSUME SessionTypes, NEW s \in Sender, SendBatch(s), NEW f \in Weightings
  PROVE  /\ Load(f)' = Load(f)
         /\ Weigh(Held', f) = Weigh(Held, f) + f[Head(txq)] /\ Head(txq) \in BatchType
<1>1. /\ SessionTypeOK /\ f \in [BatchType -> Nat] /\ txq \in Seq(BatchType)
      /\ txq # <<>> /\ Head(txq) \in BatchType /\ Tail(txq) \in Seq(BatchType)
  BY LoadParts, HeadTail DEF SessionTypes, SessionTypeOK, ChannelsOK, SendBatch
<1>p. /\ Weigh(outbox, f) \in Nat /\ Weigh(txq, f) \in Nat /\ Weigh(ackq, f) \in Nat
      /\ Weigh(deadlines, f) \in Nat /\ Weigh(Held, f) \in Nat
  BY <1>1, LoadParts
<1>2. /\ sending[s] = NoBatch /\ sending' = [sending EXCEPT ![s] = Head(txq)]
      /\ txq' = Tail(txq) /\ UNCHANGED <<outbox, ackq, deadlines>>
  BY DEF SendBatch, svars
<1>3. Weigh(txq, f) = f[Head(txq)] + Weigh(txq', f) /\ Weigh(txq', f) \in Nat /\ f[Head(txq)] \in Nat
  BY <1>1, <1>2, WeighTail, WeightsType
<1>4. Weigh(Held', f) = (Weigh(Held, f) - f[NoBatch]) + f[Head(txq)]
  BY <1>1, <1>2, HeldChange
<1>5. f[NoBatch] = 0 /\ Weigh(Held, f) \in Nat
  BY <1>1, LoadParts DEF Weightings
<1>6. Weigh(Held', f) = Weigh(Held, f) + f[Head(txq)]
  BY <1>3, <1>4, <1>5
<1>7. Load(f)' = Load(f)
  <2>l. Load(f)' = Weigh(outbox, f) + Weigh(txq', f) + Weigh(ackq, f) + Weigh(deadlines, f)
                    + Weigh(Held', f)
    BY <1>2 DEF Load
  <2>m. Load(f) = Weigh(outbox, f) + Weigh(txq, f) + Weigh(ackq, f) + Weigh(deadlines, f)
                    + Weigh(Held, f)
    BY DEF Load
  <2> QED
    BY <2>l, <2>m, <1>p, <1>3, <1>6
<1> QED
  BY <1>1, <1>6, <1>7

\* A batch passed back still counts.
LEMMA LoadAcknowledge ==
  ASSUME SessionTypes, NEW s \in Sender, Acknowledge(s), NEW f \in Weightings
  PROVE  /\ Load(f)' = Load(f)
         /\ Weigh(ackq', f) + Weigh(Held', f) = Weigh(ackq, f) + Weigh(Held, f)
<1>1. /\ SessionTypeOK /\ f \in [BatchType -> Nat] /\ ackq \in Seq(BatchType)
      /\ sending[s] \in BatchType
  BY LoadParts DEF SessionTypes, SessionTypeOK, ChannelsOK
<1>p. /\ Weigh(outbox, f) \in Nat /\ Weigh(txq, f) \in Nat /\ Weigh(ackq, f) \in Nat
      /\ Weigh(deadlines, f) \in Nat /\ Weigh(Held, f) \in Nat
  BY <1>1, LoadParts
<1>2. /\ sending' = [sending EXCEPT ![s] = NoBatch] /\ ackq' = Append(ackq, sending[s])
      /\ UNCHANGED <<outbox, txq, deadlines>>
  BY DEF Acknowledge, svars
<1>3. Weigh(ackq', f) = Weigh(ackq, f) + f[sending[s]] /\ f[sending[s]] \in Nat
  BY <1>1, <1>2, WeighAppend
<1>4. Weigh(Held', f) = (Weigh(Held, f) - f[sending[s]]) + f[NoBatch]
  BY <1>1, <1>2, NoBatchType, HeldChange
<1>5. f[NoBatch] = 0 /\ Weigh(Held, f) \in Nat /\ Weigh(ackq, f) \in Nat
  BY <1>1, LoadParts DEF Weightings
<1>6. Weigh(ackq', f) + Weigh(Held', f) = Weigh(ackq, f) + Weigh(Held, f)
  BY <1>3, <1>4, <1>5
<1>7. Load(f)' = Load(f)
  BY <1>2, <1>3, <1>4, <1>5, <1>p, SMTT(60) DEF Load
<1> QED
  BY <1>6, <1>7

\* When the engine fails, the load loses the batches it had.
LEMMA LoadFails ==
  ASSUME SessionTypes, SessionTypes', EngineFails, NEW f \in Weightings
  PROVE  /\ Load(f)' <= Load(f) /\ Load(f)' \in Nat
         /\ Load(f)' + Weigh(txq, f) + Weigh(Held, f) = Load(f)
         /\ Weigh(txq, f) \in Nat /\ Weigh(Held, f) \in Nat
<1>1. SessionTypeOK /\ SessionTypeOK' /\ f \in [BatchType -> Nat]
  BY LoadParts DEF SessionTypes
<1>2. txq' = <<>> /\ sending' = [s \in Sender |-> NoBatch] /\ UNCHANGED <<outbox, ackq, deadlines>>
  BY DEF EngineFails, svars
<1>3. Weigh(txq', f) = 0
  BY <1>2, WeighEmpty
<1>4. Weigh(Held', f) = 0
  <2>1. Held' = [i \in 1..Cardinality(Sender) |-> NoBatch]
    <3>1. \A i \in 1..Cardinality(Sender) : sending'[Senders[i]] = NoBatch
      BY <1>2, SendersFacts
    <3>2. Held' = [i \in 1..Cardinality(Sender) |-> sending'[Senders[i]]]
      BY DEF Held
    <3> QED
      BY <3>1, <3>2
  <2>2. Weights(Held', f) = [i \in 1..Cardinality(Sender) |-> 0]
    BY <2>1 DEF Weights, Weightings
  <2>3. Total([i \in 1..Cardinality(Sender) |-> 0]) = 0
    BY SendersFacts, TotalZero
  <2> QED
    BY <2>2, <2>3 DEF Weigh
<1>p. /\ Weigh(outbox, f) \in Nat /\ Weigh(txq, f) \in Nat /\ Weigh(ackq, f) \in Nat
      /\ Weigh(deadlines, f) \in Nat /\ Weigh(Held, f) \in Nat
  BY <1>1, LoadParts
<1>5. Load(f)' = Weigh(outbox, f) + Weigh(ackq, f) + Weigh(deadlines, f)
  <2>1. Load(f)' = Weigh(outbox, f) + Weigh(txq', f) + Weigh(ackq, f) + Weigh(deadlines, f)
                    + Weigh(Held', f)
    BY <1>2 DEF Load
  <2> QED
    BY <2>1, <1>3, <1>4, <1>p
<1>6. Load(f) = Weigh(outbox, f) + Weigh(txq, f) + Weigh(ackq, f) + Weigh(deadlines, f)
                  + Weigh(Held, f)
  BY DEF Load
<1> QED
  BY <1>5, <1>6, <1>p

\* The load changes only with the batches.
LEMMA LoadSame ==
  ASSUME UNCHANGED <<outbox, txq, ackq, deadlines, sending>>, NEW f
  PROVE  Load(f)' = Load(f) /\ Held' = Held
<1>1. Held' = Held
  BY DEF Held
<1> QED
  BY <1>1 DEF Load

-----------------------------------------------------------------------------
(* The probes on the wire.                                                  *)

ProbeType == [copies : Nat, active : BOOLEAN, responded : BOOLEAN, reported : BOOLEAN]

\* What the outstanding batches weigh, with those that a failing engine lost.
Kept(lost, f) == Load(f) + Weigh(lost, f)

\* "wire", the copies of each target and the tests handed out are those of the
\* batches outstanding and lost.
Accounts(lost) ==
  /\ wire = Kept(lost, SizeOf)
  /\ \A a \in Addr : probes[a].copies = Kept(lost, CopiesOf(a))
  /\ \A p \in Prefix : (IF p \in samples THEN 1 ELSE 0) = Kept(lost, TestOf(p))

\* A session is told of no loss, so its counts stay; a working engine loses none.
AccountsIInv ==
  /\ probes \in [Addr -> ProbeType]
  /\ \E lost \in Seq(BatchType) : Accounts(lost) /\ (up => lost = <<>>)

\* What follows for "wire", and for the copies of each target.
WireIInv ==
  /\ wire \in Nat
  /\ Load(SizeOf) <= wire
  /\ up => wire = Load(SizeOf)

CopiesIInv ==
  /\ probes \in [Addr -> ProbeType]
  /\ \A a \in Addr : /\ Load(CopiesOf(a)) <= probes[a].copies
                     /\ up => probes[a].copies = Load(CopiesOf(a))

\* The targets outstanding and those the caller may still submit fit.
GrantIInv ==
  /\ granted \in Nat
  /\ Load(TargetsOf) + granted <= MaxInFlight

\* The engine has counted what was acknowledged, and what is about to be.
AcksIInv ==
  /\ sent \in Nat /\ aliasSent \in Nat /\ statsSent \in Nat
  /\ up => statsSent = sent + aliasSent + Weigh(ackq, SizeOf) + Weigh(Held, SizeOf)
  /\ pc = "failed" => ~up

CountsIInv == AccountsIInv /\ GrantIInv /\ AcksIInv

\* The steps that move a batch.
Moves ==
  \/ PumpTest \/ PumpBatch \/ RecvAck \/ ExpireTest \/ ExpireTargets
  \/ \E b \in Batches : Submit(b)
  \/ \E s \in Sender : SendBatch(s) \/ Acknowledge(s)
  \/ EngineFails

\* All other steps leave the batches and their counts alone.
LEMMA OtherSteps ==
  ASSUME [SessionNext]_vars, ~Moves
  PROVE  UNCHANGED <<outbox, txq, ackq, deadlines, sending, wire, sent, aliasSent, statsSent, up>>
<1>1. CASE PumpTested \/ PumpDone
  BY <1>1 DEF PumpTested, PumpDone, evars
<1>2. CASE RecvReply \/ Deadline \/ RetryOutbox \/ EngineLost
  BY <1>2 DEF RecvReply, Deadline, RetryOutbox, EngineLost, evars
<1>3. CASE ConsiderNext \/ PublishAliases \/ DrainReply \/ DrainEnd \/ Return
  BY <1>3 DEF ConsiderNext, PublishAliases, DrainReply, DrainEnd, Return, evars
<1>4. CASE Plan \/ Decline \/ (\E a \in Asked : Ask(a)) \/ CallNext \/ FinishSession
  BY <1>4 DEF Plan, Decline, Ask, CallNext, FinishSession, evars
<1>5. CASE Deliver
  BY <1>5 DEF Deliver, svars
<1>6. CASE Ended \/ UNCHANGED vars
  BY <1>6 DEF Ended, vars, svars, evars
<1> QED
  BY <1>1, <1>2, <1>3, <1>4, <1>5, <1>6 DEF SessionNext, Pump, Event, Handle, Caller, Engine,
     Moves

\* The sizes of the batches that the steps add or change.
LEMMA SizesOfSteps ==
  /\ \A p \in Prefix : /\ AliasTest(p) \in BatchType
                       /\ SizeOf[AliasTest(p)] = 3 /\ TargetsOf[AliasTest(p)] = 0
                       /\ \A a : CopiesOf(a)[AliasTest(p)] = 0
  /\ \A b \in Batches : LET d == Discovery(Unaliased(b))
                        IN  /\ d \in BatchType
                            /\ SizeOf[d] = Len(Unaliased(b)) /\ TargetsOf[d] = Len(Unaliased(b))
                            /\ Len(Unaliased(b)) \in Nat /\ Len(b) \in Nat
                            /\ Len(Unaliased(b)) <= Len(b)
                            /\ \A a : CopiesOf(a)[d] = Copies(d, a) /\ Copies(d, a) \in Nat
<1>1. ASSUME NEW p \in Prefix
      PROVE  /\ AliasTest(p) \in BatchType
             /\ SizeOf[AliasTest(p)] = 3 /\ TargetsOf[AliasTest(p)] = 0
             /\ \A a : CopiesOf(a)[AliasTest(p)] = 0
  <2>1. AliasTest(p) \in BatchType /\ AliasTest(p).purpose = "Alias"
    BY DEF AliasTest, BatchType
  <2>2. Len(AliasTest(p).targets) = 0 /\ \A a : Copies(AliasTest(p), a) = 0
    BY <2>1, BatchFacts
  <2>3. SizeOf[AliasTest(p)] = 3
    BY <2>1 DEF SizeOf, Size
  <2>4. TargetsOf[AliasTest(p)] = 0
    BY <2>1, <2>2 DEF TargetsOf
  <2>5. \A a : CopiesOf(a)[AliasTest(p)] = 0
    BY <2>1, <2>2 DEF CopiesOf
  <2> QED
    BY <2>1, <2>3, <2>4, <2>5
<1>2. ASSUME NEW b \in Batches, NEW d, d = Discovery(Unaliased(b))
      PROVE  /\ d \in BatchType
             /\ SizeOf[d] = Len(Unaliased(b)) /\ TargetsOf[d] = Len(Unaliased(b))
             /\ Len(Unaliased(b)) \in Nat /\ Len(b) \in Nat
             /\ Len(Unaliased(b)) <= Len(b)
             /\ \A a : CopiesOf(a)[d] = Copies(d, a) /\ Copies(d, a) \in Nat
  <2>1. b \in Seq(Addr)
    BY SessionAssumption
  <2>2. Unaliased(b) \in Seq(Addr) /\ Len(Unaliased(b)) <= Len(b)
    BY <2>1, UnaliasedType
  <2>3. d \in BatchType /\ d.purpose # "Alias" /\ d.targets = Unaliased(b)
    BY <1>2, <2>2 DEF Discovery, BatchType
  <2>4. \A a : Copies(d, a) \in Nat
    BY <2>3, BatchFacts
  <2>5. SizeOf[d] = Len(Unaliased(b)) /\ TargetsOf[d] = Len(Unaliased(b))
    BY <2>3 DEF SizeOf, TargetsOf, Size
  <2>6. \A a : CopiesOf(a)[d] = Copies(d, a)
    BY <2>3 DEF CopiesOf
  <2> QED
    BY <2>1, <2>2, <2>3, <2>4, <2>5, <2>6
<1> QED
  BY <1>1, <1>2

\* No step makes the targets outstanding and granted more than max_in_flight.
LEMMA GrantStep ==
  ASSUME SessionTypes, SessionTypes', WaitersIInv, WireIInv, GrantIInv, [SessionNext]_vars
  PROVE  GrantIInv'
<1> DEFINE T == Load(TargetsOf)
<1>1. TargetsOf \in Weightings /\ SessionTypeOK /\ SessionTypeOK' /\ MaxInFlight \in Nat
  BY WeightingsFacts, SessionAssumption DEF SessionTypes
<1>m. MaxInFlight \in Nat
  BY SessionAssumption
<1>2. T \in Nat /\ granted \in Nat /\ T + granted <= MaxInFlight
  BY <1>1, LoadIsWeight DEF GrantIInv
<1>3. CASE PumpTest
  <2>1. T' = T + 0 /\ granted' = granted
    BY <1>1, <1>3, LoadPumpTest, PumpTestFacts, SizesOfSteps DEF PumpTest
  <2> HIDE DEF T
  <2>2. granted' \in Nat /\ T' + granted' <= MaxInFlight
    BY <1>1, <1>2, <2>1
  <2> QED
    BY <2>2 DEF T, GrantIInv
<1>4. ASSUME NEW b \in Batches, Submit(b) PROVE GrantIInv'
  <2> DEFINE n == Len(Unaliased(b))
             m == Len(b)
  <2>1. T' = T + n /\ n \in Nat /\ m \in Nat /\ n <= m
    BY <1>1, <1>4, LoadSubmit, SizesOfSteps
  <2>2. granted' = 0 /\ m <= granted
    BY <1>4 DEF Submit
  <2> HIDE DEF T, n, m
  <2>3. granted' \in Nat /\ T' + granted' <= MaxInFlight
    BY <1>1, <1>2, <2>1, <2>2
  <2> QED
    BY <2>3 DEF T, GrantIInv
<1>5. CASE PumpBatch
  <2> DEFINE b == Head(outbox)
  <2>1. b \in BatchType /\ granted' = granted
    BY <1>5, PumpBatchFacts DEF PumpBatch
  <2>2. /\ TargetsOf[b] \in Nat /\ TargetsOf[Rest(b)] \in Nat /\ TargetsOf[Rest(b)] <= TargetsOf[b]
    BY <2>1, BatchFacts, RestFacts DEF TargetsOf
  <2>4. /\ TargetsOf[b] <= T
        /\ T' = (T - TargetsOf[b]) + IF PumpLoses THEN 0 ELSE TargetsOf[Rest(b)]
    BY <1>1, <1>5, LoadPumpBatch
  <2> DEFINE x == TargetsOf[b]
             y == TargetsOf[Rest(b)]
  <2> HIDE DEF T, x, y
  <2>5. granted' \in Nat /\ T' + granted' <= MaxInFlight
    BY <1>1, <1>2, <2>1, <2>2, <2>4 DEF x, y
  <2> QED
    BY <2>5 DEF T, GrantIInv
<1>6. CASE ExpireTest \/ ExpireTargets
  <2> DEFINE x == TargetsOf[Head(deadlines)]
  <2>1. T' = T - x /\ x <= T /\ Head(deadlines) \in BatchType
    BY <1>1, <1>6, LoadExpire
  <2>2. x \in Nat
    BY <2>1, BatchFacts DEF TargetsOf
  <2>3. granted' = granted
    BY <1>6 DEF ExpireTest, ExpireTargets
  <2> HIDE DEF T, x
  <2>4. granted' \in Nat /\ T' + granted' <= MaxInFlight
    BY <1>1, <1>2, <2>1, <2>2, <2>3
  <2> QED
    BY <2>4 DEF T, GrantIInv
<1>7. CASE RecvAck \/ \E s \in Sender : SendBatch(s) \/ Acknowledge(s)
  <2>1. T' = T
    BY <1>1, <1>7, LoadRecvAck, LoadSend, LoadAcknowledge
  <2>2. granted' = granted
    BY <1>7 DEF RecvAck, SendBatch, Acknowledge, svars
  <2> QED
    BY <1>2, <2>1, <2>2 DEF GrantIInv
<1>8. CASE EngineFails
  <2>1. T' <= T /\ T' \in Nat
    BY <1>1, <1>8, LoadFails
  <2>2. granted' = granted
    BY <1>8 DEF EngineFails, svars
  <2> HIDE DEF T
  <2>3. \A t \in Nat : t <= T => t + granted <= MaxInFlight
    BY <1>m, <1>2
  <2>4. granted' \in Nat /\ T' + granted' <= MaxInFlight
    BY <1>2, <2>1, <2>2, <2>3, Zenon
  <2> QED
    BY <2>4 DEF T, GrantIInv
<1>9. CASE Plan
  <2>1. T' = T /\ granted' = Capacity /\ granted' > 0
    <3>1. UNCHANGED <<outbox, txq, ackq, deadlines, sending>>
      BY <1>9 DEF Plan, evars
    <3> QED
      BY <1>9, <3>1, LoadSame DEF Plan
  <2>2. waitingCount \in Nat /\ wire \in Nat
    BY FS_CardinalityType DEF WaitersIInv, WireIInv
  <2>3. T <= wire
    <3>1. SizeOf \in Weightings /\ \A b \in BatchType : TargetsOf[b] <= SizeOf[b]
      BY WeightingsFacts
    <3>2. Weigh(Outstanding, TargetsOf) <= Weigh(Outstanding, SizeOf)
      BY <1>1, <3>1, LoadIsWeight, WeighMonotone DEF Weightings
    <3>3. Load(SizeOf) \in Nat /\ Load(SizeOf) <= wire /\ T <= Load(SizeOf)
      BY <1>1, <3>1, <3>2, LoadIsWeight DEF WireIInv
    <3> HIDE DEF T
    <3> QED
      BY <1>2, <2>2, <3>3
  <2> HIDE DEF T
  <2>4. granted' \in Nat /\ T + granted' <= MaxInFlight
    BY <1>1, <1>2, <2>1, <2>2, <2>3 DEF Capacity
  <2> QED
    BY <2>1, <2>4 DEF T, GrantIInv
<1>10. CASE ~Moves /\ ~Plan
  <2>1. UNCHANGED <<outbox, txq, ackq, deadlines, sending>>
    BY <1>10, OtherSteps
  <2>2. T' = T
    BY <2>1, LoadSame
  <2>3. granted' = granted \/ granted' = 0
    <3>1. CASE PumpTested \/ PumpDone
      BY <3>1 DEF PumpTested, PumpDone, evars
    <3>2. CASE RecvReply \/ Deadline \/ RetryOutbox \/ EngineLost
      BY <3>2 DEF RecvReply, Deadline, RetryOutbox, EngineLost, evars
    <3>3. CASE ConsiderNext \/ PublishAliases \/ DrainReply \/ DrainEnd \/ Return
      BY <3>3 DEF ConsiderNext, PublishAliases, DrainReply, DrainEnd, Return, evars
    <3>4. CASE Decline \/ (\E a \in Asked : Ask(a)) \/ CallNext \/ FinishSession
      BY <3>4 DEF Decline, Ask, CallNext, FinishSession, evars
    <3>5. CASE Deliver
      BY <3>5 DEF Deliver, svars
    <3>6. CASE Ended \/ UNCHANGED vars
      BY <3>6 DEF Ended, vars, svars, evars
    <3> QED
      BY <1>10, <3>1, <3>2, <3>3, <3>4, <3>5, <3>6 DEF SessionNext, Pump, Event, Handle, Caller,
         Engine, Moves
  <2> HIDE DEF T
  <2>4. granted' \in Nat /\ T + granted' <= MaxInFlight
    BY <1>1, <1>2, <2>3
  <2> QED
    BY <2>2, <2>4 DEF T, GrantIInv
<1> QED
  BY <1>3, <1>4, <1>5, <1>6, <1>7, <1>8, <1>9, <1>10 DEF Moves

\* The copies of the targets of a batch leave Session.pending.
LEMMA WithoutFacts ==
  ASSUME probes \in [Addr -> ProbeType], NEW b \in BatchType, NEW K, NEW a \in Addr,
         Copies(b, a) <= probes[a].copies
  PROVE  /\ Without(b, K)[a] \in ProbeType
         /\ Without(b, K)[a].copies = probes[a].copies - IF a \in K THEN 0 ELSE Copies(b, a)
<1> DEFINE left == probes[a].copies - IF a \in K THEN 0 ELSE Copies(b, a)
<1>1. Copies(b, a) \in Nat /\ probes[a] \in ProbeType /\ probes[a].copies \in Nat
  BY BatchFacts DEF ProbeType
<1>2. left \in Nat
  BY <1>1
<1>3. Without(b, K)[a] = IF left = 0 THEN NoProbe ELSE [probes[a] EXCEPT !.copies = left]
  BY DEF Without
<1>4. NoProbe \in ProbeType /\ NoProbe.copies = 0
  BY DEF NoProbe, ProbeType
<1> HIDE DEF left
<1>5. Without(b, K)[a] \in ProbeType /\ Without(b, K)[a].copies = left
  BY <1>1, <1>2, <1>3, <1>4 DEF ProbeType
<1> QED
  BY <1>5 DEF left

\* report() changes no copies.
LEMMA ReportFacts ==
  ASSUME probes \in [Addr -> ProbeType], NEW a \in Addr, NEW kind, Report(a, kind)
  PROVE  probes' \in [Addr -> ProbeType] /\ \A c \in Addr : probes'[c].copies = probes[c].copies
<1>1. CASE UNCHANGED probes
  BY <1>1
<1>2. ASSUME NEW x \in BOOLEAN, probes' = [probes EXCEPT ![a].reported = x]
      PROVE  probes' \in [Addr -> ProbeType] /\ \A c \in Addr : probes'[c].copies = probes[c].copies
  BY <1>2 DEF ProbeType
<1>3. (probes[a].copies > 0) \in BOOLEAN
  OBVIOUS
<1> QED
  BY <1>1, <1>2, <1>3 DEF Report

\* A reply changes no copies.
LEMMA HandleReplyCopies ==
  ASSUME probes \in [Addr -> ProbeType], NEW reply \in ReplyType, HandleReply(reply)
  PROVE  probes' \in [Addr -> ProbeType] /\ \A c \in Addr : probes'[c].copies = probes[c].copies
<1>1. CASE UNCHANGED probes
  BY <1>1
<1>2. CASE ~UNCHANGED probes
  <2> DEFINE a == reply.target
             found == reply.direct /\ ~probes[a].active
  <2>1. reply.purpose # "Alias" /\ a \in Addr
    BY <1>2 DEF HandleReply, ReplyType
  <2>2. probes' = [probes EXCEPT ![a].responded = TRUE, ![a].active = @ \/ found]
    BY <1>2, <2>1 DEF HandleReply
  <2>3. probes[a] \in ProbeType
    BY <2>1
  <2>4. found \in BOOLEAN /\ (probes[a].active \/ found) \in BOOLEAN
    OBVIOUS
  <2> HIDE DEF a, found
  <2>5. probes'[a] = [probes[a] EXCEPT !.responded = TRUE, !.active = @ \/ found]
    BY <2>1, <2>2
  <2>6. probes'[a] \in ProbeType /\ probes'[a].copies = probes[a].copies
    BY <2>3, <2>4, <2>5 DEF ProbeType
  <2>7. DOMAIN probes' = Addr /\ \A c \in Addr : c # a => probes'[c] = probes[c]
    BY <2>2
  <2>8. \A c \in Addr : probes'[c] \in ProbeType /\ probes'[c].copies = probes[c].copies
    BY <2>6, <2>7
  <2>9. probes' = [c \in Addr |-> probes'[c]]
    BY <2>2, <2>7
  <2> QED
    BY <2>8, <2>9
<1> QED
  BY <1>1, <1>2

-----------------------------------------------------------------------------
(* Every probe is accounted for.                                            *)

\* What is kept of a measure is a number.
LEMMA KeptType ==
  ASSUME SessionTypeOK, NEW lost \in Seq(BatchType), NEW f \in Weightings
  PROVE  Kept(lost, f) \in Nat /\ Load(f) \in Nat /\ Weigh(lost, f) \in Nat
         /\ \A b \in BatchType : f[b] \in Nat
<1>1. Load(f) \in Nat /\ Weigh(lost, f) \in Nat
  BY LoadIsWeight, WeightsType DEF Weightings
<1> QED
  BY <1>1 DEF Kept, Weightings

\* One batch, x, gives way to another, y, in the books as on the wire.
LEMMA AccountsReplace ==
  ASSUME SessionTypeOK, NEW lost \in Seq(BatchType), Accounts(lost),
         NEW now \in Seq(BatchType), NEW x \in BatchType, NEW y \in BatchType,
         \A f \in Weightings :
            f[x] <= Kept(lost, f) /\ Kept(now, f)' = (Kept(lost, f) - f[x]) + f[y],
         wire' = (wire - Size(x)) + Size(y),
         \A a \in Addr : probes'[a].copies = (probes[a].copies - Copies(x, a)) + Copies(y, a),
         samples' = (samples \ {x.test}) \cup ({y.test} \ {NoPrefix}),
         y.test \in samples => y.test = x.test
  PROVE  Accounts(now)'
<1>0. \A f \in Weightings : Kept(now, f)' = (Kept(lost, f) - f[x]) + f[y]
  OBVIOUS
<1>1. wire' = Kept(now, SizeOf)'
  <2>1. Kept(now, SizeOf)' = (Kept(lost, SizeOf) - SizeOf[x]) + SizeOf[y]
    BY <1>0, WeightingsFacts
  <2> QED
    BY <2>1 DEF Accounts, SizeOf
<1>2. \A a \in Addr : probes'[a].copies = Kept(now, CopiesOf(a))'
  <2> SUFFICES ASSUME NEW a \in Addr PROVE probes'[a].copies = Kept(now, CopiesOf(a))'
    OBVIOUS
  <2>1. Kept(now, CopiesOf(a))' = (Kept(lost, CopiesOf(a)) - CopiesOf(a)[x]) + CopiesOf(a)[y]
    BY <1>0, WeightingsFacts
  <2> QED
    BY <2>1 DEF Accounts, CopiesOf
<1>3. \A p \in Prefix : (IF p \in samples' THEN 1 ELSE 0) = Kept(now, TestOf(p))'
  <2> SUFFICES ASSUME NEW p \in Prefix
               PROVE  (IF p \in samples' THEN 1 ELSE 0) = Kept(now, TestOf(p))'
    OBVIOUS
  <2> DEFINE k == Kept(lost, TestOf(p))
             j == Kept(now, TestOf(p))'
  <2>1. j = (k - TestOf(p)[x]) + TestOf(p)[y] /\ TestOf(p)[x] <= k
    BY <1>0, WeightingsFacts
  <2>2. k = IF p \in samples THEN 1 ELSE 0
    BY DEF Accounts
  <2>3. TestOf(p)[x] = (IF x.test = p THEN 1 ELSE 0) /\ TestOf(p)[y] = IF y.test = p THEN 1 ELSE 0
    BY DEF TestOf
  <2>4. p \in samples' <=> (p \in samples /\ x.test # p) \/ y.test = p
    BY PrefixNotNone
  <2> HIDE DEF k, j
  <2>5. (IF p \in samples' THEN 1 ELSE 0) = j
    BY <2>1, <2>2, <2>3, <2>4
  <2> QED
    BY <2>5 DEF j
<1> QED
  BY <1>1, <1>2, <1>3 DEF Accounts

\* Nothing in the books changes.
LEMMA AccountsSame ==
  ASSUME SessionTypeOK, NEW lost \in Seq(BatchType), Accounts(lost), NEW now \in Seq(BatchType),
         \A f \in Weightings : Kept(now, f)' = Kept(lost, f),
         wire' = wire, samples' = samples,
         \A a \in Addr : probes'[a].copies = probes[a].copies
  PROVE  Accounts(now)'
  BY WeightingsFacts DEF Accounts

\* What is not among a batch's targets has no copy in it.
LEMMA NotTarget ==
  ASSUME NEW b, NEW a, a \notin Targets(b)
  PROVE  Copies(b, a) = 0
<1>1. {i \in DOMAIN b.targets : b.targets[i] = a} = {}
  BY DEF Targets
<1> QED
  BY <1>1, FS_EmptySet DEF Copies, Occurrences

\* The test of a batch on the wire has been handed out.
LEMMA TestOnWire ==
  ASSUME NEW lost, Accounts(lost), NEW x \in BatchType, x.test # NoPrefix,
         \A f \in Weightings : f[x] <= Kept(lost, f)
  PROVE  x.test \in samples
<1>1. x.test \in Prefix
  BY DEF BatchType
<1>2. TestOf(x.test)[x] = 1 /\ TestOf(x.test) \in Weightings
  BY <1>1, WeightingsFacts DEF TestOf
<1>3. 1 <= Kept(lost, TestOf(x.test))
  BY <1>2
<1>4. (IF x.test \in samples THEN 1 ELSE 0) = Kept(lost, TestOf(x.test))
  BY <1>1 DEF Accounts
<1> QED
  BY <1>3, <1>4

\* The books stay right in every step.
LEMMA AccountsStep ==
  ASSUME SessionTypes, SessionTypes', AccountsIInv, [SessionNext]_vars
  PROVE  AccountsIInv'
<1>0. PICK lost \in Seq(BatchType) : Accounts(lost) /\ (up => lost = <<>>)
  BY DEF AccountsIInv
<1>1. SessionTypeOK /\ probes \in [Addr -> ProbeType] /\ NoBatch \in BatchType
  BY NoBatchType DEF SessionTypes, AccountsIInv
<1>p. probes \in [Addr -> ProbeType]
  BY <1>1
<1>2. \A f \in Weightings : /\ Kept(lost, f) \in Nat /\ Load(f) \in Nat /\ Weigh(lost, f) \in Nat
                            /\ \A b \in BatchType : f[b] \in Nat
                            /\ f[NoBatch] = 0
  BY <1>1, KeptType DEF Weightings
<1>3. /\ wire \in Nat /\ \A a \in Addr : probes[a].copies \in Nat
      /\ Size(NoBatch) = 0 /\ NoBatch.test = NoPrefix /\ \A a \in Addr : Copies(NoBatch, a) = 0
      /\ samples \subseteq Prefix /\ NoPrefix \notin samples
  <2>1. wire \in Nat
    BY <1>0, <1>2, WeightingsFacts DEF Accounts
  <2>2. samples \subseteq Prefix
    BY DEF SessionTypes, DetectorIInv, DetectorTypeOK
  <2>3. NoBatch.test = NoPrefix
    BY DEF NoBatch, Discovery
  <2> QED
    BY <1>1, <2>1, <2>2, <2>3, NoBatchFacts, PrefixNotNone DEF ProbeType
<1>4. CASE PumpTest
  <2> DEFINE y == AliasTest(queue[1])
  <2>1. /\ queue[1] \in Prefix /\ y \in BatchType /\ wire' = wire + 3
        /\ UNCHANGED <<probes, up>>
    BY <1>4, PumpTestFacts DEF PumpTest, evars
  <2>2. y.test = queue[1] /\ Size(y) = 3 /\ \A a : Copies(y, a) = 0
    <3>1. y.purpose = "Alias" /\ y.test = queue[1]
      BY DEF AliasTest
    <3> QED
      BY <2>1, <3>1, BatchFacts DEF Size
  <2>3. samples' = samples \cup {queue[1]} /\ queue[1] \notin samples
    <3>1. queue # <<>> /\ NextTest
      BY <1>4 DEF PumpTest
    <3>2. queue[1] \in pending \ samples
      BY <3>1 DEF SessionTypes, DetectorIInv, DetectorTypeOK, EveryTestHeld
    <3> QED
      BY <3>1, <3>2, NextTestTakesFront DEF SessionTypes, DetectorIInv
  <2> HIDE DEF y
  <2>4. \A f \in Weightings : f[NoBatch] <= Kept(lost, f) /\ Kept(lost, f)' = (Kept(lost, f) - f[NoBatch]) + f[y]
    <3> SUFFICES ASSUME NEW f \in Weightings
                 PROVE  f[NoBatch] <= Kept(lost, f) /\ Kept(lost, f)' = (Kept(lost, f) - f[NoBatch]) + f[y]
      OBVIOUS
    <3>1. Load(f)' = Load(f) + f[y]
      BY <1>4, LoadPumpTest DEF y
    <3>2. Kept(lost, f)' = Load(f)' + Weigh(lost, f) /\ Kept(lost, f) = Load(f) + Weigh(lost, f)
      BY DEF Kept
    <3>3. Load(f) \in Nat /\ Weigh(lost, f) \in Nat /\ f[y] \in Nat /\ f[NoBatch] = 0
      BY <1>2, <2>1
    <3> QED
      BY <3>1, <3>2, <3>3
  <2>5. wire' = (wire - Size(NoBatch)) + Size(y)
    BY <1>3, <2>1, <2>2
  <2>6. \A a \in Addr : probes'[a].copies = (probes[a].copies - Copies(NoBatch, a)) + Copies(y, a)
    BY <1>3, <2>1, <2>2
  <2>7. samples' = (samples \ {NoBatch.test}) \cup ({y.test} \ {NoPrefix})
    BY <1>3, <2>1, <2>2, <2>3, PrefixNotNone
  <2>8. Accounts(lost)'
    BY <1>0, <1>1, <2>1, <2>2, <2>3, <2>4, <2>5, <2>6, <2>7, AccountsReplace
  <2> QED
    BY <1>0, <1>1, <2>1, <2>8 DEF AccountsIInv
<1>5. ASSUME NEW b \in Batches, Submit(b) PROVE AccountsIInv'
  <2> DEFINE y == Discovery(Unaliased(b))
  <2>1. /\ y \in BatchType /\ Len(Unaliased(b)) \in Nat /\ \A a : Copies(y, a) \in Nat
        /\ y.test = NoPrefix /\ Size(y) = Len(Unaliased(b))
    BY SizesOfSteps DEF Discovery, Size
  <2>2. /\ probes' = [a \in Addr |-> [probes[a] EXCEPT !.copies = @ + Copies(y, a)]] /\ up' = up
        /\ wire' = wire + Len(Unaliased(b)) /\ samples' = samples
    BY <1>5 DEF Submit, evars, dvars
  <2> HIDE DEF y
  <2>3. probes' \in [Addr -> ProbeType] /\ \A a \in Addr : probes'[a].copies = probes[a].copies + Copies(y, a)
    <3>1. \A a \in Addr : Copies(y, a) \in Nat
      BY <2>1
    <3> QED
      <4>1. probes' = [a \in Addr |-> [probes[a] EXCEPT !.copies = @ + Copies(y, a)]]
        BY <2>2
      <4>2. ASSUME NEW n \in Nat, NEW r \in ProbeType
            PROVE  [r EXCEPT !.copies = @ + n] \in ProbeType
                   /\ [r EXCEPT !.copies = @ + n].copies = r.copies + n
        BY DEF ProbeType
      <4> QED
        BY <1>p, <3>1, <4>1, <4>2
  <2>4. \A f \in Weightings : f[NoBatch] <= Kept(lost, f) /\ Kept(lost, f)' = (Kept(lost, f) - f[NoBatch]) + f[y]
    <3> SUFFICES ASSUME NEW f \in Weightings
                 PROVE  f[NoBatch] <= Kept(lost, f) /\ Kept(lost, f)' = (Kept(lost, f) - f[NoBatch]) + f[y]
      OBVIOUS
    <3>1. Load(f)' = Load(f) + f[y]
      BY <1>5, LoadSubmit DEF y
    <3>2. Kept(lost, f)' = Load(f)' + Weigh(lost, f) /\ Kept(lost, f) = Load(f) + Weigh(lost, f)
      BY DEF Kept
    <3>3. Load(f) \in Nat /\ Weigh(lost, f) \in Nat /\ f[y] \in Nat /\ f[NoBatch] = 0
      BY <1>2, <2>1
    <3> QED
      BY <3>1, <3>2, <3>3
  <2>5. wire' = (wire - Size(NoBatch)) + Size(y)
    BY <1>3, <2>1, <2>2
  <2>6. \A a \in Addr : probes'[a].copies = (probes[a].copies - Copies(NoBatch, a)) + Copies(y, a)
    BY <1>3, <2>1, <2>3
  <2>7. samples' = (samples \ {NoBatch.test}) \cup ({y.test} \ {NoPrefix}) /\ y.test \notin samples
    BY <1>3, <2>1, <2>2
  <2>8. Accounts(lost)'
    BY <1>0, <1>1, <2>1, <2>4, <2>5, <2>6, <2>7, AccountsReplace
  <2> QED
    BY <1>0, <2>2, <2>3, <2>8 DEF AccountsIInv
<1>6. CASE PumpBatch
  <2> DEFINE x == Head(outbox)
             y == Rest(x)
             gone == {a \in Targets(x) : a \in aliases}
  <2>1. /\ x \in BatchType /\ UNCHANGED <<up, samples>>
        /\ wire' = wire - (Len(x.targets) - Len(Unaliased(x.targets)))
    BY <1>6, PumpBatchFacts DEF PumpBatch, dvars
  <2>2. /\ y \in BatchType /\ Size(y) = Size(x) - (Len(x.targets) - Len(Unaliased(x.targets)))
        /\ \A a : Copies(y, a) = IF a \in aliases THEN 0 ELSE Copies(x, a)
    BY <2>1, RestFacts
  <2>3. /\ y.test = x.test /\ Size(x) \in Nat /\ Len(x.targets) \in Nat
        /\ Len(Unaliased(x.targets)) \in Nat /\ \A a : Copies(x, a) \in Nat
    BY <2>1, BatchFacts, UnaliasedType DEF Rest, BatchType
  <2>4. probes' = [a \in Addr |-> IF a \in gone
                         THEN [Without(x, Addr \ gone)[a]
                                 EXCEPT !.reported = probes[a].copies > Copies(x, a)]
                         ELSE probes[a]]
    BY <1>6 DEF PumpBatch
  <2>5. \A a \in Addr : a \notin gone /\ a \in aliases => Copies(x, a) = 0
    BY NotTarget
  <2>6. PICK now \in Seq(BatchType) : now = IF PumpLoses THEN Append(lost, y) ELSE lost
    <3>1. Append(lost, y) \in Seq(BatchType)
      BY <2>2
    <3> QED
      BY <3>1
  <2>6u. up' => now = <<>>
    BY <1>0, <2>1, <2>6 DEF PumpLoses
  <2> HIDE DEF x, y
  <2>7. \A f \in Weightings : f[x] <= Kept(lost, f) /\ Kept(now, f)' = (Kept(lost, f) - f[x]) + f[y]
    <3> SUFFICES ASSUME NEW f \in Weightings
                 PROVE  f[x] <= Kept(lost, f) /\ Kept(now, f)' = (Kept(lost, f) - f[x]) + f[y]
      OBVIOUS
    <3>1. f[x] <= Load(f) /\ Load(f)' = (Load(f) - f[x]) + IF PumpLoses THEN 0 ELSE f[y]
      BY <1>6, LoadPumpBatch DEF x, y
    <3>2. Kept(now, f)' = Load(f)' + Weigh(now, f) /\ Kept(lost, f) = Load(f) + Weigh(lost, f)
      BY DEF Kept
    <3>3. Load(f) \in Nat /\ Weigh(lost, f) \in Nat /\ f[y] \in Nat /\ f[x] \in Nat
      BY <1>2, <2>1, <2>2
    <3>4. Weigh(now, f) = Weigh(lost, f) + IF PumpLoses THEN f[y] ELSE 0
      <4>1. CASE PumpLoses
        <5>1. now = Append(lost, y) /\ f \in [BatchType -> Nat]
          BY <2>6, <4>1 DEF Weightings
        <5> QED
          BY <2>2, <4>1, <5>1, WeighAppend
      <4>2. CASE ~PumpLoses
        BY <2>6, <3>3, <4>2
      <4> QED
        BY <4>1, <4>2
    <3> QED
      BY <3>1, <3>2, <3>3, <3>4
  <2>8. ASSUME NEW a \in Addr
        PROVE  /\ probes'[a] \in ProbeType
               /\ probes'[a].copies = (probes[a].copies - Copies(x, a)) + Copies(y, a)
    <3>0. Copies(x, a) \in Nat /\ Copies(x, a) <= probes[a].copies /\ probes[a].copies \in Nat
      <4>1. CopiesOf(a)[x] <= Kept(lost, CopiesOf(a)) /\ CopiesOf(a)[x] = Copies(x, a)
        BY <2>1, <2>7, WeightingsFacts DEF CopiesOf
      <4> QED
        BY <1>0, <1>3, <2>3, <4>1 DEF Accounts
    <3>1. Copies(y, a) = IF a \in aliases THEN 0 ELSE Copies(x, a)
      BY <2>2
    <3>2. CASE a \in gone
      <4> DEFINE w == Without(x, Addr \ gone)[a]
      <4>1. w \in ProbeType /\ w.copies = probes[a].copies - Copies(x, a)
        BY <1>1, <2>1, <3>0, <3>2, WithoutFacts
      <4>2. probes'[a] = [w EXCEPT !.reported = probes[a].copies > Copies(x, a)]
        BY <2>4, <3>2
      <4>3. (probes[a].copies > Copies(x, a)) \in BOOLEAN /\ a \in aliases
        BY <3>2
      <4> HIDE DEF w, gone
      <4>4. probes'[a] \in ProbeType /\ probes'[a].copies = w.copies
        BY <4>1, <4>2, <4>3 DEF ProbeType
      <4> QED
        BY <3>0, <3>1, <4>1, <4>3, <4>4
    <3>3. CASE a \notin gone
      <4>1. probes'[a] = probes[a] /\ probes[a] \in ProbeType
        BY <1>1, <2>4, <3>3
      <4>2. a \in aliases => Copies(x, a) = 0
        BY <2>5, <3>3
      <4> QED
        BY <3>0, <3>1, <4>1, <4>2
    <3> QED
      BY <3>2, <3>3
  <2>9. probes' \in [Addr -> ProbeType]
    BY <2>4, <2>8
  <2>10. wire' = (wire - Size(x)) + Size(y)
    <3> DEFINE m == Len(x.targets)
               n == Len(Unaliased(x.targets))
               k == Size(x)
    <3>1. wire' = wire - (m - n) /\ Size(y) = k - (m - n) /\ m \in Nat /\ n \in Nat /\ k \in Nat
      BY <2>1, <2>2, <2>3
    <3> HIDE DEF m, n, k
    <3>2. wire' = (wire - k) + Size(y)
      BY <1>3, <3>1
    <3> QED
      BY <3>2 DEF k
  <2>11. samples' = (samples \ {x.test}) \cup ({y.test} \ {NoPrefix})
    <3>1. CASE x.test = NoPrefix
      BY <1>3, <2>1, <2>3, <3>1
    <3>2. CASE x.test # NoPrefix
      <4>1. x.test \in samples
        BY <1>0, <2>1, <2>7, <3>2, TestOnWire
      <4> QED
        BY <2>1, <2>3, <3>2, <4>1
    <3> QED
      BY <3>1, <3>2
  <2>12. Accounts(now)'
    <3>1. /\ x \in BatchType /\ y \in BatchType /\ now \in Seq(BatchType)
          /\ y.test \in samples => y.test = x.test
      BY <2>1, <2>2, <2>3
    <3>2. \A a \in Addr : probes'[a].copies = (probes[a].copies - Copies(x, a)) + Copies(y, a)
      BY <2>8
    <3> QED
      BY <1>0, <1>1, <2>7, <2>10, <2>11, <3>1, <3>2, AccountsReplace
  <2> QED
    BY <2>6, <2>6u, <2>9, <2>12 DEF AccountsIInv
<1>7. CASE ExpireTest \/ ExpireTargets
  <2> DEFINE x == Head(deadlines)
  <2>1. x \in BatchType /\ up' = up
    BY <1>7, LoadExpire, WeightingsFacts DEF ExpireTest, ExpireTargets, evars
  <2>2. Size(x) \in Nat /\ \A a : Copies(x, a) \in Nat
    BY <2>1, BatchFacts
  <2>3. wire' = wire - Size(x)
    BY <1>7 DEF ExpireTest, ExpireTargets, Size
  <2>4. \A f \in Weightings : f[x] <= Kept(lost, f) /\ Kept(lost, f)' = (Kept(lost, f) - f[x]) + f[NoBatch]
    <3> SUFFICES ASSUME NEW f \in Weightings
                 PROVE  f[x] <= Kept(lost, f) /\ Kept(lost, f)' = (Kept(lost, f) - f[x]) + f[NoBatch]
      OBVIOUS
    <3>1. f[x] <= Load(f) /\ Load(f)' = Load(f) - f[x]
      BY <1>7, LoadExpire
    <3>2. Kept(lost, f)' = Load(f)' + Weigh(lost, f) /\ Kept(lost, f) = Load(f) + Weigh(lost, f)
      BY DEF Kept
    <3>3. Load(f) \in Nat /\ Weigh(lost, f) \in Nat /\ f[x] \in Nat /\ f[NoBatch] = 0
      BY <1>2, <2>1
    <3> HIDE DEF x
    <3> QED
      BY <3>1, <3>2, <3>3
  <2>5. \A a \in Addr : Copies(x, a) <= probes[a].copies
    <3>1. \A a \in Addr : CopiesOf(a)[x] <= Kept(lost, CopiesOf(a)) /\ CopiesOf(a)[x] = Copies(x, a)
      BY <2>1, <2>4, WeightingsFacts DEF CopiesOf
    <3> QED
      BY <1>0, <3>1 DEF Accounts
  <2>6. /\ probes' \in [Addr -> ProbeType]
        /\ \A a \in Addr : probes'[a].copies = probes[a].copies - Copies(x, a)
    <3>1. CASE ExpireTest
      <4>1. probes' = probes /\ \A a : Copies(x, a) = 0
        BY <2>1, <3>1, BatchFacts DEF ExpireTest
      <4> QED
        BY <1>1, <1>3, <4>1
    <3>2. CASE ExpireTargets
      <4>1. probes' = Without(x, {})
        BY <3>2 DEF ExpireTargets
      <4>2. \A a \in Addr : /\ Without(x, {})[a] \in ProbeType
                            /\ Without(x, {})[a].copies = probes[a].copies - IF a \in {} THEN 0 ELSE Copies(x, a)
        BY <1>1, <2>1, <2>5, WithoutFacts
      <4>3. probes' = [a \in Addr |-> probes'[a]]
        BY <4>1 DEF Without
      <4> HIDE DEF x
      <4> QED
        BY <4>1, <4>2, <4>3
    <3> QED
      BY <1>7, <3>1, <3>2
  <2>7. samples' = samples \ {x.test}
    <3>1. CASE ExpireTest
      BY <3>1 DEF ExpireTest, Finish
    <3>2. CASE ExpireTargets
      <4>1. x.test = NoPrefix /\ samples' = samples
        BY <2>1, <3>2 DEF ExpireTargets, dvars, BatchType
      <4> QED
        BY <1>3, <4>1
    <3> QED
      BY <1>7, <3>1, <3>2
  <2> HIDE DEF x
  <2>8. wire' = (wire - Size(x)) + Size(NoBatch)
    BY <1>3, <2>2, <2>3
  <2>9. \A a \in Addr : probes'[a].copies = (probes[a].copies - Copies(x, a)) + Copies(NoBatch, a)
    BY <1>3, <2>2, <2>6
  <2>10. samples' = (samples \ {x.test}) \cup ({NoBatch.test} \ {NoPrefix}) /\ NoBatch.test \notin samples
    BY <1>3, <2>7
  <2>11. Accounts(lost)'
    BY <1>0, <1>1, <2>1, <2>4, <2>8, <2>9, <2>10, AccountsReplace
  <2> QED
    BY <1>0, <2>1, <2>6, <2>11 DEF AccountsIInv
<1>8. CASE RecvAck \/ \E s \in Sender : SendBatch(s) \/ Acknowledge(s)
  <2>1. \A f \in Weightings : Load(f)' = Load(f)
    BY <1>8, LoadRecvAck, LoadSend, LoadAcknowledge
  <2>2. UNCHANGED <<wire, up, probes, samples>>
    BY <1>8 DEF RecvAck, SendBatch, Acknowledge, svars, dvars
  <2>3. \A f \in Weightings : Kept(lost, f)' = Kept(lost, f)
    BY <2>1 DEF Kept
  <2>4. Accounts(lost)'
    BY <1>0, <1>1, <2>2, <2>3, AccountsSame
  <2> QED
    BY <1>0, <1>1, <2>2, <2>4 DEF AccountsIInv
<1>9. CASE EngineFails
  <2> DEFINE now == (lost \o txq) \o Held
  <2>1. lost \o txq \in Seq(BatchType) /\ now \in Seq(BatchType)
        /\ txq \in Seq(BatchType) /\ Held \in Seq(BatchType)
    BY <1>1, HeldType DEF SessionTypeOK, ChannelsOK
  <2>2. UNCHANGED <<wire, probes, samples>> /\ ~up'
    BY <1>9 DEF EngineFails, svars, dvars
  <2>3. \A f \in Weightings : Weigh(now, f) = (Weigh(lost, f) + Weigh(txq, f)) + Weigh(Held, f)
    <3> SUFFICES ASSUME NEW f \in Weightings
                 PROVE  Weigh(now, f) = (Weigh(lost, f) + Weigh(txq, f)) + Weigh(Held, f)
      OBVIOUS
    <3>1. f \in [BatchType -> Nat]
      BY DEF Weightings
    <3>2. Weigh(lost \o txq, f) = Weigh(lost, f) + Weigh(txq, f)
      BY <2>1, <3>1, WeighConcat
    <3>3. Weigh(now, f) = Weigh(lost \o txq, f) + Weigh(Held, f)
      BY <2>1, <3>1, WeighConcat, ZenonT(60)
    <3> QED
      BY <3>2, <3>3
  <2>4. PICK gone \in Seq(BatchType) : gone = now
    BY <2>1
  <2>5. \A f \in Weightings : Kept(gone, f)' = Kept(lost, f)
    <3> SUFFICES ASSUME NEW f \in Weightings PROVE Kept(gone, f)' = Kept(lost, f)
      OBVIOUS
    <3>1. /\ Load(f)' + Weigh(txq, f) + Weigh(Held, f) = Load(f) /\ Load(f)' \in Nat
          /\ Weigh(txq, f) \in Nat /\ Weigh(Held, f) \in Nat /\ Weigh(lost, f) \in Nat
      BY <1>2, <1>9, LoadFails
    <3>2. Kept(gone, f)' = Load(f)' + Weigh(gone, f) /\ Kept(lost, f) = Load(f) + Weigh(lost, f)
      BY DEF Kept
    <3>3. Weigh(gone, f) = (Weigh(lost, f) + Weigh(txq, f)) + Weigh(Held, f)
      BY <2>3, <2>4
    <3> DEFINE l == Load(f)'
               t == Weigh(txq, f)
               h == Weigh(Held, f)
               w == Weigh(lost, f)
    <3>4. l + ((w + t) + h) = (l + t + h) + w
      <4>1. l \in Nat /\ t \in Nat /\ h \in Nat /\ w \in Nat
        BY <3>1
      <4> HIDE DEF l, t, h, w
      <4> QED
        BY <4>1
    <3> QED
      BY <3>1, <3>2, <3>3, <3>4
  <2> HIDE DEF now
  <2>6. Accounts(gone)'
    BY <1>0, <1>1, <2>2, <2>5, AccountsSame
  <2> QED
    BY <1>1, <2>2, <2>6 DEF AccountsIInv
<1>10. CASE ~Moves
  <2>1. UNCHANGED <<outbox, txq, ackq, deadlines, sending, up, wire>>
    BY <1>10, OtherSteps
  <2>2. \A f \in Weightings : Kept(lost, f)' = Kept(lost, f)
    BY <2>1, LoadSame DEF Kept
  <2>3. /\ samples' = samples
        /\ probes' \in [Addr -> ProbeType] /\ \A a \in Addr : probes'[a].copies = probes[a].copies
    <3>1. CASE RecvReply \/ DrainReply
      <4>1. Head(results) \in ReplyType
        BY <3>1, HeadTail DEF RecvReply, DrainReply, SessionTypes, SessionTypeOK, ChannelsOK
      <4>2. samples' = samples
        BY <3>1 DEF RecvReply, DrainReply, HandleReply, SampleReply, Reply, dvars
      <4> QED
        BY <1>1, <3>1, <4>1, <4>2, HandleReplyCopies DEF RecvReply, DrainReply
    <3>2. CASE ConsiderNext
      <4>1. PICK a \in Addr : Verdict(a)
        BY <3>2 DEF ConsiderNext, SessionTypes, SessionTypeOK
      <4> QED
        BY <1>1, <4>1, ReportFacts DEF Verdict, Consider
    <3>3. CASE ~(RecvReply \/ DrainReply \/ ConsiderNext)
      <4>1. CASE PumpTested \/ PumpDone \/ Deadline \/ RetryOutbox \/ EngineLost
        BY <1>1, <4>1 DEF PumpTested, PumpDone, Deadline, RetryOutbox, EngineLost, dvars
      <4>2. CASE PublishAliases \/ DrainEnd \/ Return
        BY <1>1, <4>2 DEF PublishAliases, TakeAliases, DrainEnd, Return, dvars
      <4>3. CASE Plan \/ Decline \/ (\E a \in Asked : Ask(a)) \/ CallNext \/ FinishSession
        BY <1>1, <4>3 DEF Plan, Decline, Ask, CallNext, FinishSession, dvars
      <4>4. CASE Deliver \/ Ended \/ UNCHANGED vars
        BY <1>1, <4>4 DEF Deliver, Ended, vars, svars, dvars
      <4> QED
        BY <1>10, <3>3, <4>1, <4>2, <4>3, <4>4 DEF SessionNext, Pump, Event, Handle, Caller,
           Engine, Moves
    <3> QED
      BY <3>1, <3>2, <3>3
  <2>4. Accounts(lost)'
    BY <1>0, <1>1, <2>1, <2>2, <2>3, AccountsSame
  <2> QED
    BY <1>0, <2>1, <2>3, <2>4 DEF AccountsIInv
<1> QED
  BY <1>4, <1>5, <1>6, <1>7, <1>8, <1>9, <1>10 DEF Moves

\* "wire" and the copies cover the batches outstanding, and are theirs as long
\* as the engine works.
LEMMA AccountsFacts ==
  ASSUME SessionTypeOK, AccountsIInv
  PROVE  WireIInv /\ CopiesIInv
<1>0. PICK lost \in Seq(BatchType) : Accounts(lost) /\ (up => lost = <<>>)
  BY DEF AccountsIInv
<1>1. \A f \in Weightings : Kept(lost, f) \in Nat /\ Load(f) <= Kept(lost, f)
                            /\ (up => Kept(lost, f) = Load(f))
  <2> SUFFICES ASSUME NEW f \in Weightings
               PROVE  Kept(lost, f) \in Nat /\ Load(f) <= Kept(lost, f)
                      /\ (up => Kept(lost, f) = Load(f))
    OBVIOUS
  <2>1. Load(f) \in Nat /\ Weigh(lost, f) \in Nat
    BY KeptType
  <2>2. up => Weigh(lost, f) = 0
    BY <1>0, WeighEmpty
  <2> QED
    BY <2>1, <2>2 DEF Kept
<1> QED
  BY <1>0, <1>1, WeightingsFacts DEF Accounts, AccountsIInv, WireIInv, CopiesIInv

\* A step that fails the session finds the engine failed, or the counts apart.
LEMMA FailingSteps ==
  ASSUME SessionTypes, [SessionNext]_vars, pc' = "failed", pc # "failed"
  PROVE  ~up \/ (FinishSession /\ statsSent # sent + aliasSent)
<1>1. CASE Pump
  <2>1. CASE PumpBatch
    BY <2>1, PumpBatchFacts
  <2>2. CASE PumpTest \/ PumpTested \/ PumpDone
    BY <2>2 DEF PumpTest, PumpTested, PumpDone
  <2> QED
    BY <1>1, <2>1, <2>2 DEF Pump
<1>2. CASE Event
  BY <1>2 DEF Event, RecvReply, RecvAck, Deadline, RetryOutbox, EngineLost
<1>3. CASE Handle
  BY <1>3 DEF Handle, ConsiderNext, PublishAliases, DrainReply, DrainEnd, ExpireTest,
     ExpireTargets, Return, ExpireNext
<1>4. CASE Caller
  BY <1>4 DEF Caller, Plan, Decline, Submit, Ask, CallNext, FinishSession
<1>5. CASE Engine
  BY <1>5 DEF Engine, SendBatch, Acknowledge, Deliver, EngineFails, svars
<1>6. CASE Ended \/ UNCHANGED vars
  BY <1>6 DEF Ended, vars, svars
<1> QED
  BY <1>1, <1>2, <1>3, <1>4, <1>5, <1>6 DEF SessionNext

\* The engine's count is that of the session and of what is not acknowledged.
LEMMA AcksStep ==
  ASSUME SessionTypes, SessionTypes', WireIInv, AcksIInv, [SessionNext]_vars
  PROVE  AcksIInv'
<1> DEFINE A == Weigh(ackq, SizeOf)
           H == Weigh(Held, SizeOf)
<1>1. SizeOf \in Weightings /\ SessionTypeOK
  BY WeightingsFacts DEF SessionTypes
<1>2. /\ A \in Nat /\ H \in Nat /\ sent \in Nat /\ aliasSent \in Nat /\ statsSent \in Nat
      /\ up => statsSent = sent + aliasSent + A + H
  BY <1>1, LoadParts DEF AcksIInv
<1>u. up' => up
  <2>1. CASE Moves
    BY <2>1 DEF Moves, PumpTest, PumpBatch, RecvAck, ExpireTest, ExpireTargets, Submit, SendBatch,
       Acknowledge, EngineFails, evars
  <2> QED
    BY <2>1, OtherSteps
<1>f. pc' = "failed" => ~up'
  <2> SUFFICES ASSUME pc' = "failed", up PROVE FALSE
    BY <1>u
  <2>1. pc # "failed"
    BY DEF AcksIInv
  <2>2. FinishSession /\ statsSent # sent + aliasSent
    BY <2>1, FailingSteps
  <2>3. wire = 0
    BY <2>2 DEF FinishSession, Settled
  <2>4. Load(SizeOf) = 0 
    BY <2>3 DEF WireIInv
  <2>5. A = 0 /\ H = 0
    <3>1. /\ Weigh(outbox, SizeOf) \in Nat /\ Weigh(txq, SizeOf) \in Nat
          /\ Weigh(deadlines, SizeOf) \in Nat
      BY <1>1, LoadParts
    <3> QED
      BY <1>2, <2>4, <3>1 DEF Load
  <2> QED
    BY <1>2, <2>2, <2>5
<1>3. CASE RecvAck
  <2> DEFINE n == SizeOf[Head(ackq)]
  <2>1. A = n + A' /\ A' \in Nat /\ H' = H /\ Head(ackq) \in BatchType
    BY <1>1, <1>3, LoadRecvAck
  <2>2. n = Size(Head(ackq)) /\ n \in Nat
    BY <2>1, BatchFacts DEF SizeOf
  <2>3. /\ \/ sent' = sent + n /\ aliasSent' = aliasSent
           \/ aliasSent' = aliasSent + n /\ sent' = sent
        /\ UNCHANGED <<statsSent, up>>
    BY <1>3, <2>2 DEF RecvAck, Count
  <2> HIDE DEF A, H, n
  <2>4. sent' \in Nat /\ aliasSent' \in Nat /\ (up => statsSent = sent' + aliasSent' + A' + H)
    BY <1>2, <2>1, <2>2, <2>3
  <2> QED
    BY <1>2, <1>f, <2>1, <2>3, <2>4 DEF A, H, AcksIInv
<1>4. ASSUME NEW s \in Sender, SendBatch(s) PROVE AcksIInv'
  <2> DEFINE n == SizeOf[Head(txq)]
  <2>1. H' = H + n /\ Head(txq) \in BatchType
    BY <1>1, <1>4, LoadSend
  <2>2. n = Size(Head(txq)) /\ n \in Nat
    BY <2>1, BatchFacts DEF SizeOf
  <2>3. statsSent' = statsSent + n /\ UNCHANGED <<ackq, sent, aliasSent, up>>
    BY <1>4, <2>2 DEF SendBatch, svars
  <2>4. A' = A
    BY <2>3
  <2> HIDE DEF A, H, n
  <2>5. statsSent' \in Nat /\ (up => statsSent' = sent + aliasSent + A + H')
    BY <1>2, <2>1, <2>2, <2>3
  <2> QED
    BY <1>2, <1>f, <2>3, <2>4, <2>5 DEF A, H, AcksIInv
<1>5. ASSUME NEW s \in Sender, Acknowledge(s) PROVE AcksIInv'
  <2>1. A' + H' = A + H
    BY <1>1, <1>5, LoadAcknowledge
  <2>2. UNCHANGED <<sent, aliasSent, statsSent, up>>
    BY <1>5 DEF Acknowledge, svars
  <2>3. A' \in Nat /\ H' \in Nat
    <3>1. ackq' \in Seq(BatchType) /\ Held' \in Seq(BatchType) /\ SizeOf \in [BatchType -> Nat]
      <4>1. Held' \in [1..Cardinality(Sender) -> BatchType] /\ Cardinality(Sender) \in Nat
        BY SendersFacts DEF Held, SessionTypes, SessionTypeOK, ChannelsOK
      <4>2. Held' \in Seq(BatchType)
        BY <4>1
      <4>3. ackq' \in Seq(BatchType)
        BY DEF SessionTypes, SessionTypeOK, ChannelsOK
      <4> QED
        BY <1>1, <4>2, <4>3 DEF Weightings
    <3> QED
      BY <3>1, WeightsType
  <2>4. \A x, y \in Nat : x + y = A + H /\ up => statsSent = sent + aliasSent + x + y
    <3> HIDE DEF A, H
    <3> QED
      BY <1>2
  <2>5. up => statsSent = sent + aliasSent + A' + H'
    BY <2>1, <2>3, <2>4
  <2> QED
    BY <1>2, <1>f, <2>2, <2>5 DEF AcksIInv
<1>6. CASE EngineFails
  <2>1. ~up' /\ UNCHANGED <<sent, aliasSent, statsSent>>
    BY <1>6 DEF EngineFails, svars
  <2> QED
    BY <1>2, <1>f, <2>1 DEF AcksIInv
<1>7. ASSUME UNCHANGED <<ackq, sending, sent, aliasSent, statsSent, up>> PROVE AcksIInv'
  <2>1. A' = A /\ H' = H
    BY <1>7 DEF Held
  <2> QED
    BY <1>2, <1>7, <1>f, <2>1 DEF AcksIInv
<1>8. CASE PumpTest \/ PumpBatch \/ ExpireTest \/ ExpireTargets \/ \E b \in Batches : Submit(b)
  BY <1>7, <1>8 DEF PumpTest, PumpBatch, ExpireTest, ExpireTargets, Submit, evars
<1>9. CASE ~Moves
  BY <1>7, <1>9, OtherSteps
<1> QED
  BY <1>3, <1>4, <1>5, <1>6, <1>8, <1>9 DEF Moves

\* Nothing is on the wire at first.
LEMMA CountsInit == SessionInit => CountsIInv
<1> SUFFICES ASSUME SessionInit PROVE CountsIInv
  OBVIOUS
<1>1. SessionTypeOK
  BY SessionInitTypes DEF SessionTypes
<1>2. \A f \in Weightings : Weigh(Held, f) = 0
  <2> SUFFICES ASSUME NEW f \in Weightings PROVE Weigh(Held, f) = 0
    OBVIOUS
  <2>1. Weights(Held, f) = [i \in 1..Cardinality(Sender) |-> 0]
    <3>1. Held = [i \in 1..Cardinality(Sender) |-> NoBatch]
      BY SendersFacts DEF SessionInit, Held
    <3> QED
      BY <3>1 DEF Weights, Weightings
  <2> QED
    BY <2>1, SendersFacts, TotalZero DEF Weigh
<1>3. \A f : Weigh(<<>>, f) = 0
  BY WeighEmpty
<1>4. \A f \in Weightings : Load(f) = 0
  BY <1>2, <1>3 DEF SessionInit, Load
<1>5. /\ Kept(<<>>, SizeOf) = 0 /\ Load(TargetsOf) = 0
      /\ \A a : Kept(<<>>, CopiesOf(a)) = 0
      /\ \A p \in Prefix : Kept(<<>>, TestOf(p)) = 0
  BY <1>3, <1>4, WeightingsFacts DEF Kept
<1>6. Weigh(ackq, SizeOf) = 0 /\ Weigh(Held, SizeOf) = 0
  BY <1>2, <1>3, WeightingsFacts DEF SessionInit
<1>7. NoProbe \in ProbeType /\ NoProbe.copies = 0
  BY DEF NoProbe, ProbeType
<1>8. AccountsIInv
  <2>1. <<>> \in Seq(BatchType)
    OBVIOUS
  <2>2. Accounts(<<>>)
    BY <1>5, <1>7 DEF SessionInit, DetectorInit, Accounts
  <2> QED
    BY <1>7, <2>1, <2>2 DEF SessionInit, AccountsIInv
<1>9. GrantIInv
  BY <1>5, SessionAssumption DEF SessionInit, GrantIInv
<1>10. AcksIInv
  BY <1>6 DEF SessionInit, AcksIInv
<1> QED
  BY <1>8, <1>9, <1>10 DEF CountsIInv

\* "wire", the copies of targets and the tests handed out are those of the batches
\* outstanding, or lost with the engine; and the targets fit max_in_flight.
THEOREM SessionCounts == SessionSpec => []CountsIInv
<1>1. SessionTypes /\ SessionTypes' /\ WaitersIInv /\ CountsIInv /\ [SessionNext]_vars => CountsIInv'
  BY AccountsStep, AccountsFacts, GrantStep, AcksStep DEF CountsIInv, SessionTypes
<1> QED
  BY <1>1, CountsInit, SessionTypesInvariant, SessionWaiters, PTL DEF SessionSpec

\* While the engine works, "wire" and the copies of every target count exactly
\* the probes that are queued, being sent, or waiting for their deadline; the
\* targets on the wire stay within max_in_flight; and the session fails only if
\* the engine did.
THEOREM SessionCountsEveryProbe == SessionSpec => []EveryProbeCounted
<1>1. ASSUME SessionTypes, CountsIInv PROVE EveryProbeCounted
  <2>1. SessionTypeOK /\ Outstanding \in Seq(BatchType)
    BY <1>1, LoadIsWeight, WeightingsFacts DEF SessionTypes
  <2>2. \A i \in DOMAIN Outstanding : Outstanding[i] \in BatchType
    BY <2>1
  <2>3. Sizes(Outstanding) = Weights(Outstanding, SizeOf)
    BY <2>2 DEF Sizes, Weights, SizeOf
  <2>4. TargetCounts(Outstanding) = Weights(Outstanding, TargetsOf)
    BY <2>2 DEF TargetCounts, Weights, TargetsOf
  <2>5. \A a : CopiesIn(Outstanding, a) = Weights(Outstanding, CopiesOf(a))
    BY <2>2 DEF CopiesIn, Weights, CopiesOf
  <2>6. \A f \in Weightings : Total(Weights(Outstanding, f)) = Load(f) /\ Load(f) \in Nat
    BY <2>1, LoadIsWeight DEF Weigh
  <2>7. /\ Total(Sizes(Outstanding)) = Load(SizeOf)
        /\ Total(TargetCounts(Outstanding)) = Load(TargetsOf) /\ Load(TargetsOf) \in Nat
        /\ \A a : Total(CopiesIn(Outstanding, a)) = Load(CopiesOf(a))
    BY <2>3, <2>4, <2>5, <2>6, WeightingsFacts
  <2>8. Load(TargetsOf) <= MaxInFlight
    BY <1>1, <2>7, SessionAssumption DEF CountsIInv, GrantIInv
  <2> QED
    BY <1>1, <2>1, <2>7, <2>8, AccountsFacts
       DEF CountsIInv, WireIInv, CopiesIInv, AcksIInv, EveryProbeCounted
<1> QED
  BY <1>1, SessionTypesInvariant, SessionCounts, PTL
=============================================================================
