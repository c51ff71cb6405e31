------------------------------ MODULE Adaptive ------------------------------
(***************************************************************************)
(* The adaptive scan (drive() in scan/src/adaptive.rs): one task moves     *)
(* targets from the model to the probing session and feedback from the     *)
(* session to the model, until the target count is met or the model is     *)
(* exhausted.  The model works in a blocking task of its own, so verdicts  *)
(* arrive while it does; what it was told is written to a journal.         *)
(*                                                                         *)
(* The session is what Session implements: Feedback, and the targets still *)
(* on the wire.  The model is any that fits the protocol of generate(): it *)
(* may repeat itself, give up, ask for feedback, and fail.  The models     *)
(* that may probe a target twice are Session's concern and not covered.    *)
(***************************************************************************)
EXTENDS SeqUtil, SequencesExt

CONSTANTS
  Addr,          \* addresses
  InitAliases,   \* addresses of the known aliases
  Alias,         \* what alias tests may find: sets of addresses
  Exclude,       \* GenerationOptions.exclude
  Count,         \* GenerationOptions.count
  MaxAttempts,   \* GenerationOptions.max_attempts
  BatchSize,     \* batch_size
  MaxInFlight,   \* max_in_flight
  FeedbackMax,   \* feedback handed to the model at once (4096)
  Faults         \* whether the model, the session and the output may fail

ASSUME AdaptiveAssumption ==
  /\ InitAliases \subseteq Addr /\ Exclude \subseteq Addr
  /\ Alias \subseteq SUBSET Addr
  /\ MaxAttempts \in Nat
  /\ {Count, BatchSize, MaxInFlight, FeedbackMax} \subseteq Nat \ {0}
  /\ Faults \in BOOLEAN

VARIABLES
  pc,            \* "top", "select", "done" or "failed"
  feedback,      \* feedback the model is yet to be given
  state,         \* the generation state the model returned last
  emptyRound,    \* it asked for feedback without targets
  attempts, written, seen,   \* CandidateFilter
  task,          \* the model's task: "none", "running" or "finished"
  job,           \* what it was given: feedback, and room for targets
  batch          \* what it generated: targets and state

VARIABLES
  verdict, covered,   \* the session, as Feedback has it
  wire,               \* targets that were submitted and have not expired
  testing             \* an alias test is on the wire

VARIABLES
  asking,        \* history: the model has asked for feedback
  applied,       \* history: what the model was told
  journal        \* history: what the journal was given

dvars == <<pc, feedback, state, emptyRound, attempts, written, seen, task, job, batch>>
svars == <<verdict, covered, wire, testing>>
hvars == <<asking, applied, journal>>
vars  == <<dvars, svars, hvars>>

Session == INSTANCE Feedback

-----------------------------------------------------------------------------
(* Feedback items, each about a set of addresses.                          *)

Item(kind, A) == [kind |-> kind, of |-> A]
BatchComplete == Item("BatchComplete", {})
VerdictsIn(items) == Total([i \in DOMAIN items |-> IF items[i].kind \in Session!Judged THEN 1 ELSE 0])

Skips(targets) == [i \in DOMAIN targets |-> Item("Skipped", {targets[i]})]

NoBatch == [targets |-> <<>>, state |-> "Ready"]
NoJob   == [told |-> <<>>, limit |-> 0]

Init ==
  /\ pc = "top" /\ task = "none" /\ job = NoJob /\ batch = NoBatch
  /\ feedback = IF InitAliases = {} THEN <<>> ELSE <<Item("Aliased", InitAliases)>>
  /\ state = "Ready" /\ emptyRound = FALSE
  /\ attempts = 0 /\ written = 0 /\ seen = {}
  /\ Session!Init
  /\ wire = {} /\ testing = FALSE
  /\ asking = FALSE /\ applied = <<>> /\ journal = <<>>

-----------------------------------------------------------------------------
(* The session.                                                            *)

\* The feedback of a pass of next() comes after what is already there.
Extended_Before(items) == items \o feedback
Extended(items) == feedback \o items

Awaited == {a \in Addr : verdict[a] = "asked"}
Settled == wire = {} /\ Awaited = {} /\ ~testing

\* Alias tests take some of the room while the session is not settled.
Room == IF Settled THEN {MaxInFlight} ELSE 0..(MaxInFlight - Cardinality(wire))

\* A pass of next(): it starts or ends the test a target waits for ...
TestAlias ==
  /\ pc = "select"
  /\ testing \/ Awaited # {}
  /\ testing' = ~testing
  /\ pc' = "top"
  /\ UNCHANGED <<feedback, state, emptyRound, attempts, written, seen, task, job, batch,
                 verdict, covered, wire, hvars>>

\* ... finds an alias, which skips targets that waited ...
FindAlias ==
  /\ pc = "select" /\ testing
  /\ \E C \in Alias : \E A \in SUBSET (Awaited \cap C) :
        /\ ~(C \subseteq covered)
        /\ \A a \in C : verdict[a] # "Active"
        /\ covered' = covered \cup C
        /\ verdict' = [a \in Addr |-> IF a \in A THEN "Skipped" ELSE verdict[a]]
        /\ feedback' = Extended(<<Item("Aliased", C)>> \o Skips(SetToSeq(A)))
  /\ pc' = "top"
  /\ UNCHANGED <<state, emptyRound, attempts, written, seen, task, job, batch, wire, testing,
                 hvars>>

\* ... judges a target ...
JudgeTarget ==
  /\ pc = "select"
  /\ \E a \in Awaited : \E v \in Session!Judged :
        /\ Session!Fits(a, v)
        /\ verdict' = [verdict EXCEPT ![a] = v]
        /\ feedback' = Extended(<<Item(v, {a})>>)
        /\ wire' \in {wire} \cup (IF v = "Active" THEN {} ELSE {wire \ {a}})
  /\ pc' = "top"
  /\ UNCHANGED <<state, emptyRound, attempts, written, seen, task, job, batch, covered,
                 testing, hvars>>

\* ... or lets a target expire, whose verdict may still be awaited.
ExpireTarget ==
  /\ pc = "select"
  /\ \E a \in wire : wire' = wire \ {a}
  /\ pc' = "top"
  /\ UNCHANGED <<feedback, state, emptyRound, attempts, written, seen, task, job, batch,
                 verdict, covered, testing, hvars>>

-----------------------------------------------------------------------------
(* drive(): the head of the loop.                                          *)

Remaining == Count - written

\* The round is over once the model has asked for feedback and all is settled:
\* the model is told so, after everything else, and may generate again.
RoundOver == state = "AwaitingFeedback" /\ Settled
ToTell    == IF RoundOver THEN Append(feedback, BatchComplete) ELSE feedback
StateNow  == IF RoundOver THEN "Ready" ELSE state

Over_Unexhausted == Remaining = 0 /\ Settled /\ ToTell = <<>>
Over == (StateNow = "Exhausted" \/ Remaining = 0) /\ Settled /\ ToTell = <<>>

\* The targets to generate, given the room: none if the model is not ready, or
\* has more feedback to read than it is given at once.
Limit_Unread(room) ==
  IF StateNow = "Ready" THEN Min({Remaining, room, BatchSize}) ELSE 0
Limit(room) ==
  IF StateNow = "Ready" /\ Len(ToTell) <= FeedbackMax
  THEN Min({Remaining, room, BatchSize}) ELSE 0

\* The feedback left when the model has been given as much as it takes.
Left == SubSeq(ToTell, FeedbackMax + 1, Len(ToTell))

StartModel ==
  /\ pc = "top" /\ task = "none" /\ ~Over
  /\ \E room \in Room :
        /\ Limit(room) > 0 \/ ToTell # <<>>
        /\ job' = [told  |-> SubSeq(ToTell, 1, Min({FeedbackMax, Len(ToTell)})),
                   limit |-> Limit(room)]
  /\ feedback' = Left
  /\ state' = StateNow
  /\ task' = "running"
  /\ pc' = "select"
  /\ UNCHANGED <<emptyRound, attempts, written, seen, batch, svars, hvars>>

\* The model is at work, or there is nothing for it to do yet.
Await ==
  /\ pc = "top"
  /\ \/ task # "none"
     \/ ~Over /\ ToTell = <<>> /\ \E room \in Room : Limit(room) = 0
  /\ pc' = "select"
  /\ UNCHANGED <<feedback, state, emptyRound, attempts, written, seen, task, job, batch,
                 svars, hvars>>

Finish ==
  /\ pc = "top" /\ task = "none" /\ Over
  /\ pc' = "done"
  /\ UNCHANGED <<feedback, state, emptyRound, attempts, written, seen, task, job, batch,
                 svars, hvars>>

-----------------------------------------------------------------------------
(* The model's task.                                                       *)

\* generate() wrote at most what there was room for, and something if it says
\* that it is ready: validate_generated().
Valid(b) == Len(b.targets) <= job.limit /\ (b.state = "Ready" => b.targets # <<>>)

\* It reads its feedback, then generates if it was given room.
RunModel ==
  /\ task = "running"
  /\ applied' = applied \o job.told
  /\ IF job.limit > 0
     THEN /\ \E n \in 0..job.limit :
               batch' \in [targets : [1..n -> Addr],
                           state : {"Ready", "AwaitingFeedback", "Exhausted"}]
          /\ Valid(batch')
     ELSE batch' = NoBatch
  /\ asking' = IF job.limit > 0 THEN batch'.state = "AwaitingFeedback" ELSE asking
  /\ task' = "finished"
  /\ UNCHANGED <<pc, feedback, state, emptyRound, attempts, written, seen, job, svars, journal>>

-----------------------------------------------------------------------------
(* drive(): the model's task is done.                                      *)

\* accept_excluding() on the i-th target: a rejected one is skipped.
Fresh(targets, i) ==
  /\ targets[i] \notin seen \cup Exclude \cup covered
  /\ \A j \in 1..(i - 1) : targets[j] # targets[i]

FreshPlaces(targets) == {i \in DOMAIN targets : Fresh(targets, i)}
Accepted(targets)    == {targets[i] : i \in FreshPlaces(targets)}

Rejected_Silently(targets) == <<>>
Rejected(targets) ==
  LET places == Outside([i \in DOMAIN targets |-> i], FreshPlaces(targets))
  IN  Skips([n \in DOMAIN places |-> targets[places[n]]])

Journaled_Generated == IF job.limit > 0 THEN journal \o job.told ELSE journal
Journaled == journal \o job.told

Empty == job.limit > 0 /\ batch.targets = <<>> /\ batch.state = "AwaitingFeedback"
Stuck == Empty /\ emptyRound

ModelDone ==
  /\ pc = "select" /\ task = "finished" /\ ~Stuck
  /\ attempts + Len(batch.targets) <= MaxAttempts
  /\ journal' = Journaled
  /\ state' = IF job.limit > 0 THEN batch.state ELSE state
  /\ emptyRound' = IF job.limit > 0 THEN Empty ELSE emptyRound
  /\ attempts' = attempts + Len(batch.targets)
  /\ LET A == Accepted(batch.targets)
     IN  /\ written' = written + Cardinality(A)
         /\ seen' = seen \cup A
         /\ wire' = wire \cup A
         /\ verdict' = [a \in Addr |-> IF a \in A THEN "asked" ELSE verdict[a]]
  /\ feedback' = feedback \o Rejected(batch.targets)
  /\ task' = "none" /\ job' = NoJob /\ batch' = NoBatch
  /\ pc' = "top"
  /\ UNCHANGED <<covered, testing, asking, applied>>

\* The scan fails: the model repeatedly asks for feedback without targets, the
\* attempts are used up, or a task or the output fails.
GiveUp ==
  /\ pc = "select" /\ task = "finished"
  /\ Stuck \/ attempts + Len(batch.targets) > MaxAttempts
  /\ journal' = Journaled
  /\ pc' = "failed"
  /\ UNCHANGED <<feedback, state, emptyRound, attempts, written, seen, task, job, batch,
                 svars, asking, applied>>

Fail ==
  /\ Faults /\ pc \in {"top", "select"}
  /\ pc' = "failed"
  /\ UNCHANGED <<feedback, state, emptyRound, attempts, written, seen, task, job, batch,
                 svars, hvars>>

-----------------------------------------------------------------------------
Ended == pc \in {"done", "failed"} /\ task # "running" /\ UNCHANGED vars

Turn   == StartModel \/ Await \/ Finish
Pass   == TestAlias \/ FindAlias \/ JudgeTarget \/ ExpireTarget
Result == ModelDone \/ GiveUp

Next == Turn \/ Pass \/ RunModel \/ Result \/ Fail \/ Ended

Spec == Init /\ [][Next]_vars

\* The scan's task and the model run; select! takes what is ready again and
\* again; the session judges and expires every target (SessionEnds).
Fairness ==
  /\ WF_vars(Turn) /\ WF_vars(RunModel) /\ SF_vars(Result)
  /\ SF_vars(JudgeTarget) /\ SF_vars(ExpireTarget) /\ SF_vars(testing /\ TestAlias)

FairSpec == Spec /\ Fairness

-----------------------------------------------------------------------------
(* Properties.                                                             *)

InHand == applied \o (IF task = "running" THEN job.told ELSE <<>>) \o feedback

\* Types: the counters stay within the planned count and the attempts.
AdaptiveTypeOK ==
  /\ pc \in {"top", "select", "done", "failed"}
  /\ task \in {"none", "running", "finished"}
  /\ feedback \in Seq([kind : Session!Judged \cup {"Aliased", "BatchComplete"},
                       of : SUBSET Addr])
  /\ state \in {"Ready", "AwaitingFeedback", "Exhausted"}
  /\ emptyRound \in BOOLEAN
  /\ attempts \in 0..MaxAttempts /\ written \in 0..Count
  /\ seen \subseteq Addr /\ wire \subseteq seen /\ covered \subseteq Addr

\* Every candidate has exactly one verdict, which was applied or is on its way,
\* or a place in the session: none is lost between the session, the feedback
\* of a busy model and the filter.  So a scan that is done has probed all it
\* planned unless the model was exhausted, and left no verdict behind.
EveryCandidateAnswered ==
  /\ VerdictsIn(InHand) + Cardinality(Awaited) = attempts
  /\ pc = "done" =>
       /\ written = Count \/ state = "Exhausted"
       /\ VerdictsIn(applied) = attempts
       /\ \A a \in seen : verdict[a] \in Session!Judged

\* The journal replays what the model was told: it is never ahead, behind it by
\* the feedback of the current task only, and whole when the scan is done.
JournalIsApplied ==
  /\ IsPrefix(journal, applied)
  /\ task # "finished" => journal = applied
  /\ pc = "done" => journal = InHand

\* A model that asked for feedback generates again only when it has been told
\* the verdict on every candidate so far, and last that the round is over.
RoundIsWhole ==
  [][asking /\ task = "running" /\ job.limit > 0 /\ task' = "finished"
       => /\ applied' # <<>> /\ Last(applied') = BatchComplete
          /\ VerdictsIn(applied') = attempts]_vars

\* A target with no other verdict, such as that of a first try, is skipped only
\* after the model was told of the alias, unless it is excluded.
OnlyOn(i) == \A j \in DOMAIN InHand \ {i} : InHand[j].of # InHand[i].of
AliasFirst ==
  \A i \in DOMAIN InHand :
    InHand[i].kind = "Skipped" /\ OnlyOn(i) /\ InHand[i].of \cap (Exclude \cup Awaited) = {}
      => \E j \in 1..(i - 1) : InHand[j].kind = "Aliased" /\ InHand[i].of \subseteq InHand[j].of

\* Every scan ends, whatever the model does: repeats itself, asks for feedback
\* forever, or stops.
ScanEnds == <>(pc \in {"done", "failed"})
=============================================================================
