---------------------------- MODULE VerdictProofs ----------------------------
(* Theorems about the verdicts a session gives, for every address space,    *)
(* number of senders and capacity of the channels: that no target is judged *)
(* twice, none is forgotten, and none is called inactive when its reply was *)
(* already there.                                                           *)
EXTENDS SessionProofs

-----------------------------------------------------------------------------
(* What is left to consider.                                                *)

\* The session pumps, and waits for events, only with nothing to consider.
\* Aliases are found by tests that are on, and somebody waits for every test
\* that has not been handed out.
IdleIInv ==
  /\ pc \in {"pump", "flush", "select"} => Quiet
  /\ discovered \subseteq samples
  /\ \A p \in pending \ samples : waiting[p] # {}

\* A reply leaves the tests handed out alone; it finds only aliases of theirs.
LEMMA ReplyIdle ==
  ASSUME SessionTypes, IdleIInv, NEW reply \in ReplyType, HandleReply(reply),
         UNCHANGED waiting
  PROVE  /\ UNCHANGED <<samples, pending>>
         /\ discovered' \subseteq samples'
<1>1. CASE UNCHANGED dvars
  BY <1>1 DEF IdleIInv, dvars
<1>2. CASE reply.purpose = "Alias" /\ ~UNCHANGED dvars
  <2>1. Reply(reply.test, reply.slot)
    BY <1>2 DEF HandleReply, SampleReply
  <2> QED
    BY <2>1 DEF Reply, IdleIInv
<1> QED
  BY <1>1, <1>2 DEF HandleReply

\* An address that has a test queued waits for it.
LEMMA VerdictIdle ==
  ASSUME SessionTypes, IdleIInv, NEW a \in Addr, Verdict(a)
  PROVE  /\ UNCHANGED <<samples, discovered>>
         /\ \A p \in pending' \ samples' : waiting'[p] # {}
<1>1. UNCHANGED <<samples, discovered>> /\ waiting \in [Prefix -> SUBSET Addr] /\ pending \subseteq Prefix
  BY DEF Verdict, Consider, SessionTypes, SessionTypeOK, DetectorIInv, DetectorTypeOK
<1>2. \A p \in Prefix : waiting[p] \subseteq waiting'[p]
  BY <1>1 DEF Verdict
<1>3. CASE NewTest(a) = {}
  BY <1>1, <1>2, <1>3 DEF Verdict, Consider, IdleIInv
<1>4. CASE NewTest(a) # {}
  <2>1. PICK p \in NewTest(a) : pending' = pending \cup {p}
    BY <1>4 DEF Verdict, Consider
  <2>2. PICK l \in Level : p = PrefixAt[a][l] /\ Waits(a, l)
    BY <2>1 DEF NewTest
  <2>3. p \in Prefix
    BY <2>2, PrefixAssumption
  <2>4. a \in waiting'[p]
    <3>1. ~Aliased(a) /\ ~NotDetected(a)
      BY <2>2 DEF Waits, Aliased, NotDetected
    <3>2. PICK m \in Level : Waits(a, m) /\ waiting' = [waiting EXCEPT ![PrefixAt[a][m]] = @ \cup {a}]
      BY <3>1 DEF Verdict
    <3>3. m = l
      BY <2>2, <3>2, PrefixAssumption DEF Waits, Level
    <3> QED
      BY <1>1, <2>2, <2>3, <3>2, <3>3
  <2> QED
    BY <1>1, <1>2, <2>1, <2>4 DEF IdleIInv
<1> QED
  BY <1>1, <1>3, <1>4

\* Every step leaves nothing unconsidered when the session waits.
LEMMA IdleStep ==
  ASSUME SessionTypes, IdleIInv, [SessionNext]_vars
  PROVE  IdleIInv'
<1>same. ASSUME UNCHANGED <<dvars, resolving, waiting>>,
                pc' \in {"pump", "flush", "select"} => pc \in {"pump", "flush", "select"} \/ Quiet
         PROVE  IdleIInv'
  BY <1>same DEF IdleIInv, dvars, Quiet
<1>1. CASE PumpTest
  <2>1. UNCHANGED <<resolving, discovered, pending, waiting>> /\ samples \subseteq samples'
    BY <1>1, NextTestTakesFront DEF PumpTest, SessionTypes, DetectorIInv
  <2>2. pc = "pump"
    BY <1>1 DEF PumpTest
  <2> QED
    BY <2>1, <2>2 DEF IdleIInv, Quiet
<1>2. CASE PumpTested \/ PumpBatch \/ PumpDone
  BY <1>2, <1>same DEF PumpTested, PumpBatch, PumpDone
<1>3. CASE RecvReply \/ DrainReply
  <2>1. Head(results) \in ReplyType
    BY <1>3, HeadTail DEF RecvReply, DrainReply, SessionTypes, SessionTypeOK, ChannelsOK
  <2>2. waiting' = waiting /\ HandleReply(Head(results)) /\ pc' \in {"drain", "timeout"}
    BY <1>3 DEF RecvReply, DrainReply
  <2>3. UNCHANGED <<samples, pending>> /\ discovered' \subseteq samples'
    BY <2>1, <2>2, ReplyIdle
  <2> QED
    BY <2>2, <2>3 DEF IdleIInv
<1>4. CASE RecvAck \/ Deadline \/ RetryOutbox \/ EngineLost
  BY <1>4, <1>same DEF RecvAck, Deadline, RetryOutbox, EngineLost
<1>5. CASE ConsiderNext
  <2>1. PICK a \in resolving : Verdict(a)
    BY <1>5 DEF ConsiderNext
  <2>2. a \in Addr
    BY <2>1 DEF SessionTypes, SessionTypeOK
  <2>3. pc \notin {"pump", "flush", "select"} /\ pc' = pc
    BY <1>5, <2>1 DEF ConsiderNext, IdleIInv, Quiet
  <2> QED
    BY <2>1, <2>2, <2>3, VerdictIdle DEF IdleIInv
<1>6. CASE PublishAliases
  <2>1. /\ waiting' = StillWaiting(discovered) /\ discovered' = {}
        /\ UNCHANGED <<pending, samples, pc>>
    BY <1>6 DEF PublishAliases, TakeAliases
  <2>2. pc \notin {"pump", "flush", "select"}
    BY <1>6 DEF PublishAliases, IdleIInv, Quiet
  <2>3. \A p \in pending \ samples : waiting'[p] = waiting[p]
    BY <2>1 DEF StillWaiting, IdleIInv, SessionTypes, DetectorIInv, DetectorTypeOK
  <2> QED
    BY <2>1, <2>2, <2>3 DEF IdleIInv
<1>7. CASE ExpireTest
  <2> DEFINE p == Head(deadlines).test
  <2>1. /\ waiting' = StillWaiting({p}) /\ Finish(p) /\ pc' \in {"return", "expire"}
        /\ discovered = {}
    BY <1>7 DEF ExpireTest, ExpireNext, Quiet
  <2> HIDE DEF p
  <2>2. pending' = pending \ {p} /\ samples' = samples \ {p} /\ discovered' = {}
    BY <2>1 DEF Finish
  <2>3. \A q \in pending' \ samples' : q \in pending \ samples /\ waiting'[q] = waiting[q]
    BY <2>1, <2>2 DEF StillWaiting, SessionTypes, DetectorIInv, DetectorTypeOK
  <2> QED
    BY <2>1, <2>2, <2>3 DEF IdleIInv
<1>8. CASE DrainEnd \/ ExpireTargets \/ Return
  BY <1>8, <1>same DEF DrainEnd, ExpireTargets, Return, ExpireNext
<1>9. CASE Plan \/ Decline \/ (\E b \in Batches : Submit(b)) \/ CallNext \/ FinishSession
  BY <1>9, <1>same DEF Plan, Decline, Submit, CallNext, FinishSession
<1>10. ASSUME NEW a \in Asked, Ask(a) PROVE IdleIInv'
  BY <1>10 DEF Ask, IdleIInv, dvars
<1>11. CASE Engine
  BY <1>11, <1>same DEF Engine, SendBatch, Acknowledge, Deliver, EngineFails, svars
<1>12. CASE Ended \/ UNCHANGED vars
  BY <1>12, <1>same DEF Ended, vars, svars
<1> QED
  BY <1>1, <1>2, <1>3, <1>4, <1>5, <1>6, <1>7, <1>8, <1>9, <1>10, <1>11, <1>12
     DEF SessionNext, Pump, Event, Handle, Caller

-----------------------------------------------------------------------------
(* Verdicts: what was given, and what is still owed.                        *)

Kinds == {"Active", "Inactive", "Skipped"}

Decided(a)    == Aliased(a) \/ NotDetected(a)
Considered(a) == a \in resolving \/ \E p \in Prefix : a \in waiting[p]

\* The verdicts that may still come for a target whose entry in Session.pending
\* is r, and which waits to be considered (q): the one of its probes, and the
\* one it waits for, unless they are the same.
Owed(r, q) ==
  IF r.copies > 0 /\ r.reported THEN 0
  ELSE IF r.copies > 0 /\ r.active THEN 1
  ELSE (IF r.copies > 0 THEN 1 ELSE 0) + (IF q THEN 1 ELSE 0)

\* A target with n verdicts, submitted s times, decided about or not (d), was
\* reported only if it was decided; it has no more verdicts than submissions,
\* those still owed included, and is owed one when it has none.
Fits(r, n, s, q, d) ==
  /\ r.copies = 0 => r = NoProbe
  /\ r.copies > 0 /\ r.reported => d /\ n > 0
  /\ n + Owed(r, q) <= s
  /\ s > 0 /\ n = 0 => q \/ (r.copies > 0 /\ ~r.active)

VerdictIInv ==
  /\ told \in [Addr -> Seq(Kinds)]
  /\ submitted \in [Addr -> Nat]
  /\ \A a \in Addr : Fits(probes[a], Len(told[a]), submitted[a], Considered(a), Decided(a))

\* An address that is decided about no longer waits for a test.
LEMMA DecidedNotWaiting ==
  ASSUME SessionTypes, WaitersIInv, discovered = {}, NEW a \in Addr, Decided(a), NEW p \in Prefix
  PROVE  a \notin waiting[p]
<1> SUFFICES ASSUME a \in waiting[p] PROVE FALSE
  OBVIOUS
<1>1. p \in pending /\ a \in Members(p) /\ a \notin aliases
  BY DEF WaitersIInv
<1>2. p \in complete
  BY <1>1 DEF Decided, Aliased, NotDetected, Members
<1> QED
  BY <1>1, <1>2 DEF SessionTypes, DetectorIInv, NeverRetested

\* A decision is final.
LEMMA DecidedStays ==
  ASSUME SessionTypes, [SessionNext]_vars, NEW a \in Addr, Decided(a)
  PROVE  Decided(a)'
<1>1. [DetectorNext]_dvars /\ DetectorIInv
  BY SessionStepRefines DEF SessionTypes
<1>2. aliases \subseteq aliases'
  BY <1>1 DEF DetectorNext, Consider, NextTest, Reply, Finish, TakeAliases, dvars
<1>3. NotDetected(a) => NotDetected(a)'
  BY <1>1, CleanStep
<1> QED
  BY <1>2, <1>3 DEF Decided, Aliased

\* Time passes: a target may come to be decided about.
LEMMA FitsLater ==
  ASSUME NEW r \in ProbeType, NEW n \in Nat, NEW s \in Nat, NEW q, NEW q2, NEW d, NEW d2,
         Fits(r, n, s, q, d), q2 <=> q, d => d2
  PROVE  Fits(r, n, s, q2, d2)
  BY DEF Fits, Owed

\* report(): a target considered is told of, unless it was.
LEMMA FitsReport ==
  ASSUME NEW r \in ProbeType, NEW n \in Nat, NEW s \in Nat, NEW d, Fits(r, n, s, TRUE, d),
         ~(r.copies > 0 /\ r.reported), NEW x \in BOOLEAN, x <=> r.copies > 0
  PROVE  Fits([r EXCEPT !.reported = x], n + 1, s, FALSE, TRUE)
<1> DEFINE u == [r EXCEPT !.reported = x]
<1>1. u.copies = r.copies /\ u.active = r.active /\ u.reported = x /\ r.copies \in Nat
  BY DEF ProbeType
<1>2. r.copies = 0 => u = NoProbe
  <2>1. \A w \in ProbeType : w.reported = FALSE => [w EXCEPT !.reported = FALSE] = w
    BY DEF ProbeType
  <2>2. r.copies = 0 => x = FALSE /\ r = NoProbe /\ r.reported = FALSE
    BY <1>1 DEF Fits, NoProbe
  <2> QED
    BY <2>1, <2>2
<1> HIDE DEF u
<1>3. Owed(u, FALSE) = 0
  BY <1>1 DEF Owed
<1>4. Owed(r, TRUE) \in Nat /\ Owed(r, TRUE) >= 1
  BY <1>1 DEF Owed
<1>5. n + Owed(r, TRUE) <= s
  BY DEF Fits
<1> QED
  <2>1. (n + 1) + Owed(u, FALSE) <= s
    <3> DEFINE o == Owed(r, TRUE)
    <3>1. o \in Nat /\ o >= 1 /\ n + o <= s
      BY <1>4, <1>5
    <3> HIDE DEF o
    <3>2. n + 1 <= s /\ (n + 1) + 0 = n + 1
      BY <3>1
    <3> QED
      BY <1>3, <3>2, Zenon
  <2>2. n + 1 > 0 /\ n + 1 # 0
    OBVIOUS
  <2> QED
    BY <1>1, <1>2, <2>1, <2>2 DEF Fits, u

\* c more copies of a target, each a submission.
LEMMA FitsSubmit ==
  ASSUME NEW r \in ProbeType, NEW n \in Nat, NEW s \in Nat, NEW q, NEW d, Fits(r, n, s, q, d),
         NEW c \in Nat
  PROVE  Fits([r EXCEPT !.copies = r.copies + c], n, s + c, q, d)
<1> DEFINE u == [r EXCEPT !.copies = r.copies + c]
<1>1. /\ u.copies = r.copies + c /\ u.active = r.active /\ u.reported = r.reported
      /\ r.copies \in Nat
  BY DEF ProbeType
<1>2. CASE c = 0
  BY <1>2 DEF ProbeType
<1>3. CASE c # 0
  <2> HIDE DEF u
  <2>1. u.copies > 0
    BY <1>1, <1>3
  <2>2. r.copies = 0 => ~r.reported /\ ~r.active
    BY DEF Fits, NoProbe
  <2>3. Owed(u, q) <= Owed(r, q) + c /\ Owed(r, q) \in Nat /\ Owed(u, q) \in Nat
    BY <1>1, <1>3, <2>1, <2>2 DEF Owed
  <2>4. n + Owed(u, q) <= s + c
    BY <2>3 DEF Fits
  <2>5. u.reported => d /\ n > 0
    BY <1>1, <2>2 DEF Fits
  <2>6. n = 0 => q \/ ~u.active
    <3>1. CASE r.copies = 0
      BY <1>1, <2>2, <3>1
    <3>2. CASE r.copies > 0 /\ n = 0
      <4>1. s > 0
        BY <3>2, <1>1 DEF Fits, Owed
      <4> QED
        BY <1>1, <3>2, <4>1 DEF Fits
    <3> QED
      BY <1>1, <3>1, <3>2
  <2> QED
    BY <2>1, <2>4, <2>5, <2>6 DEF Fits, u
<1> QED
  BY <1>2, <1>3

\* c submissions of a target that is aliased are all skipped.
LEMMA FitsSkip ==
  ASSUME NEW r \in ProbeType, NEW n \in Nat, NEW s \in Nat, NEW q, NEW d, Fits(r, n, s, q, d),
         NEW c \in Nat
  PROVE  Fits(r, n + c, s + c, q, d)
<1>1. Owed(r, q) \in Nat /\ n + Owed(r, q) <= s
  BY DEF Fits, Owed
<1> DEFINE o == Owed(r, q)
<1> HIDE DEF o
<1>2. (n + c) + o <= s + c
  BY <1>1 DEF o
<1>3. (n > 0 => n + c > 0) /\ (s + c > 0 /\ n + c = 0 => s > 0 /\ n = 0)
  OBVIOUS
<1> QED
  BY <1>2, <1>3 DEF Fits, o

\* A target is to be considered.
LEMMA FitsAsk ==
  ASSUME NEW r \in ProbeType, NEW n \in Nat, NEW s \in Nat, NEW q, NEW d, Fits(r, n, s, q, d)
  PROVE  Fits(r, n, s + 1, TRUE, d)
<1>1. Owed(r, TRUE) <= Owed(r, q) + 1 /\ Owed(r, q) \in Nat /\ Owed(r, TRUE) \in Nat
  BY DEF Owed
<1>2. n + Owed(r, q) <= s
  BY DEF Fits
<1> DEFINE o == Owed(r, q)
           p == Owed(r, TRUE)
<1>3. n + Owed(r, TRUE) <= s + 1
  <2>1. p <= o + 1 /\ o \in Nat /\ p \in Nat /\ n + o <= s
    BY <1>1, <1>2
  <2> HIDE DEF o, p
  <2>2. n + p <= s + 1
    BY <2>1
  <2> QED
    BY <2>2 DEF p
<1> QED
  BY <1>3 DEF Fits

\* c copies of an aliased target leave the outbox.
LEMMA FitsDrop ==
  ASSUME NEW r \in ProbeType, NEW n \in Nat, NEW s \in Nat, NEW q, NEW d, Fits(r, n, s, q, d),
         NEW c \in Nat \ {0}, c <= r.copies,
         NEW u \in ProbeType, u.copies = r.copies - c, u.reported <=> r.copies > c,
         r.copies = c => u = NoProbe,
         NEW m \in Nat, m = IF r.reported THEN n ELSE n + 1
  PROVE  Fits(u, m, s, FALSE, TRUE)
<1>1. r.copies \in Nat /\ r.copies > 0 /\ u.copies \in Nat /\ (u.copies = 0 <=> r.copies = c)
  BY DEF ProbeType
<1>2. Owed(u, FALSE) = 0
  BY <1>1 DEF Owed
<1>3. m <= s
  BY <1>1 DEF Fits, Owed
<1>4. m > 0
  BY <1>1 DEF Fits
<1>5. m + Owed(u, FALSE) <= s
  <2>1. m + 0 <= s
    BY <1>3
  <2> QED
    BY <1>2, <2>1, Zenon
<1>6. (u.copies = 0 => u = NoProbe) /\ ~(s > 0 /\ m = 0)
  BY <1>1, <1>4
<1> QED
  BY <1>4, <1>5, <1>6 DEF Fits

\* c copies of a target expire.
LEMMA FitsExpire ==
  ASSUME NEW r \in ProbeType, NEW n \in Nat, NEW s \in Nat, NEW q, NEW d, Fits(r, n, s, q, d),
         d => ~q, NEW c \in Nat, c <= r.copies,
         NEW u, u = IF r.copies = c THEN NoProbe ELSE [r EXCEPT !.copies = r.copies - c],
         NEW m \in Nat, m = IF c > 0 /\ r.copies = c /\ ~r.active /\ ~r.reported THEN n + 1 ELSE n
  PROVE  Fits(u, m, s, q, d)
<1>0. r.copies \in Nat
  BY DEF ProbeType
<1>1. CASE c = 0
  <2>1. u = r
    <3>1. CASE r.copies = 0
      BY <1>1, <3>1 DEF Fits
    <3>2. CASE r.copies # 0
      <4>1. r.copies - c = r.copies
        BY <1>0, <1>1
      <4>2. \A w \in ProbeType : [w EXCEPT !.copies = w.copies] = w
        BY DEF ProbeType
      <4> QED
        BY <1>1, <3>2, <4>1, <4>2
    <3> QED
      BY <3>1, <3>2
  <2>2. m = n
    BY <1>1
  <2> QED
    BY <2>1, <2>2
<1>2. CASE c # 0 /\ r.copies # c
  <2>1. u.copies = r.copies - c /\ u.active = r.active /\ u.reported = r.reported /\ m = n
    BY <1>2 DEF ProbeType
  <2>2. u.copies > 0 /\ u.copies # 0 /\ r.copies > 0
    BY <1>0, <1>2, <2>1
  <2>3. Owed(u, q) = Owed(r, q)
    BY <2>1, <2>2 DEF Owed
  <2> QED
    BY <2>1, <2>2, <2>3 DEF Fits
<1>3. CASE c # 0 /\ r.copies = c
  <2>1. u = NoProbe /\ u.copies = 0 /\ r.copies > 0
    BY <1>0, <1>3 DEF NoProbe
  <2>2. Owed(u, q) = IF q THEN 1 ELSE 0
    BY <2>1 DEF Owed
  <2>3. Owed(r, q) = IF r.reported THEN 0 ELSE IF r.active THEN 1 ELSE 1 + (IF q THEN 1 ELSE 0)
    BY <2>1 DEF Owed
  <2>4. n + Owed(r, q) <= s /\ (r.reported => ~q /\ n > 0)
    BY <2>1 DEF Fits
  <2>5. m + (IF q THEN 1 ELSE 0) <= s
    BY <1>3, <2>3, <2>4
  <2>6. s > 0 /\ m = 0 => q
    <3>1. s > 0 /\ n = 0 => q \/ ~r.active
      BY DEF Fits
    <3> QED
      BY <1>3, <2>1, <2>4, <3>1
  <2> QED
    BY <2>1, <2>2, <2>5, <2>6 DEF Fits
<1> QED
  BY <1>1, <1>2, <1>3

-----------------------------------------------------------------------------
(* No step gives a verdict too many, or forgets one.                        *)

\* consider() judges the address, or has it wait.
LEMMA VerdictConsidered ==
  ASSUME SessionTypes, WaitersIInv, VerdictIInv, probes \in [Addr -> ProbeType],
         ConsiderNext, [SessionNext]_vars
  PROVE  VerdictIInv'
<1>0. PICK a \in resolving : Verdict(a) /\ resolving' = resolving \ {a}
  BY DEF ConsiderNext
<1>1. /\ a \in Addr /\ discovered = {} /\ submitted' = submitted /\ resolving \subseteq Addr
      /\ waiting \in [Prefix -> SUBSET Addr]
  BY <1>0 DEF ConsiderNext, SessionTypes, SessionTypeOK
<1>2. told \in [Addr -> Seq(Kinds)] /\ submitted \in [Addr -> Nat]
  BY DEF VerdictIInv
<1>3. \A c \in Addr : Decided(c) => Decided(c)'
  BY DecidedStays
<1>4. \A c \in Addr : Fits(probes[c], Len(told[c]), submitted[c], Considered(c), Decided(c))
  BY DEF VerdictIInv
<1>5. ASSUME NEW kind \in Kinds, Report(a, kind), Decided(a), UNCHANGED waiting
      PROVE  VerdictIInv'
  <2>1. ~Considered(a)'
    BY <1>0, <1>1, <1>5, DecidedNotWaiting DEF Considered
  <2>2. \A c \in Addr \ {a} : Considered(c)' <=> Considered(c)
    BY <1>0, <1>5 DEF Considered
  <2>3. Considered(a)
    BY <1>0 DEF Considered
  <2>4. CASE probes[a].copies > 0 /\ probes[a].reported
    <3>1. UNCHANGED <<probes, told>>
      BY <1>5, <2>4 DEF Report
    <3>2. Fits(probes[a], Len(told[a]), submitted[a], Considered(a)', Decided(a)')
      <4>1. \A r, n, s, q, q2, d, d2 :
              Fits(r, n, s, q, d) /\ r.copies > 0 /\ r.reported /\ d2 => Fits(r, n, s, q2, d2)
        BY DEF Fits, Owed
      <4>2. Fits(probes[a], Len(told[a]), submitted[a], Considered(a), Decided(a)) /\ Decided(a)'
        BY <1>1, <1>3, <1>4, <1>5
      <4> QED
        BY <2>4, <4>1, <4>2
    <3>3. \A c \in Addr \ {a} : Fits(probes[c], Len(told[c]), submitted[c], Considered(c)', Decided(c)')
      BY <1>2, <1>3, <1>4, <2>2, FitsLater
    <3> QED
      BY <1>1, <1>2, <3>1, <3>2, <3>3 DEF VerdictIInv
  <2>5. CASE ~(probes[a].copies > 0 /\ probes[a].reported)
    <3> DEFINE x == probes[a].copies > 0
    <3>1. /\ told' = [told EXCEPT ![a] = Append(told[a], kind)]
          /\ probes' = [probes EXCEPT ![a].reported = x]
      BY <1>5, <2>5 DEF Report
    <3>2. x \in BOOLEAN /\ probes[a] \in ProbeType /\ Len(told[a]) \in Nat /\ submitted[a] \in Nat
      BY <1>1, <1>2
    <3>3. told' \in [Addr -> Seq(Kinds)] /\ Len(told'[a]) = Len(told[a]) + 1
      BY <1>1, <1>2, <1>5, <3>1
    <3>4. Fits(probes[a], Len(told[a]), submitted[a], TRUE, Decided(a))
      BY <1>1, <1>2, <1>4, <2>3, <3>2, FitsLater
    <3>5. Fits([probes[a] EXCEPT !.reported = x], Len(told[a]) + 1, submitted[a], FALSE, TRUE)
      BY <2>5, <3>2, <3>4, FitsReport
    <3> HIDE DEF x
    <3>6. probes'[a] = [probes[a] EXCEPT !.reported = x] /\ \A c \in Addr \ {a} : probes'[c] = probes[c]
      BY <1>1, <3>1
    <3>7. probes'[a] \in ProbeType
      BY <3>2, <3>6 DEF ProbeType
    <3>8. Fits(probes'[a], Len(told'[a]), submitted[a], Considered(a)', Decided(a)')
      <4>1. Fits(probes'[a], Len(told[a]) + 1, submitted[a], FALSE, TRUE)
        BY <3>5, <3>6
      <4>2. (Considered(a)' <=> FALSE) /\ (TRUE => Decided(a)') /\ Len(told[a]) + 1 \in Nat
        BY <1>1, <1>3, <1>5, <2>1, <3>2
      <4> QED
        BY <3>2, <3>3, <3>7, <4>1, <4>2, FitsLater
    <3>9. ASSUME NEW c \in Addr \ {a}
          PROVE  Fits(probes'[c], Len(told'[c]), submitted[c], Considered(c)', Decided(c)')
      <4>1. probes'[c] = probes[c] /\ told'[c] = told[c]
        BY <3>1, <3>6
      <4> QED
        BY <1>2, <1>3, <1>4, <2>2, <4>1, FitsLater
    <3> QED
      BY <1>1, <1>2, <3>3, <3>8, <3>9 DEF VerdictIInv
  <2> QED
    BY <2>4, <2>5
<1>6. ASSUME NEW l \in Level, waiting' = [waiting EXCEPT ![PrefixAt[a][l]] = @ \cup {a}],
             UNCHANGED <<probes, told>>
      PROVE  VerdictIInv'
  <2>1. PrefixAt[a][l] \in Prefix
    BY <1>1, PrefixAssumption
  <2>2. \A p \in Prefix : waiting'[p] = IF p = PrefixAt[a][l] THEN waiting[p] \cup {a} ELSE waiting[p]
    BY <1>1, <1>6, <2>1
  <2>3. \A c \in Addr : Considered(c)' <=> Considered(c)
    BY <1>0, <2>1, <2>2 DEF Considered
  <2>4. \A c \in Addr : Fits(probes[c], Len(told[c]), submitted[c], Considered(c)', Decided(c)')
    BY <1>2, <1>3, <1>4, <2>3, FitsLater
  <2> QED
    BY <1>1, <1>2, <1>6, <2>4 DEF VerdictIInv
<1> QED
  BY <1>0, <1>5, <1>6 DEF Verdict, Decided, Kinds

\* What the other lemmas on a step have in common: the facts of each address.
LEMMA VerdictFacts ==
  ASSUME SessionTypes, VerdictIInv, [SessionNext]_vars
  PROVE  /\ told \in [Addr -> Seq(Kinds)] /\ submitted \in [Addr -> Nat]
         /\ \A c \in Addr : /\ Fits(probes[c], Len(told[c]), submitted[c], Considered(c), Decided(c))
                            /\ Decided(c) => Decided(c)'
                            /\ Len(told[c]) \in Nat /\ submitted[c] \in Nat
  BY DecidedStays DEF VerdictIInv

\* A step gives no verdict, and considers what was to be considered.
LEMMA VerdictSame ==
  ASSUME SessionTypes, VerdictIInv, probes \in [Addr -> ProbeType], [SessionNext]_vars,
         UNCHANGED <<probes, told, submitted>>,
         \A c \in Addr : Considered(c)' <=> Considered(c)
  PROVE  VerdictIInv'
<1>1. \A c \in Addr : Fits(probes[c], Len(told[c]), submitted[c], Considered(c)', Decided(c)')
  BY VerdictFacts, FitsLater
<1> QED
  BY <1>1, VerdictFacts DEF VerdictIInv

\* Addresses taken from "waiting" are considered.
LEMMA VerdictResolve ==
  ASSUME SessionTypes, VerdictIInv, probes \in [Addr -> ProbeType], [SessionNext]_vars,
         PublishAliases \/ ExpireTest
  PROVE  VerdictIInv'
<1>1. UNCHANGED <<probes, told, submitted>>
  BY DEF PublishAliases, ExpireTest, hvars
<1>2. CASE PublishAliases
  <2>1. /\ resolving' = resolving \cup UNION {waiting[p] : p \in discovered}
        /\ \A p \in Prefix : waiting'[p] = IF p \in discovered THEN {} ELSE waiting[p]
        /\ discovered \subseteq Prefix
    BY <1>2 DEF PublishAliases, StillWaiting, SessionTypes, DetectorIInv, DetectorTypeOK
  <2>2. \A c \in Addr : Considered(c)' <=> Considered(c)
    BY <2>1 DEF Considered
  <2> QED
    BY <1>1, <2>2, VerdictSame
<1>3. CASE ExpireTest
  <2> DEFINE p == Head(deadlines).test
  <2>1. p \in Prefix
    BY <1>3, HeadTail DEF ExpireTest, BatchType, SessionTypes, SessionTypeOK, ChannelsOK
  <2>2. resolving = {} /\ resolving' = waiting[p] /\ waiting' = StillWaiting({p})
    BY <1>3 DEF ExpireTest, Quiet
  <2> HIDE DEF p
  <2>3. \A q \in Prefix : waiting'[q] = IF q = p THEN {} ELSE waiting[q]
    BY <2>2 DEF StillWaiting
  <2>4. \A c \in Addr : Considered(c)' <=> Considered(c)
    BY <2>1, <2>2, <2>3 DEF Considered
  <2> QED
    BY <1>1, <2>4, VerdictSame
<1> QED
  BY <1>2, <1>3

\* A reply has its target considered once.
LEMMA VerdictReply ==
  ASSUME SessionTypes, VerdictIInv, probes \in [Addr -> ProbeType], [SessionNext]_vars,
         NEW reply \in ReplyType, HandleReply(reply), resolving = {},
         UNCHANGED <<waiting, told, submitted>>
  PROVE  VerdictIInv'
<1>1. CASE UNCHANGED <<probes, resolving>>
  <2>1. \A c \in Addr : Considered(c)' <=> Considered(c)
    BY <1>1 DEF Considered
  <2> QED
    BY <1>1, <2>1, VerdictSame
<1>2. CASE ~UNCHANGED <<probes, resolving>>
  <2> DEFINE a == reply.target
             found == reply.direct /\ ~probes[a].active
  <2>1. reply.purpose # "Alias" /\ a \in Addr
    BY <1>2 DEF HandleReply, ReplyType
  <2>2. /\ probes' = [probes EXCEPT ![a].responded = TRUE, ![a].active = @ \/ found]
        /\ resolving' = IF found THEN {a} ELSE {}
        /\ probes[a].copies # 0
    BY <1>2, <2>1 DEF HandleReply
  <2>3. probes[a] \in ProbeType /\ found \in BOOLEAN /\ probes[a].copies > 0
    BY <2>1, <2>2 DEF ProbeType
  <2> HIDE DEF a, found
  <2>4. /\ probes'[a] = [probes[a] EXCEPT !.responded = TRUE, !.active = probes[a].active \/ found]
        /\ \A c \in Addr \ {a} : probes'[c] = probes[c]
    BY <2>1, <2>2
  <2>5. (Considered(a)' <=> Considered(a) \/ found) /\ \A c \in Addr \ {a} : Considered(c)' <=> Considered(c)
    BY <2>1, <2>2 DEF Considered
  <2>6. Fits(probes'[a], Len(told[a]), submitted[a], Considered(a)', Decided(a)')
    <3>1. Fits(probes'[a], Len(told[a]), submitted[a], Considered(a)', Decided(a))
      <4>1. /\ Fits(probes[a], Len(told[a]), submitted[a], Considered(a), Decided(a))
            /\ Len(told[a]) \in Nat /\ submitted[a] \in Nat
        BY <2>1, VerdictFacts
      <4> DEFINE r == probes[a]
                 n == Len(told[a])
                 s == submitted[a]
                 q == Considered(a)
                 now == Considered(a)'
                 d == Decided(a)
                 x == r.active \/ found
                 u == probes'[a]
      <4>2. /\ Fits(r, n, s, q, d) /\ n \in Nat /\ s \in Nat /\ r \in ProbeType
            /\ r.copies > 0 /\ (now <=> q \/ found)
            /\ x \in BOOLEAN /\ (x <=> r.active \/ found)
        BY <2>3, <2>5, <4>1
      <4>3. u = [r EXCEPT !.responded = TRUE, !.active = x]
        BY <2>4
      <4> HIDE DEF r, n, s, q, now, d, x, u
      <4>4. Fits(u, n, s, now, d)
        <5>1. found \in BOOLEAN
          BY <2>3
        <5> QED
          BY <4>2, <4>3, <5>1 DEF Fits, Owed, ProbeType
      <4> QED
        BY <4>4 DEF n, s, now, d, u
    <3>2. probes'[a] \in ProbeType
      BY <2>3, <2>4 DEF ProbeType
    <3> QED
      BY <2>1, <3>1, <3>2, VerdictFacts, FitsLater
  <2>7. ASSUME NEW c \in Addr \ {a}
        PROVE  Fits(probes'[c], Len(told[c]), submitted[c], Considered(c)', Decided(c)')
    BY <2>4, <2>5, VerdictFacts, FitsLater, SMTT(60)
  <2> QED
    BY <2>1, <2>6, <2>7, VerdictFacts DEF VerdictIInv
<1> QED
  BY <1>1, <1>2

\* Submitted targets are pending, or skipped at once.
LEMMA VerdictSubmit ==
  ASSUME SessionTypes, VerdictIInv, probes \in [Addr -> ProbeType], [SessionNext]_vars,
         NEW b \in Batches, Submit(b)
  PROVE  VerdictIInv'
<1> DEFINE all == Discovery(b)
           kept == Discovery(Unaliased(b))
           N(a) == Copies(all, a)
<1>1. /\ probes' = [a \in Addr |-> [probes[a] EXCEPT !.copies = @ + Copies(kept, a)]]
      /\ told' = [a \in Addr |-> IF a \in aliases
                                 THEN told[a] \o [i \in 1..N(a) |-> "Skipped"]
                                 ELSE told[a]]
      /\ submitted' = [a \in Addr |-> submitted[a] + N(a)]
      /\ UNCHANGED <<resolving, waiting>>
  BY DEF Submit
<1>2. \A a \in Addr : N(a) \in Nat /\ Copies(kept, a) = IF a \in aliases THEN 0 ELSE N(a)
  <2>1. b \in Seq(Addr)
    BY SessionAssumption
  <2>2. all \in BatchType
    BY <2>1 DEF Discovery, BatchType
  <2> QED
    BY <2>1, <2>2, UnaliasedType, BatchFacts
<1> HIDE DEF all, kept, N
<1>3. \A c \in Addr : Considered(c)' <=> Considered(c)
  BY <1>1 DEF Considered
<1>4. ASSUME NEW a \in Addr
      PROVE  /\ told'[a] \in Seq(Kinds)
             /\ Fits(probes'[a], Len(told'[a]), submitted'[a], Considered(a)', Decided(a)')
  <2>1. /\ probes[a] \in ProbeType /\ N(a) \in Nat /\ submitted'[a] = submitted[a] + N(a)
        /\ told[a] \in Seq(Kinds) /\ Len(told[a]) \in Nat /\ submitted[a] \in Nat
        /\ Fits(probes[a], Len(told[a]), submitted[a], Considered(a), Decided(a))
        /\ Decided(a) => Decided(a)'
    BY <1>1, <1>2, VerdictFacts
  <2>2. CASE a \in aliases
    <3> DEFINE more == [i \in 1..N(a) |-> "Skipped"]
    <3>1. more \in Seq(Kinds) /\ Len(more) = N(a)
      BY <2>1 DEF Kinds
    <3>2. told'[a] = told[a] \o more
      BY <1>1, <2>2
    <3> HIDE DEF more
    <3>3. told'[a] \in Seq(Kinds) /\ Len(told'[a]) = Len(told[a]) + N(a)
      <4>1. told[a] \o more \in Seq(Kinds) /\ Len(told[a] \o more) = Len(told[a]) + Len(more)
        BY <2>1, <3>1, ConcatFacts
      <4> QED
        BY <3>1, <3>2, <4>1
    <3>4. probes'[a] = probes[a]
      <4>1. probes'[a] = [probes[a] EXCEPT !.copies = probes[a].copies + 0]
        BY <1>1, <1>2, <2>2
      <4>2. \A w \in ProbeType : [w EXCEPT !.copies = w.copies + 0] = w
        BY DEF ProbeType
      <4> QED
        BY <2>1, <4>1, <4>2
    <3>5. Fits(probes[a], Len(told[a]) + N(a), submitted[a] + N(a), Considered(a), Decided(a))
      BY <2>1, FitsSkip
    <3>6. Len(told[a]) + N(a) \in Nat /\ submitted[a] + N(a) \in Nat
      BY <2>1
    <3>7. Fits(probes[a], Len(told[a]) + N(a), submitted[a] + N(a), Considered(a)', Decided(a)')
      BY <1>3, <2>1, <3>5, <3>6, FitsLater
    <3> QED
      BY <2>1, <3>3, <3>4, <3>7
  <2>3. CASE a \notin aliases
    <3>1. probes'[a] = [probes[a] EXCEPT !.copies = probes[a].copies + N(a)] /\ told'[a] = told[a]
      BY <1>1, <1>2, <2>3
    <3>2. Fits(probes'[a], Len(told[a]), submitted[a] + N(a), Considered(a), Decided(a))
      BY <2>1, <3>1, FitsSubmit
    <3>3. probes'[a] \in ProbeType /\ submitted[a] + N(a) \in Nat
      <4>1. \A w \in ProbeType : \A n \in Nat : [w EXCEPT !.copies = w.copies + n] \in ProbeType
        BY DEF ProbeType
      <4> QED
        BY <2>1, <3>1, <4>1
    <3>4. Fits(probes'[a], Len(told[a]), submitted[a] + N(a), Considered(a)', Decided(a)')
      BY <1>3, <2>1, <3>2, <3>3, FitsLater
    <3> QED
      BY <2>1, <3>1, <3>4
  <2> QED
    BY <2>2, <2>3
<1>5. told' \in [Addr -> Seq(Kinds)] /\ submitted' \in [Addr -> Nat]
  <2>1. \A a \in Addr : submitted[a] + N(a) \in Nat
    BY <1>2, VerdictFacts
  <2>2. told' = [a \in Addr |-> told'[a]]
    BY <1>1
  <2> QED
    BY <1>1, <1>4, <2>1, <2>2
<1> QED
  BY <1>4, <1>5 DEF VerdictIInv

\* A caller has an address considered.
LEMMA VerdictAsk ==
  ASSUME SessionTypes, VerdictIInv, probes \in [Addr -> ProbeType], [SessionNext]_vars,
         NEW a \in Asked, Ask(a)
  PROVE  VerdictIInv'
<1>1. /\ a \in Addr /\ UNCHANGED <<probes, told, waiting>> /\ resolving = {} /\ resolving' = {a}
      /\ submitted' = [submitted EXCEPT ![a] = submitted[a] + 1]
  BY SessionAssumption DEF Ask, Quiet
<1>2. Considered(a)' /\ \A c \in Addr \ {a} : Considered(c)' <=> Considered(c)
  BY <1>1 DEF Considered
<1>3. submitted' \in [Addr -> Nat] /\ submitted'[a] = submitted[a] + 1
      /\ \A c \in Addr \ {a} : submitted'[c] = submitted[c]
  BY <1>1, VerdictFacts
<1>4. Fits(probes[a], Len(told[a]), submitted'[a], Considered(a)', Decided(a)')
  <2>0. /\ Fits(probes[a], Len(told[a]), submitted[a], Considered(a), Decided(a))
        /\ Len(told[a]) \in Nat /\ submitted[a] \in Nat /\ probes[a] \in ProbeType
        /\ Decided(a) => Decided(a)'
    BY <1>1, VerdictFacts
  <2>1. Fits(probes[a], Len(told[a]), submitted[a] + 1, TRUE, Decided(a))
    BY <2>0, FitsAsk
  <2>2. submitted[a] + 1 \in Nat /\ (Considered(a)' <=> TRUE)
    BY <1>2, <2>0
  <2>3. Fits(probes[a], Len(told[a]), submitted[a] + 1, Considered(a)', Decided(a)')
    <3> DEFINE r == probes[a]
               n == Len(told[a])
               s == submitted[a] + 1
               d == Decided(a)
               d2 == Decided(a)'
               q == Considered(a)'
    <3>1. r \in ProbeType /\ n \in Nat /\ s \in Nat /\ (d => d2) /\ q /\ Fits(r, n, s, TRUE, d)
      BY <2>0, <2>1, <2>2
    <3> HIDE DEF r, n, s, d, d2, q
    <3>2. Fits(r, n, s, q, d2)
      BY <3>1 DEF Fits, Owed
    <3> QED
      BY <3>2 DEF r, n, s, d2, q
  <2> QED
    BY <1>3, <2>3, Zenon
<1>5. \A c \in Addr \ {a} : Fits(probes[c], Len(told[c]), submitted'[c], Considered(c)', Decided(c)')
  BY <1>2, <1>3, VerdictFacts, FitsLater
<1> QED
  BY <1>1, <1>3, <1>4, <1>5, VerdictFacts DEF VerdictIInv

\* A target of a batch has a copy in it.
LEMMA IsTarget ==
  ASSUME NEW b \in BatchType, NEW a
  PROVE  Copies(b, a) \in Nat /\ (a \in Targets(b) <=> Copies(b, a) # 0)
<1>1. b.targets \in Seq(Addr)
  BY BatchFacts
<1>2. Copies(b, a) \in Nat /\ IsFiniteSet({i \in DOMAIN b.targets : b.targets[i] = a})
  BY <1>1, OccurrencesType DEF Copies
<1>3. Copies(b, a) = 0 => {i \in DOMAIN b.targets : b.targets[i] = a} = {}
  BY <1>2, FS_EmptySet DEF Copies, Occurrences
<1> QED
  BY <1>2, <1>3, NotTarget DEF Targets

\* The first batch of the outbox is counted in the copies of its targets, and
\* so is the batch that expires.
LEMMA CopiesCounted ==
  ASSUME SessionTypes, CopiesIInv, NEW a \in Addr
  PROVE  /\ PumpBatch => Copies(Head(outbox), a) <= probes[a].copies
         /\ ExpireTargets => Copies(Head(deadlines), a) <= probes[a].copies
<1>1. /\ Load(CopiesOf(a)) <= probes[a].copies /\ probes[a].copies \in Nat
      /\ CopiesOf(a) \in Weightings /\ Load(CopiesOf(a)) \in Nat
  BY KeptType, WeightingsFacts, LoadIsWeight DEF CopiesIInv, ProbeType, SessionTypes
<1>2. ASSUME NEW b \in BatchType, CopiesOf(a)[b] <= Load(CopiesOf(a))
      PROVE  Copies(b, a) <= probes[a].copies
  <2>1. CopiesOf(a)[b] = Copies(b, a) /\ Copies(b, a) \in Nat
    BY IsTarget DEF CopiesOf
  <2> DEFINE c == Copies(b, a)
             l == Load(CopiesOf(a))
             k == probes[a].copies
  <2>2. c <= l /\ l <= k /\ c \in Nat /\ l \in Nat /\ k \in Nat
    BY <1>1, <1>2, <2>1
  <2> HIDE DEF c, l, k
  <2>3. c <= k
    BY <2>2
  <2> QED
    BY <2>3 DEF c, k
<1>3. ASSUME PumpBatch PROVE Copies(Head(outbox), a) <= probes[a].copies
  BY <1>1, <1>2, <1>3, LoadPumpBatch, PumpBatchFacts
<1>4. ASSUME ExpireTargets PROVE Copies(Head(deadlines), a) <= probes[a].copies
  BY <1>1, <1>2, <1>4, LoadExpire
<1> QED
  BY <1>3, <1>4

\* The pump drops the aliased targets of a batch, with one verdict each.
LEMMA VerdictDrop ==
  ASSUME SessionTypes, WaitersIInv, IdleIInv, CopiesIInv, VerdictIInv, [SessionNext]_vars,
         probes' \in [Addr -> ProbeType], PumpBatch
  PROVE  VerdictIInv'
<1> DEFINE b    == Head(outbox)
           gone == {a \in Targets(b) : a \in aliases}
<1>1. b \in BatchType /\ Quiet /\ UNCHANGED <<resolving, waiting, submitted>>
  BY PumpBatchFacts DEF PumpBatch, IdleIInv
<1>2. /\ told' = [a \in Addr |-> IF a \in gone /\ ~probes[a].reported
                                 THEN Append(told[a], "Skipped") ELSE told[a]]
      /\ probes' = [a \in Addr |-> IF a \in gone
                      THEN [Without(b, Addr \ gone)[a]
                              EXCEPT !.reported = probes[a].copies > Copies(b, a)]
                      ELSE probes[a]]
  BY DEF PumpBatch
<1>3. \A a \in Addr : Copies(b, a) <= probes[a].copies
  BY CopiesCounted
<1> HIDE DEF b
<1>4. \A c \in Addr : Considered(c)' <=> Considered(c)
  BY <1>1 DEF Considered
<1>5. ASSUME NEW a \in Addr
      PROVE  /\ told'[a] \in Seq(Kinds)
             /\ Fits(probes'[a], Len(told'[a]), submitted[a], Considered(a)', Decided(a)')
  <2>1. /\ probes[a] \in ProbeType /\ probes'[a] \in ProbeType /\ probes[a].copies \in Nat
        /\ told[a] \in Seq(Kinds) /\ Len(told[a]) \in Nat /\ submitted[a] \in Nat
        /\ Fits(probes[a], Len(told[a]), submitted[a], Considered(a), Decided(a))
        /\ Decided(a) => Decided(a)'
    BY VerdictFacts DEF CopiesIInv, ProbeType
  <2>2. CASE a \notin gone
    <3>1. probes'[a] = probes[a] /\ told'[a] = told[a]
      BY <1>2, <2>2
    <3> QED
      BY <1>4, <2>1, <3>1, FitsLater
  <2>3. CASE a \in gone
    <3> DEFINE r == probes[a]
               u == probes'[a]
               c == Copies(b, a)
               n == Len(told[a])
               m == Len(told'[a])
               s == submitted[a]
               q == Considered(a)
               d == Decided(a)
               x == probes[a].copies > Copies(b, a)
    <3>1. c \in Nat \ {0} /\ c <= r.copies
      BY <1>1, <1>3, <2>3, IsTarget
    <3>2. /\ m = (IF r.reported THEN n ELSE n + 1) /\ m \in Nat
          /\ told'[a] \in Seq(Kinds)
      BY <1>2, <2>1, <2>3 DEF Kinds
    <3>3. /\ Without(b, Addr \ gone)[a] = IF r.copies - c = 0 THEN NoProbe
                                          ELSE [r EXCEPT !.copies = r.copies - c]
      BY <2>3 DEF Without
    <3>4. u = [Without(b, Addr \ gone)[a] EXCEPT !.reported = x] /\ x \in BOOLEAN
      BY <1>2, <2>3
    <3>5. ~Considered(a) /\ Decided(a)
      BY <1>1, <2>3, DecidedNotWaiting DEF Quiet, Considered, Decided, Aliased
    <3>6. Fits(r, n, s, q, d) /\ r \in ProbeType /\ n \in Nat /\ s \in Nat /\ u \in ProbeType
          /\ (x <=> r.copies > c)
      BY <2>1
    <3> HIDE DEF r, u, c, n, m, s, q, d, x
    <3>7. u.copies = r.copies - c /\ u.reported = x /\ (r.copies = c => u = NoProbe)
      <4>1. CASE r.copies = c
        <5>1. r.copies - c = 0 /\ x = FALSE /\ r.copies \in Nat
          BY <3>4, <3>6, <4>1 DEF ProbeType
        <5>2. u = [NoProbe EXCEPT !.reported = FALSE]
          BY <3>3, <3>4, <5>1
        <5>3. u = NoProbe
          BY <5>2 DEF NoProbe
        <5> QED
          BY <5>1, <5>3 DEF NoProbe
      <4>2. CASE r.copies # c
        <5>1. r.copies - c # 0
          <6>1. r.copies \in Nat
            BY <3>6 DEF ProbeType
          <6> QED
            BY <3>1, <4>2, <6>1
        <5>2. u = [[r EXCEPT !.copies = r.copies - c] EXCEPT !.reported = x]
          BY <3>3, <3>4, <5>1
        <5> QED
          BY <3>6, <4>2, <5>2 DEF ProbeType
      <4> QED
        BY <4>1, <4>2
    <3>8. Fits(u, m, s, FALSE, TRUE)
      BY <3>1, <3>2, <3>6, <3>7, FitsDrop
    <3>9. /\ Fits(probes'[a], Len(told'[a]), submitted[a], FALSE, TRUE)
          /\ probes'[a] \in ProbeType /\ Len(told'[a]) \in Nat
      BY <3>2, <3>6, <3>8 DEF u, m, s
    <3>10. (Considered(a)' <=> FALSE) /\ (TRUE => Decided(a)')
      BY <1>4, <2>1, <3>5
    <3> QED
      BY <2>1, <3>2, <3>9, <3>10, FitsLater
  <2> QED
    BY <2>2, <2>3
<1>6. told' \in [Addr -> Seq(Kinds)] /\ submitted' \in [Addr -> Nat]
  <2>1. told' = [a \in Addr |-> told'[a]]
    BY <1>2
  <2> QED
    BY <1>1, <1>5, <2>1, VerdictFacts
<1> QED
  BY <1>1, <1>5, <1>6 DEF VerdictIInv

\* The targets of an expired batch whose last copies are gone have a verdict.
LEMMA VerdictExpire ==
  ASSUME SessionTypes, WaitersIInv, CopiesIInv, VerdictIInv, [SessionNext]_vars,
         probes' \in [Addr -> ProbeType], ExpireTargets
  PROVE  VerdictIInv'
<1> DEFINE b    == Head(deadlines)
           last == {a \in Targets(b) : probes[a].copies = Copies(b, a)}
           Kind(a) == IF a \in aliases THEN "Skipped" ELSE "Inactive"
<1>1. b \in BatchType /\ Quiet /\ UNCHANGED <<resolving, waiting, submitted>>
  BY LoadExpire, WeightingsFacts DEF ExpireTargets
<1>2. /\ told' = [a \in Addr |-> IF a \in last /\ Unjudged(a)
                                 THEN Append(told[a], Kind(a)) ELSE told[a]]
      /\ probes' = Without(b, {})
  BY DEF ExpireTargets
<1>3. \A a \in Addr : Copies(b, a) <= probes[a].copies
  BY CopiesCounted
<1>k. \A a \in Addr : Kind(a) \in Kinds
  BY DEF Kinds
<1> HIDE DEF b, Kind
<1>4. \A c \in Addr : Considered(c)' <=> Considered(c)
  BY <1>1 DEF Considered
<1>5. ASSUME NEW a \in Addr
      PROVE  /\ told'[a] \in Seq(Kinds)
             /\ Fits(probes'[a], Len(told'[a]), submitted[a], Considered(a)', Decided(a)')
  <2>1. /\ probes[a] \in ProbeType /\ probes'[a] \in ProbeType
        /\ told[a] \in Seq(Kinds) /\ Len(told[a]) \in Nat /\ submitted[a] \in Nat
        /\ Fits(probes[a], Len(told[a]), submitted[a], Considered(a), Decided(a))
        /\ Decided(a) => Decided(a)'
    BY VerdictFacts DEF CopiesIInv
  <2> DEFINE r == probes[a]
             u == probes'[a]
             c == Copies(b, a)
             n == Len(told[a])
             m == Len(told'[a])
             s == submitted[a]
             q == Considered(a)
             d == Decided(a)
  <2>2. c \in Nat /\ c <= r.copies /\ r.copies \in Nat
    BY <1>1, <1>3, <2>1, IsTarget DEF ProbeType
  <2>3. a \in last <=> c > 0 /\ r.copies = c
    BY <1>1, <2>2, IsTarget
  <2>4. /\ told'[a] \in Seq(Kinds) /\ m \in Nat
        /\ m = IF c > 0 /\ r.copies = c /\ ~r.active /\ ~r.reported THEN n + 1 ELSE n
    <3>1. told'[a] = IF a \in last /\ Unjudged(a) THEN Append(told[a], Kind(a)) ELSE told[a]
      BY <1>2
    <3>2. Append(told[a], Kind(a)) \in Seq(Kinds) /\ Len(Append(told[a], Kind(a))) = n + 1
      BY <1>k, <2>1
    <3>3. Unjudged(a) <=> ~r.active /\ ~r.reported
      BY DEF Unjudged
    <3> QED
      BY <2>1, <2>3, <3>1, <3>2, <3>3
  <2>5. u = IF r.copies = c THEN NoProbe ELSE [r EXCEPT !.copies = r.copies - c]
    <3>1. u = IF r.copies - c = 0 THEN NoProbe ELSE [r EXCEPT !.copies = r.copies - c]
      BY <1>2 DEF Without
    <3> HIDE DEF r, c, u
    <3> QED
      BY <2>2, <3>1
  <2>6. d => ~q
    BY <1>1, DecidedNotWaiting DEF Quiet, Considered
  <2>7. Fits(u, m, s, q, d)
    <3>1. Fits(r, n, s, q, d) /\ r \in ProbeType /\ n \in Nat /\ s \in Nat
      BY <2>1
    <3> HIDE DEF r, u, c, n, m, s, q, d
    <3> QED
      BY <2>2, <2>4, <2>5, <2>6, <3>1, FitsExpire
  <2>8. Fits(probes'[a], Len(told'[a]), submitted[a], Considered(a), Decided(a))
    BY <2>7
  <2>9. probes'[a] \in ProbeType /\ Len(told'[a]) \in Nat
    BY <2>1, <2>4
  <2> HIDE DEF r, u, c, n, m, s, q, d
  <2> QED
    BY <1>4, <2>1, <2>4, <2>8, <2>9, FitsLater
<1>6. told' \in [Addr -> Seq(Kinds)] /\ submitted' \in [Addr -> Nat]
  <2>1. told' = [a \in Addr |-> told'[a]]
    BY <1>2
  <2> QED
    BY <1>1, <1>5, <2>1, VerdictFacts
<1> QED
  BY <1>1, <1>5, <1>6 DEF VerdictIInv

\* No step gives a verdict too many, or forgets one.
LEMMA VerdictStep ==
  ASSUME SessionTypes, WaitersIInv, IdleIInv, CopiesIInv, VerdictIInv, [SessionNext]_vars,
         probes' \in [Addr -> ProbeType]
  PROVE  VerdictIInv'
<1>p. probes \in [Addr -> ProbeType]
  BY DEF CopiesIInv
<1>same. ASSUME UNCHANGED <<probes, told, submitted, resolving, waiting>> PROVE VerdictIInv'
  <2>1. \A c \in Addr : Considered(c)' <=> Considered(c)
    BY <1>same DEF Considered
  <2> QED
    BY <1>p, <1>same, <2>1, VerdictSame
<1>1. CASE PumpTest \/ PumpTested \/ PumpDone
  BY <1>1, <1>same DEF PumpTest, PumpTested, PumpDone, hvars
<1>2. CASE PumpBatch
  BY <1>2, VerdictDrop
<1>3. CASE RecvReply \/ DrainReply
  <2>1. Head(results) \in ReplyType
    BY <1>3, HeadTail DEF RecvReply, DrainReply, SessionTypes, SessionTypeOK, ChannelsOK
  <2>2. resolving = {}
    BY <1>3 DEF RecvReply, DrainReply, IdleIInv, Quiet
  <2>3. HandleReply(Head(results)) /\ UNCHANGED <<waiting, told, submitted>>
    BY <1>3 DEF RecvReply, DrainReply
  <2> QED
    BY <1>p, <2>1, <2>2, <2>3, VerdictReply
<1>4. CASE RecvAck \/ Deadline \/ RetryOutbox \/ EngineLost \/ DrainEnd \/ Return
  BY <1>4, <1>same DEF RecvAck, Deadline, RetryOutbox, EngineLost, DrainEnd, Return, hvars
<1>5. CASE ConsiderNext
  BY <1>p, <1>5, VerdictConsidered
<1>6. CASE PublishAliases \/ ExpireTest
  BY <1>p, <1>6, VerdictResolve
<1>7. CASE ExpireTargets
  BY <1>7, VerdictExpire
<1>8. CASE Plan \/ Decline \/ CallNext \/ FinishSession
  BY <1>8, <1>same DEF Plan, Decline, CallNext, FinishSession, hvars
<1>9. CASE \E b \in Batches : Submit(b)
  BY <1>p, <1>9, VerdictSubmit
<1>10. CASE \E a \in Asked : Ask(a)
  BY <1>p, <1>10, VerdictAsk
<1>11. CASE Engine
  BY <1>11, <1>same DEF Engine, SendBatch, Acknowledge, Deliver, EngineFails, svars, hvars
<1>12. CASE Ended \/ UNCHANGED vars
  BY <1>12, <1>same DEF Ended, vars, svars, hvars
<1> QED
  BY <1>1, <1>2, <1>3, <1>4, <1>5, <1>6, <1>7, <1>8, <1>9, <1>10, <1>11, <1>12
     DEF SessionNext, Pump, Event, Handle, Caller

\* No target has a verdict, or is owed one, at first.
LEMMA VerdictInit == SessionInit => IdleIInv /\ VerdictIInv
<1> SUFFICES ASSUME SessionInit PROVE IdleIInv /\ VerdictIInv
  OBVIOUS
<1>1. IdleIInv
  BY DEF SessionInit, DetectorInit, IdleIInv
<1>2. \A a \in Addr : probes[a] = NoProbe /\ told[a] = <<>> /\ submitted[a] = 0 /\ ~Considered(a)
  BY DEF SessionInit, Considered
<1>3. told \in [Addr -> Seq(Kinds)] /\ submitted \in [Addr -> Nat]
  BY DEF SessionInit
<1>4. Len(<<>>) = 0
  OBVIOUS
<1>5. \A d, q : ~q => Fits(NoProbe, 0, 0, q, d)
  BY DEF Fits, Owed, NoProbe
<1> QED
  BY <1>1, <1>2, <1>3, <1>4, <1>5 DEF VerdictIInv

\* What a session owes a target is bounded by what was asked of it, and never
\* forgotten.
THEOREM SessionVerdicts == SessionSpec => [](IdleIInv /\ VerdictIInv)
<1>1. /\ SessionTypes /\ WaitersIInv /\ CountsIInv /\ CountsIInv' /\ IdleIInv /\ VerdictIInv
      /\ [SessionNext]_vars
      => (IdleIInv /\ VerdictIInv)'
  BY IdleStep, VerdictStep, AccountsFacts DEF CountsIInv, AccountsIInv, SessionTypes
<1> QED
  BY <1>1, VerdictInit, SessionTypesInvariant, SessionWaiters, SessionCounts, PTL DEF SessionSpec

\* The model gets at most one verdict per submission of a target.
THEOREM SessionOneVerdict == SessionSpec => []OneVerdict
<1>1. VerdictIInv => OneVerdict
  <2> SUFFICES ASSUME VerdictIInv, NEW a \in Addr PROVE Len(told[a]) <= submitted[a]
    BY DEF OneVerdict
  <2>1. /\ Fits(probes[a], Len(told[a]), submitted[a], Considered(a), Decided(a))
        /\ Len(told[a]) \in Nat /\ submitted[a] \in Nat
    BY DEF VerdictIInv
  <2> DEFINE n == Len(told[a])
             o == Owed(probes[a], Considered(a))
  <2>2. n + o <= submitted[a] /\ n \in Nat
    BY <2>1 DEF Fits
  <2>3. o \in Nat
    BY DEF Owed
  <2> HIDE DEF n, o
  <2>4. n <= submitted[a]
    BY <2>1, <2>2, <2>3
  <2> QED
    BY <2>4 DEF n
<1> QED
  BY <1>1, SessionVerdicts, PTL

-----------------------------------------------------------------------------
(* A session that is settled owes nothing.                                  *)

\* With no probe on the wire, no batch weighs anything by a measure that its
\* size bounds.
LEMMA NothingKept ==
  ASSUME SessionTypeOK, NEW lost \in Seq(BatchType), Kept(lost, SizeOf) = 0,
         NEW f \in Weightings, \A b \in BatchType : f[b] <= SizeOf[b]
  PROVE  Kept(lost, f) = 0
<1>1. /\ outbox \in Seq(BatchType) /\ txq \in Seq(BatchType) /\ ackq \in Seq(BatchType)
      /\ deadlines \in Seq(BatchType) /\ Held \in Seq(BatchType)
      /\ f \in [BatchType -> Nat] /\ SizeOf \in [BatchType -> Nat] /\ SizeOf \in Weightings
  BY HeldType, WeightingsFacts DEF SessionTypeOK, ChannelsOK, Weightings
<1>2. \A s \in Seq(BatchType) :
        /\ Weigh(s, f) \in Nat /\ Weigh(s, SizeOf) \in Nat
        /\ Weigh(s, f) <= Weigh(s, SizeOf)
  BY <1>1, WeightsType, WeighMonotone
<1> DEFINE a1 == Weigh(outbox, f)
           a2 == Weigh(txq, f)
           a3 == Weigh(ackq, f)
           a4 == Weigh(deadlines, f)
           a5 == Weigh(Held, f)
           a6 == Weigh(lost, f)
           b1 == Weigh(outbox, SizeOf)
           b2 == Weigh(txq, SizeOf)
           b3 == Weigh(ackq, SizeOf)
           b4 == Weigh(deadlines, SizeOf)
           b5 == Weigh(Held, SizeOf)
           b6 == Weigh(lost, SizeOf)
<1>3. /\ a1 \in Nat /\ a2 \in Nat /\ a3 \in Nat /\ a4 \in Nat /\ a5 \in Nat /\ a6 \in Nat
      /\ b1 \in Nat /\ b2 \in Nat /\ b3 \in Nat /\ b4 \in Nat /\ b5 \in Nat /\ b6 \in Nat
      /\ a1 <= b1 /\ a2 <= b2 /\ a3 <= b3 /\ a4 <= b4 /\ a5 <= b5 /\ a6 <= b6
  BY <1>1, <1>2
<1>4. Kept(lost, f) = (a1 + a2 + a3 + a4 + a5) + a6 /\ Kept(lost, SizeOf) = (b1 + b2 + b3 + b4 + b5) + b6
  BY DEF Kept, Load
<1> HIDE DEF a1, a2, a3, a4, a5, a6, b1, b2, b3, b4, b5, b6
<1>5. (b1 + b2 + b3 + b4 + b5) + b6 = 0
  BY <1>4
<1>6. (a1 + a2 + a3 + a4 + a5) + a6 = 0
  BY <1>3, <1>5
<1> QED
  BY <1>4, <1>6

\* The copies and the test of a batch are bounded by its size.
LEMMA BoundedBySize ==
  /\ \A a : \A b \in BatchType : CopiesOf(a)[b] <= SizeOf[b]
  /\ \A p \in Prefix : \A b \in BatchType : TestOf(p)[b] <= SizeOf[b]
<1>1. ASSUME NEW a, NEW b \in BatchType PROVE CopiesOf(a)[b] <= SizeOf[b]
  <2> DEFINE c == Copies(b, a)
             l == Len(b.targets)
             k == Size(b)
  <2>1. b.targets \in Seq(Addr) /\ l \in Nat /\ k \in Nat /\ l <= k /\ c \in Nat
    BY BatchFacts
  <2>2. c <= l
    BY <2>1, OccurrencesBound DEF Copies
  <2> HIDE DEF c, l, k
  <2>3. c <= k
    BY <2>1, <2>2
  <2>4. c <= k => Copies(b, a) <= Size(b)
    BY DEF c, k
  <2> QED
    BY <2>3, <2>4 DEF CopiesOf, SizeOf
<1>2. ASSUME NEW p \in Prefix, NEW b \in BatchType PROVE TestOf(p)[b] <= SizeOf[b]
  <2>1. Size(b) \in Nat
    BY BatchFacts
  <2>2. b.test = p => b.purpose = "Alias"
    BY PrefixNotNone DEF BatchType
  <2>3. b.purpose = "Alias" => Size(b) = 3
    BY DEF Size
  <2> QED
    BY <2>1, <2>2, <2>3 DEF TestOf, SizeOf
<1> QED
  BY <1>1, <1>2

\* When the session calls itself settled, every target has had its verdict, no
\* test is open, no target is pending, and every probe was acknowledged.
THEOREM SessionSettled == SessionSpec => []SettledIsComplete
<1>1. ASSUME SessionTypes, WaitersIInv, CountsIInv, IdleIInv, VerdictIInv
      PROVE  SettledIsComplete
  <2> SUFFICES ASSUME Quiet, Settled
               PROVE  /\ \A a \in Addr : submitted[a] > 0 => told[a] # <<>>
                      /\ pending = {} /\ tests = {} /\ waitingCount = 0
                      /\ \A a \in Addr : probes[a] = NoProbe
                      /\ up => statsSent = sent + aliasSent
    BY DEF SettledIsComplete
  <2>1. PICK lost \in Seq(BatchType) : Accounts(lost) /\ (up => lost = <<>>)
    BY <1>1 DEF CountsIInv, AccountsIInv
  <2>2. SessionTypeOK /\ wire = 0 /\ Kept(lost, SizeOf) = 0 /\ \A p \in Prefix : waiting[p] = {}
    BY <1>1, <2>1 DEF Settled, SessionTypes, Accounts
  <2>3. \A a \in Addr : probes[a].copies = 0
    BY <2>1, <2>2, NothingKept, BoundedBySize, WeightingsFacts DEF Accounts
  <2>4. samples = {}
    <3>1. \A p \in Prefix : (IF p \in samples THEN 1 ELSE 0) = 0
      BY <2>1, <2>2, NothingKept, BoundedBySize, WeightingsFacts DEF Accounts
    <3>2. samples \subseteq Prefix
      BY <1>1 DEF SessionTypes, DetectorIInv, DetectorTypeOK
    <3> QED
      BY <3>1, <3>2
  <2>5. pending = {}
    BY <1>1, <2>2, <2>4 DEF IdleIInv, SessionTypes, DetectorIInv, DetectorTypeOK
  <2>6. tests = {} /\ waitingCount = 0
    <3>1. Waiters = {}
      BY <2>2 DEF Waiters
    <3> QED
      BY <1>1, <2>4, <3>1, FS_EmptySet DEF WaitersIInv
  <2>7. ASSUME NEW a \in Addr
        PROVE  (submitted[a] > 0 => told[a] # <<>>) /\ probes[a] = NoProbe
    <3>1. Fits(probes[a], Len(told[a]), submitted[a], Considered(a), Decided(a)) /\ ~Considered(a)
      BY <1>1, <2>2 DEF VerdictIInv, Considered, Quiet
    <3>2. Len(<<>>) = 0
      OBVIOUS
    <3> QED
      BY <2>3, <3>1, <3>2 DEF Fits
  <2>8. ASSUME up PROVE statsSent = sent + aliasSent
    <3> DEFINE A == Weigh(ackq, SizeOf)
               H == Weigh(Held, SizeOf)
               O == Weigh(outbox, SizeOf)
               T == Weigh(txq, SizeOf)
               D == Weigh(deadlines, SizeOf)
    <3>1. /\ A \in Nat /\ H \in Nat /\ O \in Nat /\ T \in Nat /\ D \in Nat
          /\ sent \in Nat /\ aliasSent \in Nat /\ statsSent = sent + aliasSent + A + H
      BY <1>1, <2>2, <2>8, LoadParts, WeightingsFacts DEF CountsIInv, AcksIInv
    <3>2. O + T + A + D + H = 0
      <4>1. Load(SizeOf) = O + T + A + D + H
        BY DEF Load
      <4>2. Kept(lost, SizeOf) = Load(SizeOf) + Weigh(lost, SizeOf)
        BY DEF Kept
      <4>3. Load(SizeOf) \in Nat /\ Weigh(lost, SizeOf) \in Nat
        BY <2>2, KeptType, WeightingsFacts
      <4>4. Load(SizeOf) = 0
        BY <2>2, <4>2, <4>3
      <4> QED
        BY <4>1, <4>4
    <3> HIDE DEF A, H, O, T, D
    <3>3. A = 0 /\ H = 0
      BY <3>1, <3>2
    <3> QED
      BY <3>1, <3>3
  <2> QED
    BY <2>5, <2>6, <2>7, <2>8
<1> QED
  BY <1>1, SessionTypesInvariant, SessionWaiters, SessionCounts, SessionVerdicts, PTL

-----------------------------------------------------------------------------
(* Replies that are there at the deadline.                                  *)

\* A target that cannot be declared inactive: gone, or found active.
Safe(a) == probes[a].copies = 0 \/ probes[a].active
DirectReply(a) == \E i \in DOMAIN results : /\ results[i].purpose = "Discovery"
                                            /\ results[i].direct
                                            /\ results[i].target = a

\* A target with a reply at the deadline keeps it until it is handled; once the
\* session expires batches, all these replies are.
DueIInv ==
  /\ due \subseteq Addr
  /\ pc = "timeout" => \A a \in due : Safe(a) \/ DirectReply(a)
  /\ pc = "expire" => \A a \in due : Safe(a)

\* report() makes no target less safe.
LEMMA SafeReport ==
  ASSUME probes \in [Addr -> ProbeType], NEW a \in Addr, NEW kind, Report(a, kind),
         NEW c \in Addr, Safe(c)
  PROVE  Safe(c)'
<1>1. ASSUME NEW x \in BOOLEAN, probes' = [probes EXCEPT ![a].reported = x]
      PROVE  probes'[c].copies = probes[c].copies /\ probes'[c].active = probes[c].active
  BY <1>1 DEF ProbeType
<1>2. (probes[a].copies > 0) \in BOOLEAN
  OBVIOUS
<1> QED
  BY <1>1, <1>2 DEF Report, Safe

\* A reply makes no target less safe, and a direct one its target safe.
LEMMA SafeReply ==
  ASSUME probes \in [Addr -> ProbeType], NEW reply \in ReplyType, HandleReply(reply),
         NEW c \in Addr,
         Safe(c) \/ (reply.purpose = "Discovery" /\ reply.direct /\ reply.target = c)
  PROVE  Safe(c)'
<1>1. CASE reply.purpose = "Alias" \/ probes[reply.target].copies = 0
  BY <1>1 DEF Safe, HandleReply, ReplyType
<1>2. CASE ~(reply.purpose = "Alias" \/ probes[reply.target].copies = 0)
  <2> DEFINE a == reply.target
             found == reply.direct /\ ~probes[a].active
             x == probes[a].active \/ found
  <2>1. reply.purpose # "Alias" /\ a \in Addr
    BY <1>2 DEF HandleReply, ReplyType
  <2>2. probes' = [probes EXCEPT ![a].responded = TRUE, ![a].active = @ \/ found]
    BY <1>2, <2>1 DEF HandleReply
  <2>3. x \in BOOLEAN /\ (reply.direct => x) /\ (probes[a].active => x)
    OBVIOUS
  <2>4. probes'[a] = [probes[a] EXCEPT !.responded = TRUE, !.active = x]
    BY <2>1, <2>2
  <2>5. probes[a] \in ProbeType
    BY <2>1
  <2> HIDE DEF a, found, x
  <2>6. probes'[a].copies = probes[a].copies /\ probes'[a].active = x
    BY <2>3, <2>4, <2>5 DEF ProbeType
  <2>7. c # a => probes'[c] = probes[c]
    BY <2>1, <2>2
  <2>8. CASE c = a
    <3>1. Safe(c) \/ reply.direct
      BY DEF Safe
    <3> QED
      BY <2>3, <2>6, <2>8, <3>1 DEF Safe
  <2>9. CASE c # a
    <3>1. Safe(c)
      BY <2>9 DEF a
    <3> QED
      BY <2>7, <2>9, <3>1 DEF Safe
  <2> QED
    BY <2>8, <2>9
<1> QED
  BY <1>1, <1>2

\* The expiry of a batch leaves the targets safe that are.
LEMMA SafeExpire ==
  ASSUME SessionTypes, CopiesIInv, ExpireTargets, NEW c \in Addr, Safe(c)
  PROVE  /\ Safe(c)'
         /\ told'[c] = told[c]
<1> DEFINE b    == Head(deadlines)
           last == {a \in Targets(b) : probes[a].copies = Copies(b, a)}
           n    == Copies(b, c)
           r    == probes[c]
<1>1. /\ told' = [a \in Addr |-> IF a \in last /\ Unjudged(a)
                                 THEN Append(told[a], IF a \in aliases THEN "Skipped" ELSE "Inactive")
                                 ELSE told[a]]
      /\ probes' = Without(b, {})
  BY DEF ExpireTargets
<1>2. /\ b \in BatchType /\ n \in Nat /\ (c \in Targets(b) <=> n # 0)
      /\ n <= r.copies /\ r.copies \in Nat /\ r \in ProbeType
  BY LoadExpire, WeightingsFacts, IsTarget, CopiesCounted DEF CopiesIInv, ProbeType
<1>3. ~(c \in last /\ Unjudged(c))
  BY <1>2 DEF Safe, Unjudged
<1>4. told'[c] = told[c]
  BY <1>1, <1>3
<1>5. probes'[c] = IF r.copies - n = 0 THEN NoProbe ELSE [r EXCEPT !.copies = r.copies - n]
  BY <1>1 DEF Without
<1>6. Safe(c) <=> r.copies = 0 \/ r.active
  BY DEF Safe
<1> HIDE DEF b, last, n, r
<1>7. probes'[c].copies = 0 \/ probes'[c].active
  <2>1. CASE r.copies - n = 0
    BY <1>5, <2>1 DEF NoProbe
  <2>2. CASE r.copies - n # 0
    <3>1. r.copies # 0
      BY <1>2, <2>2
    <3>2. probes'[c].active = r.active
      BY <1>2, <1>5, <2>2 DEF ProbeType
    <3> QED
      BY <1>6, <3>1, <3>2
  <2> QED
    BY <2>1, <2>2
<1> QED
  BY <1>4, <1>7 DEF Safe

\* Every step keeps the replies that were there at the deadline, or handles them.
LEMMA DueStep ==
  ASSUME SessionTypes, CopiesIInv, DueIInv, [SessionNext]_vars
  PROVE  DueIInv'
<1>p. probes \in [Addr -> ProbeType]
  BY DEF CopiesIInv
<1>away. ASSUME due' = due, pc' \notin {"timeout", "expire"} PROVE DueIInv'
  BY <1>away DEF DueIInv
<1>same. ASSUME UNCHANGED <<due, probes, results, pc>> PROVE DueIInv'
  BY <1>same DEF DueIInv, Safe, DirectReply
<1>1. CASE Pump
  BY <1>1, <1>away DEF Pump, PumpTest, PumpTested, PumpBatch, PumpDone, hvars
<1>2. CASE RecvReply \/ RecvAck \/ RetryOutbox \/ EngineLost \/ Return
  BY <1>2, <1>away DEF RecvReply, RecvAck, RetryOutbox, EngineLost, Return, hvars
<1>3. CASE Deadline
  <2>1. /\ pc' = "timeout" /\ UNCHANGED results
        /\ due' = {results[i].target : i \in
             {j \in DOMAIN results : results[j].purpose = "Discovery" /\ results[j].direct}}
    BY <1>3 DEF Deadline, evars
  <2>2. \A i \in DOMAIN results : results[i] \in ReplyType
    BY DEF SessionTypes, SessionTypeOK, ChannelsOK
  <2>3. due' \subseteq Addr
    BY <2>1, <2>2 DEF ReplyType
  <2>4. \A a \in due' : DirectReply(a)'
    BY <2>1 DEF DirectReply
  <2> QED
    BY <2>1, <2>3, <2>4 DEF DueIInv
<1>4. CASE ConsiderNext
  <2>1. PICK a \in resolving : Verdict(a)
    BY <1>4 DEF ConsiderNext
  <2>2. a \in Addr /\ UNCHANGED <<due, results, pc>>
    BY <1>4, <2>1 DEF ConsiderNext, evars, SessionTypes, SessionTypeOK
  <2>3. probes' = probes \/ \E kind : Report(a, kind)
    BY <2>1 DEF Verdict
  <2>4. \A c \in Addr : Safe(c) => Safe(c)'
    <3>1. CASE probes' = probes
      BY <3>1 DEF Safe
    <3>2. CASE \E kind : Report(a, kind)
      BY <1>p, <2>2, <3>2, SafeReport
    <3> QED
      BY <2>3, <3>1, <3>2
  <2> QED
    BY <2>2, <2>4 DEF DueIInv, DirectReply
<1>5. CASE DrainReply
  <2> DEFINE reply == Head(results)
  <2>1. /\ reply \in ReplyType /\ HandleReply(reply) /\ UNCHANGED <<pc, due>> /\ pc # "expire"
        /\ results' = Tail(results) /\ results # <<>> /\ results \in Seq(ReplyType)
    BY <1>5, HeadTail DEF DrainReply, SessionTypes, SessionTypeOK, ChannelsOK
  <2>2. ASSUME NEW c \in due, pc = "timeout" PROVE Safe(c)' \/ DirectReply(c)'
    <3>1. c \in Addr /\ (Safe(c) \/ DirectReply(c))
      BY <2>2 DEF DueIInv
    <3>2. CASE Safe(c)
      BY <1>p, <2>1, <3>1, <3>2, SafeReply
    <3>3. CASE DirectReply(c)
      <4>1. PICK i \in DOMAIN results : /\ results[i].purpose = "Discovery"
                                        /\ results[i].direct
                                        /\ results[i].target = c
        BY <3>3 DEF DirectReply
      <4>2. CASE i = 1
        <5>1. reply.purpose = "Discovery" /\ reply.direct /\ reply.target = c
          BY <4>1, <4>2
        <5> QED
          BY <1>p, <2>1, <3>1, <5>1, SafeReply
      <4>3. CASE i # 1
        <5>1. i - 1 \in DOMAIN results' /\ results'[i - 1] = results[i]
          BY <2>1, <4>3
        <5> QED
          BY <4>1, <5>1 DEF DirectReply
      <4> QED
        BY <4>2, <4>3
    <3> QED
      BY <3>1, <3>2, <3>3
  <2> QED
    BY <2>1, <2>2 DEF DueIInv
<1>6. CASE DrainEnd
  <2>1. UNCHANGED <<due, probes, results>> /\ (pc' = "expire" => pc = "timeout" /\ Emptied) /\ pc' # "timeout"
    BY <1>6 DEF DrainEnd, hvars, evars
  <2>2. Emptied => \A a : ~DirectReply(a)
    BY DEF Emptied, DirectReply
  <2> QED
    BY <2>1, <2>2 DEF DueIInv, Safe
<1>7. CASE PublishAliases
  BY <1>7, <1>same DEF PublishAliases, evars
<1>8. CASE ExpireTest
  <2>1. UNCHANGED <<due, probes>> /\ pc = "expire" /\ pc' \in {"return", "expire"}
    BY <1>8 DEF ExpireTest, ExpireNext, hvars
  <2> QED
    BY <2>1 DEF DueIInv, Safe
<1>9. CASE ExpireTargets
  <2>1. due' = due /\ pc = "expire" /\ pc' \in {"return", "expire"}
    BY <1>9 DEF ExpireTargets, ExpireNext
  <2>2. \A c \in due : Safe(c)'
    BY <1>9, <2>1, SafeExpire DEF DueIInv
  <2> QED
    BY <2>1, <2>2 DEF DueIInv
<1>10. CASE Caller
  BY <1>10, <1>away DEF Caller, Plan, Decline, Submit, Ask, CallNext, FinishSession, hvars
<1>11. CASE Engine
  <2>1. UNCHANGED <<due, probes, pc>>
    BY <1>11 DEF Engine, SendBatch, Acknowledge, Deliver, EngineFails, svars, hvars
  <2>2. results' = results \/ \E reply : results' = Append(results, reply)
    BY <1>11 DEF Engine, SendBatch, Acknowledge, Deliver, EngineFails
  <2>3. results \in Seq(ReplyType)
    BY DEF SessionTypes, SessionTypeOK, ChannelsOK
  <2>4. \A i \in DOMAIN results : i \in DOMAIN results' /\ results'[i] = results[i]
    BY <2>2, <2>3
  <2>5. \A a : DirectReply(a) => DirectReply(a)'
    BY <2>4 DEF DirectReply
  <2> QED
    BY <2>1, <2>5 DEF DueIInv, Safe
<1>12. CASE Ended \/ UNCHANGED vars
  BY <1>12, <1>same DEF Ended, vars, svars, hvars, evars
<1> QED
  BY <1>1, <1>2, <1>3, <1>4, <1>5, <1>6, <1>7, <1>8, <1>9, <1>10, <1>11, <1>12
     DEF SessionNext, Event, Handle

\* Nothing else declares a target inactive.
LEMMA InactiveByExpiry ==
  ASSUME SessionTypes, VerdictIInv, [SessionNext]_vars, NEW a \in Addr,
         told'[a] = Append(told[a], "Inactive")
  PROVE  ExpireTargets
<1>1. told \in [Addr -> Seq(Kinds)] /\ told[a] \in Seq(Kinds)
  BY DEF VerdictIInv
<1>2. \A kind : Append(told[a], kind) = Append(told[a], "Inactive") => kind = "Inactive"
  BY <1>1
<1>3. told'[a] # told[a]
  BY <1>1
<1>4. CASE ConsiderNext
  <2>1. PICK b \in resolving : Verdict(b)
    BY <1>4 DEF ConsiderNext
  <2>2. told' = told \/ \E kind \in {"Skipped", "Active"} :
                          told' = [told EXCEPT ![b] = Append(told[b], kind)]
    BY <2>1 DEF Verdict, Report
  <2>3. \E kind \in {"Skipped", "Active"} : told'[a] = Append(told[a], kind)
    BY <1>1, <1>3, <2>2
  <2> QED
    BY <1>2, <2>3
<1>5. CASE PumpBatch
  <2>1. told'[a] = Append(told[a], "Skipped")
    BY <1>3, <1>5 DEF PumpBatch
  <2> QED
    BY <1>2, <2>1
<1>6. CASE \E b \in Batches : Submit(b)
  <2>1. PICK b \in Batches : Submit(b)
    BY <1>6
  <2> DEFINE n == Copies(Discovery(b), a)
             more == [i \in 1..n |-> "Skipped"]
  <2>2. told'[a] = told[a] \o more
    BY <1>3, <2>1 DEF Submit
  <2>3. n \in Nat
    BY <2>1, OccurrencesType, SessionAssumption DEF Copies, Discovery
  <2> HIDE DEF n
  <2>4. more \in Seq({"Skipped"}) /\ Len(more) = n
    BY <2>3
  <2> HIDE DEF more
  <2>5. \A s \in Seq(Kinds) : \A t \in Seq({"Skipped"}) : s \o t # Append(s, "Inactive")
    <3> SUFFICES ASSUME NEW s \in Seq(Kinds), NEW t \in Seq({"Skipped"}), s \o t = Append(s, "Inactive")
                 PROVE  FALSE
      OBVIOUS
    <3>1. Len(s \o t) = Len(s) + Len(t) /\ Len(Append(s, "Inactive")) = Len(s) + 1
          /\ Len(s) \in Nat /\ Len(t) \in Nat
      OBVIOUS
    <3>2. Len(t) = 1
      BY <3>1
    <3>3. t[1] = "Skipped"
      BY <3>2
    <3>4. (s \o t)[Len(s) + 1] = t[1]
      BY <3>2
    <3>5. Append(s, "Inactive")[Len(s) + 1] = "Inactive"
      OBVIOUS
    <3> QED
      BY <3>3, <3>4, <3>5
  <2> QED
    BY <1>1, <2>2, <2>4, <2>5
<1>7. CASE PumpTest \/ PumpTested \/ PumpDone \/ Event
  BY <1>3, <1>7 DEF PumpTest, PumpTested, PumpDone, Event, RecvReply, RecvAck, Deadline,
     RetryOutbox, EngineLost, hvars
<1>8. CASE PublishAliases \/ DrainReply \/ DrainEnd \/ ExpireTest \/ Return
  BY <1>3, <1>8 DEF PublishAliases, DrainReply, DrainEnd, ExpireTest, Return, hvars
<1>9. CASE Plan \/ Decline \/ (\E b \in Asked : Ask(b)) \/ CallNext \/ FinishSession
  BY <1>3, <1>9 DEF Plan, Decline, Ask, CallNext, FinishSession, hvars
<1>10. CASE Engine \/ Ended \/ UNCHANGED vars
  BY <1>3, <1>10 DEF Engine, SendBatch, Acknowledge, Deliver, EngineFails, Ended, vars, hvars
<1> QED
  BY <1>4, <1>5, <1>6, <1>7, <1>8, <1>9, <1>10 DEF SessionNext, Pump, Handle, Caller

\* A target is not declared inactive when its reply was there at the deadline.
THEOREM SessionRepliesBeatDeadlines == SessionSpec => RepliesBeatDeadlines
<1>1. SessionInit => DueIInv
  BY DEF SessionInit, DueIInv
<1>2. SessionTypes /\ CountsIInv /\ DueIInv /\ [SessionNext]_vars => DueIInv'
  BY DueStep, AccountsFacts DEF CountsIInv, SessionTypes
<1>3. ASSUME SessionTypes, CountsIInv, VerdictIInv, DueIInv, [SessionNext]_vars
      PROVE  [\A a \in due : told'[a] # Append(told[a], "Inactive")]_vars
  <2> SUFFICES ASSUME NEW a \in due, told'[a] = Append(told[a], "Inactive") PROVE FALSE
    OBVIOUS
  <2>1. a \in Addr /\ ExpireTargets
    BY <1>3, InactiveByExpiry DEF DueIInv
  <2>2. Safe(a)
    BY <1>3, <2>1 DEF ExpireTargets, DueIInv
  <2>3. CopiesIInv
    BY <1>3, AccountsFacts DEF CountsIInv, SessionTypes
  <2>4. told'[a] = told[a]
    BY <1>3, <2>1, <2>2, <2>3, SafeExpire
  <2>5. told[a] \in Seq(Kinds)
    BY <1>3, <2>1 DEF VerdictIInv
  <2>6. \A s \in Seq(Kinds) : s # Append(s, "Inactive")
    OBVIOUS
  <2> QED
    BY <2>4, <2>5, <2>6
<1> QED
  BY <1>1, <1>2, <1>3, SessionTypesInvariant, SessionCounts, SessionVerdicts, PTL
     DEF SessionSpec, RepliesBeatDeadlines

-----------------------------------------------------------------------------
(* What the model sees.                                                     *)

\* The verdict that the feedback t on a target submitted s times amounts to.
VerdictFrom(t, s) ==
  IF Len(t) = 0 THEN IF s > 0 THEN "asked" ELSE "none"
  ELSE IF Len(t) = 1 THEN t[1] ELSE "contradicted"

\* With at most one submission no feedback contradicts itself.
LEMMA VerdictFromFacts ==
  ASSUME NEW t \in Seq(Kinds), NEW s \in Nat, Len(t) <= s, s <= 1
  PROVE  /\ VerdictFrom(t, s) \in {"none", "asked"} \cup Kinds
         /\ s = 0 => VerdictFrom(t, s) = "none"
         /\ VerdictFrom(t, s) \in Kinds <=> t # <<>>
         /\ t # <<>> => s = 1 /\ Len(t) = 1 /\ VerdictFrom(t, s) = t[1]
         /\ t = <<>> => VerdictFrom(t, s) = IF s > 0 THEN "asked" ELSE "none"
<1>1. Len(t) \in Nat
  OBVIOUS
<1>2. CASE Len(t) = 0
  <2>1. t = <<>>
    BY <1>2
  <2>2. VerdictFrom(t, s) = IF s > 0 THEN "asked" ELSE "none"
    BY <1>2 DEF VerdictFrom
  <2> QED
    BY <2>1, <2>2 DEF Kinds
<1>3. CASE Len(t) = 1
  <2>1. t # <<>> /\ s = 1 /\ t[1] \in Kinds
    BY <1>3
  <2>2. VerdictFrom(t, s) = t[1]
    BY <1>3 DEF VerdictFrom
  <2> QED
    BY <1>3, <2>1, <2>2
<1> QED
  BY <1>1, <1>2, <1>3

Announced == InitAliases \cup UNION {Members(p) : p \in announced}

\* A caller keeps to MaxSubmit; the aliases known are those announced and those
\* about to be; and a target told active has been cleared for good.
PromiseIInv ==
  /\ \A a \in Addr : submitted[a] <= MaxSubmit
  /\ aliases = Announced \cup UNION {Members(p) : p \in discovered}
  /\ \A a \in Addr : \A i \in DOMAIN told[a] : told[a][i] = "Active" => NotDetected(a)

\* How a step that gives verdicts changes the feedback.
Gives(a, kind) ==
  /\ told'[a] = Append(told[a], kind)
  /\ kind \in Kinds
  /\ kind = "Skipped" <=> a \in aliases
  /\ kind = "Active" => NotDetected(a)

\* The steps of a session, as far as the feedback shows them.
LEMMA FeedbackSteps ==
  ASSUME SessionTypes, IdleIInv, VerdictIInv, [SessionNext]_vars
  PROVE  \/ UNCHANGED <<told, submitted, announced>>
         \/ /\ discovered = {} /\ UNCHANGED <<submitted, announced, dvars>>
            /\ \A a \in Addr : told'[a] = told[a] \/ \E kind : Gives(a, kind)
         \/ PublishAliases
         \/ ConsiderNext
         \/ \E b \in Batches : Submit(b)
         \/ \E a \in Asked : Ask(a)
<1>1. CASE PumpBatch
  <2>1. discovered = {} /\ UNCHANGED <<submitted, announced, dvars>>
    BY <1>1 DEF PumpBatch, IdleIInv, Quiet
  <2>2. ASSUME NEW a \in Addr PROVE told'[a] = told[a] \/ Gives(a, "Skipped")
    BY <1>1 DEF PumpBatch, Gives, Kinds
  <2> QED
    BY <2>1, <2>2
<1>2. CASE ExpireTargets
  <2>1. discovered = {} /\ UNCHANGED <<submitted, announced, dvars>>
    BY <1>2 DEF ExpireTargets, Quiet
  <2>2. ASSUME NEW a \in Addr
        PROVE  told'[a] = told[a] \/ Gives(a, IF a \in aliases THEN "Skipped" ELSE "Inactive")
    BY <1>2 DEF ExpireTargets, Gives, Kinds
  <2> QED
    BY <2>1, <2>2
<1>3. CASE PumpTest \/ PumpTested \/ PumpDone \/ Event
  BY <1>3 DEF PumpTest, PumpTested, PumpDone, Event, RecvReply, RecvAck, Deadline,
     RetryOutbox, EngineLost, hvars
<1>4. CASE DrainReply \/ DrainEnd \/ ExpireTest \/ Return
  BY <1>4 DEF DrainReply, DrainEnd, ExpireTest, Return, hvars
<1>5. CASE Plan \/ Decline \/ CallNext \/ FinishSession
  BY <1>5 DEF Plan, Decline, CallNext, FinishSession, hvars
<1>6. CASE Engine \/ Ended \/ UNCHANGED vars
  BY <1>6 DEF Engine, SendBatch, Acknowledge, Deliver, EngineFails, Ended, vars, hvars
<1> QED
  BY <1>1, <1>2, <1>3, <1>4, <1>5, <1>6 DEF SessionNext, Pump, Handle, Caller

\* consider() gives at most one verdict, on what is known.
LEMMA ConsiderGives ==
  ASSUME SessionTypes, VerdictIInv, ConsiderNext
  PROVE  /\ discovered = {} /\ UNCHANGED <<submitted, announced, aliases, discovered>>
         /\ \A a \in Addr : told'[a] = told[a] \/ \E kind : Gives(a, kind)
<1>1. PICK b \in resolving : Verdict(b)
  BY DEF ConsiderNext
<1>2. discovered = {} /\ UNCHANGED <<submitted, announced, aliases, discovered>>
  BY <1>1 DEF ConsiderNext, Verdict, Consider
<1>3. ASSUME NEW a \in Addr, told'[a] # told[a] PROVE \E kind : Gives(a, kind)
  <2>0. told \in [Addr -> Seq(Kinds)]
    BY DEF VerdictIInv
  <2>1. CASE Aliased(b) /\ Report(b, "Skipped")
    <3>1. a = b /\ told'[a] = Append(told[a], "Skipped")
      BY <1>3, <2>0, <2>1 DEF Report
    <3>2. Gives(a, "Skipped")
      BY <2>1, <3>1 DEF Gives, Aliased, Kinds
    <3> QED
      BY <3>2
  <2>2. CASE NotDetected(b) /\ Report(b, "Active")
    <3>1. a = b /\ told'[a] = Append(told[a], "Active")
      BY <1>3, <2>0, <2>2 DEF Report
    <3>2. Gives(a, "Active")
      BY <2>2, <3>1 DEF Gives, NotDetected, Kinds
    <3> QED
      BY <3>2
  <2>3. CASE told' = told
    BY <1>3, <2>3
  <2> QED
    BY <1>1, <2>1, <2>2, <2>3 DEF Verdict
<1> QED
  BY <1>2, <1>3

\* An alias is found by a reply, or announced; no other step tells them apart.
LEMMA AliasSteps ==
  ASSUME SessionTypes, [SessionNext]_vars
  PROVE  \/ PublishAliases
         \/ /\ announced' = announced
            /\ \/ UNCHANGED <<aliases, discovered>>
               \/ \E p \in Prefix : /\ aliases' = aliases \cup Members(p)
                                    /\ discovered' = discovered \cup {p}
<1>1. CASE PumpTest
  BY <1>1 DEF PumpTest, NextTest, hvars
<1>2. CASE RecvReply \/ DrainReply
  <2>1. Head(results) \in ReplyType
    BY <1>2, HeadTail DEF RecvReply, DrainReply, SessionTypes, SessionTypeOK, ChannelsOK
  <2> DEFINE reply == Head(results)
  <2>2. announced' = announced /\ HandleReply(reply)
    BY <1>2 DEF RecvReply, DrainReply
  <2> HIDE DEF reply
  <2>3. UNCHANGED dvars \/ (reply.purpose = "Alias" /\ Reply(reply.test, reply.slot))
    BY <2>2 DEF HandleReply, SampleReply
  <2>4. reply.purpose = "Alias" => reply.test \in Prefix
    BY <2>1 DEF ReplyType, reply
  <2> QED
    BY <2>2, <2>3, <2>4 DEF Reply, dvars
<1>3. CASE ConsiderNext
  BY <1>3 DEF ConsiderNext, Verdict, Consider
<1>4. CASE ExpireTest
  BY <1>4 DEF ExpireTest, Finish, hvars
<1>5. CASE PumpTested \/ PumpBatch \/ PumpDone \/ RecvAck \/ Deadline \/ RetryOutbox \/ EngineLost
  BY <1>5 DEF PumpTested, PumpBatch, PumpDone, RecvAck, Deadline, RetryOutbox, EngineLost,
     dvars, hvars
<1>6. CASE DrainEnd \/ ExpireTargets \/ Return
  BY <1>6 DEF DrainEnd, ExpireTargets, Return, dvars, hvars
<1>7. CASE Caller
  BY <1>7 DEF Caller, Plan, Decline, Submit, Ask, CallNext, FinishSession, dvars, hvars
<1>8. CASE Engine \/ Ended \/ UNCHANGED vars
  BY <1>8 DEF Engine, SendBatch, Acknowledge, Deliver, EngineFails, Ended, vars, dvars, hvars
<1> QED
  BY <1>1, <1>2, <1>3, <1>4, <1>5, <1>6, <1>7, <1>8 DEF SessionNext, Pump, Event, Handle

\* What a submission does to one target.
LEMMA SubmitFacts ==
  ASSUME SessionTypes, VerdictIInv, NEW b \in Batches, Submit(b), NEW a \in Addr
  PROVE  LET n    == Copies(Discovery(b), a)
             more == [i \in 1..n |-> "Skipped"]
         IN  /\ n \in Nat /\ more \in Seq({"Skipped"}) /\ Len(more) = n
             /\ submitted'[a] = submitted[a] + n
             /\ n # 0 => submitted[a] + n <= MaxSubmit
             /\ told'[a] = IF a \in aliases THEN told[a] \o more ELSE told[a]
<1> DEFINE n    == Copies(Discovery(b), a)
           more == [i \in 1..n |-> "Skipped"]
<1>1. Discovery(b) \in BatchType
  BY SessionAssumption DEF Discovery, BatchType
<1>2. n \in Nat /\ (a \in Targets(Discovery(b)) <=> n # 0)
  BY <1>1, IsTarget
<1>3. /\ submitted'[a] = submitted[a] + n
      /\ a \in Targets(Discovery(b)) => submitted[a] + n <= MaxSubmit
      /\ told'[a] = IF a \in aliases THEN told[a] \o more ELSE told[a]
  BY DEF Submit
<1> HIDE DEF n
<1>4. more \in Seq({"Skipped"}) /\ Len(more) = n
  BY <1>2
<1> HIDE DEF more
<1> QED
  BY <1>2, <1>3, <1>4 DEF n, more

\* Every step keeps the aliases known those announced or about to be, and a
\* target told active clear of them.
LEMMA PromiseStep ==
  ASSUME SessionTypes, IdleIInv, VerdictIInv, PromiseIInv, [SessionNext]_vars
  PROVE  PromiseIInv'
<1>0. /\ told \in [Addr -> Seq(Kinds)] /\ submitted \in [Addr -> Nat] /\ MaxSubmit \in Nat
      /\ \A a \in Addr : submitted[a] <= MaxSubmit
      /\ \A a \in Addr : NotDetected(a) => NotDetected(a)'
  <2>1. DetectorIInv /\ [DetectorNext]_dvars
    BY SessionStepRefines DEF SessionTypes
  <2> QED
    BY <2>1, CleanStep, SessionAssumption DEF VerdictIInv, PromiseIInv
<1>1. \A a \in Addr : submitted'[a] <= MaxSubmit
  <2>1. CASE submitted' = submitted
    BY <1>0, <2>1
  <2>2. CASE \E b \in Batches : Submit(b)
    <3> SUFFICES ASSUME NEW a \in Addr PROVE submitted'[a] <= MaxSubmit
      OBVIOUS
    <3>1. PICK b \in Batches : Submit(b)
      BY <2>2
    <3> DEFINE n == Copies(Discovery(b), a)
    <3>2. n \in Nat /\ submitted'[a] = submitted[a] + n /\ (n # 0 => submitted[a] + n <= MaxSubmit)
      BY <3>1, SubmitFacts
    <3>3. submitted[a] \in Nat /\ submitted[a] <= MaxSubmit
      BY <1>0
    <3> HIDE DEF n
    <3> QED
      BY <3>2, <3>3
  <2>3. CASE \E a \in Asked : Ask(a)
    BY <1>0, <2>3, SessionAssumption DEF Ask
  <2>4. submitted' = submitted \/ (\E b \in Batches : Submit(b)) \/ (\E a \in Asked : Ask(a))
    BY FeedbackSteps, ConsiderGives DEF PublishAliases
  <2> QED
    BY <2>1, <2>2, <2>3, <2>4
<1>2. aliases' = Announced' \cup UNION {Members(p) : p \in discovered'}
  <2>1. aliases = Announced \cup UNION {Members(p) : p \in discovered}
    BY DEF PromiseIInv
  <2>m. \A p : Members(p)' = Members(p)
    BY DEF Members
  <2>2. CASE PublishAliases
    BY <2>1, <2>2, <2>m DEF PublishAliases, TakeAliases, Announced
  <2>3. CASE announced' = announced /\ UNCHANGED <<aliases, discovered>>
    BY <2>1, <2>3, <2>m DEF Announced
  <2>4. CASE /\ announced' = announced
             /\ \E p \in Prefix : /\ aliases' = aliases \cup Members(p)
                                  /\ discovered' = discovered \cup {p}
    BY <2>1, <2>4, <2>m DEF Announced
  <2> QED
    BY <2>2, <2>3, <2>4, AliasSteps
<1>3. ASSUME NEW a \in Addr, NEW i \in DOMAIN told'[a], told'[a][i] = "Active"
      PROVE  NotDetected(a)'
  <2>1. told[a] \in Seq(Kinds) /\ (i \in DOMAIN told[a] /\ told[a][i] = "Active" => NotDetected(a))
    BY <1>0 DEF PromiseIInv
  <2>2. CASE told'[a] = told[a]
    BY <1>0, <1>3, <2>1, <2>2
  <2>3. CASE \E kind : Gives(a, kind)
    <3>1. PICK kind : Gives(a, kind)
      BY <2>3
    <3>2. told'[a] = Append(told[a], kind) /\ (kind = "Active" => NotDetected(a))
      BY <3>1 DEF Gives
    <3>3. CASE i \in DOMAIN told[a]
      BY <1>0, <1>3, <2>1, <3>2, <3>3
    <3>4. CASE i \notin DOMAIN told[a]
      <4>1. told'[a][i] = kind
        BY <1>3, <2>1, <3>2, <3>4
      <4> QED
        BY <1>0, <1>3, <3>2, <4>1
    <3> QED
      BY <3>3, <3>4
  <2>4. CASE \E b \in Batches : Submit(b)
    <3>1. PICK b \in Batches : Submit(b)
      BY <2>4
    <3> DEFINE more == [j \in 1..Copies(Discovery(b), a) |-> "Skipped"]
    <3>2. more \in Seq({"Skipped"}) /\ (told'[a] = told[a] \o more \/ told'[a] = told[a])
      BY <3>1, SubmitFacts
    <3> HIDE DEF more
    <3>3. CASE told'[a] = told[a] \o more
      <4>1. CASE i \in DOMAIN told[a]
        BY <1>0, <1>3, <2>1, <3>2, <3>3, <4>1
      <4>2. CASE i \notin DOMAIN told[a]
        <5>1. i - Len(told[a]) \in DOMAIN more /\ told'[a][i] = more[i - Len(told[a])]
          BY <1>3, <2>1, <3>2, <3>3, <4>2
        <5> QED
          BY <1>3, <3>2, <5>1
      <4> QED
        BY <4>1, <4>2
    <3> QED
      BY <2>2, <3>2, <3>3
  <2>5. CASE PublishAliases \/ \E c \in Asked : Ask(c)
    BY <2>2, <2>5 DEF PublishAliases, Ask
  <2>6. CASE ConsiderNext
    BY <2>2, <2>3, <2>6, ConsiderGives
  <2> QED
    BY <2>2, <2>3, <2>4, <2>5, <2>6, FeedbackSteps
<1> QED
  BY <1>1, <1>2, <1>3 DEF PromiseIInv

\* What the model sees of a target, before and after a step.
LEMMA Seen ==
  ASSUME MaxSubmit <= 1, VerdictIInv, VerdictIInv', PromiseIInv, PromiseIInv', NEW a \in Addr
  PROVE  /\ VerdictOn(a) = VerdictFrom(told[a], submitted[a])
         /\ VerdictOn(a)' = VerdictFrom(told'[a], submitted'[a])
         /\ told[a] \in Seq(Kinds) /\ submitted[a] \in Nat
         /\ Len(told[a]) <= submitted[a] /\ submitted[a] <= 1
         /\ told'[a] \in Seq(Kinds) /\ submitted'[a] \in Nat
         /\ Len(told'[a]) <= submitted'[a] /\ submitted'[a] <= 1
<1>1. MaxSubmit \in Nat
  BY SessionAssumption
<1>2. VerdictIInv /\ PromiseIInv => /\ told[a] \in Seq(Kinds) /\ submitted[a] \in Nat
                                    /\ Len(told[a]) <= submitted[a] /\ submitted[a] <= 1
  <2> SUFFICES ASSUME VerdictIInv, PromiseIInv
               PROVE  /\ told[a] \in Seq(Kinds) /\ submitted[a] \in Nat
                      /\ Len(told[a]) <= submitted[a] /\ submitted[a] <= 1
    OBVIOUS
  <2> DEFINE n == Len(told[a])
             s == submitted[a]
             o == Owed(probes[a], Considered(a))
  <2>1. told[a] \in Seq(Kinds) /\ n \in Nat /\ s \in Nat /\ s <= MaxSubmit
    BY DEF VerdictIInv, PromiseIInv
  <2>2. n + o <= s
    BY DEF VerdictIInv, Fits
  <2>3. o \in Nat
    BY DEF Owed
  <2> HIDE DEF n, s, o
  <2>4. n <= s /\ s <= 1
    BY <1>1, <2>1, <2>2, <2>3
  <2> QED
    BY <2>1, <2>4 DEF n, s
<1>3. (VerdictIInv /\ PromiseIInv => /\ told[a] \in Seq(Kinds) /\ submitted[a] \in Nat
                                     /\ Len(told[a]) <= submitted[a] /\ submitted[a] <= 1)'
  <2> SUFFICES ASSUME VerdictIInv', PromiseIInv'
               PROVE  /\ told'[a] \in Seq(Kinds) /\ submitted'[a] \in Nat
                      /\ Len(told'[a]) <= submitted'[a] /\ submitted'[a] <= 1
    OBVIOUS
  <2> DEFINE n == Len(told'[a])
             s == submitted'[a]
             o == Owed(probes'[a], Considered(a)')
  <2>1. told'[a] \in Seq(Kinds) /\ n \in Nat /\ s \in Nat /\ s <= MaxSubmit
    BY DEF VerdictIInv, PromiseIInv
  <2>2. n + o <= s
    BY DEF VerdictIInv, Fits
  <2>3. o \in Nat
    BY DEF Owed
  <2> HIDE DEF n, s, o
  <2>4. n <= s /\ s <= 1
    BY <1>1, <2>1, <2>2, <2>3
  <2> QED
    BY <2>1, <2>4 DEF n, s
<1>4. VerdictOn(a) = VerdictFrom(told[a], submitted[a])
  BY DEF VerdictOn, VerdictFrom
<1>5. VerdictOn(a)' = VerdictFrom(told'[a], submitted'[a])
  BY DEF VerdictOn, VerdictFrom
<1> QED
  BY <1>2, <1>3, <1>4, <1>5

\* Every step of the session is a step of Feedback, or shows nothing.
LEMMA PromiseRefines ==
  ASSUME MaxSubmit <= 1, SessionTypes, IdleIInv, VerdictIInv, VerdictIInv',
         PromiseIInv, PromiseIInv', [SessionNext]_vars
  PROVE  [Promise!Next]_(Promise!fvars)
<1> DEFINE V == [a \in Addr |-> VerdictOn(a)]
           C == Announced
<1>1. \A a \in Addr :
        /\ V[a] = VerdictFrom(told[a], submitted[a])
        /\ V'[a] = VerdictFrom(told'[a], submitted'[a])
        /\ told[a] \in Seq(Kinds) /\ submitted[a] \in Nat
        /\ Len(told[a]) <= submitted[a] /\ submitted[a] <= 1
        /\ told'[a] \in Seq(Kinds) /\ submitted'[a] \in Nat
        /\ Len(told'[a]) <= submitted'[a] /\ submitted'[a] <= 1
  BY Seen
<1>2. /\ V = [a \in Addr |-> V[a]] /\ V' = [a \in Addr |-> V'[a]]
      /\ \A a \in Addr : V'[a] \in {"none", "asked"} \cup Kinds
  BY <1>1, VerdictFromFacts
<1>n. Promise!Next <=> \E A \in SUBSET Addr :
        \/ /\ \A a \in A : V[a] = "none"
           /\ \E v \in [A -> {"asked", "Skipped"}] :
                /\ \A a \in A : v[a] = "Skipped" => a \in C
                /\ V' = [a \in Addr |-> IF a \in A THEN v[a] ELSE V[a]]
           /\ C' = C
        \/ /\ \A a \in A : V[a] = "asked"
           /\ \A a \in A : V'[a] \in Kinds /\ (V'[a] = "Skipped" <=> a \in C)
           /\ V' \in [Addr -> {"none", "asked"} \cup Kinds]
           /\ \A a \in Addr \ A : V'[a] = V[a]
           /\ C' = C
        \/ /\ \A a \in A : V[a] # "Active"
           /\ C' = C \cup A
           /\ V' = V
  BY DEF Promise!Next, Promise!Request, Promise!Judge, Promise!Announce, Promise!Fits,
         Promise!Judged, Kinds, Announced
<1>f. V' = V /\ C' = C => UNCHANGED Promise!fvars
  BY DEF Promise!fvars, Announced
<1>m. \A p : Members(p)' = Members(p)
  BY DEF Members
<1>c. announced' = announced => C' = C
  BY <1>m DEF Announced
<1>d. discovered = {} => aliases = C
  BY DEF PromiseIInv
<1> HIDE DEF V, C
<1>3. CASE UNCHANGED <<told, submitted, announced>>
  <2>1. \A a \in Addr : V'[a] = V[a]
    BY <1>1, <1>3
  <2> QED
    BY <1>2, <1>3, <1>c, <1>f, <2>1
<1>4. ASSUME discovered = {}, UNCHANGED <<submitted, announced>>,
             \A a \in Addr : told'[a] = told[a] \/ \E kind : Gives(a, kind)
      PROVE  Promise!Next
  <2> DEFINE A == {a \in Addr : told'[a] # told[a]}
  <2>1. ASSUME NEW a \in A
        PROVE  V[a] = "asked" /\ V'[a] \in Kinds /\ (V'[a] = "Skipped" <=> a \in C)
    <3>1. PICK kind : Gives(a, kind)
      BY <1>4, <2>1
    <3> DEFINE t == told[a]
               u == told'[a]
               s == submitted[a]
    <3>2. /\ t \in Seq(Kinds) /\ u \in Seq(Kinds) /\ s \in Nat /\ s <= 1 /\ Len(u) <= s
          /\ u = Append(t, kind) /\ kind \in Kinds /\ (kind = "Skipped" <=> a \in C)
          /\ V[a] = VerdictFrom(t, s) /\ V'[a] = VerdictFrom(u, s)
      BY <1>1, <1>4, <1>d, <3>1 DEF Gives
    <3> HIDE DEF t, u, s
    <3>3. Len(t) = 0 /\ Len(t) <= s /\ s > 0
      BY <3>2
    <3>4. t = <<>> /\ u # <<>> /\ u[1] = kind
      BY <3>2, <3>3
    <3> QED
      BY <3>2, <3>3, <3>4, VerdictFromFacts, ZenonT(60)
  <2>2. \A a \in Addr \ A : V'[a] = V[a]
    BY <1>1, <1>4
  <2>3. A \in SUBSET Addr /\ C' = C /\ V' \in [Addr -> {"none", "asked"} \cup Kinds]
    BY <1>2, <1>4, <1>c
  <2> HIDE DEF A
  <2> QED
    BY <1>n, <2>1, <2>2, <2>3
<1>5. CASE PublishAliases
  <2>1. UNCHANGED <<told, submitted, aliases>> /\ discovered' = {}
    BY <1>5 DEF PublishAliases, TakeAliases
  <2>2. V' = V
    BY <1>1, <1>2, <2>1
  <2>3. aliases \subseteq aliases' /\ C' = aliases' /\ C \subseteq aliases /\ aliases \subseteq Addr
    BY <2>1 DEF PromiseIInv, C, SessionTypes, DetectorIInv, DetectorTypeOK
  <2> DEFINE A == aliases \ C
  <2>4. A \in SUBSET Addr /\ C' = C \cup A
    BY <2>1, <2>3
  <2>5. ASSUME NEW a \in A PROVE V[a] # "Active"
    <3> SUFFICES ASSUME V[a] = "Active" PROVE FALSE
      OBVIOUS
    <3>1. a \in Addr /\ a \in aliases
      BY <2>4
    <3>2. told[a] # <<>> /\ Len(told[a]) = 1 /\ told[a][1] = "Active"
      BY <1>1, <3>1, VerdictFromFacts DEF Kinds
    <3>3. NotDetected(a)
      <4>1. 1 \in DOMAIN told[a]
        BY <1>1, <3>1, <3>2
      <4> QED
        BY <3>1, <3>2, <4>1 DEF PromiseIInv
    <3> QED
      BY <3>1, <3>3 DEF NotDetected
  <2> HIDE DEF A
  <2> QED
    BY <1>n, <2>2, <2>4, <2>5
<1>6. ASSUME NEW b \in Batches, Submit(b) PROVE Promise!Next
  <2>1. discovered = {} /\ UNCHANGED announced
    BY <1>6 DEF Submit, Quiet
  <2> DEFINE A == {a \in Addr : Copies(Discovery(b), a) # 0}
             v == [a \in A |-> IF a \in aliases THEN "Skipped" ELSE "asked"]
  <2>2. ASSUME NEW a \in Addr
        PROVE  /\ a \in A => V[a] = "none" /\ V'[a] = IF a \in aliases THEN "Skipped" ELSE "asked"
               /\ a \notin A => V'[a] = V[a]
    <3> DEFINE n    == Copies(Discovery(b), a)
               more == [i \in 1..n |-> "Skipped"]
               t == told[a]
               u == told'[a]
               s == submitted[a]
               w == submitted'[a]
    <3>1. /\ n \in Nat /\ more \in Seq({"Skipped"}) /\ Len(more) = n /\ w = s + n
          /\ n # 0 => s + n <= MaxSubmit
          /\ u = IF a \in aliases THEN t \o more ELSE t
      BY <1>6, SubmitFacts
    <3>2. /\ V[a] = VerdictFrom(t, s) /\ V'[a] = VerdictFrom(u, w)
          /\ t \in Seq(Kinds) /\ s \in Nat /\ Len(t) <= s /\ s <= 1
          /\ u \in Seq(Kinds) /\ w \in Nat /\ Len(u) <= w /\ w <= 1
      BY <1>1
    <3>3. a \in A <=> n # 0
      OBVIOUS
    <3> HIDE DEF A, v, n, more, t, u, s, w
    <3>4. CASE n = 0
      <4>1. w = s
        BY <3>1, <3>2, <3>4
      <4>2. t \o more = t
        BY <3>1, <3>2, <3>4
      <4> QED
        BY <3>1, <3>2, <3>3, <3>4, <4>1, <4>2
    <3>5. CASE n # 0
      <4>1. n = 1 /\ s = 0 /\ w = 1 /\ Len(t) = 0
        BY <3>1, <3>2, <3>5
      <4>2. t = <<>> /\ V[a] = "none"
        <5>1. t = <<>>
          BY <3>2, <4>1
        <5>2. VerdictFrom(t, s) = "none"
          BY <3>2, <4>1, VerdictFromFacts
        <5> QED
          BY <3>2, <5>1, <5>2
      <4>3. CASE a \in aliases
        <5>1. u = more /\ u # <<>> /\ u[1] = "Skipped"
          BY <3>1, <4>1, <4>2, <4>3
        <5> QED
          BY <3>2, <3>3, <3>5, <4>2, <4>3, <5>1, VerdictFromFacts
      <4>4. CASE a \notin aliases
        <5>1. u = <<>> /\ w > 0
          BY <3>1, <4>1, <4>2, <4>4
        <5>2. V'[a] = "asked"
          BY <3>2, <5>1, VerdictFromFacts
        <5> QED
          BY <3>3, <3>5, <4>2, <4>4, <5>2
      <4> QED
        BY <4>3, <4>4
    <3> QED
      BY <3>4, <3>5
  <2>3. /\ A \in SUBSET Addr /\ v \in [A -> {"asked", "Skipped"}]
        /\ \A a \in A : v[a] = "Skipped" => a \in C
        /\ \A a \in A : v[a] = IF a \in aliases THEN "Skipped" ELSE "asked"
    BY <1>d, <2>1
  <2> HIDE DEF A, v
  <2>4. V' = [a \in Addr |-> IF a \in A THEN v[a] ELSE V[a]]
    BY <1>2, <2>2, <2>3
  <2> QED
    BY <1>c, <1>n, <2>1, <2>2, <2>3, <2>4
<1>7. ASSUME NEW b \in Asked, Ask(b) PROVE Promise!Next
  <2>1. b \in Addr /\ UNCHANGED <<told, announced>> /\ submitted' = [submitted EXCEPT ![b] = submitted[b] + 1]
    BY <1>7, SessionAssumption DEF Ask
  <2>2. \A a \in Addr \ {b} : V'[a] = V[a]
    BY <1>1, <2>1 DEF VerdictIInv
  <2>3. V[b] = "none" /\ V'[b] = "asked"
    <3> DEFINE t == told[b]
               s == submitted[b]
               w == submitted'[b]
    <3>1. /\ V[b] = VerdictFrom(t, s) /\ V'[b] = VerdictFrom(t, w)
          /\ t \in Seq(Kinds) /\ s \in Nat /\ Len(t) <= s /\ s <= 1
          /\ w \in Nat /\ Len(t) <= w /\ w <= 1
      BY <1>1, <2>1
    <3>2. w = s + 1
      BY <2>1 DEF VerdictIInv
    <3> HIDE DEF t, s, w
    <3>3. s = 0 /\ w > 0 /\ Len(t) = 0
      BY <3>1, <3>2
    <3>4. t = <<>>
      BY <3>1, <3>3
    <3> QED
      BY <3>1, <3>3, <3>4, VerdictFromFacts
  <2> DEFINE v == [a \in {b} |-> "asked"]
  <2>4. v \in [{b} -> {"asked", "Skipped"}] /\ \A a \in {b} : v[a] = "asked"
    OBVIOUS
  <2> HIDE DEF v
  <2>5. V' = [a \in Addr |-> IF a \in {b} THEN v[a] ELSE V[a]]
    BY <1>2, <2>1, <2>2, <2>3, <2>4
  <2>6. {b} \in SUBSET Addr /\ \A a \in {b} : V[a] = "none"
    BY <2>1, <2>3
  <2>7. \A a \in {b} : v[a] = "Skipped" => a \in C
    BY <2>4
  <2> QED
    BY <1>c, <1>n, <2>1, <2>4, <2>5, <2>6, <2>7
<1>8. CASE ConsiderNext
  BY <1>4, <1>8, ConsiderGives
<1> QED
  BY <1>3, <1>4, <1>5, <1>6, <1>7, <1>8, FeedbackSteps

\* A session that is asked about no target twice implements Feedback: from the
\* model's side there is one verdict per target, and it agrees with the aliases
\* announced before and after it.
THEOREM SessionKeepsPromise ==
  ASSUME MaxSubmit <= 1
  PROVE  SessionSpec => KeepsPromise
<1>1. ASSUME SessionInit PROVE PromiseIInv /\ Promise!Init
  <2>1. PromiseIInv
    BY <1>1, SessionAssumption DEF SessionInit, DetectorInit, PromiseIInv, Announced
  <2>2. Len(<<>>) = 0
    OBVIOUS
  <2>3. \A a \in Addr : VerdictOn(a) = "none"
    BY <1>1, <2>2 DEF SessionInit, VerdictOn
  <2>4. InitAliases \cup UNION {Members(p) : p \in announced} = InitAliases
    BY <1>1 DEF SessionInit
  <2> QED
    BY <2>1, <2>3, <2>4 DEF Promise!Init
<1>2. SessionTypes /\ IdleIInv /\ VerdictIInv /\ PromiseIInv /\ [SessionNext]_vars => PromiseIInv'
  BY PromiseStep
<1>3. /\ SessionTypes /\ IdleIInv /\ VerdictIInv /\ VerdictIInv' /\ PromiseIInv /\ PromiseIInv'
      /\ [SessionNext]_vars
      => [Promise!Next]_(Promise!fvars)
  BY PromiseRefines
<1> QED
  BY <1>1, <1>2, <1>3, SessionTypesInvariant, SessionVerdicts, PTL
     DEF SessionSpec, KeepsPromise, Promise!Spec
=============================================================================
