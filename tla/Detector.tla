------------------------------ MODULE Detector ------------------------------
(***************************************************************************)
(* The alias detector of the scan crate (scan/src/dealias/detector.rs).    *)
(*                                                                         *)
(* An address is asked about with Consider.  Unless it is already covered  *)
(* by a known alias, the shortest of its configured prefixes that has not  *)
(* been tested yet is queued for a test.  A test is handed out by NextTest *)
(* as three sample addresses of the prefix; replies from two different     *)
(* samples make the whole prefix an alias.  Finish ends a test.            *)
(*                                                                         *)
(* Addresses are the elements of Addr, the whole address space of the      *)
(* instance.  The coverage of the PrefixSet "aliases" is the set of the    *)
(* addresses it covers, a prefix is covered when all its addresses are,    *)
(* and the three samples of a test are numbered instead of drawn.          *)
(* Detection without an "online" configuration is Depth = 0.               *)
(***************************************************************************)
EXTENDS Naturals, FiniteSets, Sequences

CONSTANTS
  Addr,          \* the address space
  Depth,         \* number of configured prefix lengths
  Prefix,        \* the prefixes of those lengths
  PrefixAt,      \* PrefixAt[a][l]: the prefix of a of the l-th shortest length
  InitAliases    \* addresses covered by the aliases known at start

Level == 1..Depth
Slot  == 0..2

\* The prefix of an address of each length: a prefix determines its length,
\* and two addresses with a common prefix share all shorter ones.
ASSUME PrefixAssumption ==
  /\ Depth \in Nat
  /\ InitAliases \subseteq Addr
  /\ PrefixAt \in [Addr -> [Level -> Prefix]]
  /\ \A a, b \in Addr : \A l, m \in Level :
        PrefixAt[a][l] = PrefixAt[b][m]
          => l = m /\ \A k \in 1..l : PrefixAt[a][k] = PrefixAt[b][k]

VARIABLES
  aliases,       \* addresses covered by a known or a detected alias
  complete,      \* prefixes whose test has ended
  pending,       \* prefixes with a test that has not ended
  replies,       \* replies[p]: the samples of p's test that have answered
  queue,         \* pending tests that have not been handed out
  samples,       \* tests whose samples are registered for replies
  discovered     \* detected aliases the session has not yet taken

dvars == <<aliases, complete, pending, replies, queue, samples, discovered>>

Members(p) == {a \in Addr : \E l \in Level : PrefixAt[a][l] = p}
Covered(p) == Members(p) \subseteq aliases

-----------------------------------------------------------------------------
(* The verdict on one address.  (Operators with a name like X_Variant are   *)
(* faulty variants of the X they precede; they show that the properties     *)
(* notice the fault, and are used nowhere else.)                            *)

Aliased(a)     == a \in aliases
NotDetected(a) == a \notin aliases /\ \A l \in Level : PrefixAt[a][l] \in complete

\* a waits for the test of its prefix of the l-th length, the shortest length at
\* which its prefix has not been tested.
Waits_Unordered(a, l) == a \notin aliases /\ PrefixAt[a][l] \notin complete
Waits(a, l) ==
  /\ a \notin aliases
  /\ PrefixAt[a][l] \notin complete
  /\ \A m \in 1..(l - 1) : PrefixAt[a][m] \in complete

-----------------------------------------------------------------------------
DetectorInit ==
  /\ aliases = InitAliases
  /\ complete = {}
  /\ pending = {}
  /\ replies = [p \in Prefix |-> {}]
  /\ queue = <<>>
  /\ samples = {}
  /\ discovered = {}

\* consider(): a new test when the address waits for one nobody has asked for.
NewTest(a) == {PrefixAt[a][l] : l \in {k \in Level : Waits(a, k)}} \ pending

Consider(a) ==
  /\ IF NewTest(a) = {}
     THEN UNCHANGED <<pending, queue>>
     ELSE \E p \in NewTest(a) : /\ pending' = pending \cup {p}
                                /\ queue' = Append(queue, p)
  /\ UNCHANGED <<aliases, complete, replies, samples, discovered>>

\* next_test(): covered prefixes at the front of the queue are given up, the
\* first other one is handed out.  k is its place, or one past the end.
NextTest ==
  \E k \in 1..(Len(queue) + 1) :
    /\ \A i \in 1..(k - 1) : Covered(queue[i])
    /\ k <= Len(queue) => ~Covered(queue[k])
    /\ queue' = SubSeq(queue, k + 1, Len(queue))
    /\ pending' = pending \ {queue[i] : i \in 1..(k - 1)}
    /\ samples' = samples \cup {queue[i] : i \in {k} \cap DOMAIN queue}
    /\ UNCHANGED <<aliases, complete, replies, discovered>>

\* reply(): sample s of the test of p has answered.
Reply(p, s) ==
  /\ p \in samples
  /\ p \in pending
  /\ replies' = [replies EXCEPT ![p] = @ \cup {s}]
  /\ IF Cardinality(replies'[p]) >= 2 /\ ~Covered(p)
     THEN /\ aliases' = aliases \cup Members(p)
          /\ discovered' = discovered \cup {p}
     ELSE UNCHANGED <<aliases, discovered>>
  /\ UNCHANGED <<complete, pending, queue, samples>>

\* finish(): the test of p is over.  The session calls it once for each test
\* it was handed, when the deadline of the test has passed.
Finish(p) ==
  /\ p \in samples
  /\ p \in pending
  /\ pending' = pending \ {p}
  /\ replies' = [replies EXCEPT ![p] = {}]
  /\ samples' = samples \ {p}
  /\ complete' = complete \cup {p}
  /\ UNCHANGED <<aliases, queue, discovered>>

\* take_aliases(): the session takes the newly detected aliases.
TakeAliases ==
  /\ discovered' = {}
  /\ UNCHANGED <<aliases, complete, pending, replies, queue, samples>>

DetectorNext ==
  \/ \E a \in Addr : Consider(a)
  \/ NextTest
  \/ \E p \in Prefix, s \in Slot : Reply(p, s)
  \/ \E p \in Prefix : Finish(p)
  \/ TakeAliases

DetectorSpec == DetectorInit /\ [][DetectorNext]_dvars

-----------------------------------------------------------------------------
(* Properties.                                                             *)

\* The types of the detector's state.
DetectorTypeOK ==
  /\ aliases \subseteq Addr
  /\ complete \subseteq Prefix
  /\ pending \subseteq Prefix
  /\ replies \in [Prefix -> SUBSET Slot]
  /\ queue \in Seq(Prefix)
  /\ samples \subseteq pending
  /\ discovered \subseteq Prefix

\* A prefix waiting for its test is never covered by an alias found in the
\* meantime, so next_test() never gives a test up.  It matters because giving
\* one up would drop the test without resolving the addresses waiting for it.
QueuedUncovered == \A i \in DOMAIN queue : ~Covered(queue[i])

\* Every pending test is either queued, exactly once, or handed out: no test is
\* lost between consider(), next_test() and finish().
EveryTestHeld ==
  /\ \A p \in pending : p \in samples \/ \E i \in DOMAIN queue : queue[i] = p
  /\ \A i \in DOMAIN queue : queue[i] \in pending \ samples
  /\ \A i, j \in DOMAIN queue : queue[i] = queue[j] => i = j

\* A prefix is tested only after the tests of all the prefixes that contain it
\* have ended.
CoarseFirst ==
  \A a \in Addr : \A l \in Level :
    PrefixAt[a][l] \in pending \cup complete
      => \A m \in 1..(l - 1) : PrefixAt[a][m] \in complete \ pending

\* A prefix is never tested twice.
NeverRetested == complete \cap pending = {}

\* A verdict "not detected" is final: once all tests of an address have ended
\* without an alias, no later test covers it.  The session relies on this when
\* it reports the address to the model as active.
CleanStaysClean == [][\A a \in Addr : NotDetected(a) => NotDetected(a)']_dvars
=============================================================================
