------------------------------ MODULE SixTree ------------------------------
(***************************************************************************)
(* 6Tree (tga/src/hierarchical/sixtree): a model that generates targets    *)
(* and learns from the verdicts on them.                                   *)
(*                                                                         *)
(* Training divides the seeds into a tree by the first digit they differ   *)
(* in.  Each leaf scans the region of its seeds and widens it by one digit *)
(* (the top of its stack) when all of the region has been judged.  A node  *)
(* whose stack has shrunk to its parent's has widened over its siblings:   *)
(* when it is next scheduled the parent takes its place, and all nodes     *)
(* below the parent retire.  With alias detection a node that is too dense *)
(* is first tested with probes that are spread over its last digit, and is *)
(* widened as long as some of them answer.                                 *)
(*                                                                         *)
(* An address is a function from the positions of its digits; those not in *)
(* Dim are the leading bits no digit reaches.  A node is identified with   *)
(* the set of its (different) seeds.  RegionSet is the set of its          *)
(* addresses, RegionCursor the set of those it has yet to return, in any   *)
(* order; a sample of probes is any that training's random numbers allow.  *)
(***************************************************************************)
EXTENDS SeqUtil, SequencesExt, FiniteSetsExt

CONSTANTS
  Position, Dim,   \* positions of an address, and those with a digit
  Digit,           \* the values of a digit
  Seeds,           \* the active seed addresses
  LeafMax,         \* leaf_max
  BatchPercent,    \* batch_percent
  Detections,      \* the values of alias_detection
  ProbesPerValue,  \* PROBES_PER_VALUE
  MinSuspicious,   \* MIN_SUSPICIOUS_SPACE
  MaxNormal,       \* MAX_NORMAL_SPACE
  Alias,           \* what may be reported as aliased: sets of addresses
  Verdicts,        \* the verdicts the scan may give, for each address
  Buffers,         \* lengths of the output buffer
  Chunks           \* how many verdicts are given in one call

Addr == [Position -> Digit]

ASSUME SixTreeAssumption ==
  /\ Position \subseteq Nat /\ Dim \subseteq Position /\ Dim # {} /\ IsFiniteSet(Dim)
  /\ Seeds \subseteq Addr /\ Seeds # {} /\ IsFiniteSet(Seeds)
  /\ LeafMax \in Nat \ {0} /\ BatchPercent \in 1..100
  /\ Detections \subseteq BOOLEAN
  /\ {ProbesPerValue, MinSuspicious, MaxNormal} \cup Buffers \cup Chunks \subseteq Nat \ {0}
  /\ Verdicts \in [Addr -> (SUBSET {"Skipped", "Inactive", "Active"}) \ {{}}]
  /\ Alias \subseteq SUBSET Addr

VARIABLES
  nodes,         \* the nodes of the tree
  queue, batch,  \* queue and current_batch
  phase,         \* "Scanning" or "Detecting"
  probes,        \* the round of detection: the outcome of each probe, or "none"
  generation,    \* the cursor: whether there is one, and what it has left
  aliases,       \* addresses reported as aliased
  detected,      \* detected_aliases
  detection,     \* alias_detection
  pc,            \* "idle", or in advance_completed_batches(), called by
                 \* apply_feedback() ("fed") or by generate() ("asked")
  outstanding,   \* generated addresses without a verdict
  issued,        \* history: addresses generated in the scanning phase
  judged         \* history: addresses with a verdict

mvars == <<nodes, queue, batch, phase, probes, generation, aliases, detected, detection>>
vars  == <<mvars, pc, outstanding, issued, judged>>

-----------------------------------------------------------------------------
(* Training: the tree of the seeds.                                         *)

Same(a, b, P)  == \A p \in P : a[p] = b[p]
Steady(S, d)   == \A a, b \in S : a[d] = b[d]
Ascending(D)   == CHOOSE s \in [1..Cardinality(D) -> D] : \A i, j \in DOMAIN s : i < j => s[i] < s[j]
FirstVariable(S) == CHOOSE d \in Dim : ~Steady(S, d) /\ \A e \in Dim : e < d => Steady(S, e)

Roots == {{b \in Seeds : Same(a, b, Position \ Dim)} : a \in Seeds}

Children(S) ==
  IF Cardinality(S) <= LeafMax \/ \A d \in Dim : Steady(S, d)
    THEN {}
    ELSE {{b \in S : b[FirstVariable(S)] = a[FirstVariable(S)]} : a \in S}

\* The nodes by their depth.  Each child is steady in a digit more.
Levels ==
  LET level[n \in 0..Cardinality(Dim)] ==
        IF n = 0 THEN Roots ELSE UNION {Children(S) : S \in level[n - 1]}
  IN  level

Tree == UNION {Levels[n] : n \in 0..Cardinality(Dim)}

NoParent == {}
Parent   == [S \in Tree |-> IF S \in Roots THEN NoParent ELSE CHOOSE T \in Tree : S \in Children(T)]
Leaves   == {S \in Tree : Children(S) = {}}

\* The digits in which a node is steady, those of its parent first; a leaf has
\* all others above them.
Digits(S, above) ==
  LET ds == above \o Ascending({d \in Dim \ Range(above) : Steady(S, d)})
  IN  ds \o IF S \in Leaves THEN Ascending(Dim \ Range(ds)) ELSE <<>>

Stack ==
  LET stack[S \in Tree] == Digits(S, IF S \in Roots THEN <<>> ELSE stack[Parent[S]])
  IN  stack

-----------------------------------------------------------------------------
(* Nodes.  An outcome overrides a weaker one.                               *)

Merged(o, p) == IF "Active" \in {o, p} THEN "Active"
                ELSE IF "Inactive" \in {o, p} THEN "Inactive" ELSE "Skipped"

NoOutcome == [a \in {} |-> "Skipped"]
NewNode(stack) == [stack |-> stack, targets |-> {}, scanned |-> {}, partial |-> NoOutcome,
                   probed |-> {}, active |-> {}, lastExpanded |-> 0, aliasChecked |-> FALSE]

Widened(T, d) == {b \in Addr : \E a \in T : Same(a, b, Position \ {d})}

Expanded(n) ==
  IF n.stack = <<>>
    THEN n
    ELSE [n EXCEPT !.stack = Front(@), !.targets = Widened(@, Last(n.stack)),
                   !.lastExpanded = Last(n.stack), !.aliasChecked = FALSE]

\* Addresses of the node's region that still need a verdict.
Frontier(n)    == (n.targets \ n.scanned) \ aliases
HasFrontier_Scanned(n) == Frontier(n) # {}
HasFrontier(n) == ~(Frontier(n) \subseteq DOMAIN n.partial)

Responses(n)  == {a \in DOMAIN n.partial : n.partial[a] # "Skipped"}
ProbeCount(n) == Cardinality(n.probed) + Cardinality(Responses(n))
Density(n)    == [num |-> IF ProbeCount(n) = 0 THEN 0 ELSE Cardinality(n.active),
                  den |-> IF ProbeCount(n) = 0 THEN 1 ELSE ProbeCount(n)]
AtLeast(x, y) == x.num * y.den >= y.num * x.den

Probed(n) == {a \in Frontier(n) : a \in DOMAIN n.partial => n.partial[a] # "Skipped"}
               \cup (Responses(n) \cap aliases)

Finished(n) ==
  Expanded([n EXCEPT !.probed = @ \cup Probed(n), !.scanned = n.targets, !.partial = NoOutcome])

\* The regions of a node are its targets that agree outside the widened digits.
Cubes(n) == {{b \in n.targets : Same(a, b, (Position \ Dim) \cup Range(n.stack))} : a \in n.targets}
Wild(n)  == Cardinality(Dim) - Len(n.stack)

\* The density is at least 0.9 / (12.8 - 1) * (all digits - wild) / wild.
Abnormal(n) ==
  /\ Cardinality(n.targets) >= MinSuspicious
  /\ Wild(n) > 0
  /\ LET x == Density(n)
     IN  118 * Wild(n) * x.num >= 9 * (Cardinality(Dim) - Wild(n)) * x.den

-----------------------------------------------------------------------------
(* replace_descendants(): a parent takes the place of all nodes below it.   *)
(* The arguments and results "st" hold nodes, batch and queue.              *)

Below(S, T) == S # T /\ S \subseteq T
ReachesParent(st, S) == Parent[S] # NoParent /\ st.nodes[S].stack = st.nodes[Parent[S]].stack

Sources(st) ==
  LET reaches == {i \in DOMAIN st.batch : ReachesParent(st, st.batch[i])}
      up(i)   == Parent[st.batch[i]]
  IN  {i \in reaches : /\ \A j \in reaches : j < i => up(j) # up(i)
                       /\ \A j \in reaches : ~Below(up(i), up(j))}

Inherited_Afresh(n, source, gone) ==
  [n EXCEPT !.targets = source.targets, !.lastExpanded = source.lastExpanded,
            !.aliasChecked = source.aliasChecked, !.scanned = source.scanned,
            !.partial = NoOutcome, !.probed = source.probed, !.active = source.active]
Inherited(n, source, gone) ==
  [n EXCEPT !.targets = source.targets, !.lastExpanded = source.lastExpanded,
            !.aliasChecked = source.aliasChecked,
            !.scanned = UNION {g.scanned \cup DOMAIN g.partial : g \in gone},
            !.partial = NoOutcome,
            !.probed = UNION {g.probed \cup Responses(g) : g \in gone},
            !.active = UNION {g.active : g \in gone}]

Retired(n) == [NewNode(n.stack) EXCEPT !.lastExpanded = n.lastExpanded,
                                       !.aliasChecked = n.aliasChecked]

Promotions(st) == {Parent[st.batch[i]] : i \in Sources(st)}
Source(st, T)  == st.batch[CHOOSE i \in Sources(st) : Parent[st.batch[i]] = T]
Lower(st, T)   == {R \in Range(st.batch) \cup Range(st.queue) : Below(R, T)}

\* No parent that takes a place is below another, so each retires nodes of its
\* own, and what comes first makes no difference.
Replaced(st) ==
  LET order == Ascending(Sources(st))
      gone  == UNION {Lower(st, T) : T \in Promotions(st)}
  IN  [nodes |-> [R \in Tree |->
                    IF R \in Promotions(st)
                      THEN Inherited(st.nodes[R], st.nodes[Source(st, R)],
                                     {st.nodes[Q] : Q \in Lower(st, R)})
                    ELSE IF R \in gone THEN Retired(st.nodes[R]) ELSE st.nodes[R]],
       batch |-> Outside(st.batch, gone) \o [k \in DOMAIN order |-> Parent[st.batch[order[k]]]],
       queue |-> Outside(st.queue, gone)]

-----------------------------------------------------------------------------
(* The rounds.                                                              *)

NoProbes == [a \in {} |-> "none"]
NoCursor == [on |-> FALSE, left |-> {}]
Pending  == {a \in DOMAIN probes : probes[a] = "none"}

\* Some addresses for each digit of each region of the node.
Samples(n) ==
  LET groups == {{a \in C : a[n.lastExpanded] = v} : C \in Cubes(n), v \in Digit}
  IN  {X \in SUBSET n.targets : \A G \in groups : Cardinality(X \cap G) \in 1..ProbesPerValue}

StartDetection(n) ==
  /\ \E X \in Samples(n) :
        probes' = [a \in X |-> IF a \in aliases THEN "Skipped" ELSE "none"]
  /\ phase' = "Detecting"
  /\ generation' = NoCursor

\* merge_scanned_nodes(): the batch b, densest first, is merged into the queue q;
\* a node of the batch goes before the first queued one that is not denser.
Goes(ns, b, q, i, j) ==
  LET c          == b \o q
      dense(x, y) == AtLeast(Density(ns[c[x]]), Density(ns[c[y]]))
      over(x, y) == \E k \in Len(b) + 1..y : dense(x, k)
  IN  IF i <= Len(b)
        THEN IF j <= Len(b) THEN dense(i, j) /\ (dense(j, i) => i < j) ELSE over(i, j)
        ELSE IF j <= Len(b) THEN ~over(j, i) ELSE i < j

Merges(ns, b, q) ==
  LET places == DOMAIN (b \o q)
      orders == {p \in [places -> places] :
                   /\ \A k, l \in places : k < l => Goes(ns, b, q, p[k], p[l])
                   /\ \A i \in places : \E k \in places : p[k] = i}
  IN  {[k \in places |-> (b \o q)[p[k]]] : p \in orders}

BatchSize(len) == Min({Max({(len * BatchPercent) \div 100, 1}), len})

\* schedule_next_batch(): a suspicious node is tested alone; otherwise the
\* front of the queue is scanned.
Alive_Wide(n) == n.stack # <<>>
Alive(n)      == n.stack # <<>> \/ HasFrontier(n)
Suspicious(n) == Abnormal(n) /\ ~n.aliasChecked /\ HasFrontier(n)

Schedule(ns, q) ==
  LET kept    == Outside(q, {S \in Range(q) : ~Alive(ns[S])})
      suspect == {i \in DOMAIN kept : detection /\ Suspicious(ns[kept[i]])}
      count   == BatchSize(Len(kept))
      st      == Replaced([nodes |-> ns, batch |-> SubSeq(kept, 1, count),
                           queue |-> SubSeq(kept, count + 1, Len(kept))])
  IN  \/ /\ suspect # {}
         /\ nodes' = ns
         /\ batch' = <<kept[Min(suspect)]>>
         /\ queue' = RemoveAt(kept, Min(suspect))
         /\ StartDetection(ns[kept[Min(suspect)]])
      \/ /\ suspect = {}
         /\ nodes' = st.nodes /\ batch' = st.batch /\ queue' = st.queue
         /\ phase' = "Scanning" /\ probes' = NoProbes /\ generation' = NoCursor

Running   == pc \in {"fed", "asked"}
RoundDone == batch # <<>> /\ \A i \in DOMAIN batch : ~HasFrontier(nodes[batch[i]])

\* All of the batch has been judged.
FinishRound ==
  /\ Running /\ phase = "Scanning" /\ RoundDone
  /\ LET ns == [S \in Tree |-> IF S \in Range(batch) THEN Finished(nodes[S]) ELSE nodes[S]]
     IN  \E q \in Merges(ns, batch, queue) : Schedule(ns, q)
  /\ UNCHANGED <<aliases, detected, detection, pc, outstanding, issued, judged>>

Tested   == nodes[batch[1]]
Answered == \E a \in DOMAIN probes : probes[a] = "Active"
Silent   == DOMAIN probes # {} /\ \A a \in DOMAIN probes : probes[a] = "Inactive"
Widen    == Answered /\ Tested.stack # <<>>
IsAlias  == Silent /\ Cardinality(Tested.targets) > MaxNormal
Checked  == [nodes EXCEPT ![batch[1]].aliasChecked = TRUE]

\* Some probe answered: the same test one digit wider.
WidenSuspect ==
  /\ Running /\ phase = "Detecting" /\ Pending = {} /\ Widen
  /\ LET st == Replaced([nodes |-> [nodes EXCEPT ![batch[1]] = Expanded(@)],
                         batch |-> batch, queue |-> queue])
     IN  /\ nodes' = st.nodes /\ batch' = st.batch /\ queue' = st.queue
         /\ StartDetection(st.nodes[st.batch[1]])
  /\ UNCHANGED <<aliases, detected, detection, pc, outstanding, issued, judged>>

\* The node is scanned after all.
ClearSuspect ==
  /\ Running /\ phase = "Detecting" /\ Pending = {} /\ ~Widen /\ ~IsAlias
  /\ nodes' = Checked
  /\ phase' = "Scanning" /\ probes' = NoProbes /\ generation' = NoCursor
  /\ UNCHANGED <<queue, batch, aliases, detected, detection, pc, outstanding, issued, judged>>

Leading(n)  == {p \in Position : \A d \in Dim \ Range(n.stack) : p < d}
Covering(n) == {{b \in Addr : Same(a, b, Leading(n))} : a \in n.targets}

\* The node is an alias, and is put off.
MarkAlias ==
  /\ Running /\ phase = "Detecting" /\ Pending = {} /\ ~Widen /\ IsAlias
  /\ detected' = detected \cup Covering(Tested)
  /\ LET low     == [num |-> 1, den |-> Max({ProbeCount(Tested), 1})]
         behind  == {i \in DOMAIN queue : AtLeast(low, Density(nodes[queue[i]]))}
         at      == Min(behind \cup {Len(queue) + 1})
     IN  Schedule(Checked, InsertAt(queue, at, batch[1]))
  /\ UNCHANGED <<aliases, detection, pc, outstanding, issued, judged>>

Settled == IF phase = "Detecting" THEN Pending # {} ELSE ~RoundDone

-----------------------------------------------------------------------------
(* generate() and apply_feedback().                                         *)

BatchFrontier ==
  IF phase = "Detecting"
    THEN Pending
    ELSE LET B == {nodes[S] : S \in Range(batch)}
         IN  ((UNION {n.targets : n \in B}) \ aliases)
               \ (UNION {n.scanned \cup DOMAIN n.partial : n \in B})

Generate ==
  /\ pc = "idle"
  /\ pc' = "asked"
  /\ UNCHANGED <<mvars, outstanding, issued, judged>>

Emit ==
  /\ pc = "asked" /\ Settled
  /\ LET todo == IF generation.on THEN generation.left ELSE BatchFrontier
     IN  \E n \in Buffers : \E out \in SUBSET todo :
           /\ Cardinality(out) = Min({n, Cardinality(todo)})
           /\ generation' = [on |-> TRUE, left |-> todo \ out]
           /\ outstanding' = outstanding \cup out
           /\ issued' = IF phase = "Scanning" THEN issued \cup out ELSE issued
  /\ pc' = "idle"
  /\ UNCHANGED <<nodes, queue, batch, phase, probes, aliases, detected, detection, judged>>

\* What a node of the batch records of the verdicts v.
Recorded(n, v) == {a \in DOMAIN v : a \in n.targets \ n.scanned}
Noted(n, v) ==
  [n EXCEPT !.partial = [a \in DOMAIN @ \cup Recorded(n, v) |->
              IF a \notin Recorded(n, v) THEN @[a]
              ELSE IF a \in DOMAIN @ THEN Merged(@[a], v[a]) ELSE v[a]],
            !.active = @ \cup {a \in Recorded(n, v) : v[a] = "Active"}]

\* Known aliases count as skipped, whatever was heard of them before.
Excluded(r, C) == [a \in DOMAIN r |-> IF a \in C THEN "Skipped" ELSE r[a]]
Heard(r, v) == [a \in DOMAIN r |-> IF a \notin DOMAIN v THEN r[a]
                                   ELSE IF r[a] = "none" THEN v[a] ELSE Merged(r[a], v[a])]

\* Feedback: the prefixes first, then the verdicts on addresses they leave.
ApplyFeedback ==
  /\ pc = "idle"
  /\ \E C \in Alias \cup {{}}, A \in SUBSET outstanding :
       /\ \/ \E n \in Chunks : Cardinality(A) = Min({n, Cardinality(outstanding)})
          \/ A = {}
       /\ A # {} \/ ~(C \subseteq aliases)
       /\ aliases' = aliases \cup C
       /\ \E verdict \in {f \in [A -> UNION Range(Verdicts)] : \A a \in A : f[a] \in Verdicts[a]} :
            LET v     == [a \in A \ aliases' |-> verdict[a]]
                noted == IF phase = "Detecting"
                           THEN {a \in DOMAIN v \cap DOMAIN probes :
                                   Heard(Excluded(probes, C), v)[a] # Excluded(probes, C)[a]}
                           ELSE UNION {Recorded(nodes[S], v) : S \in Range(batch)}
            IN  /\ probes' = IF phase = "Detecting" THEN Heard(Excluded(probes, C), v) ELSE probes
                /\ nodes' = [S \in Tree |-> IF phase = "Scanning" /\ S \in Range(batch)
                                              THEN Noted(nodes[S], v) ELSE nodes[S]]
                /\ generation' = [generation EXCEPT !.left = @ \ (C \cup noted)]
       /\ judged' = IF phase = "Scanning" THEN judged \cup A ELSE judged
       /\ outstanding' = outstanding \ A
  /\ pc' = "fed"
  /\ UNCHANGED <<queue, batch, phase, detected, detection, issued>>

Return ==
  /\ pc = "fed" /\ Settled
  /\ pc' = "idle"
  /\ UNCHANGED <<mvars, outstanding, issued, judged>>

Leaf(S) == Expanded([NewNode(Stack[S]) EXCEPT !.targets = S])

Depth(S)   == Cardinality({R \in Tree : Below(S, R)})
LeafQueues ==
  {b \in [1..Cardinality(Leaves) -> Leaves] :
     /\ \A S \in Leaves : \E i \in DOMAIN b : b[i] = S
     /\ \A i, j \in DOMAIN b : i < j => Depth(b[i]) <= Depth(b[j])}

Init ==
  /\ \E b \in LeafQueues :
       LET st == Replaced([nodes |-> [S \in Tree |-> IF S \in Leaves THEN Leaf(S) ELSE NewNode(Stack[S])],
                           batch |-> b, queue |-> <<>>])
       IN  nodes = st.nodes /\ batch = st.batch /\ queue = st.queue
  /\ phase = "Scanning" /\ probes = NoProbes /\ generation = NoCursor
  /\ aliases = {} /\ detected = {}
  /\ detection \in Detections
  /\ pc = "idle"
  /\ outstanding = {} /\ issued = {} /\ judged = {}

Next == \/ Generate \/ ApplyFeedback
        \/ FinishRound \/ WidenSuspect \/ ClearSuspect \/ MarkAlias
        \/ Emit \/ Return

Spec == Init /\ [][Next]_vars

-----------------------------------------------------------------------------
(* Properties                                                               *)

Live    == Range(batch) \cup Range(queue)
Seen(n) == n.scanned \cup DOMAIN n.partial

\* Without alias detection no address is generated twice, though the regions
\* of nodes overlap and nodes take the place of others.  The exception is what
\* a node had scanned that left the queue because all that its last digit
\* added were aliases: a parent that a sibling promotes knows nothing of it.
ScannedOnce ==
  [][~detection => \A a \in (outstanding' \ outstanding) \cap issued :
       \E S \in Tree \ Live : ~Alive(nodes[S]) /\ a \in Seen(nodes[S])]_vars

\* A model that waits for feedback waits for the verdict on an address that it
\* has generated: otherwise no verdict ever ends its round, and the scan fails
\* with "model repeatedly requests feedback without targets".
Waiting  == pc = "idle" /\ batch # <<>> /\ generation.on /\ generation.left = {}
Starving == Waiting /\ outstanding \cap (BatchFrontier \ aliases) = {}
NeverStarves == ~Starving
PlainNeverStarves == ~detection => ~Starving

\* An exhausted model has scanned all addresses its digits reach, but those
\* that were reported as aliased.
ExhaustedIsComplete ==
  pc = "idle" /\ batch = <<>> =>
    \A a \in Addr : (\E s \in Seeds : Same(a, s, Position \ Dim)) => a \in judged \cup aliases
=============================================================================
