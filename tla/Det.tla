--------------------------------- MODULE Det ---------------------------------
(***************************************************************************)
(* DET (tga/src/hierarchical/det): a tree of the seeds, split by entropy,  *)
(* whose leaves scan ever larger patterns; a node that has freed all the   *)
(* dimensions its parent has to free is replaced by its parent.            *)
(***************************************************************************)
EXTENDS Integers, Sequences, FiniteSets, SequencesExt
LOCAL INSTANCE FiniteSetsExt

CONSTANTS
  Dims,      \* dimension_count()
  Base       \* base(): delta_base

Dim == 1..Dims
Digit == 0..(Base - 1)
Wildcard == Base    \* greater than any digit
Vectors == [Dim -> Digit]

Less(p, q) ==
  \E d \in Dim : p[d] < q[d] /\ \A e \in Dim : e < d => p[e] = q[e]
Least(S) == CHOOSE p \in S : \A q \in S \ {p} : Less(p, q)

Matches(p, v) == \A d \in Dim : p[d] \in {Wildcard, v[d]}
Expansion(p) == {v \in Vectors : Matches(p, v)}

-----------------------------------------------------------------------------
(* Training: build_model().  A group is a sequence of vectors.             *)

DigitsAt(group, d) == {group[i][d] : i \in DOMAIN group}
Count(group, d, x) == Cardinality({i \in DOMAIN group : group[i][d] = x})
Varied(group) == {d \in Dim : Cardinality(DigitsAt(group, d)) > 1}

\* The entropies of two dimensions are compared exactly, by the products of
\* count^count; the leftmost of the smallest wins.
EntropyProduct(group, d) ==
  MapThenFoldSet(LAMBDA m, n : m * n, 1, LAMBDA x : Count(group, d, x)^Count(group, d, x),
                 LAMBDA T : CHOOSE x \in T : TRUE, DigitsAt(group, d))

FindSplitDimension(group) ==
  Min({d \in Varied(group) :
         \A e \in Varied(group) : EntropyProduct(group, e) <= EntropyProduct(group, d)})

\* By digit, in the order in which the digits are first seen.
Parts(group, d) ==
  LET first(x) == Min({i \in DOMAIN group : group[i][d] = x})
      order == SetToSortSeq(DigitsAt(group, d), LAMBDA x, y : first(x) < first(y))
  IN  [k \in DOMAIN order |-> SelectSeq(group, LAMBDA v : v[d] = order[k])]

SteadyDimensions(group, stack) ==
  SetToSortSeq(Dim \ (Varied(group) \cup Range(stack)), <)

Node(parent, stack, patterns) ==
  [parent |-> parent, children |-> <<>>, stack |-> stack, patterns |-> patterns,
   scanned |-> {}, skipped |-> {}, hits |-> 0]

\* expand_next_dimension(): the last dimension of the stack is freed.
ExpandNextDimension(n) ==
  IF n.stack = <<>> THEN n
  ELSE [n EXCEPT !.stack = Front(@),
                 !.patterns = {[p EXCEPT ![Last(n.stack)] = Wildcard] : p \in @}]

\* The subtree of a group in preorder, its root numbered id.  The stack of a
\* node: that of its parent, the parent's split, and what is steady here; a
\* leaf adds the dimensions that are left, and its first expansion is made.
RECURSIVE Subtree(_, _, _, _, _), Forest(_, _, _, _, _)
Subtree(id, parent, group, inherited, leaf_max) ==
  LET stack == inherited \o SteadyDimensions(group, inherited)
      left == SetToSortSeq(Dim \ Range(stack), <)
  IN  IF Len(group) <= leaf_max \/ Varied(group) = {}
      THEN <<ExpandNextDimension(Node(parent, stack \o left, Range(group)))>>
      ELSE LET d == FindSplitDimension(group)
               below == Forest(id + 1, id, Parts(group, d), Append(stack, d), leaf_max)
               roots == SelectSeq([k \in DOMAIN below |-> id + k], LAMBDA n : below[n - id].parent = id)
           IN  <<[Node(parent, stack, {}) EXCEPT !.children = roots]>> \o below
Forest(id, parent, groups, inherited, leaf_max) ==
  IF groups = <<>> THEN <<>>
  ELSE LET first == Subtree(id, parent, Head(groups), inherited, leaf_max)
       IN  first \o Forest(id + Len(first), parent, Tail(groups), inherited, leaf_max)

\* initial_leaf_queue(): the leaves, level by level.
RECURSIVE Level(_, _)
Level(nodes, ids) ==
  IF ids = <<>> THEN <<>>
  ELSE LET n == nodes[Head(ids)]
       IN  IF n.children = <<>> THEN <<Head(ids)>> \o Level(nodes, Tail(ids))
           ELSE Level(nodes, Tail(ids) \o n.children)

BuildModel(seeds, leaf_max) ==
  LET sorted == SortSeq(seeds, Less)
      nodes == Subtree(1, 0, sorted, <<>>, leaf_max)
  IN  [nodes |-> nodes, queue |-> <<>>, batch |-> Level(nodes, <<1>>), rounds |-> 0,
       emitted |-> {}, pending |-> <<>>]

-----------------------------------------------------------------------------
(* Generation: the addresses of the batch, node by node and pattern by     *)
(* pattern, that no node of the batch has scanned, each once.              *)

Retired(m, id) == UNION {m.nodes[m.batch[i]].scanned : i \in DOMAIN m.batch}

Fresh(m, id) == UNION {Expansion(p) : p \in m.nodes[id].patterns} \ (Retired(m, id) \cup m.emitted)
FreshNodes(m) == {i \in DOMAIN m.batch : Fresh(m, m.batch[i]) # {}}

NextAddress(m) ==
  LET id == m.batch[Min(FreshNodes(m))]
      p == Least({q \in m.nodes[id].patterns : Expansion(q) \cap Fresh(m, id) # {}})
  IN  Least(Expansion(p) \cap Fresh(m, id))

Terminal(m) == IF m.batch = <<>> THEN "exhausted" ELSE "awaiting feedback"

-----------------------------------------------------------------------------
(* Feedback: finish_batch() with the outcomes of the round.                *)

Probes(n) == Cardinality(n.scanned) - Cardinality(n.skipped)
Denser(m, n) == Probes(m) > 0 /\ m.hits * (IF Probes(n) = 0 THEN 1 ELSE Probes(n))
                                    > (IF Probes(n) = 0 THEN 0 ELSE n.hits) * Probes(m)

Observe(n, outcomes) ==
  LET new == {v \in DOMAIN outcomes \ n.scanned : \E p \in n.patterns : Matches(p, v)}
  IN  [n EXCEPT !.scanned = @ \cup new,
                !.skipped = @ \cup {v \in new : outcomes[v] = "skipped"},
                !.hits = @ + Cardinality({v \in new : outcomes[v] = "active"})]

FullyObserved(n) ==
  MapThenSumSet(LAMBDA p : Cardinality(Expansion(p)), n.patterns) = Cardinality(n.scanned)

\* Stable sorts and merges by density, the denser first.
SortByDensity(nodes, ids) ==
  LET order == SortSeq([i \in DOMAIN ids |-> i],
                       LAMBDA i, j : \/ Denser(nodes[ids[i]], nodes[ids[j]])
                                     \/ ~Denser(nodes[ids[j]], nodes[ids[i]]) /\ i < j)
  IN  [i \in DOMAIN ids |-> ids[order[i]]]

RECURSIVE MergeSorted(_, _, _)
MergeSorted(left, right, nodes) ==
  IF left = <<>> THEN right
  ELSE IF right = <<>> THEN left
  ELSE IF Denser(nodes[Head(right)], nodes[Head(left)])
       THEN <<Head(right)>> \o MergeSorted(left, Tail(right), nodes)
       ELSE <<Head(left)>> \o MergeSorted(Tail(left), right, nodes)

RECURSIVE Below(_, _)
Below(nodes, id) ==
  Range(nodes[id].children) \cup UNION {Below(nodes, c) : c \in Range(nodes[id].children)}

\* retire_children_into_parent(): what the frontier below a promoted node has
\* scanned is its own from now on.
Retire(m, id) ==
  LET below == Below(m.nodes, id) \cap (Range(m.batch) \cup Range(m.queue))
      out(ids) == SelectSeq(ids, LAMBDA c : c \notin Below(m.nodes, id))
  IN  [m EXCEPT !.batch = out(@), !.queue = out(@),
                !.nodes = [k \in DOMAIN @ |->
                             IF k \in below THEN [@[k] EXCEPT !.scanned = {}, !.skipped = {}, !.patterns = {}, !.hits = 0]
                             ELSE IF k # id THEN @[k]
                             ELSE [@[k] EXCEPT !.scanned = @ \cup UNION {m.nodes[c].scanned : c \in below},
                                               !.skipped = @ \cup UNION {m.nodes[c].skipped : c \in below},
                                               !.hits = @ + MapThenSumSet(LAMBDA c : m.nodes[c].hits, below)]]]

\* replace_descendants(): a parent with the stack of a node of the batch takes
\* its patterns; those with no such ancestor take its place.
Promotable(m) ==
  {i \in DOMAIN m.batch :
     LET n == m.nodes[m.batch[i]] IN n.parent # 0 /\ m.nodes[n.parent].stack = n.stack}

ReplaceDescendants(m) ==
  LET parent(i) == m.nodes[m.batch[i]].parent
      ids == {parent(i) : i \in Promotable(m)}
      last(id) == Max({i \in Promotable(m) : parent(i) = id})
      top == {id \in ids : \A a \in ids : id \notin Below(m.nodes, a)}
      taken == [m EXCEPT !.nodes = [k \in DOMAIN @ |->
                   IF k \in ids THEN [@[k] EXCEPT !.patterns = m.nodes[m.batch[last(k)]].patterns]
                   ELSE @[k]]]
      done == FoldSet(LAMBDA id, run : Retire(run, id), taken, top)
  IN  [done EXCEPT !.batch = @ \o SetToSortSeq(top \ Range(@), <)]

\* prepare_next_batch(): a tenth of the queue, rounded up.
PrepareNextBatch(m) ==
  IF m.queue = <<>> THEN [m EXCEPT !.batch = <<>>]
  ELSE LET n == Min({Len(m.queue) \div 10 + 1, Len(m.queue)})
       IN  ReplaceDescendants([m EXCEPT !.batch = SubSeq(m.queue, 1, n),
                                        !.queue = SubSeq(@, n + 1, Len(@))])

Advance(m) ==
  LET kept == SelectSeq(m.batch, LAMBDA id : ~(m.nodes[id].parent = 0 /\ m.nodes[id].stack = <<>>))
      grown == [k \in DOMAIN m.nodes |-> IF k \in Range(kept) THEN ExpandNextDimension(m.nodes[k])
                                         ELSE m.nodes[k]]
      sorted == SortByDensity(grown, kept)
  IN  PrepareNextBatch([m EXCEPT !.nodes = grown, !.batch = sorted, !.rounds = @ + 1,
                          !.queue = IF m.rounds = 0 THEN sorted ELSE MergeSorted(sorted, @, grown)])

FinishBatch(m) ==
  LET seen == [m EXCEPT !.emitted = {}, !.pending = <<>>,
                        !.nodes = [k \in DOMAIN @ |-> IF k \in Range(m.batch)
                                                      THEN Observe(@[k], m.pending) ELSE @[k]]]
  IN  IF \A i \in DOMAIN m.batch : FullyObserved(seen.nodes[m.batch[i]])
      THEN Advance(seen) ELSE seen

-----------------------------------------------------------------------------
(* A model in use: an address is generated and its outcome reported, or    *)
(* the round is completed; "asked" is what earlier rounds have reported.   *)

Train(seeds, leaf_max) == [model |-> BuildModel(seeds, leaf_max), asked |-> {}]

Generate(run) ==
  LET m == run.model
  IN  IF FreshNodes(m) = {} THEN {}
      ELSE LET v == NextAddress(m)
           IN  {[run EXCEPT !.model.emitted = @ \cup {v}, !.model.pending = @ @@ (v :> o)] :
                  o \in {"active", "inactive", "skipped"}}

Complete(run) ==
  IF run.model.batch = <<>> THEN {}
  ELSE {[model |-> FinishBatch(run.model), asked |-> run.asked \cup DOMAIN run.model.pending]}

Steps(run) == Generate(run) \cup Complete(run)
=============================================================================
