------------------------------- MODULE SixGen -------------------------------
(***************************************************************************)
(* 6Gen (tga/src/clustering/sixgen): every seed starts a range of          *)
(* addresses; the range that becomes densest by taking in its nearest      *)
(* outside seeds grows, and what it adds to the addresses covered so far   *)
(* becomes targets, until the budget is spent.                             *)
(*                                                                         *)
(* A range is a subspace of Address.  A tie is broken and the last targets *)
(* are drawn at random.  Clusters with the same range are one: each makes  *)
(* the same proposals, and when one grows the other is pruned.             *)
(***************************************************************************)
EXTENDS Address, SequencesExt
LOCAL INSTANCE FiniteSetsExt

Dynamic(domain) == Cardinality(domain) > 1
SeedsIn(seeds, range) == {a \in seeds : SubspaceContains(range, a)}

GrowWithSeed(range, a, mode) ==
  [d \in Dim |-> CASE a[d] \in range[d] -> range[d]
                   [] a[d] \notin range[d] /\ mode = "loose" -> Nibble
                   [] OTHER -> range[d] \cup {a[d]}]

StrictSubsetOf(r, s) == r # s /\ \A d \in Dim : r[d] \subseteq s[d]

\* The pieces split off nibble by nibble; what is left is the overlap.
Piece(r, s, d) == [e \in Dim |-> IF e < d THEN r[e] \cap s[e] ELSE IF e = d THEN r[e] \ s[e] ELSE r[e]]
Subtract(r, s) ==
  IF Intersect(r, s) = {} THEN <<r>>
  ELSE LET dims == Ascending({d \in Dim : r[d] \ s[d] # {}})
       IN  [k \in DOMAIN dims |-> Piece(r, s, dims[k])]

UncoveredFragments(range, fragments) ==
  FoldLeft(LAMBDA pieces, f : FlattenSeq([k \in DOMAIN pieces |-> Subtract(pieces[k], f)]),
           <<range>>, fragments)

TotalSize(fragments) == FoldLeft(LAMBDA n, f : n + SubspaceSize(f), 0, fragments)

-----------------------------------------------------------------------------
(* The trie of the seeds: a node stands for the seeds that agree up to     *)
(* depth; they agree until their next varying nibble, its branch.          *)

Branch(node) ==
  LET varying == {d \in Dim : \E a, b \in node.seeds : a[d] # b[d]}
  IN  IF varying = {} THEN Dims ELSE Min(varying)
Root(seeds) == [seeds |-> seeds, depth |-> 0]
Children(node) ==
  LET b == Branch(node)
  IN  {[seeds |-> {a \in node.seeds : a[b] = v}, depth |-> b + 1] : v \in {a[b] : a \in node.seeds}}
IsLeaf(node) == Branch(node) = Dims

\* Whether the part of a node before its branch is outside the range, and
\* how many fixed nibbles it would free.
Missed(node, range, until) ==
  LET a == CHOOSE x \in node.seeds : TRUE IN {d \in node.depth..(until - 1) : a[d] \notin range[d]}
Freed(missed, range) == Cardinality({d \in missed : ~Dynamic(range[d])})

RECURSIVE CountInRange(_, _)
CountInRange(node, range) ==
  IF Missed(node, range, Branch(node)) # {} THEN 0
  ELSE IF IsLeaf(node) THEN 1
  ELSE MapThenSumSet(LAMBDA n : CountInRange(n, range),
                     {n \in Children(node) : \A a \in n.seeds : a[Branch(node)] \in range[Branch(node)]})

\* nearest_external_seed_indices(): the cheapest state first, until none can
\* do better than the best seed outside the range.
Reach(state, node, missed, range) ==
  [node |-> node, cost |-> state.cost + Freed(missed, range), outside |-> state.outside \/ missed # {}]

RECURSIVE Walk(_, _, _)
Walk(states, best, range) ==
  LET open == {s \in states : s.cost <= best.cost}
  IN  IF open = {} THEN best.seeds
      ELSE LET state == CHOOSE s \in open : \A t \in open : s.cost <= t.cost
               node == state.node
               b == Branch(node)
               here == Reach(state, node, Missed(node, range, b), range)
               next == {Reach(here, n, Missed([n EXCEPT !.depth = b], range, b + 1), range) : n \in Children(node)}
               rest == states \ {state}
           IN  CASE here.cost > best.cost \/ (IsLeaf(node) /\ ~here.outside) -> Walk(rest, best, range)
                 [] here.cost < best.cost /\ IsLeaf(node) /\ here.outside ->
                      Walk(rest, [cost |-> here.cost, seeds |-> node.seeds], range)
                 [] here.cost = best.cost /\ IsLeaf(node) /\ here.outside ->
                      Walk(rest, [best EXCEPT !.seeds = @ \cup node.seeds], range)
                 [] OTHER -> Walk(rest \cup next, best, range)

NearestExternal(seeds, range) ==
  Walk({[node |-> Root(seeds), cost |-> 0, outside |-> FALSE]}, [cost |-> Dims + 1, seeds |-> {}], range)

-----------------------------------------------------------------------------
(* Proposals, by density.                                                  *)

\* compare_ratio(): by the quotients of the continued fractions; the sign of
\* m/n - p/q.
RECURSIVE CompareRatio(_, _, _, _)
CompareRatio(m, n, p, q) ==
  CASE m \div n > p \div q -> 1
    [] m \div n < p \div q -> -1
    [] m % n = 0 /\ p % q = 0 -> 0
    [] m % n = 0 /\ p % q # 0 -> -1
    [] m % n # 0 /\ p % q = 0 -> 1
    [] OTHER -> -CompareRatio(n, m % n, q, p % q)

Proposal(seeds, range) ==
  [range |-> range, count |-> CountInRange(Root(seeds), range), size |-> SubspaceSize(range)]

\* A denser range, then a smaller one, is better.
Better(p, q) ==
  LET density == CompareRatio(p.count, p.size, q.count, q.size)
  IN  density > 0 \/ (density = 0 /\ p.size < q.size)

Best(proposals) == {p \in proposals : ~\E q \in proposals : Better(q, p)}

BestGrowth(seeds, range, mode) ==
  Best({Proposal(seeds, GrowWithSeed(range, a, mode)) : a \in NearestExternal(seeds, range)})

-----------------------------------------------------------------------------
(* Training.                                                               *)

\* The targets with the ranks in S among the fragments.
PointAt(fragments, rank) ==
  LET before(k) == TotalSize(SubSeq(fragments, 1, k - 1))
      k == CHOOSE j \in DOMAIN fragments : before(j) <= rank /\ rank < before(j) + SubspaceSize(fragments[j])
  IN  SubspaceAddressAt(fragments[k], rank - before(k))
Points(fragments, S) == LET order == Ascending(S) IN [k \in DOMAIN order |-> PointAt(fragments, order[k])]

New(seeds, mode, budget) ==
  [seeds |-> seeds, mode |-> mode, budget |-> budget, clusters |-> {FromAddr(a) : a \in seeds},
   fragments |-> LET order == InOrder(seeds) IN [k \in DOMAIN order |-> FromAddr(order[k])],
   blocks |-> <<>>, count |-> 0, done |-> FALSE]

RangeBlocks(fragments) == [k \in DOMAIN fragments |-> [range |-> fragments[k], points |-> <<>>]]

\* admit_growth(): what does not fit the budget is sampled.
AdmitGrowth(g, cluster, p) ==
  LET delta == UncoveredFragments(p.range, g.fragments)
      size == TotalSize(delta)
      grown == (g.clusters \ {cluster}) \cup {p.range}
  IN  IF g.count + size > g.budget
      THEN {[g EXCEPT !.blocks = IF S = {} THEN @ ELSE Append(@, [range |-> <<>>, points |-> Points(delta, S)]),
                      !.count = @ + Cardinality(S), !.done = TRUE] :
              S \in kSubset(g.budget - g.count, 0..(size - 1))}
      ELSE {[g EXCEPT !.clusters = {c \in grown : ~StrictSubsetOf(c, p.range)},
                      !.fragments = @ \o delta, !.blocks = @ \o RangeBlocks(delta), !.count = @ + size,
                      !.done = p.count = Cardinality(g.seeds) \/ g.count + size >= g.budget]}

\* A round of the loop of train().
Train(g) ==
  LET proposals == UNION {{[cluster |-> c, p |-> p] : p \in BestGrowth(g.seeds, c, g.mode)} : c \in g.clusters}
      best == {w \in proposals : ~\E v \in proposals : Better(v.p, w.p)}
  IN  IF g.count >= g.budget \/ best = {} THEN {[g EXCEPT !.done = TRUE]}
      ELSE UNION {AdmitGrowth(g, w.cluster, w.p) : w \in best}

-----------------------------------------------------------------------------
(* Generation.                                                             *)

First(range) == [d \in Dim |-> Min(range[d])]

\* The last nibble that can still count up does; none when the range is over.
Advance(range, a) ==
  LET more == {d \in Dim : \E v \in range[d] : v > a[d]}
      d == Max(more)
  IN  IF more = {} THEN {}
      ELSE {[e \in Dim |-> CASE e < d -> a[e]
                             [] e = d -> Min({v \in range[d] : v > a[d]})
                             [] OTHER -> Min(range[e])]}

\* The cursor is in a block, at a point or at the next address of its range.
Enter(blocks, k) ==
  [block |-> k, point |-> 1,
   at |-> IF k \in DOMAIN blocks /\ blocks[k].points = <<>> THEN {First(blocks[k].range)} ELSE {}]

RECURSIVE NextFrom(_, _)
NextFrom(blocks, c) ==
  IF c.block \notin DOMAIN blocks THEN [cursor |-> c, out |-> {}]
  ELSE LET block == blocks[c.block]
       IN  CASE c.at # {} -> [cursor |-> [c EXCEPT !.at = UNION {Advance(block.range, a) : a \in @}], out |-> c.at]
             [] c.point \in DOMAIN block.points ->
                  [cursor |-> [c EXCEPT !.point = @ + 1], out |-> {block.points[c.point]}]
             [] OTHER -> NextFrom(blocks, Enter(blocks, c.block + 1))

-----------------------------------------------------------------------------
(* Training, then a model in use.                                          *)

Start(g) == [g |-> g, cursor |-> Enter(<<>>, 0), sent |-> {}, again |-> {}, over |-> FALSE]

Steps(run) ==
  IF ~run.g.done
  THEN {[run EXCEPT !.g = g, !.cursor = Enter(g.blocks, 1)] : g \in Train(run.g)}
  ELSE IF run.over THEN {}
  ELSE LET next == NextFrom(run.g.blocks, run.cursor)
       IN  {[run EXCEPT !.cursor = next.cursor, !.over = next.out = {},
                        !.sent = @ \cup next.out, !.again = @ \cup (next.out \cap run.sent)]}
=============================================================================
