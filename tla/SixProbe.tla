------------------------------- MODULE SixProbe -------------------------------
(***************************************************************************)
(* 6Probe (tga/src/hierarchical/six_probe): trees that split the seeds by  *)
(* one nibble after the other, whose leaves are mined for patterns with    *)
(* few free nibbles; the patterns are generated one after the other.       *)
(*                                                                         *)
(* A subspace gives each nibble its value, or Wild.                        *)
(***************************************************************************)
EXTENDS Isolation
LOCAL INSTANCE FiniteSetsExt

CONSTANT MaxWild   \* most free nibbles of a pattern: 4

Wild == 2^NibbleBits

\* compute_subspace(); the dimension of a subspace are its free nibbles.
ComputeSubspace(seeds) ==
  [d \in Dim |-> IF d \in FreeDims(seeds) THEN Wild ELSE seeds[1][d]]
FreeOf(s) == {d \in Dim : s[d] = Wild}
Dimension(s) == Cardinality(FreeOf(s))

-----------------------------------------------------------------------------
(* Splits.                                                                 *)

\* split_at_rank(): the free nibble of this rank, or the last there is.
SplitAtRank(seeds, order, rank) ==
  LET free == SelectSeq(order, LAMBDA d : d \in FreeDims(seeds))
  IN  Buckets(seeds, IF free = <<>> THEN 0
                     ELSE free[Min({Len(free), Max({rank, 1})})])
FromLeft == [k \in 1..Dims |-> k - 1]
FromRight == [k \in 1..Dims |-> Dims - k]

\* A nibble with a single value scores -1.
CoveringScore(seeds, d) ==
  IF d \notin FreeDims(seeds) THEN -1
  ELSE Len(seeds) - Cardinality(Singletons(seeds, d))

MaxCovering(seeds) ==
  LET score(d) == CoveringScore(seeds, d)
      best == Min({d \in Dim : \A e \in Dim : score(e) <= score(d)})
      left == Min(FreeDims(seeds))
  IN  Buckets(seeds, IF FreeDims(seeds) = {} THEN Dims - 1
                     ELSE IF score(best) - score(left) <= best - left THEN left ELSE best)

\* The least varied of the free nibbles, the first of them.
MinEntropy(seeds) ==
  LET count(d) == Cardinality(ValueSet(seeds, d))
      free == FreeDims(seeds)
  IN  Buckets(seeds, IF free = {} THEN 0
                     ELSE Min({d \in free : \A e \in free : count(d) <= count(e)}))

SplitByType(seeds, type) ==
  CASE type = "left" -> SplitAtRank(seeds, FromLeft, 1)
    [] type = "right" -> SplitAtRank(seeds, FromRight, 1)
    [] type = "min entropy" -> MinEntropy(seeds)
    [] type = "max cover" -> MaxCovering(seeds)

\* The rank at each level, of a tree over this many free nibbles; the first
\* is not used.
RandomArrays(dimension) == {f \in [1..dimension -> 1..dimension] : \A k \in 1..dimension : f[k] <= dimension - k + 1}

\* The n-th of the sequential arrays takes the nibbles in order, from the
\* n-th on and around.
SequentialArray_Whole(dimension, n) ==
  LET count == dimension - 1
  IN  [k \in 1..count |-> ((n + k - 1) % count) + 1]
SequentialArray(dimension, n) ==
  LET count == dimension - 1
      chosen == [k \in 1..count |-> (n + k - 1) % count]
      before(k) == {chosen[j] : j \in 1..(k - 1)}
  IN  <<1>> \o [k \in 1..count |-> Cardinality({v \in 0..(chosen[k] - 1) : v \notin before(k)}) + 1]

\* A partition is a type, or an array with the side it counts from.
Covers(partition, level) == partition.type = "scheduled" => level + 1 \in DOMAIN partition.array
SplitAt(partition, seeds, level) ==
  IF partition.type # "scheduled" THEN SplitByType(seeds, partition.type)
  ELSE SplitAtRank(seeds, IF partition.left THEN FromLeft ELSE FromRight, partition.array[level + 1])

-----------------------------------------------------------------------------
(* Mining a leaf.                                                          *)

\* Of rows with the same weight, the first is taken for each.
OutlierRows(seeds) ==
  LET weight == IsolationWeights(seeds)
  IN  {Min({j \in DOMAIN seeds : weight[j] = weight[i]}) : i \in OutliersAmong(weight, DOMAIN seeds)}

NormalSeeds(seeds) ==
  LET rows == Ascending(DOMAIN seeds \ OutlierRows(seeds))
  IN  [k \in DOMAIN rows |-> seeds[rows[k]]]

\* iter_divide(): until a split would leave a seed alone.
RECURSIVE IterDivide(_, _)
IterDivide(stack, regions) ==
  IF stack = <<>> THEN regions
  ELSE LET group == Last(stack)
           splits == MaxCovering(group)
       IN  IF Len(splits) = 1 \/ \E k \in DOMAIN splits : Len(splits[k]) = 1
           THEN IterDivide(Front(stack), Append(regions, group))
           ELSE IterDivide(Front(stack) \o splits, regions)

IsProbeable(dimension, seeds) == dimension < MaxWild \/ seeds >= 3

\* record_region(): a region is seen before it is judged.
RecordRegion(miner, seeds) ==
  LET s == ComputeSubspace(seeds)
  IN  IF Dimension(s) \notin 1..MaxWild \/ s \in miner.regions THEN miner
      ELSE [miner EXCEPT !.regions = @ \cup {s},
                         !.patterns = IF IsProbeable(Dimension(s), Len(seeds)) THEN Append(@, s) ELSE @]

Mine(miner, seeds, s) ==
  IF Len(seeds) = 2
  THEN IF Dimension(s) = 1 THEN [miner EXCEPT !.patterns = Append(@, s)] ELSE miner
  ELSE IF Len(seeds) < 2 \/ Dimension(s) = 0 THEN miner
  ELSE FoldLeft(RecordRegion, miner, IterDivide(<<NormalSeeds(seeds)>>, <<>>))

-----------------------------------------------------------------------------
(* The forest: [nodes, regions, patterns, uncovered]; "uncovered" are the  *)
(* levels asked of an array that has no such level.                        *)

Planted == [nodes |-> {}, regions |-> {}, patterns |-> <<>>, uncovered |-> {}]

RECURSIVE Visit(_, _, _, _, _), VisitAll(_, _, _, _, _)
Visit(forest, seeds, beta, level, partition) ==
  LET s == ComputeSubspace(seeds)
  IN  IF Dimension(s) <= 1 \/ Len(seeds) < beta THEN Mine(forest, seeds, s)
      ELSE IF ~Covers(partition, level) THEN [forest EXCEPT !.uncovered = @ \cup {level}]
      ELSE VisitAll(forest, SplitAt(partition, seeds, level), beta, level + 1, partition)
VisitAll(forest, groups, beta, level, partition) ==
  IF groups = <<>> THEN forest
  ELSE LET s == ComputeSubspace(Head(groups))
           visited == IF Dimension(s) = 0 \/ s \in forest.nodes THEN forest
                      ELSE Visit([forest EXCEPT !.nodes = @ \cup {s}], Head(groups), beta, level, partition)
       IN  VisitAll(visited, Tail(groups), beta, level, partition)

\* build_patterns(): a single tree of a type, or one from the left and then
\* one for each array.
RECURSIVE VisitArrays(_, _, _, _, _)
VisitArrays(forest, seeds, beta, arrays, left) ==
  IF arrays = <<>> THEN forest
  ELSE VisitArrays(Visit(forest, seeds, beta, 1, [type |-> "scheduled", array |-> Head(arrays), left |-> left]),
                   seeds, beta, Tail(arrays), left)

BuildPatterns(seeds, config, arrays) ==
  LET tree(type) == Visit(Planted, seeds, config.beta, 1, [type |-> type])
  IN  IF config.mode = "single tree" THEN tree(config.type)
      ELSE VisitArrays(tree("left"), seeds, config.beta, arrays, config.left)

\* The arrays of a forest of n trees.
Arrays(seeds, n, sequential) ==
  LET dimension == Dimension(ComputeSubspace(seeds))
  IN  IF dimension = 0 THEN {<<>>}
      ELSE IF sequential
      THEN {[k \in 1..n |-> IF dimension = 1 THEN <<1>> ELSE SequentialArray(dimension, (k - 1) % (dimension - 1))]}
      ELSE [1..n -> RandomArrays(dimension)]

\* finalize_patterns(): a forest's, each once, at its first place.
FinalizePatterns(mode, patterns) ==
  IF mode = "single tree" THEN patterns
  ELSE FoldLeft(LAMBDA kept, p : IF p \in Range(kept) THEN kept ELSE Append(kept, p), <<>>, patterns)

-----------------------------------------------------------------------------
(* Generation.                                                             *)

\* from_subspace() refuses a pattern with more free nibbles.
ValidPattern(s) == Dimension(s) <= MaxWild

\* The last free nibble counts fastest.
PatternAddress(s, n) ==
  [d \in Dim |-> IF s[d] # Wild THEN s[d]
                 ELSE (n \div 2^(NibbleBits * Cardinality({e \in FreeOf(s) : e > d}))) % 2^NibbleBits]
PatternCount(s) == 2^(NibbleBits * Dimension(s))

Enumerated(s) == [k \in 1..PatternCount(s) |-> PatternAddress(s, k - 1)]

\* What the model generates in all, without known aliases.
Generated(patterns, aliased) ==
  SelectSeq(FlattenSeq([k \in DOMAIN patterns |-> Enumerated(patterns[k])]), LAMBDA a : a \notin aliased)
=============================================================================
