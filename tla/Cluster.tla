------------------------------- MODULE Cluster -------------------------------
(***************************************************************************)
(* Divisive hierarchical clustering (tga/src/cluster.rs): a queue of       *)
(* groups of seeds, each split by the values of one nibble until it is     *)
(* small, deep, or all alike.                                              *)
(***************************************************************************)
EXTENDS Address, SequencesExt
LOCAL INSTANCE FiniteSetsExt

\* A run is [seeds, config, queue, regions]; a group is a sequence of indices
\* of seeds, at a depth.
Start(seeds, config) ==
  [seeds |-> seeds, config |-> config, regions |-> <<>>,
   queue |-> <<[indices |-> [i \in 1..Len(seeds) |-> i], depth |-> 0]>>]

\* How the callers configure it: min_region_size, max_depth (-1 is none),
\* strategy, stop_exclusive, use_lifo.
ShouldStop(c, n) == IF c.exclusive THEN n < c.min ELSE n <= c.min

Values(seeds, group, dim) == {seeds[group[i]][dim] : i \in DOMAIN group}
CountOf(seeds, group, dim, v) == Cardinality({i \in DOMAIN group : seeds[group[i]][dim] = v})
Varies(seeds, group) == {d \in Dim : Cardinality(Values(seeds, group, d)) > 1}

\* Entropies compare as the products of c^c over the counts c compare the
\* other way around.  Counts are summed in the order of a hash map, so which
\* of two equal entropies is the smaller is left open.
Purity(seeds, group, d) ==
  MapThenFoldSet(LAMBDA m, n : m * n, 1,
                 LAMBDA v : CountOf(seeds, group, d, v)^CountOf(seeds, group, d, v),
                 LAMBDA T : CHOOSE v \in T : TRUE, Values(seeds, group, d))

MinEntropy(seeds, group) ==
  LET S == Varies(seeds, group)
  IN  {d \in S : \A e \in S : Purity(seeds, group, e) <= Purity(seeds, group, d)}

\* The seeds that share their value with another.
Covering(seeds, group, d) ==
  MapThenSumSet(LAMBDA v : IF CountOf(seeds, group, d, v) = 1 THEN 0
                           ELSE CountOf(seeds, group, d, v), Values(seeds, group, d))

\* The first of the best nibbles, unless the gain over the leftmost is no
\* more than the distance from it.
MaxCoverage(seeds, group) ==
  LET S == Varies(seeds, group)
      cover(d) == Covering(seeds, group, d)
      left == Min(S)
      best == Min({d \in S : \A e \in S : cover(e) <= cover(d)})
  IN  IF S = {} THEN {}
      ELSE {IF cover(best) - cover(left) <= best - left THEN left ELSE best}

MaxSeparation(seeds, group) ==
  LET S == Varies(seeds, group)
      values(d) == Cardinality(Values(seeds, group, d))
      most == {d \in S : \A e \in S : values(e) <= values(d)}
  IN  IF S = {} THEN {} ELSE {Min(most)}

SplitDims(strategy, seeds, group) ==
  LET S == Varies(seeds, group)
  IN  CASE S = {} -> {}
        [] S # {} /\ strategy = "leftmost" -> {Min(S)}
        [] S # {} /\ strategy = "rightmost" -> {Max(S)}
        [] S # {} /\ strategy = "min entropy" -> MinEntropy(seeds, group)
        [] S # {} /\ strategy = "max coverage" -> MaxCoverage(seeds, group)
        [] S # {} /\ strategy = "max separation" -> MaxSeparation(seeds, group)

\* The groups by value, in the order of the values, each in the order of the
\* indices.
Groups(seeds, group, d) ==
  LET with(v) == SelectSeq(group, LAMBDA i : seeds[i][d] = v)
  IN  [k \in 1..Cardinality(Values(seeds, group, d)) |-> with(Nth(Values(seeds, group, d), k - 1))]

Next(run) == IF run.config.lifo THEN run.queue[Len(run.queue)] ELSE run.queue[1]
Rest(run) == IF run.config.lifo THEN SubSeq(run.queue, 1, Len(run.queue) - 1) ELSE Tail(run.queue)

Emit(run, group) ==
  [run EXCEPT !.queue = Rest(run),
              !.regions = Append(@, [i \in DOMAIN group |-> run.seeds[group[i]]])]

Split(run, g, d) ==
  LET parts == Groups(run.seeds, g.indices, d)
  IN  [run EXCEPT !.queue = Rest(run) \o [k \in DOMAIN parts |->
                                            [indices |-> parts[k], depth |-> g.depth + 1]]]

\* One round of the loop; none when the queue is empty.
Deep(run, g) == run.config.depth >= 0 /\ g.depth >= run.config.depth

Steps(run) ==
  IF run.queue = <<>> THEN {}
  ELSE LET g == Next(run)
           dims == SplitDims(run.config.strategy, run.seeds, g.indices)
       IN  IF ShouldStop(run.config, Len(g.indices)) \/ Deep(run, g) \/ dims = {}
           THEN {Emit(run, g.indices)}
           ELSE {Split(run, g, d) : d \in dims}

\* regions_to_clusters(): nothing for an empty region.
Clusters(run) ==
  LET some == SelectSeq(run.regions, LAMBDA r : r # <<>>)
  IN  [i \in DOMAIN some |-> [pattern |-> PatternOf(some[i]), seed_count |-> Len(some[i])]]
=============================================================================
