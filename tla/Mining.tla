------------------------------ MODULE Mining ------------------------------
(***************************************************************************)
(* Segment mining of Entropy/IP (tga/src/other/entropy_ip/mining.rs and    *)
(* stats.rs): the values of a segment of the seeds become states, single   *)
(* values and ranges, by frequency, by density and by histogram.           *)
(*                                                                         *)
(* A table gives each value its count; n is the number of values.          *)
(* Percentages and quartiles are compared after clearing denominators.     *)
(* A table keeps no order of its values: where find_frequency_outliers()   *)
(* leaves the rest in the order of the counts, states of values that tie   *)
(* may come in another order here.                                         *)
(***************************************************************************)
EXTENDS Argsort
LOCAL INSTANCE FiniteSetsExt

\* 1000 log2 of 1..16.
Log2 == <<0, 1000, 1585, 2000, 2322, 2585, 2807, 3000, 3170, 3322, 3459, 3585, 3700, 3807, 3907, 4000>>

CountedSeq(values) == [v \in {values[i] : i \in DOMAIN values} |->
                         Cardinality({i \in DOMAIN values : values[i] = v})]
Total(t) == MapThenSumSet(LAMBDA v : t[v], DOMAIN t)
Only(t, S) == [v \in S |-> t[v]]
Without(t, S) == Only(t, DOMAIN t \ S)
Counts(t) == LET order == Ascending(DOMAIN t) IN [k \in DOMAIN order |-> t[order[k]]]

\* The values by descending count.
ByCount(t) ==
  LET values == Ascending(DOMAIN t)
      at(order) == [k \in DOMAIN order |-> values[order[k]]]
  IN  at(Reverse(NumpyArgsort(Counts(t))))

\* Four times the q-th quartile of the counts, interpolated.
Quartile4(t, q) ==
  LET interpolated(sorted, rank) ==
        sorted[(rank \div 4) + 1] * (4 - (rank % 4))
        + (IF rank % 4 = 0 THEN 0 ELSE sorted[(rank \div 4) + 2] * (rank % 4))
  IN  interpolated(SortSeq(Counts(t), <), q * (Cardinality(DOMAIN t) - 1))

-----------------------------------------------------------------------------
(* DBSCAN.                                                                 *)

\* The definition: points with min neighbours, themselves included, are core;
\* core points that are near are of one cluster; the clusters come in
\* the order of their first core points; any other point is of the first
\* cluster it is near.
CorePoints(points, near, min) ==
  {i \in points : Cardinality({j \in points : <<i, j>> \in near}) >= min}
RECURSIVE Closure(_, _, _)
Closure(S, core, near) ==
  LET more == {j \in core : \E i \in S : <<i, j>> \in near}
  IN  IF more \subseteq S THEN S ELSE Closure(S \cup more, core, near)
Dbscan(points, near, min) ==
  LET core == CorePoints(points, near, min)
      clusters == SortedBy({Closure({i}, core, near) : i \in core}, Min)
      by(i) == {k \in DOMAIN clusters : \E j \in clusters[k] : <<i, j>> \in near}
  IN  [k \in DOMAIN clusters |-> {i \in points : by(i) # {} /\ Min(by(i)) = k}]

\* dbscan_1d(): over the sorted values.  Components are runs of core points
\* without a gap; a point looks at the nearest core point on either side.
Gap(values, i, j) == values[i] - values[j]
Sorted1d(values) == SortedBy(DOMAIN values, LAMBDA i : values[i] * (Len(values) + 1) + i)
Core1d(values, order, eps, min) ==
  {p \in DOMAIN order :
     Cardinality({q \in DOMAIN order : Gap(values, order[Max({p, q})], order[Min({p, q})]) <= eps}) >= min}
ComponentStarts(values, order, core, eps) ==
  {p \in core : \A q \in core : q < p => Gap(values, order[p], order[Max({r \in core : r < p})]) > eps}

Dbscan1d_Left(values, eps, min) ==
  LET order == Sorted1d(values)
      core == Core1d(values, order, eps, min)
      starts == ComponentStarts(values, order, core, eps)
      startOf(p) == Max({s \in starts : s <= p})
      first(s) == Min({order[p] : p \in {q \in core : startOf(q) = s}})
      label(p) == Cardinality({s \in starts : first(s) < first(startOf(p))})
      nearest(p) == {q \in core : q <= p /\ \A r \in core : r <= p => r <= q}
      labels(p) == {label(q) : q \in {r \in nearest(p) : Gap(values, order[Max({p, r})], order[Min({p, r})]) <= eps}}
  IN  [k \in 1..Cardinality(starts) |-> {order[p] : p \in {q \in DOMAIN order : labels(q) # {} /\ Min(labels(q)) = k - 1}}]
Dbscan1d(values, eps, min) ==
  LET order == Sorted1d(values)
      core == Core1d(values, order, eps, min)
      starts == ComponentStarts(values, order, core, eps)
      startOf(p) == Max({s \in starts : s <= p})
      first(s) == Min({order[p] : p \in {q \in core : startOf(q) = s}})
      label(p) == Cardinality({s \in starts : first(s) < first(startOf(p))})
      nearest(p) == {q \in core : \/ q <= p /\ \A r \in core : r <= p => r <= q
                                  \/ p <= q /\ \A r \in core : p <= r => q <= r}
      labels(p) == {label(q) : q \in {r \in nearest(p) : Gap(values, order[Max({p, r})], order[Min({p, r})]) <= eps}}
  IN  [k \in 1..Cardinality(starts) |-> {order[p] : p \in {q \in DOMAIN order : labels(q) # {} /\ Min(labels(q)) = k - 1}}]

-----------------------------------------------------------------------------
(* States: a single value is a range of one.                               *)

Single(v) == [lo |-> v, hi |-> v]
Significant(t, v, n) == 20000 * t[v] >= n
Singles(values, t, n) ==
  LET kept == SelectSeq(values, LAMBDA v : Significant(t, v, n))
  IN  [k \in DOMAIN kept |-> Single(kept[k])]

\* emit_as_states(): the heaviest on their own, the rest one by one if they
\* are few, as a range if they are many.
Heavy(t, n) ==
  IF Cardinality(DOMAIN t) <= 4 THEN {}
  ELSE {v \in DOMAIN t : 10 * t[v] > n \/ (4 * t[v] > Quartile4(t, 3) /\ 50 * t[v] > n)}
Others(rest, n) ==
  CASE 2000 * Total(rest) < n -> <<>>
    [] 2000 * Total(rest) >= n /\ Cardinality(DOMAIN rest) < 5 -> Singles(ByCount(rest), rest, n)
    [] OTHER -> <<[lo |-> Min(DOMAIN rest), hi |-> Max(DOMAIN rest)]>>
EmitApart(t, heavy, n) == Singles(ByCount(Only(t, heavy)), t, n) \o Others(Without(t, heavy), n)
EmitAsStates(t, n) == EmitApart(t, Heavy(t, n), n)

\* find_frequency_outliers(): too many of them are cut at the tenth count.
TenHighest(t, outliers) ==
  LET values == ByCount(t)
      atLeast == {v \in DOMAIN t : t[v] >= Max({t[values[10]], 2})}
  IN  CASE Cardinality(outliers) <= 10 -> outliers
        [] Cardinality(outliers) > 10 /\ Cardinality(atLeast) <= 10 -> atLeast
        [] OTHER -> {values[k] : k \in 1..10}
FrequencyOutliers(t, n, bits) ==
  LET above == {v \in DOMAIN t :
                  \/ 10 * t[v] > n
                  \/ 8 * t[v] > 5 * Quartile4(t, 3) - 3 * Quartile4(t, 1) /\ t[v] * 2^bits > n}
  IN  IF Cardinality(DOMAIN t) <= 10 THEN {v \in DOMAIN t : t[v] > Max({2, n \div 1000})}
      ELSE TenHighest(t, above)

\* A pass over the table: the states it emitted and what it left.
Emitted(pass, states, taken) == [states |-> pass.states \o states, left |-> Without(pass.left, taken)]

\* mine_dense_clusters().
DenseClusters(t, bits, n, states) ==
  LET values == Ascending(DOMAIN t)
      clusters == Dbscan1d(values, (bits \div 4) * (bits \div 4) * (bits \div 4), 5)
      dense(S) == /\ 1000 * Total(Only(t, S)) >= n
                  /\ \/ Max(S) = Min(S)
                     \/ Total(Only(t, S)) * (2^bits - 1) >= 100 * (Max(S) - Min(S)) * Total(t)
      kept == SelectSeq([k \in DOMAIN clusters |-> {values[i] : i \in clusters[k]}], dense)
  IN  IF bits < 8 THEN [states |-> states, left |-> t]
      ELSE FoldLeft(LAMBDA pass, S : Emitted(pass, EmitAsStates(Only(t, S), n), S), [states |-> states, left |-> t], kept)

\* Regions of the histogram of 256 bins, in 256ths: similar bins are near.
Bins == 256
BinOf(t, v) == Min({((v - Min(DOMAIN t)) * Bins) \div Max({1, Max(DOMAIN t) - Min(DOMAIN t)}), Bins - 1})
BinStart(t, b) == Min(DOMAIN t) * Bins + b * Max({1, Max(DOMAIN t) - Min(DOMAIN t)})
Frequency(t, b) == MapThenSumSet(LAMBDA v : t[v], {v \in DOMAIN t : BinOf(t, v) = b})
CustomNear(t, b, c) ==
  LET p == Log2[Frequency(t, b)]  q == Log2[Frequency(t, c)]
      far == IF p > q THEN p - q ELSE q - p
  IN  925 * (IF b > c THEN b - c ELSE c - b) + 50 * far <= 18502   \* 1000 log2 of 13 = 3700

HistogramRegions(t, n) ==
  LET used == {BinOf(t, v) : v \in DOMAIN t}
      clusters == Dbscan(used, {<<b, c>> \in used \X used : CustomNear(t, b, c)}, 5)
      sum(S) == MapThenSumSet(LAMBDA b : Frequency(t, b), S)
      kept == {S \in Range(clusters) : Cardinality(S) >= 5 /\ 10 * sum(S) >= n}
      regions(sorted) ==
        [k \in DOMAIN sorted |-> [start |-> BinStart(t, Min(sorted[k])), stop |-> BinStart(t, Max(sorted[k]) + 1),
                                  sum |-> sum(sorted[k]), bins |-> Cardinality(sorted[k])]]
  IN  IF Cardinality(used) <= 1 THEN <<>> ELSE regions(SortedBy(kept, Min))

\* Of two regions that overlap the denser keeps the overlap.
RECURSIVE ResolveOverlaps(_, _)
ResolveOverlaps(regions, i) ==
  IF i >= Len(regions) THEN regions
  ELSE LET cur == regions[i]  next == regions[i + 1]
           denser == next.sum * cur.bins > cur.sum * next.bins
           cut == [regions EXCEPT ![i].stop = next.start]
       IN  ResolveOverlaps(
             CASE next.start >= cur.stop -> regions
               [] next.start < cur.stop /\ ~denser -> [regions EXCEPT ![i + 1].start = cur.stop]
               [] next.start < cur.stop /\ denser /\ cur.stop <= next.stop -> cut
               [] OTHER -> InsertAt(cut, i + 2, [cur EXCEPT !.start = next.stop]), i + 1)

\* mine_histogram_clusters(): a region is given up once it emitted a state.
EmittedInside(pass, states, inside) == Emitted(pass, states, IF states = <<>> THEN {} ELSE inside)
Region(pass, r, n) ==
  LET inside == {v \in DOMAIN pass.left : r.start <= v * Bins /\ v * Bins <= r.stop}
  IN  EmittedInside(pass, EmitAsStates(Only(pass.left, inside), n), inside)
HistogramClusters(pass, bits, n) ==
  IF bits < 8 \/ Cardinality(DOMAIN pass.left) <= 1 THEN pass
  ELSE FoldLeft(LAMBDA p, r : Region(p, r, n), pass, ResolveOverlaps(HistogramRegions(pass.left, n), 1))

\* mine_segment_states(), of the values sampled: the outliers, then the rest.
Leftover(pass, n) == pass.states \o EmitAsStates(pass.left, n)
MineRest(found, rest, n, bits) ==
  CASE 1000 * Total(rest) < n -> found
    [] 1000 * Total(rest) >= n /\ Cardinality(DOMAIN rest) < 5 -> found \o Singles(ByCount(rest), rest, n)
    [] OTHER -> Leftover(HistogramClusters(DenseClusters(rest, bits, n, found), bits, n), n)
MineTable(t, outliers, n, bits) ==
  MineRest(Singles(ByCount(Only(t, outliers)), t, n), Without(t, outliers), n, bits)
MineSegmentStates(values, bits) ==
  MineTable(CountedSeq(values), FrequencyOutliers(CountedSeq(values), Len(values), bits), Len(values), bits)

\* A larger table is sampled with replacement.
Samples(values, size) ==
  IF Len(values) <= size THEN {values} ELSE [1..size -> {values[i] : i \in DOMAIN values}]
=============================================================================
