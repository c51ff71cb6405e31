----------------------------- MODULE EntropyIp -----------------------------
(***************************************************************************)
(* Entropy/IP (tga/src/other/entropy_ip): the nibbles of the seeds are cut *)
(* into segments where their entropy changes, each segment is mined into   *)
(* states, a Bayesian network is learned over the states, and addresses    *)
(* are drawn from it, segment by segment.                                  *)
(*                                                                         *)
(* Entropies and scores are in thousandths of a bit; a draw is one of the  *)
(* equally likely parts of a distribution.  What is sampled is any sample. *)
(***************************************************************************)
EXTENDS Mining
LOCAL INSTANCE FiniteSetsExt

-----------------------------------------------------------------------------
(* Segments.                                                               *)

\* get_nybble_window_value().
Window(a, start, len) == MapThenSumSet(LAMBDA j : a[start + j] * 2^(NibbleBits * (len - 1 - j)), 0..(len - 1))
WindowsOf(addresses, start, len) == [i \in DOMAIN addresses |-> Window(addresses[i], start, len)]

PositionEntropy(addresses, pos, step) ==
  LET t == CountedSeq(WindowsOf(addresses, pos * step, step))
      n == Len(addresses)
  IN  (n * Log2[n] - MapThenSumSet(LAMBDA v : t[v] * Log2[t[v]], DOMAIN t)) \div (n * NibbleBits * step)

Entropies(addresses, c) ==
  [pos \in 0..(c.size \div c.step - 1) |-> PositionEntropy(addresses, pos, c.step)]

\* define_segments(): cut where the entropy crosses a threshold by more than
\* the hysteresis, and at the two fixed positions.
Crosses(e, i, thresholds, hysteresis) ==
  /\ \E t \in thresholds : (e[i - 1] < t) # (e[i] < t)
  /\ e[i] - e[i - 1] > hysteresis \/ e[i - 1] - e[i] > hysteresis
DefineSegments(e, c) ==
  LET cuts == {i \in DOMAIN e \ {0} : /\ i >= c.isp
                                      /\ i \in {c.isp, c.net} \/ Crosses(e, i, c.thresholds, c.hysteresis)}
      starts == Ascending(cuts \cup {0})
  IN  [k \in DOMAIN starts |->
         [start |-> starts[k], end |-> IF k = Len(starts) THEN Cardinality(DOMAIN e) - 1 ELSE starts[k + 1] - 1]]

Width(s) == s.end - s.start + 1
SegmentOf(bound, step, values) ==
  [start |-> bound.start * step, end |-> (bound.end + 1) * step - 1,
   states |-> MineSegmentStates(values, Width(bound) * step * NibbleBits)]

\* mine_training_segments(), for every choice of samples.
RECURSIVE SegmentSamples(_, _, _)
SegmentSamples(addresses, bounds, c) ==
  IF bounds = <<>> THEN {<<>>}
  ELSE LET values == WindowsOf(addresses, Head(bounds).start * c.step, Width(Head(bounds)) * c.step)
       IN  {<<sample>> \o rest : sample \in Samples(values, c.segmentSample),
                                 rest \in SegmentSamples(addresses, Tail(bounds), c)}
MinedSegments(addresses, bounds, c) ==
  {[k \in DOMAIN bounds |-> SegmentOf(bounds[k], c.step, samples[k])] :
     samples \in SegmentSamples(addresses, bounds, c)}

-----------------------------------------------------------------------------
(* Rows: the states of an address, by their indices from 1.                *)

\* A single value before any range.
StatesFor(states, v) ==
  LET exact == {k \in DOMAIN states : states[k] = Single(v)}
      ranges == {k \in DOMAIN states : states[k].lo < states[k].hi /\ states[k].lo <= v /\ v <= states[k].hi}
  IN  IF exact # {} THEN {Max(exact)} ELSE {k \in ranges : \A j \in ranges : k <= j}

\* None for an address with a value of no state.
Encoded(segments, a) ==
  LET of(k) == StatesFor(segments[k].states, Window(a, segments[k].start, Width(segments[k])))
  IN  IF \E k \in DOMAIN segments : of(k) = {} THEN {}
      ELSE {[k \in DOMAIN segments |-> CHOOSE s \in of(k) : TRUE]}
EncodeRows(segments, addresses) ==
  LET kept == SelectSeq(addresses, LAMBDA a : Encoded(segments, a) # {})
  IN  [i \in DOMAIN kept |-> CHOOSE r \in Encoded(segments, kept[i]) : TRUE]

\* sample_bnf_rows(): with replacement, each row once.
RowSamples(rows, size) ==
  IF Len(rows) <= size THEN {rows}
  ELSE {LET order == Ascending(S) IN [k \in DOMAIN order |-> rows[order[k]]] :
          S \in {T \in SUBSET (DOMAIN rows) : T # {} /\ Cardinality(T) <= size}}

\* The states that occur, ascending; a row becomes their indices from 0.
Observed(rows, segments) == [k \in DOMAIN segments |-> Ascending({rows[i][k] : i \in DOMAIN rows})]
IndexOf(seq, x) == (CHOOSE k \in DOMAIN seq : seq[k] = x) - 1
Remapped(rows, values) == [i \in DOMAIN rows |-> [k \in DOMAIN values |-> IndexOf(values[k], rows[i][k])]]

-----------------------------------------------------------------------------
(* The network.                                                            *)

RowsWith(rows, parents, config) == {i \in DOMAIN rows : \A k \in DOMAIN parents : rows[i][parents[k]] = config[k]}
Configs(rows, parents) == {[k \in DOMAIN parents |-> rows[i][parents[k]]] : i \in DOMAIN rows}
Count(rows, parents, config, node, s) ==
  Cardinality({i \in RowsWith(rows, parents, config) : rows[i][node] = s})

LogSum(from, n) == MapThenSumSet(LAMBDA o : Log2[from + o], 0..(n - 1))
StatesOf(rows, node) == {rows[i][node] : i \in DOMAIN rows}

\* graph_penalty(); 585 is the logarithm of 1.5.
GraphPenalty(parents, cards, n) ==
  FoldLeft(LAMBDA sum, p : sum + Max({Log2[cards[p]], 585}), 0, parents) * Log2[n + 1]

\* The negated score of calculate_bde(): the smaller the better.
Cost(rows, node, parents, cards) ==
  GraphPenalty(parents, cards, Len(rows)) +
  1000 * MapThenSumSet(LAMBDA g : LogSum(Max({cards[node], 2}), Cardinality(RowsWith(rows, parents, g)))
                     - MapThenSumSet(LAMBDA s : LogSum(1, Count(rows, parents, g, node, s)), StatesOf(rows, node)),
                       Configs(rows, parents))

\* bnfinder_ordered_parent_candidates(): one state weighs 1.5.
Candidates(node, cards) ==
  SortedBy(1..(node - 1), LAMBDA p : Max({2 * cards[p], 3}) * Len(cards) + p)

\* best_parent_set(): the sets by their penalty; one that costs more than the
\* best score so far ends the search, as no later one can be better.
RECURSIVE Lexicographic(_, _)
Lexicographic(s, t) ==
  \/ s = <<>> /\ t # <<>>
  \/ s # <<>> /\ t # <<>> /\ (Head(s) < Head(t) \/ (Head(s) = Head(t) /\ Lexicographic(Tail(s), Tail(t))))
Cards(parents, cards) == [k \in DOMAIN parents |-> cards[parents[k]]]
PoppedBefore(s, t, cards, n) ==
  LET p == GraphPenalty(s, cards, n)  q == GraphPenalty(t, cards, n)
  IN  \/ p < q
      \/ p = q /\ Lexicographic(Cards(s, cards), Cards(t, cards))
      \/ p = q /\ Cards(s, cards) = Cards(t, cards) /\ Lexicographic(s, t)

RECURSIVE Search(_, _, _, _, _, _)
Search(pending, best, rows, node, cards, max) ==
  IF pending = {} THEN best.parents
  ELSE LET c == CHOOSE s \in pending : \A t \in pending \ {s} : PoppedBefore(s, t, cards, Len(rows))
           order == Candidates(node, cards)
           cost == Cost(rows, node, c, cards)
           longer == IF Len(c) = max THEN {}
                     ELSE {Append(c, order[k]) : k \in (IndexOf(order, c[Len(c)]) + 2)..Len(order)}
       IN  IF GraphPenalty(c, cards, Len(rows)) > best.cost THEN best.parents
           ELSE Search((pending \ {c}) \cup longer,
                       IF cost < best.cost THEN [parents |-> c, cost |-> cost] ELSE best, rows, node, cards, max)

BestParentSet(rows, node, cards, max) ==
  IF max = 0 THEN <<>>
  ELSE Search({<<p>> : p \in 1..(node - 1)}, [parents |-> <<>>, cost |-> Cost(rows, node, <<>>, cards)],
              rows, node, cards, max)

\* calculate_cpt(): every state is counted once more than it occurs, a
\* missing one included; a lone state as if there were two.
Cpt(rows, node, parents, cards) ==
  [g \in Configs(rows, parents) |->
     [counts |-> LET seen == {s \in StatesOf(rows, node) : Count(rows, parents, g, node, s) > 0}
                 IN  [s \in seen |-> Count(rows, parents, g, node, s) + 1],
      total |-> Cardinality(RowsWith(rows, parents, g)) + Max({cards[node], 2})]]

Learn(segments, rows, c) ==
  LET values == Observed(rows, segments)
      coded == Remapped(rows, values)
      cards == [k \in DOMAIN values |-> Len(values[k])]
      parents == [k \in DOMAIN values |-> IF k = 1 THEN <<>> ELSE BestParentSet(coded, k, cards, c.parents)]
  IN  [segments |-> segments, values |-> values, cards |-> cards, parents |-> parents,
       cpts |-> [k \in DOMAIN values |-> Cpt(coded, k, parents[k], cards)]]

\* train(): no model if no row can be encoded, or with rcode if one cannot.
Encodes(segments, addresses, c) ==
  LET n == Len(EncodeRows(segments, addresses)) IN n > 0 /\ (c.rcode => n = Len(addresses))
Train(addresses, c) ==
  UNION {{Learn(segments, rows, c) : rows \in RowSamples(EncodeRows(segments, addresses), c.rowSample)} :
           segments \in {s \in MinedSegments(addresses, DefineSegments(Entropies(addresses, c), c), c) :
                           Encodes(s, addresses, c)}}
=============================================================================
