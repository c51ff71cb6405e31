------------------------------ MODULE SixForest ------------------------------
(***************************************************************************)
(* 6Forest (tga/src/hierarchical/sixforest): the seeds are partitioned     *)
(* into regions, rid of outliers, and the regions sampled before they are  *)
(* generated in the order of their hit rates.                              *)
(*                                                                         *)
(* A random draw is a choice; a sampler is one of the permutations         *)
(* RegionSampler::new() may make.                                          *)
(***************************************************************************)
EXTENDS Isolation
LOCAL INSTANCE FiniteSetsExt

CONSTANT SmallFree   \* free nibbles of the largest region that is not sampled: 3

-----------------------------------------------------------------------------
(* Training.                                                               *)

\* split_dimension(): the seeds that share their value, the leftmost of the
\* largest; not every dimension has a score.
Coverage(group, d) == Len(group) - Cardinality(Singletons(group, d))
ChooseDimension(group) ==
  Min({d \in FreeDims(group) : \A e \in FreeDims(group) : Coverage(group, e) <= Coverage(group, d)})

\* The groups wait in a queue; one that is small or all alike is a region.
RECURSIVE PartitionFrom(_, _, _)
PartitionFrom(queue, leaves, min) ==
  IF queue = <<>> THEN leaves
  ELSE LET group == Head(queue)
       IN  IF Len(group) < min \/ FreeDims(group) = {}
           THEN PartitionFrom(Tail(queue), Append(leaves, group), min)
           ELSE PartitionFrom(Tail(queue) \o Buckets(group, ChooseDimension(group)), leaves, min)
Partition(addresses, min) == PartitionFrom(<<addresses>>, <<>>, min)

NormalRows(group) ==
  LET out == OutliersAmong(IsolationWeights(group), DOMAIN group)
      rows == Ascending(DOMAIN group \ out)
  IN  [k \in DOMAIN rows |-> group[rows[k]]]

\* from_addresses(): a nibble with a free bit is free.
Region(group) ==
  LET p == ExpandToNibbleBoundaries(PatternOf(group))
  IN  [base |-> p.address, free |-> WildcardNibbles(p), count |-> Len(group)]

\* The first free nibble is the lowest digit of the offset.
AddressAtOffset(r, offset) ==
  [d \in Dim |-> IF d \in r.free
                 THEN (offset \div 2^(NibbleBits * Cardinality({e \in r.free : e < d}))) % 2^NibbleBits
                 ELSE r.base[d]]
Span(r) == 2^(NibbleBits * Cardinality(r.free))
RegionAddresses(r) == {AddressAtOffset(r, k) : k \in 0..(Span(r) - 1)}
NeedsPrescan(r) == Cardinality(r.free) > SmallFree

\* TryFrom<StoredRegion>: the increasing order of the nibbles is that of a set.
ValidRegion(r) == r.free \subseteq Dim /\ \A d \in r.free : r.base[d] = 0

Mined(seeds, min) ==
  LET sorted == InOrder(seeds)
      groups == Partition(sorted, min)
  IN  [i \in DOMAIN groups |-> Region(NormalRows(groups[i]))]

-----------------------------------------------------------------------------
(* Draws from a region.                                                    *)

\* An odd multiplier and an offset, within the domain of the region.
Samplers(r) ==
  {s \in [mult : 0..(Span(r) - 1), offset : 0..(Span(r) - 1)] :
     IF Span(r) = 1 THEN TRUE ELSE s.mult % 2 = 1}
SamplerDraw(s, attempt, span) == (attempt * s.mult + s.offset) % span

\* What a call yields: at most one address, and the state it returns.
Outcome(m, out) == [m |-> m, out |-> out, state |-> "ready"]
Ended(m, state) == [m |-> m, out |-> {}, state |-> state]
Only(S) == CHOOSE a \in S : TRUE

\* next_address(): the first draw that is not excluded; the region is done
\* with the last attempt of its span.
Left(m, i) ==
  LET r == m.regions[i]
  IN  {k \in m.attempts[i]..(Span(r) - 1) :
         AddressAtOffset(r, SamplerDraw(m.samplers[i], k, Span(r))) \notin m.excluded}

DrawRegion(m, i) ==
  LET r == m.regions[i]
      k == Min(Left(m, i))
  IN  IF i \in m.exhausted \/ Left(m, i) = {}
      THEN {Outcome([m EXCEPT !.exhausted = @ \cup {i}], {})}
      ELSE {Outcome([m EXCEPT !.attempts[i] = k + 1,
                              !.exhausted = IF k + 1 = Span(r) THEN @ \cup {i} ELSE @],
                    {AddressAtOffset(r, SamplerDraw(m.samplers[i], k, Span(r)))})}

\* sample_region(): an address that is neither a seed nor was sampled before.
SampleRegion_Again(m, i) ==
  {Outcome(m, {a}) : a \in RegionAddresses(m.regions[i]) \ m.excluded}
SampleRegion(m, i) ==
  LET fresh == RegionAddresses(m.regions[i]) \ m.excluded
  IN  IF i \in m.exhausted \/ fresh = {}
      THEN {Outcome([m EXCEPT !.exhausted = @ \cup {i}], {})}
      ELSE {Outcome([m EXCEPT !.excluded = @ \cup {a}], {a}) : a \in fresh}


\* A region that lies within the prefix is done.
ExcludePrefix(m, p) ==
  [m EXCEPT !.exhausted = @ \cup
     {i \in DOMAIN m.regions : /\ PrefixContains(p, m.regions[i].base)
                               /\ \A d \in m.regions[i].free : d * NibbleBits >= p.len}]

-----------------------------------------------------------------------------
(* Prescanning.                                                            *)

\* A trained model; the order of the regions is shuffled.
Trained(seeds, min, samples) ==
  LET regions == Mined(seeds, min)
      n == DOMAIN regions
  IN  {[regions |-> regions, excluded |-> seeds, online |-> samples > 0,
        attempts |-> [i \in n |-> 0], exhausted |-> {}, samplers |-> s, order |-> o, cursor |-> 0,
        quotas |-> [i \in n |-> IF NeedsPrescan(regions[i]) THEN samples
                                ELSE 2^(NibbleBits * SmallFree)],
        hits |-> [i \in n |-> 0], trials |-> [i \in n |-> 0], pending |-> <<>>,
        aliases |-> {}, phase |-> "sampling", started |-> FALSE, limit |-> samples] :
          s \in {f \in [n -> UNION {Samplers(regions[i]) : i \in n}] :
                   \A i \in n : f[i] \in Samplers(regions[i])},
          o \in SetToSeqs(n)}

\* set_budget(): one in a hundred, divided among the regions to be sampled.
SetBudget(m, budget) ==
  LET large == SelectSeq(m.order, LAMBDA i : NeedsPrescan(m.regions[i]))
      allowance == Max({budget - 1, 0}) \div 100
      share(k) == allowance \div Len(large) + IF k <= allowance % Len(large) THEN 1 ELSE 0
  IN  IF m.started \/ large = <<>> THEN m
      ELSE [m EXCEPT !.quotas = [i \in DOMAIN @ |->
              IF i \in Range(large) THEN Min({m.limit, share(CHOOSE k \in DOMAIN large : large[k] = i)})
              ELSE @[i]]]

\* By hit rate, the higher first, otherwise as before.
Rank(m) ==
  LET rate(i, j) == m.hits[i] * Max({m.trials[j], 1})
      position == SortSeq([k \in DOMAIN m.order |-> k],
                    LAMBDA k, l : LET i == m.order[k]
                                      j == m.order[l]
                                  IN  rate(i, j) > rate(j, i) \/ (rate(i, j) = rate(j, i) /\ k < l))
  IN  [m EXCEPT !.order = [k \in DOMAIN @ |-> m.order[position[k]]],
                !.phase = "ranked", !.cursor = 0]

Sampling(m) == m.phase = "sampling"
AtEnd(m) == m.cursor = Len(m.order)
NextRegion(m) == [m EXCEPT !.cursor = @ + 1]

\* The candidate of a region: outside of known aliases, and, when sampling,
\* counted and awaiting its outcome.
Accepted(m, i, a) ==
  IF \E p \in m.aliases : PrefixContains(p, a) THEN Outcome(m, {})
  ELSE IF ~Sampling(m) THEN Outcome(m, {a})
  ELSE Outcome([m EXCEPT !.quotas[i] = @ - 1,
                         !.pending = IF NeedsPrescan(m.regions[i]) THEN @ @@ (a :> i) ELSE @], {a})

FromRegion(m, i) ==
  IF Sampling(m) /\ m.quotas[i] = 0 THEN {Outcome(NextRegion(m), {})}
  ELSE {IF c.out = {} THEN [c EXCEPT !.m = NextRegion(@)] ELSE Accepted(c.m, i, Only(c.out)) :
          c \in IF Sampling(m) /\ NeedsPrescan(m.regions[i])
                THEN SampleRegion(m, i) ELSE DrawRegion(m, i)}

\* A round of the loop of generate().
Iterate(m) ==
  IF ~AtEnd(m) THEN FromRegion(m, m.order[m.cursor + 1])
  ELSE IF Sampling(m) /\ m.pending # <<>> THEN {Ended(m, "awaiting feedback")}
  ELSE IF Sampling(m) THEN {Outcome(Rank(m), {})}
  ELSE {Ended(m, "exhausted")}

\* Without samples the regions take turns.
StreamNext(m) ==
  IF m.order = <<>> THEN {Ended(m, "exhausted")}
  ELSE LET i == Head(m.order)
       IN  {[c EXCEPT !.m.order = IF c.out = {} THEN Tail(@) ELSE Append(Tail(@), i)] :
              c \in DrawRegion(m, i)}

Generate(m) ==
  IF m.online THEN Iterate([m EXCEPT !.started = TRUE]) ELSE StreamNext(m)

-----------------------------------------------------------------------------
(* Feedback.                                                               *)

Without(pending, S) == [a \in DOMAIN pending \ S |-> pending[a]]

Counted(m, a, hit) ==
  IF a \notin DOMAIN m.pending THEN m
  ELSE LET i == m.pending[a]
       IN  [m EXCEPT !.trials[i] = @ + 1, !.hits[i] = @ + IF hit THEN 1 ELSE 0,
                     !.pending = Without(@, {a})]

\* A skipped sample is drawn again.
Skipped(m, a) ==
  IF a \notin DOMAIN m.pending THEN m
  ELSE [m EXCEPT !.quotas[m.pending[a]] = @ + 1, !.pending = Without(@, {a}), !.cursor = 0]

Aliased(m, p) ==
  [ExcludePrefix(m, p) EXCEPT !.aliases = @ \cup {p},
     !.pending = Without(@, {a \in DOMAIN @ : PrefixContains(p, a)})]

\* What has no outcome by the end of a batch was tried without success.
BatchComplete(m) ==
  [m EXCEPT !.trials = [i \in DOMAIN @ |-> @[i] + Cardinality({a \in DOMAIN m.pending : m.pending[a] = i})],
            !.pending = <<>>]

-----------------------------------------------------------------------------
(* LegacyPrescan::migrate(): a model whose samples came from the samplers. *)

Legacy(m, i, n) ==
  LET drawn == {AddressAtOffset(m.regions[i], SamplerDraw(m.samplers[i], k, Span(m.regions[i]))) : k \in 0..(n - 1)}
      kept == drawn \ m.excluded
  IN  [m EXCEPT !.attempts[i] = n, !.quotas[i] = @ - Cardinality(kept),
                !.pending = [a \in kept |-> i]]

Migrate(m) ==
  LET large == {i \in DOMAIN m.regions : NeedsPrescan(m.regions[i])}
      drawn(i) == {AddressAtOffset(m.regions[i], SamplerDraw(m.samplers[i], k, Span(m.regions[i]))) :
                     k \in 0..(m.attempts[i] - 1)}
  IN  [m EXCEPT !.started = m.phase = "ranked" \/ \E i \in DOMAIN m.regions : m.attempts[i] # 0,
                !.limit = Max({0} \cup {m.quotas[i] : i \in large}),
                !.excluded = IF Sampling(m) THEN @ \cup UNION {drawn(i) : i \in large} ELSE @]

-----------------------------------------------------------------------------
(* A model in use.  "sent" are the addresses generated, "lost" those whose *)
(* probing was skipped or aliased.                                         *)

Start(m, seeds) == [m |-> m, seeds |-> seeds, sent |-> DOMAIN m.pending, again |-> {}, lost |-> {}]

Asked(run) ==
  {[run EXCEPT !.m = o.m, !.sent = @ \cup o.out, !.again = @ \cup (o.out \cap run.sent)] :
     o \in {g \in Generate(run.m) : g.state = "ready"}}

Told(run) ==
  UNION {{[run EXCEPT !.m = Counted(@, a, TRUE)], [run EXCEPT !.m = Counted(@, a, FALSE)],
          [run EXCEPT !.m = Skipped(@, a), !.lost = @ \cup {a}]} : a \in DOMAIN run.m.pending}
  \cup (IF run.m.pending = <<>> \/ \E o \in Generate(run.m) : o.state # "awaiting feedback" THEN {}
        ELSE {[run EXCEPT !.m = BatchComplete(@)]})

Detected(run, prefixes) ==
  {[run EXCEPT !.m = Aliased(@, p), !.lost = @ \cup {a \in DOMAIN run.m.pending : PrefixContains(p, a)}] :
     p \in {q \in prefixes \ run.m.aliases : \E a \in run.sent : PrefixContains(q, a)}}

Steps(run, prefixes) ==
  IF run.m.online THEN Asked(run) \cup Told(run) \cup Detected(run, prefixes) ELSE Asked(run)
=============================================================================
