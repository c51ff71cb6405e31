------------------------------- MODULE SixGraph -------------------------------
(***************************************************************************)
(* 6Graph (tga/src/clustering/sixgraph): seeds are grouped into patterns   *)
(* by a density-gated spanning forest; each round scans a sample of the    *)
(* addresses one nibble away from a seed, and active ones become seeds.    *)
(*                                                                         *)
(* A shuffle leaves open which candidates a truncated list keeps and in    *)
(* which order they are generated.                                         *)
(***************************************************************************)
EXTENDS Address, SequencesExt
LOCAL INSTANCE FiniteSetsExt

Varying(group) == {d \in Dim : \E i, j \in DOMAIN group : group[i][d] # group[j][d]}

-----------------------------------------------------------------------------
(* Mining.                                                                 *)

\* space_partition_regions(): breadth first, by the leftmost varying nibble.
ByValue(group, d) ==
  LET values == Ascending({group[i][d] : i \in DOMAIN group})
  IN  [k \in DOMAIN values |-> SelectSeq(group, LAMBDA a : a[d] = values[k])]

RECURSIVE Regions(_, _, _)
Regions(queue, done, min) ==
  IF queue = <<>> THEN done
  ELSE LET group == Head(queue)
       IN  IF Len(group) <= min \/ Varying(group) = {}
           THEN Regions(Tail(queue), Append(done, group), min)
           ELSE Regions(Tail(queue) \o ByValue(group, Min(Varying(group))), done, min)

\* The density of a component is its size by its varying nibbles.
Members(group, component) ==
  LET order == Ascending(component) IN [k \in DOMAIN order |-> group[order[k]]]
FreeCount(group, component) == Cardinality(Varying(Members(group, component)))
DenserThan(group, c, d) ==
  /\ Cardinality(c) > 1
  /\ \/ Cardinality(d) <= 1
     \/ Cardinality(c) * FreeCount(group, d) > Cardinality(d) * FreeCount(group, c)

Edges(group, threshold) ==
  LET near == {<<i, j>> \in (DOMAIN group) \X (DOMAIN group) :
                 i < j /\ NibbleDistance(group[i], group[j]) <= threshold}
      weight(e) == NibbleDistance(group[e[1]], group[e[2]])
      n == Len(group) + 1
  IN  SortedBy(near, LAMBDA e : (weight(e) * n + e[1]) * n + e[2])

\* try_merge(): only if both get denser.
Merge(group, forest, edge) ==
  LET c == CHOOSE t \in forest : edge[1] \in t
      d == CHOOSE t \in forest : edge[2] \in t
  IN  IF c # d /\ DenserThan(group, c \cup d, c) /\ DenserThan(group, c \cup d, d)
      THEN (forest \ {c, d}) \cup {c \cup d} ELSE forest

\* Components in the order of their first members.
Components(group, threshold) ==
  LET forest == FoldLeft(LAMBDA f, e : Merge(group, f, e), {{i} : i \in DOMAIN group},
                         Edges(group, threshold))
  IN  SortedBy(forest, Min)

Pattern(group) == [free |-> Varying(group), seeds |-> group]
Covers(p, a) == \A d \in Dim \ p.free : a[d] = p.seeds[1][d]

OutlierDetect(group, threshold) ==
  LET all == Components(group, threshold)
      parts == [k \in DOMAIN all |-> Members(group, all[k])]
      large == SelectSeq(parts, LAMBDA part : Len(part) > 1)
  IN  [patterns |-> [k \in DOMAIN large |-> Pattern(large[k])],
       outliers |-> FlattenSeq(SelectSeq(parts, LAMBDA part : Len(part) = 1))]

Joined(m, n) == [patterns |-> m.patterns \o n.patterns, outliers |-> m.outliers \o n.outliers]
MineOneRound(addresses, config) ==
  FoldLeft(LAMBDA mined, group : Joined(mined, OutlierDetect(group, config.threshold)),
           [patterns |-> <<>>, outliers |-> <<>>], Regions(<<addresses>>, <<>>, config.min))

\* rejoin_outliers(): an outlier joins the first pattern that contains it.
Matching(patterns, a) == {k \in DOMAIN patterns : Covers(patterns[k], a)}
RejoinOutliers(mined) ==
  LET into(k) == SelectSeq(mined.outliers, LAMBDA a : /\ Matching(mined.patterns, a) # {}
                                                      /\ Min(Matching(mined.patterns, a)) = k)
  IN  [patterns |-> [k \in DOMAIN mined.patterns |-> [mined.patterns[k] EXCEPT !.seeds = @ \o into(k)]],
       outliers |-> SelectSeq(mined.outliers, LAMBDA a : Matching(mined.patterns, a) = {})]

\* The outliers of a round are mined in the next.
RECURSIVE MineFrom(_, _, _, _)
MineFrom(mined, addresses, round, config) ==
  LET rejoined(both) == IF config.rejoin THEN RejoinOutliers(both) ELSE both
      after(now) ==
        IF round = config.iterations \/ now.outliers = addresses \/ now.outliers = <<>> THEN now
        ELSE MineFrom(now.patterns, now.outliers, round + 1, config)
  IN  after(rejoined(Joined([patterns |-> mined, outliers |-> <<>>], MineOneRound(addresses, config))))
MinePatterns(addresses, config) == MineFrom(<<>>, addresses, 0, config)

-----------------------------------------------------------------------------
(* Scanning.                                                               *)

IsAliased(m, a) == \E p \in m.aliases : PrefixContains(p, a)
Excluded(m, a) == a \in m.known \cup m.issued \/ IsAliased(m, a)

Neighbours(p, seed) ==
  {[seed EXCEPT ![d] = v] : d \in p.free, v \in Nibble} \ {seed}

Candidates(m, k) ==
  {a \in UNION {Neighbours(m.patterns[k], m.patterns[k].seeds[i]) :
                  i \in {j \in DOMAIN m.patterns[k].seeds : ~IsAliased(m, m.patterns[k].seeds[j])}} :
     ~Excluded(m, a)}

\* The budget doubles from the second round on.
SamplingRoundBudget(round, seeds) == IF round <= 1 THEN seeds ELSE seeds * 2^(round - 1)

\* sample_round(): pattern by pattern, what no earlier one has selected.
RECURSIVE SamplesFrom(_, _, _)
SamplesFrom(m, k, selected) ==
  IF k \notin DOMAIN m.patterns THEN {selected}
  ELSE LET new == Candidates(m, k) \ selected
           n == Min({SamplingRoundBudget(m.round, m.counts[k]), Cardinality(new)})
       IN  UNION {SamplesFrom(m, k + 1, selected \cup S) : S \in kSubset(n, new)}

PrepareRound(m) == {[m EXCEPT !.targets = S, !.left = S] : S \in SamplesFrom(m, 1, {})}

Train(addresses, known, config) ==
  LET model(mined) ==
        [patterns |-> mined.patterns, outliers |-> Len(mined.outliers), known |-> known,
         counts |-> [k \in DOMAIN mined.patterns |-> Len(mined.patterns[k].seeds)],
         aliases |-> {}, round |-> 0, issued |-> {}, active |-> {}, targets |-> {}, left |-> {}]
  IN  PrepareRound(model(MinePatterns(addresses, config)))

\* A round of the loop of generate(): the next target, unless it is excluded
\* by now.
Generate(m) ==
  {[m |-> [m EXCEPT !.left = @ \ {a}, !.issued = IF Excluded(m, a) THEN @ ELSE @ \cup {a}],
    out |-> IF Excluded(m, a) THEN {} ELSE {a}] : a \in m.left}

State(m) ==
  CASE m.targets = {} -> "exhausted"
    [] m.targets # {} /\ m.left = {} -> "awaiting feedback"
    [] OTHER -> "ready"

\* attach_active(): to every pattern that contains it.
AttachActive(m) ==
  LET new(p) == {a \in m.active : ~IsAliased(m, a) /\ Covers(p, a)} \ Range(p.seeds)
  IN  [m EXCEPT !.patterns = [k \in DOMAIN @ |-> [@[k] EXCEPT !.seeds = @ \o InOrder(new(m.patterns[k]))]],
                !.active = {}]

CompleteRound(m) ==
  PrepareRound([AttachActive([m EXCEPT !.known = @ \cup m.issued, !.issued = {}]) EXCEPT !.round = @ + 1])

Reported(m, a, outcome) ==
  [m EXCEPT !.known = @ \cup {a}, !.active = IF outcome = "active" THEN @ \cup {a} ELSE @]

\* A prefix that is not covered takes the place of those it covers.
PrefixWithin(p, q) == q.len <= p.len /\ PrefixContains(q, p.address)
Aliased(m, p) ==
  IF \E q \in m.aliases : PrefixWithin(p, q) THEN m
  ELSE [m EXCEPT !.aliases = {q \in @ : ~PrefixWithin(q, p)} \cup {p}]

\* What Deserialize refuses.
IsValid(p) ==
  /\ Len(p.seeds) >= 2 /\ p.free # {} /\ p.free \subseteq Dim
  /\ \A i \in DOMAIN p.seeds : Covers(p, p.seeds[i])
Loads(m) ==
  /\ Len(m.counts) = Len(m.patterns)
  /\ \A k \in DOMAIN m.patterns : m.counts[k] \in 2..Len(m.patterns[k].seeds) /\ IsValid(m.patterns[k])

-----------------------------------------------------------------------------
(* A model in use: targets are generated, an alias may be found, and the   *)
(* outcomes of the round, those of aliased targets left out, end it;      *)
(* "found" are the active ones.                                            *)

Start(m) == [m |-> m, sent |-> {}, again |-> {}, found |-> {}]

Steps(run, prefixes, rounds) ==
  {[run EXCEPT !.m = o.m, !.sent = @ \cup o.out, !.again = @ \cup (o.out \cap run.sent)] :
     o \in Generate(run.m)}
  \cup {[run EXCEPT !.m = Aliased(@, p)] :
          p \in {q \in prefixes : \E a \in run.m.issued : PrefixContains(q, a) /\ ~IsAliased(run.m, a)}}
  \cup (IF State(run.m) # "awaiting feedback" \/ run.m.round = rounds THEN {}
        ELSE LET told == {a \in run.m.issued : ~IsAliased(run.m, a)}
                 after(S) == FoldSet(LAMBDA a, m : Reported(m, a, IF a \in S THEN "active" ELSE "inactive"),
                                     run.m, told)
             IN  UNION {{[run EXCEPT !.m = m, !.found = @ \cup S] : m \in CompleteRound(after(S))} : S \in SUBSET told})
=============================================================================
