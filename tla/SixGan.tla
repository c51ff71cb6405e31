-------------------------------- MODULE SixGan --------------------------------
(***************************************************************************)
(* 6GAN (tga/src/ml/sixgan): one generator is trained for each class of    *)
(* seeds.  With a feedback budget, each draws a calibration sample, and    *)
(* once all of it is answered the budget is divided by what the samples    *)
(* discovered.  The networks are external: what a generator samples is a   *)
(* function of the generator and the number of the draw, its seed.         *)
(***************************************************************************)
EXTENDS Address
LOCAL INSTANCE SequencesExt
LOCAL INSTANCE FiniteSetsExt
LOCAL INSTANCE Functions

CONSTANT Sampled(_, _, _)   \* what a generator draws first, second, ... with a seed

-----------------------------------------------------------------------------
(* Classes of seeds (for addresses of 32 nibbles of 4 bits).               *)

\* The bytes of the interface identifier, and two of them as a number.
Iid(a) == [i \in 0..7 |-> 16 * a[16 + 2 * i] + a[17 + 2 * i]]
Word(b, i) == 256 * b[i] + b[i + 1]

\* The ports of well-known services, and as their digits read in hexadecimal.
ServicePorts ==
  {33, 34, 35, 37, 73, 83, 128, 272, 291, 377, 544, 905, 1091, 1351, 2451, 2453, 4500, 13062, 20576, 20577,
   21554, 25670, 32896}
  \cup {21, 22, 23, 25, 49, 53, 80, 110, 123, 179, 220, 389, 443, 547, 993, 995, 1194, 3306, 5060, 5061,
        5432, 6446, 8080}

IsIeeeDerived(b) == (b[0] \div 2) % 2 = 1 /\ b[3] = 255 /\ b[4] = 254
IsIsatap(b) == b[0] \in {0, 2} /\ <<b[1], b[2], b[3]>> = <<0, 94, 254>>
HighZero(b) == \A i \in 0..3 : b[i] = 0
IsEmbeddedPort(b) ==
  HighZero(b) /\ \/ b[4] = 0 /\ Word(b, 6) \in ServicePorts
                 \/ b[6] = 0 /\ Word(b, 4) \in ServicePorts
IsLowByte(b) == HighZero(b) /\ b[4] = 0 /\ Word(b, 6) # 0
IsEmbeddedIpv4(b) == HighZero(b) /\ b[4] # 0 /\ Word(b, 6) # 0
IsSpacedIpv4(b) == \A i \in {0, 2, 4, 6} : Word(b, i) <= 597

\* The labels are numbered in the order of their names; the first test that
\* holds decides.
RfcLabel(a) ==
  LET b == Iid(a)
      tests == <<<<IsIeeeDerived(b), 3>>, <<IsIsatap(b), 4>>, <<IsEmbeddedIpv4(b), 1>>, <<IsEmbeddedPort(b), 2>>,
                 <<IsLowByte(b), 5>>, <<IsSpacedIpv4(b), 1>>,
                 <<Cardinality({i \in 0..7 : b[i] = 0}) > 2, 6>>, <<TRUE, 7>>>>
  IN  SelectSeq(tests, LAMBDA t : t[1])[1][2]

\* k-means labels the /32 prefixes, of which there are k at least.
Prefix32(a) == [d \in 0..7 |-> a[d]]
EntropyLabels(seeds, k) ==
  LET prefixes == {Prefix32(a) : a \in Range(seeds)}
  IN  IF Cardinality(prefixes) < k THEN {}
      ELSE {[i \in DOMAIN seeds |-> f[Prefix32(seeds[i])]] : f \in [prefixes -> 1..k]}

\* DBSCAN over the points of the seeds in cells as wide as its radius; noise
\* is the class -1.
Square(n) == n * n
SquaredDistance(p, q) == Square(p[1] - q[1]) + Square(p[2] - q[2])
Neighbors(points, eps, i) ==
  LET cell(p) == <<p[1] \div eps, p[2] \div eps>>
      adjacent(c) == {<<c[1] + x, c[2] + y>> : x, y \in -1..1}
  IN  {j \in DOMAIN points : /\ cell(points[j]) \in adjacent(cell(points[i]))
                             /\ SquaredDistance(points[i], points[j]) <= eps * eps}

\* One cluster from a core point: its neighbours and those of the core points
\* among them that were in no cluster.
RECURSIVE Reached(_, _, _, _, _)
Reached(points, eps, min, free, S) ==
  LET core == {j \in S \cap free : Cardinality(Neighbors(points, eps, j)) >= min}
      more == S \cup UNION {Neighbors(points, eps, j) : j \in core}
  IN  IF more = S THEN S ELSE Reached(points, eps, min, free, more)

RECURSIVE Labelling(_, _, _, _, _, _)
Labelling(points, eps, min, i, labels, cluster) ==
  IF i > Len(points) THEN labels
  ELSE IF labels[i] # -2 THEN Labelling(points, eps, min, i + 1, labels, cluster)
  ELSE IF Cardinality(Neighbors(points, eps, i)) < min
       THEN Labelling(points, eps, min, i + 1, [labels EXCEPT ![i] = -1], cluster)
  ELSE LET free == {j \in DOMAIN points : labels[j] = -2}
           all == {i} \cup Reached(points, eps, min, free, Neighbors(points, eps, i))
       IN  Labelling(points, eps, min, i + 1,
                     [j \in DOMAIN labels |-> IF j \in all /\ labels[j] \in {-2, -1} THEN cluster ELSE labels[j]],
                     cluster + 1)
DbscanLabels(points, eps, min) == Labelling(points, eps, min, 1, [i \in DOMAIN points |-> -2], 0)

\* The points t-SNE may give seeds, the same to the same seed.
VectorLabels(seeds, min, points) ==
  LET placed == [Range(seeds) -> points]
      labels == {DbscanLabels([i \in DOMAIN seeds |-> f[seeds[i]]], 2, min) : f \in placed}
  IN  {l \in labels : \A i \in DOMAIN l : l[i] < 10}

\* The classes of at least batch seeds, in the order of their labels; no
\* model without one.
ByLabels(seeds, labels, batch) ==
  LET rows(l) == FlattenSeq([i \in DOMAIN seeds |-> IF labels[i] = l THEN <<seeds[i]>> ELSE <<>>])
      names == Ascending({l \in Range(labels) : Len(rows(l)) >= batch})
  IN  IF names = <<>> THEN {} ELSE {[k \in DOMAIN names |-> rows(names[k])]}

ClassifySeeds(c, seeds) ==
  CASE c.classification = "none" -> IF Len(seeds) < c.batch THEN {} ELSE {<<seeds>>}
    [] c.classification = "rfc" -> ByLabels(seeds, [i \in DOMAIN seeds |-> RfcLabel(seeds[i])], c.batch)
    [] c.classification = "entropy" -> UNION {ByLabels(seeds, l, c.batch) : l \in EntropyLabels(seeds, c.k)}
    [] OTHER -> UNION {ByLabels(seeds, l, c.batch) : l \in VectorLabels(seeds, c.batch, c.points)}

-----------------------------------------------------------------------------
(* The budget.                                                             *)

New(classes, calibration, total, seeds, aliases) ==
  [remaining |-> [i \in 1..classes |-> calibration], allocated |-> FALSE, total |-> total, seeds |-> seeds,
   aliases |-> aliases, origins |-> <<>>, outcomes |-> <<>>, buffer |-> <<>>, generator |-> 1, draw |-> 0]

ValidBudget(b, classes) ==
  /\ Len(b.remaining) = classes /\ b.generator \in 1..classes
  /\ Len(b.buffer) <= b.remaining[b.generator]
  /\ \A x \in DOMAIN b.origins : b.origins[x] \subseteq 1..classes

State(b) ==
  IF \E i \in DOMAIN b.remaining : b.remaining[i] > 0 THEN "ready"
  ELSE IF b.allocated THEN "exhausted" ELSE "awaiting"

Put(f, x, v) == [y \in (DOMAIN f) \cup {x} |-> IF y = x THEN v ELSE f[y]]

\* The first address of the buffer, which is not empty.
Emit(b) ==
  LET a == Head(b.buffer)
      classes == IF a \in DOMAIN b.origins THEN b.origins[a] ELSE {}
  IN  [b EXCEPT !.buffer = Tail(@), !.remaining[b.generator] = @ - 1,
                !.origins = IF b.allocated THEN @ ELSE Put(@, a, classes \cup {b.generator})]

KnownNonDiscovery(b, a) == a \in b.seeds \/ \E p \in b.aliases : PrefixContains(p, a)

\* The rates as weights, in units of their common denominator: total by
\* them, rounded down, and what is left to the largest remainders.
Sum(f) == FoldFunction(LAMBDA x, y : x + y, 0, f)
Allocate_Floor(weights, total) ==
  [i \in DOMAIN weights |-> (weights[i] * total) \div Sum(weights)]
Allocate(weights, total) ==
  LET sum == Sum(weights)
      exact(i) == weights[i] * total
      floor == [i \in DOMAIN weights |-> exact(i) \div sum]
      before(i, j) == \/ (exact(i) % sum) > (exact(j) % sum)
                      \/ (exact(i) % sum) = (exact(j) % sum) /\ i < j
      left == total - Sum(floor)
  IN  [i \in DOMAIN weights |->
         floor[i] + IF Cardinality({j \in DOMAIN weights : before(j, i)}) < left THEN 1 ELSE 0]

Recorded(b, events) ==
  LET told(a, k) == \E e \in events : e.kind = k /\ e.address = a
      new == {a \in DOMAIN b.origins : told(a, "active") \/ told(a, "inactive")}
      old(a) == a \in DOMAIN b.outcomes /\ b.outcomes[a]
  IN  [b EXCEPT !.outcomes = [a \in (DOMAIN @) \cup new |-> old(a) \/ told(a, "active")],
                !.aliases = @ \cup {e.prefix : e \in {x \in events : x.kind = "aliased"}}]

Unresolved(b) == {a \in DOMAIN b.origins : a \notin DOMAIN b.outcomes /\ ~KnownNonDiscovery(b, a)}

\* Hits by count, all in units of the product of the counts.
Discoveries(b) ==
  LET classes == DOMAIN b.remaining
      of(i) == {a \in DOMAIN b.origins : i \in b.origins[a]}
      hits(i) == Cardinality({a \in of(i) : a \in DOMAIN b.outcomes /\ b.outcomes[a] /\ ~KnownNonDiscovery(b, a)})
      counts == [i \in classes |-> Max({Cardinality(of(i)), 1})]
  IN  [i \in classes |-> hits(i) * FoldFunctionOnSet(LAMBDA x, y : x * y, 1, counts, classes \ {i})]

\* One call of feedback: the budget after it and whether it failed.
Feedback(b, events) ==
  LET r == Recorded(b, events)
      d == Discoveries(r)
  IN  IF b.allocated THEN [b |-> b, ok |-> TRUE]
      ELSE IF State(r) # "awaiting" \/ \A e \in events : e.kind # "complete" THEN [b |-> r, ok |-> TRUE]
      ELSE IF Unresolved(r) # {} \/ Sum(d) = 0 THEN [b |-> r, ok |-> FALSE]
      ELSE [b |-> [r EXCEPT !.remaining = Allocate(d, r.total), !.allocated = TRUE, !.origins = <<>>,
                            !.outcomes = <<>>, !.seeds = {}, !.aliases = {}], ok |-> TRUE]

-----------------------------------------------------------------------------
(* The model.                                                              *)

\* What training may return.  Only the first seeds are used, as many as
\* limit says.
Train(seeds, c) ==
  LET used == SubSeq(seeds, 1, Min({Len(seeds), c.limit}))
  IN  IF Len(seeds) < c.batch \/ Len(used) < c.batch THEN {}
      ELSE {[classes |-> g, batch |-> c.batch, next |-> 1, buffer |-> <<>>, draws |-> 0,
             budget |-> IF c.budget = 0 THEN <<>>
                        ELSE <<New(Len(g), c.calibration, c.budget, Range(used), c.aliases)>>] :
              g \in ClassifySeeds(c, used)}

Samples(i, count, draw) == [j \in 1..count |-> Sampled(i, draw, j)]

\* next_batch(): as many as fit a batch and the generator's share.
NextBatch_Whole(b, i, batch) == batch
NextBatch(b, i, batch) == Min({b.remaining[i], batch})

\* n addresses, fewer if the budget has no more; each with its generator.
RECURSIVE Budgeted(_, _, _)
Budgeted(b, batch, n) ==
  LET ready == {i \in DOMAIN b.remaining : b.remaining[i] > 0}
  IN  IF n = 0 \/ (b.buffer = <<>> /\ ready = {}) THEN [b |-> b, written |-> <<>>]
      ELSE IF b.buffer = <<>>
      THEN LET i == Min(ready)
           IN  Budgeted([b EXCEPT !.generator = i, !.draw = @ + 1,
                                  !.buffer = Samples(i, NextBatch(b, i, batch), b.draw)], batch, n)
      ELSE LET rest == Budgeted(Emit(b), batch, n - 1)
           IN  [b |-> rest.b, written |-> <<<<Head(b.buffer), b.generator>>>> \o rest.written]

\* Without a budget the generators take turns for ever.
RECURSIVE InTurns(_, _)
InTurns(m, n) ==
  IF n = 0 THEN [m |-> m, written |-> <<>>]
  ELSE IF m.buffer = <<>>
  THEN InTurns([m EXCEPT !.next = (@ % Len(m.classes)) + 1, !.draws = @ + 1,
                         !.buffer = Samples(m.next, m.batch, m.draws)], n)
  ELSE LET rest == InTurns([m EXCEPT !.buffer = Tail(@)], n - 1)
       IN  [m |-> rest.m, written |-> <<<<Head(m.buffer), 0>>>> \o rest.written]

Valid(m) ==
  /\ m.classes # <<>> /\ m.batch > 0 /\ \A k \in DOMAIN m.classes : m.classes[k] # <<>>
  /\ m.budget # <<>> => ValidBudget(m.budget[1], Len(m.classes))

Generate(m, n) ==
  IF m.budget = <<>> THEN InTurns(m, n)
  ELSE LET g == Budgeted(m.budget[1], m.batch, n) IN [m |-> [m EXCEPT !.budget = <<g.b>>], written |-> g.written]

\* Saved and loaded: the turns are not saved, the budget is.
Reload(m) == [m EXCEPT !.next = 1, !.buffer = <<>>, !.draws = 0]

-----------------------------------------------------------------------------
(* Use: calibration, answers in any order, and what is given out after.    *)

\* Until the budget is divided: what was told of addresses, the prefixes told
\* to be aliased, and who gave out what; after it, how much each gave out.
Start(m) ==
  [m |-> m, seeds |-> IF m.budget = <<>> THEN {} ELSE m.budget[1].seeds, told |-> {}, covered |-> {},
   sample |-> {}, written |-> 0, given |-> [k \in DOMAIN m.classes |-> 0]]

Allocated(w) == w.m.budget # <<>> /\ w.m.budget[1].allocated

Writes(w, n) ==
  LET g == Generate(w.m, n)
  IN  [w EXCEPT !.m = g.m, !.written = @ + Len(g.written),
                !.sample = IF Allocated(w) THEN @ ELSE @ \cup Range(g.written),
                !.given = IF ~Allocated(w) THEN @
                          ELSE [k \in DOMAIN @ |-> @[k] + Cardinality({i \in DOMAIN g.written : g.written[i][2] = k})]]

\* A scan answers addresses it was given, and completes a batch with or after
\* the answers.
Told(w, events) ==
  [w EXCEPT !.m.budget = <<Feedback(w.m.budget[1], events).b>>,
            !.told = @ \cup {<<e.address, e.kind>> : e \in {x \in events : x.kind \in {"active", "inactive"}}},
            !.covered = @ \cup {e.prefix : e \in {x \in events : x.kind = "aliased"}}]

Reports(w, aliases) ==
  {[kind |-> k, address |-> x[1]] : k \in {"active", "inactive"}, x \in w.sample}
  \cup {[kind |-> "aliased", prefix |-> p] : p \in aliases \ w.m.budget[1].aliases}

Done == [kind |-> "complete"]
Steps(w, aliases, most, writes) ==
  (IF w.written < writes THEN {Writes(w, n) : n \in 1..most} ELSE {})
  \cup (IF w.m.budget # <<>> /\ ~Allocated(w)
        THEN {Told(w, e) : e \in {{Done}} \cup UNION {{{r}, {r, Done}} : r \in Reports(w, aliases)}}
        ELSE {})
  \cup (IF Valid(w.m) THEN {[w EXCEPT !.m = Reload(@)]} ELSE {})
=============================================================================
