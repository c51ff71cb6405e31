------------------------------- MODULE SixGcvae -------------------------------
(***************************************************************************)
(* 6GCVAE (tga/src/ml/sixgcvae): the seeds are classified, a decoder is    *)
(* trained for each class, and in rounds the decoders draw addresses in    *)
(* proportion to the share of new active addresses each one found.  The    *)
(* networks are external: a decoder maps the k-th latent vector of its     *)
(* stream to some address, always the same one.                            *)
(***************************************************************************)
EXTENDS Address
LOCAL INSTANCE SequencesExt
LOCAL INSTANCE FiniteSetsExt
LOCAL INSTANCE Functions

CONSTANTS
  Iid,             \* the nibbles of the interface identifier, ascending
  Random,          \* the entropy that makes an identifier random, see IsRandom
  Batch,           \* INFERENCE_BATCH_SIZE
  Decoded(_, _)    \* the address a decoder makes of a latent vector

-----------------------------------------------------------------------------
(* Classes of seeds.                                                       *)

\* How often each value occurs in a sequence of nibbles.
Occurrences(s) == [v \in Range(s) |-> Cardinality({i \in DOMAIN s : s[i] = v})]

\* normalized_entropy(iid) > 0.8 without logarithms: of 16 nibbles, the
\* product of c^c over the counts c is below 2^12.8 (and 6^6 is above it).
IsRandom(a) ==
  LET counts == Occurrences([i \in DOMAIN Iid |-> a[Iid[i]]])
  IN  /\ \A v \in DOMAIN counts : counts[v] < 6
      /\ FoldFunction(LAMBDA c, p : Min({p * c^c, Random + 1}), 1, counts) <= Random

\* Runs of two or more zeros, by the nibble each begins at.
ZeroRuns(a) ==
  {i \in 1..(Len(Iid) - 1) : /\ a[Iid[i]] = 0 /\ a[Iid[i + 1]] = 0
                             /\ i = 1 \/ a[Iid[i - 1]] # 0}

\* The labels are numbered in the order of their names.
Manual(a) ==
  LET middle == Len(Iid) \div 2
  IN  IF [i \in 1..4 |-> a[Iid[middle - 2 + i]]] = <<15, 15, 15, 14>> THEN 3 \* slaac_eui64
      ELSE IF IsRandom(a) THEN 4                                           \* slaac_privacy
      ELSE IF Cardinality(ZeroRuns(a)) = 1 THEN 1                          \* fixed_iid
      ELSE 2                                                               \* low_64bit_subnet

\* k-means gives the prefixes labels, and prefixes whose nibbles are
\* distributed alike the same one.
Prefix32(a) == [d \in 0..((Dims \div 4) - 1) |-> a[d]]
Fingerprint(seeds, p) ==
  LET own == SelectSeq(seeds, LAMBDA a : Prefix32(a) = p)
  IN  [d \in (Dims \div 4)..(Dims - 1) |->
         LET counts == Occurrences([i \in DOMAIN own |-> own[i][d]])
         IN  [c \in Range(counts) |-> <<Cardinality({v \in DOMAIN counts : counts[v] = c}), Len(own)>>]]
EntropyLabels(seeds, clusters) ==
  LET prefixes == {Prefix32(a) : a \in Range(seeds)}
  IN  {[i \in DOMAIN seeds |-> f[Prefix32(seeds[i])]] :
         f \in {g \in [prefixes -> 1..Min({clusters, Cardinality(prefixes)})] :
                  \A p, q \in prefixes : Fingerprint(seeds, p) = Fingerprint(seeds, q) => g[p] = g[q]}}

Labelled(seeds, labels, l) == FlattenSeq([i \in DOMAIN seeds |-> IF labels[i] = l THEN <<seeds[i]>> ELSE <<>>])

\* The groups of seeds, in the order of their labels; none if one has a
\* single seed.
Partition(seeds, classification, clusters) ==
  IF classification = "none" THEN {<<seeds>>}
  ELSE LET groups(labels) == LET names == Ascending(Range(labels))
                             IN  [k \in DOMAIN names |-> Labelled(seeds, labels, names[k])]
           all == IF classification = "manual" THEN {[i \in DOMAIN seeds |-> Manual(seeds[i])]}
                  ELSE EntropyLabels(seeds, clusters)
       IN  {groups(l) : l \in {x \in all : \A i \in DOMAIN x : \E j \in DOMAIN x : i # j /\ x[i] = x[j]}}

\* The random numbers up to max: masked to as many bits, and drawn again
\* while they are greater.
Interval(max) ==
  LET bits == Min({k \in 0..30 : max < 2^k}) IN {v \in 0..(2^bits - 1) : v <= max}

\* The orders a shuffle of 1..n may give: each place from the last is
\* exchanged with one not after it.
RECURSIVE ShuffledFrom(_, _)
ShuffledFrom(order, i) ==
  IF i < 2 THEN {order}
  ELSE UNION {ShuffledFrom([order EXCEPT ![i] = order[j + 1], ![j + 1] = order[i]], i - 1) : j \in Interval(i - 1)}
Shuffles(n) == ShuffledFrom([i \in 1..n |-> i], n)

\* A fifth of the seeds, one at least, is held back from training.
SplitTrainTest(order) ==
  LET n == Len(order)
      held == IF n > 1 THEN Max({1, Min({(n + 4) \div 5, n - 1})}) ELSE 0
  IN  [train |-> SubSeq(order, held + 1, n), test |-> SubSeq(order, 1, held)]

-----------------------------------------------------------------------------
(* Allocation.  A rate is hits out of of; credits and weights count in     *)
(* units of the common denominator of the rates.                           *)

New(seeds, components, round) ==
  [seeds |-> seeds, candidates |-> <<>>, hits |-> [i \in 1..components |-> 1],
   of |-> [i \in 1..components |-> 1], credits |-> [i \in 1..components |-> 0],
   round |-> round, remaining |-> components * round]

Sum(f) == FoldFunction(LAMBDA x, y : x + y, 0, f)
Weights(a) == [i \in DOMAIN a.hits |->
                 a.hits[i] * FoldFunctionOnSet(LAMBDA x, y : x * y, 1, a.of, (DOMAIN a.of) \ {i})]

\* The share each source gains by a draw: all the same if no rate is positive.
Shares(a) == IF Sum(Weights(a)) = 0 THEN [i \in DOMAIN a.hits |-> 1] ELSE Weights(a)

\* The first source with the most credit, which pays for the draw.
Select(a) ==
  LET s == Shares(a)
      credits == [i \in DOMAIN s |-> a.credits[i] + s[i]]
      best == Min({i \in DOMAIN s : \A j \in DOMAIN s : credits[j] <= credits[i]})
  IN  [source |-> best, a |-> [a EXCEPT !.credits = [credits EXCEPT ![best] = @ - Sum(s)]]]

Unseen == [sources |-> {}, outcome |-> "pending", draws |-> 0, skipped |-> 0]
Record(a, address, source) ==
  LET c == IF address \in DOMAIN a.candidates THEN a.candidates[address] ELSE Unseen
      recorded == [c EXCEPT !.sources = @ \cup {source}, !.draws = @ + 1]
  IN  [a EXCEPT !.candidates = [x \in (DOMAIN @) \cup {address} |-> IF x = address THEN recorded ELSE @[x]],
                !.remaining = Max({@ - 1, 0})]


\* What is known of a candidate after one more answer, in whatever order
\* the answers come.
Outcome_Latest(old, kind) == IF old = "aliased" THEN old ELSE kind
Outcome(old, kind) ==
  IF old = "aliased" THEN old
  ELSE IF "active" \in {old, kind} THEN "active" ELSE "inactive"

\* A round is over: the sources are rated by what they found, if anything
\* was measured at all.
Measured(c) == c.outcome # "aliased" /\ (c.outcome # "pending" \/ c.skipped < c.draws)
Complete(a) ==
  LET kept == {x \in DOMAIN a.candidates : Measured(a.candidates[x])}
      from(i) == {x \in kept : i \in a.candidates[x].sources}
      found(i) == {x \in from(i) : a.candidates[x].outcome = "active" /\ x \notin a.seeds}
      next == [a EXCEPT !.candidates = <<>>, !.remaining = a.round]
  IN  IF DOMAIN a.candidates = {} THEN a
      ELSE IF kept = {} THEN next
      ELSE [next EXCEPT
              !.hits = [i \in DOMAIN @ |-> IF from(i) = {} THEN @[i] ELSE Cardinality(found(i))],
              !.of = [i \in DOMAIN @ |-> IF from(i) = {} THEN @[i] ELSE Cardinality(from(i))],
              !.credits = [i \in DOMAIN @ |-> 0]]

Apply(a, f) ==
  CASE f.kind = "complete" -> Complete(a)
    [] f.kind = "aliased" ->
         [a EXCEPT !.candidates = [x \in DOMAIN @ |->
                                     IF PrefixContains(f.prefix, x) THEN [@[x] EXCEPT !.outcome = "aliased"] ELSE @[x]]]
    [] OTHER ->
         IF f.address \notin DOMAIN a.candidates THEN a
         ELSE IF f.kind = "skipped"
              THEN [a EXCEPT !.candidates[f.address].skipped = Min({@ + 1, a.candidates[f.address].draws})]
              ELSE [a EXCEPT !.candidates[f.address].outcome = Outcome(@, f.kind)]

ValidAllocation(a, components) ==
  /\ a.remaining > 0 \/ DOMAIN a.candidates # {}
  /\ a.round > 0 /\ a.remaining <= a.round * components
  /\ Len(a.hits) = components /\ Len(a.credits) = components
  /\ \A i \in DOMAIN a.hits : 0 <= a.hits[i] /\ a.hits[i] <= a.of[i]
  /\ \A x \in DOMAIN a.candidates :
        LET c == a.candidates[x]
        IN  /\ c.sources # {} /\ c.sources \subseteq 1..components
            /\ Cardinality(c.sources) <= c.draws /\ c.skipped <= c.draws

-----------------------------------------------------------------------------
(* The model.  It holds an allocation unless its seeds are unclassified;   *)
(* its streams are not saved with it.                                      *)

\* Each model training may return; none if it fails.
Train(seeds, classification, clusters, round) ==
  IF Len(seeds) < 2 THEN {}
  ELSE {[groups |-> g, emitted |-> [k \in DOMAIN g |-> 0],
         allocation |-> IF classification = "none" THEN <<>> ELSE <<New(Range(seeds), Len(g), round)>>,
         streams |-> <<>>] : g \in Partition(seeds, classification, clusters)}

Valid(m) ==
  /\ m.groups # <<>>
  /\ IF m.allocation = <<>> THEN Len(m.groups) = 1 ELSE ValidAllocation(m.allocation[1], Len(m.groups))

\* A stream draws its latent vectors in batches, next is the first not drawn.
Resume(emitted) == [next |-> emitted, buffer |-> <<>>]
BuildStreams(m) ==
  [k \in DOMAIN m.groups |-> Resume(IF m.allocation = <<>> THEN 0 ELSE m.emitted[k])]
Refill(s) == IF s.buffer # <<>> THEN s
             ELSE [next |-> s.next + Batch, buffer |-> [i \in 1..Batch |-> s.next + i - 1]]

\* One address more: its source, and the latent vector it was decoded from.
DrawFrom(drawn, chosen, s) ==
  LET k == chosen.source
      address == Decoded(k, s.buffer[1])
      moved == [drawn.m EXCEPT !.streams[k] = [s EXCEPT !.buffer = Tail(@)]]
  IN  [m |-> IF moved.allocation = <<>> THEN moved
             ELSE [moved EXCEPT !.emitted[k] = @ + 1, !.allocation = <<Record(chosen.a, address, k)>>],
       written |-> Append(drawn.written, [address |-> address, source |-> k, latent |-> s.buffer[1]])]
Draw(drawn) ==
  LET from(chosen) == DrawFrom(drawn, chosen, Refill(drawn.m.streams[chosen.source]))
      allocation == drawn.m.allocation
  IN  from(IF allocation = <<>> THEN [source |-> 1, a |-> <<>>] ELSE Select(allocation[1]))

Fill(m, n) == FoldLeft(LAMBDA drawn, i : Draw(drawn), [m |-> m, written |-> <<>>], [i \in 1..n |-> i])

Awaiting(m) == m.allocation # <<>> /\ m.allocation[1].remaining = 0
Generate(m, n) ==
  LET ready == IF m.streams = <<>> THEN [m EXCEPT !.streams = BuildStreams(m)] ELSE m
  IN  IF Awaiting(m) THEN [m |-> m, written |-> <<>>]
      ELSE Fill(ready, IF m.allocation = <<>> THEN n ELSE Min({n, m.allocation[1].remaining}))

\* Nothing is learned of addresses before the first draw.
ApplyFeedback(m, f) ==
  IF m.allocation = <<>> \/ (f.kind \in {"active", "inactive", "skipped"} /\ \A k \in DOMAIN m.emitted : m.emitted[k] = 0)
  THEN {} ELSE {[m EXCEPT !.allocation = <<Apply(@[1], f)>>]}

\* Saved and loaded: the streams begin again where the model says.
Reload(m) == [m EXCEPT !.streams = <<>>]

-----------------------------------------------------------------------------
(* Use: addresses are drawn, reported in any order, and rounds completed.  *)

\* told: the answers of this round; drawn: draws by source since the rates
\* were set; rated: the rates the answers give; log: the latent vectors
\* decoded, by source.
Start(m) ==
  [m |-> m, told |-> {}, drawn |-> [k \in DOMAIN m.groups |-> 0], draws |-> 0, origin |-> {},
   rated |-> [k \in DOMAIN m.groups |-> <<1, 1>>], log |-> [k \in DOMAIN m.groups |-> <<>>]]

Writing(w, g) ==
  LET by(k) == SelectSeq(g.written, LAMBDA x : x.source = k)
  IN  [w EXCEPT !.m = g.m, !.draws = @ + Len(g.written),
                !.drawn = [k \in DOMAIN @ |-> @[k] + Len(by(k))],
                !.told = @ \ {<<g.written[i].address, "skipped">> : i \in DOMAIN g.written},
                !.origin = @ \cup {<<g.written[i].address, g.written[i].source>> : i \in DOMAIN g.written},
                !.log = [k \in DOMAIN @ |-> @[k] \o [i \in DOMAIN by(k) |-> by(k)[i].latent]]]
Writes(w, n) == Writing(w, Generate(w.m, n))

\* The rates of the answers told, each address once for each of its sources.
Rated(w) ==
  LET is(x, kind) == <<x, kind>> \in w.told
      counted == {x \in {o[1] : o \in w.origin} :
                    ~is(x, "aliased") /\ (~is(x, "skipped") \/ is(x, "active") \/ is(x, "inactive"))}
      of(k) == {x \in counted : <<x, k>> \in w.origin}
  IN  [k \in DOMAIN w.rated |->
         IF of(k) = {} THEN w.rated[k]
         ELSE <<Cardinality({x \in of(k) : is(x, "active") /\ x \notin w.m.allocation[1].seeds}), Cardinality(of(k))>>]

Told(w, f) ==
  LET m == ApplyFeedback(w.m, f)
      round == w.m.allocation # <<>> /\ w.m.allocation[1].candidates # <<>>
  IN  {IF f.kind = "complete"
       THEN [w EXCEPT !.m = n, !.told = {}, !.origin = {}, !.rated = IF round THEN Rated(w) ELSE @,
                      !.drawn = IF round /\ n.allocation[1].credits = [k \in DOMAIN @ |-> 0] THEN [k \in DOMAIN @ |-> 0] ELSE @]
       ELSE IF f.kind = "aliased"
            THEN [w EXCEPT !.m = n, !.told = @ \cup {<<x, "aliased">> : x \in {o[1] : o \in {p \in w.origin : PrefixContains(f.prefix, p[1])}}}]
            ELSE [w EXCEPT !.m = n, !.told = @ \cup {<<f.address, f.kind>>}] : n \in m}

\* A skip is reported for each draw of an address; here for all or none.
Reports(w, aliases) ==
  LET seen == {o[1] : o \in w.origin}
  IN  {[kind |-> k, address |-> x] : k \in {"active", "inactive"}, x \in seen}
      \cup {[kind |-> "skipped", address |-> x] :
              x \in {y \in seen : w.m.allocation # <<>> /\ w.m.allocation[1].candidates[y].draws = 1}}
      \cup {[kind |-> "aliased", prefix |-> p] : p \in aliases}
      \cup {[kind |-> "complete"]}

Steps(w, aliases, most, draws) ==
  (IF w.draws < draws THEN {Writes(w, n) : n \in 1..most} ELSE {})
  \cup UNION {Told(w, f) : f \in Reports(w, aliases)}
  \cup (IF Valid(w.m) THEN {[w EXCEPT !.m = Reload(@)]} ELSE {})

=============================================================================
