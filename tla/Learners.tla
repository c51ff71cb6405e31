------------------------------ MODULE Learners ------------------------------
(***************************************************************************)
(* The target generators in use, one of them in each behaviour: a model is *)
(* trained on some seeds, generates, and is told what became of its        *)
(* addresses; and the algorithms they are built from, beside a reference   *)
(* definition.                                                             *)
(***************************************************************************)
EXTENDS Integers, Sequences, FiniteSets
LOCAL INSTANCE SequencesExt
LOCAL INSTANCE FiniteSetsExt
LOCAL INSTANCE Functions

CONSTANT
  DetSeeds     \* bound: seeds of DET

Cl == INSTANCE Cluster WITH Dims <- 3, NibbleBits <- 1, MaxIndex <- 100
Dt == INSTANCE Det WITH Dims <- 3, Base <- 2
Fo == INSTANCE SixForest WITH Dims <- 3, NibbleBits <- 1, MaxIndex <- 100, SmallFree <- 1, WeightUnit <- 2
Gr == INSTANCE SixGraph WITH Dims <- 4, NibbleBits <- 1, MaxIndex <- 100
Pr == INSTANCE SixProbe WITH Dims <- 4, NibbleBits <- 1, MaxIndex <- 100, WeightUnit <- 2, MaxWild <- 2
Ge == INSTANCE SixGen WITH Dims <- 3, NibbleBits <- 2, MaxIndex <- 100
En == INSTANCE EntropySampler WITH Dims <- 3, NibbleBits <- 2, MaxIndex <- 100, SmallQuicksort <- 2

\* The networks of 6GCVAE, 6GAN and 6VecLM, as functions of what seeds them.
Addr32(n) == [d \in 0..31 |-> IF d = 31 THEN n ELSE 0]
Latent(source, n) == Addr32((n * (source + 1) + source) % 4)
Policy(generator, draw, j) == Addr32(3 + ((draw + j * generator) % 5))
Token(sample, position, n) == (sample * position) \div 2

Va == INSTANCE SixGcvae WITH Dims <- 32, NibbleBits <- 4, MaxIndex <- 100, Iid <- [i \in 1..16 |-> 15 + i],
                             Random <- 7131, Batch <- 2, Decoded <- Latent
Ga == INSTANCE SixGan WITH Dims <- 32, NibbleBits <- 4, MaxIndex <- 100, Sampled <- Policy
Ve == INSTANCE SixVecLm WITH Dims <- 6, NibbleBits <- 1, MaxIndex <- 100, Batch <- 2, Chosen <- Token

VARIABLES
  kind,        \* the generator or algorithm
  work         \* its run

learnerVars == <<kind, work>>

\* The address with a number.
Addr3(n) == [d \in 0..2 |-> (n \div 2^(2 - d)) % 2]
Addr4(n) == [d \in 0..3 |-> (n \div 2^(3 - d)) % 2]
Quad3(n) == [d \in 0..2 |-> (n \div 4^(2 - d)) % 4]
Addr6(n) == [d \in 0..5 |-> (n \div 2^(5 - d)) % 2]
Over(addr(_), s) == [i \in DOMAIN s |-> addr(s[i])]
Of(addr(_), S) == {addr(n) : n \in S}

-----------------------------------------------------------------------------
(* Training, or the input of an algorithm and what it returns.             *)

InitCluster ==
  /\ kind = "cluster"
  /\ \E s \in {<<0, 3, 5>>, <<6, 1, 7, 0, 2>>, <<4, 4, 1, 2>>, <<0, 1, 2, 3, 4, 5, 6, 7>>},
        c \in [min : {1, 2}, depth : {-1, 1}, exclusive : BOOLEAN, lifo : BOOLEAN,
               strategy : {"leftmost", "rightmost", "min entropy", "max coverage", "max separation"}] :
       work = Cl!Start(Over(Addr3, s), c)

\* No address is asked again by a model without a node that its parent should
\* have replaced at once (see DetSpec).
InitDet ==
  /\ kind = "det"
  /\ \E S \in SUBSET Dt!Vectors :
       /\ Cardinality(S) \in 1..DetSeeds /\ [d \in Dt!Dim |-> 0] \in S
       /\ work = Dt!Train(SetToSeq(S), 1)

InitSixForest ==
  /\ kind = "6forest"
  /\ LET seeds == Of(Addr3, {0, 3, 4, 7})
     IN  \E samples \in {0, 2} : \E m \in Fo!Trained(seeds, 3, samples) :
           /\ \A i \in DOMAIN m.regions : m.samplers[i].offset = 1 /\ m.samplers[i].mult \in {1, 3}
           /\ \/ work = Fo!Start(m, seeds)
              \/ work = Fo!Start(Fo!SetBudget(m, 201), seeds)
              \/ /\ samples = 2
                 /\ \E i \in DOMAIN m.regions :
                      Fo!NeedsPrescan(m.regions[i]) /\ work = Fo!Start(Fo!Migrate(Fo!Legacy(m, i, 1)), seeds)
ForestAlias == {[address |-> Addr3(0), len |-> 2]}

InitSixGraph ==
  /\ kind = "6graph"
  /\ \E s \in {<<0, 3, 5>>, <<0, 1, 2, 7>>, <<0, 15, 1, 14>>, <<0, 7, 11, 13>>},
        c \in [min : {2, 4}, threshold : {2, 4}, iterations : {0, 2}, rejoin : BOOLEAN] :
       \E m \in Gr!Train(Over(Addr4, s), Of(Addr4, Range(s)), c) : work = Gr!Start(m)
GraphAlias == {[address |-> Addr4(0), len |-> 2]}

InitSixProbe ==
  /\ kind = "6probe"
  /\ \E s \in {<<0, 3, 5>>, <<0, 1, 2, 7>>, <<0, 15, 1, 14>>, <<0, 7, 11, 13, 13>>, <<0, 1, 2, 3, 4, 5, 6, 7, 8, 12, 15>>,
             <<0, 0, 0, 0, 0, 0, 0, 0, 0, 0, 0, 1, 12>>},
        c \in [beta : {0, 2}, mode : {"single tree", "forest"}, type : {"left", "min entropy", "max cover"},
               left : BOOLEAN], sequential \in BOOLEAN :
       LET seeds == Over(Addr4, s)
       IN  \E a \in Pr!Arrays(seeds, IF sequential THEN 2 ELSE 1, sequential) :
             work = Pr!BuildPatterns(seeds, c, a)

InitSixGen ==
  /\ kind = "6gen"
  /\ \E S \in {{0, 3}, {0, 1, 6}, {0, 3, 4, 7}, {5}, {0, 5, 10}}, mode \in {"loose", "tight"}, budget \in {0, 1, 3, 20} :
       work = Ge!Start(Ge!New(Of(Quad3, S), mode, budget))

EntropyConfig(isp, samples, parents) ==
  [size |-> 3, step |-> 1, isp |-> isp, net |-> 2, thresholds |-> {25, 100, 300, 500, 900}, hysteresis |-> 50,
   segmentSample |-> samples, rowSample |-> samples, parents |-> parents, rcode |-> FALSE]
InitEntropyIp ==
  /\ kind = "entropy-ip"
  /\ \E s \in {<<0, 3, 12, 15>>, <<0, 5, 10, 15, 27, 48>>, <<5, 5, 5>>},
        isp \in {0, 1}, samples \in {2, 8}, parents \in {0, 2} :
       \E m \in En!Train(Over(Quad3, s), EntropyConfig(isp, samples, parents)) :
         LET last == Len(m.segments)
         IN  \E e \in {<<>>} \cup [{last} -> SUBSET Range(m.values[last])] : work = En!Start(m, e)

\* A sample of a segment of 12 bits, one value of it repeated.
InitMining ==
  /\ kind = "mining"
  /\ LET all == {0, 20, 40, 60, 80, 100, 120, 300, 301, 600, 1000, 4095}
         repeated(S, x) ==
           FlattenSeq([k \in 1..Cardinality(S) |->
                         LET v == En!Ascending(S)[k] IN IF v = x THEN <<v, v, v, v>> ELSE <<v>>])
     IN  \E gone \in all, x \in all :
           /\ x # gone
           /\ work = [values |-> repeated(all \ {gone}, x),
                      states |-> En!MineSegmentStates(repeated(all \ {gone}, x), 12)]

InitArgsort ==
  /\ kind = "argsort"
  /\ \E v \in [1..7 -> 0..1] \cup [1..5 -> 0..2] : work = [values |-> v, order |-> En!NumpyArgsort(v)]

InitDbscan ==
  /\ kind = "dbscan"
  /\ \E n \in {3, 5}, eps \in {1, 2} : \E v \in [1..n -> 0..4] :
       LET near == {<<i, j>> \in (DOMAIN v) \X (DOMAIN v) : v[i] - v[j] <= eps /\ v[j] - v[i] <= eps}
       IN  work = [values |-> v, eps |-> eps, line |-> En!Dbscan1d(v, eps, 3),
                   plane |-> En!Dbscan(DOMAIN v, near, 3)]

\* Seeds 1 and 2 have a fixed identifier, the others one made of a hardware
\* address and a random one.
Eui64(n) == [d \in 0..31 |-> CASE d = 17 -> 2 [] d \in 22..24 -> 15 [] d = 25 -> 14 [] d = 31 -> n [] OTHER -> 0]
Privacy(n) == [d \in 0..31 |-> IF d < 16 THEN 0 ELSE (d * n) % 16]

InitSixGcvae ==
  /\ kind = "6gcvae"
  /\ \E s \in {<<Addr32(1), Addr32(2)>>, <<Addr32(1), Addr32(2), Privacy(3), Privacy(5), Eui64(1), Eui64(2)>>},
        classification \in {"none", "manual", "entropy"} :
       \E m \in Va!Train(s, classification, 2, 2) : work = Va!Start(m)

GanConfig(classification, budget) ==
  [classification |-> classification, batch |-> 2, limit |-> 5, k |-> 1, budget |-> budget, calibration |-> 2,
   points |-> {<<0, 0>>, <<3, 3>>}, aliases |-> {}]
InitSixGan ==
  /\ kind = "6gan"
  /\ \E s \in {<<Addr32(1), Addr32(2), Eui64(1), Addr32(3), Eui64(2)>>},
        classification \in {"none", "rfc", "ipv62vec"}, budget \in {0, 3} :
       \E m \in Ga!Train(s, GanConfig(classification, budget)) : work = Ga!Start(m)
LastAlias == {[address |-> Addr32(1), len |-> 128]}
GanAlias == {[address |-> Addr32(4), len |-> 128]}

InitSixVecLm ==
  /\ kind = "6veclm"
  /\ \E s \in UNION {[1..k -> {0, 1, 21, 36}] : k \in 1..4} :
       \E m \in Ve!Train(Over(Addr6, s)) : work = Ve!Start(m)

InitSplit ==
  kind = "split" /\ \E n \in 1..5 : \E order \in Va!Shuffles(n) : work = Va!SplitTrainTest(order)

InitRatio ==
  kind = "ratio" /\ \E m \in 0..3, n \in 1..5, p \in 0..3, q \in 1..5 : work = <<m, n, p, q>>

LearnerInit ==
  \/ InitCluster \/ (InitDet /\ Dt!Promotable(work.model) = {})
  \/ InitSixForest \/ InitSixGraph \/ InitSixProbe \/ InitSixGen \/ InitEntropyIp
  \/ InitSixGcvae \/ InitSixGan \/ InitSixVecLm
  \/ InitSplit \/ InitMining \/ InitArgsort \/ InitDbscan \/ InitRatio

-----------------------------------------------------------------------------
(* Steps.                                                                  *)

Clustering == kind = "cluster" /\ work' \in Cl!Steps(work)
RunDet == kind = "det" /\ work' \in Dt!Steps(work)
RunSixForest == kind = "6forest" /\ work' \in Fo!Steps(work, ForestAlias)
RunSixGraph == kind = "6graph" /\ work' \in Gr!Steps(work, GraphAlias, 3)
RunSixGen == kind = "6gen" /\ work' \in Ge!Steps(work)
RunEntropyIp == kind = "entropy-ip" /\ work' \in En!Steps(work, 2, 3)
RunSixGcvae == kind = "6gcvae" /\ work' \in Va!Steps(work, LastAlias, 2, 5)
RunSixGan == kind = "6gan" /\ work' \in Ga!Steps(work, GanAlias, 2, 7)
RunSixVecLm == kind = "6veclm" /\ work' \in Ve!Steps(work, 2)

\* A generator that is exhausted stays so; an algorithm has returned.
Resting == kind # "none" /\ UNCHANGED work

LearnerNext ==
  /\ Clustering \/ RunDet \/ RunSixForest \/ RunSixGraph \/ RunSixGen \/ RunEntropyIp
     \/ RunSixGcvae \/ RunSixGan \/ RunSixVecLm \/ Resting
  /\ UNCHANGED kind

LearnerSpec == LearnerInit /\ [][LearnerNext]_learnerVars

\* DET from every model it trains.
DetSpec == InitDet /\ [][RunDet /\ UNCHANGED kind]_learnerVars

-----------------------------------------------------------------------------
(* Properties.                                                             *)

\* DET asks for no address a second time (det/tests.rs:465).
NoRescan ==
  kind = "det" /\ Dt!FreshNodes(work.model) # {} => Dt!NextAddress(work.model) \notin work.asked

\* No generator gives an address out twice, nor a seed it was trained on,
\* through every phase, alias and skipped sample (prescan.rs:84-143,
\* sixgraph/model.rs:50-111, sixgen/range.rs:185-235, det/model.rs:92-170,
\* sixveclm/generation.rs:293-319).  6GCVAE, which may write an address
\* again, decodes no latent vector twice and skips none, also when it is
\* saved in the middle of a batch and loaded (sixgcvae/generate.rs:29-46).
NeverAgain ==
  /\ kind \in {"6forest", "6graph", "6gen"} => work.again = {}
  /\ kind = "6forest" => work.sent \cap work.seeds = {}
  /\ kind = "6gen" => work.sent \cap work.g.seeds = {}
  /\ NoRescan
  /\ kind = "6veclm" => IsInjective(work.given)
  /\ kind = "6gcvae" /\ work.m.allocation # <<>> =>
       \A k \in DOMAIN work.log : \A i \in DOMAIN work.log[k] : work.log[k][i] = i - 1

\* A generator that reports it is exhausted has given out everything it
\* holds but the aliased: the regions of 6Forest, the neighbours of every seed
\* of 6Graph, all addresses of DET, what 6VecLM writes for each seed; 6Gen as
\* many as it counted in training, which ends early only with a cluster of all
\* seeds; 6GAN the samples of each class and exactly its budget.
Neighbours6Graph(m) ==
  UNION {UNION {Gr!Neighbours(m.patterns[k], m.patterns[k].seeds[i]) :
                  i \in {j \in DOMAIN m.patterns[k].seeds : ~Gr!IsAliased(m, m.patterns[k].seeds[j])}} :
           k \in DOMAIN m.patterns}

ExhaustedIsWhole ==
  /\ kind = "det" /\ work.model.batch = <<>> => work.asked = Dt!Vectors
  /\ kind = "6forest" /\ (\E o \in Fo!Generate(work.m) : o.state = "exhausted") =>
       \A a \in UNION {Fo!RegionAddresses(work.m.regions[i]) : i \in DOMAIN work.m.regions} :
          a \in work.sent \cup work.seeds \/ \E p \in work.m.aliases : Fo!PrefixContains(p, a)
  /\ kind = "6graph" /\ Gr!State(work.m) = "exhausted" =>
       \A a \in Neighbours6Graph(work.m) : a \in work.m.known \/ Gr!IsAliased(work.m, a)
  /\ kind = "6gen" =>
       /\ work.over => Cardinality(work.sent) = work.g.count
       /\ work.g.count <= work.g.budget
       /\ work.g.done => \/ work.g.count = work.g.budget
                         \/ \E c \in work.g.clusters : Ge!SeedsIn(work.g.seeds, c) = work.g.seeds
  /\ kind = "6veclm" /\ Ve!State(work.m) = "exhausted" =>
       Range(work.given) = UNION {Ve!Written(work.m, k) : k \in 0..(Len(work.m.seeds) - 1)}
  /\ kind = "6gan" /\ work.m.budget # <<>> =>
       LET b == work.m.budget[1]
           sampled == Len(work.m.classes) * GanConfig("none", 0).calibration
       IN  /\ Ga!State(b) = "awaiting" => work.written = sampled
           /\ Ga!State(b) = "exhausted" => work.written = sampled + b.total

\* What is divided falls into one part, and nothing falls between the parts.
\* Clustering loses and repeats no seed, whichever order, strategy and limit
\* it is given (cluster.rs:113-190); the regions of 6Forest do not overlap;
\* the seeds 6GCVAE trains on and those it holds back are all of them, each
\* once (preprocess.rs:41-59); a tree of 6Probe never asks a split array for a
\* level it does not have (split.rs:296-350), and a pattern is enumerated
\* without gap or repeat, in the order of the addresses
\* (generation.rs:72-137); mining gives every sampled value a state, and the
\* ranges it finds begin and end at sampled values and never overlap
\* (mining.rs:24-330).
SeedsInOnePlace ==
  /\ kind = "cluster" =>
       LET held == FlattenSeq(work.regions)
                   \o FlattenSeq([k \in DOMAIN work.queue |-> [i \in DOMAIN work.queue[k].indices |->
                                                                 work.seeds[work.queue[k].indices[i]]]])
       IN  /\ Len(held) = Len(work.seeds)
           /\ \A a \in Range(work.seeds) \cup Range(held) :
                 Cardinality({i \in DOMAIN held : held[i] = a})
                   = Cardinality({i \in DOMAIN work.seeds : work.seeds[i] = a})
  /\ kind = "6forest" =>
       \A i, j \in DOMAIN work.m.regions :
          i # j => Fo!RegionAddresses(work.m.regions[i]) \cap Fo!RegionAddresses(work.m.regions[j]) = {}
  /\ kind = "split" =>
       /\ IsInjective(work.train \o work.test) /\ work.train # <<>>
       /\ Range(work.train \o work.test) = 1..(Len(work.train) + Len(work.test))
  /\ kind = "6probe" =>
       /\ work.uncovered = {}
       /\ \A k \in DOMAIN work.patterns :
            LET p == work.patterns[k]
                e == Pr!Enumerated(p)
            IN  /\ Range(e) = {a \in Pr!AllAddresses : \A d \in Pr!Dim : p[d] \in {Pr!Wild, a[d]}}
                /\ \A i \in 1..(Len(e) - 1) : Pr!Numeric(e[i]) < Pr!Numeric(e[i + 1])
  /\ kind = "mining" =>
       LET x == work.states
           single(i) == x[i].lo = x[i].hi
       IN  /\ \A i, j \in DOMAIN x : i # j /\ single(i) => x[i] # x[j]
           /\ \A i \in DOMAIN x : {x[i].lo, x[i].hi} \subseteq Range(work.values) /\ x[i].lo <= x[i].hi
           /\ \A v \in Range(work.values) : \E i \in DOMAIN x : x[i].lo <= v /\ v <= x[i].hi
           /\ \A i, j \in DOMAIN x :
                 i < j => x[i].hi < x[j].lo \/ x[j].hi < x[i].lo \/ single(i) \/ single(j)

\* The networks are given addresses to write in proportion to what each one
\* discovered: a distinct address that answered, is no seed and is not
\* aliased, whatever the order of the answers, counted for every network that
\* wrote it.  6GCVAE is never a whole draw away from the proportion of the
\* rates of its last round (feedback.rs:54-151); 6GAN divides the whole
\* budget, each class less than one from its share, and only once every
\* sample is answered (budget.rs:103-191).  6Forest, too, ranks its regions by
\* what their samples found only when every sample has an outcome: one that
\* was skipped is drawn again first, wherever the order stood
\* (prescan.rs:84-105, 156-163).
Answered(x) == {<<x, "active">>, <<x, "inactive">>} \cap work.told # {}
InAlias(x) == \E p \in work.covered : Ga!PrefixContains(p, x)
Discovered(S) == {x \in S : <<x, "active">> \in work.told /\ ~InAlias(x) /\ x \notin work.seeds}
NearShare(part, weight, total, whole) ==
  part * total - weight * whole < total /\ weight * whole - part * total < total

SharesFollowEvidence ==
  /\ kind = "6forest" /\ work.m.online /\ work.m.phase = "ranked" =>
       /\ work.m.pending = <<>>
       /\ \A i \in DOMAIN work.m.regions :
             Fo!NeedsPrescan(work.m.regions[i]) => work.m.quotas[i] = 0 \/ i \in work.m.exhausted
  /\ kind = "6gcvae" /\ work.m.allocation # <<>> =>
       LET a == work.m.allocation[1]
           s == Va!Shares(a)
       IN  \A k \in DOMAIN s :
             /\ <<a.hits[k], a.of[k]>> = work.rated[k]
             /\ NearShare(work.drawn[k], s[k], Va!Sum(s), Va!Sum(work.drawn))
  /\ kind = "6gan" /\ Ga!Allocated(work) =>
       LET b == work.m.budget[1]
           wrote(k) == {x[1] : x \in {y \in work.sample : y[2] = k}}
           hits(k) == Cardinality(Discovered(wrote(k)))
           others(k) == FoldSet(LAMBDA j, n : n * Cardinality(wrote(j)), 1, (DOMAIN work.given) \ {k})
           weights == [k \in DOMAIN work.given |-> hits(k) * others(k)]
           share(k) == work.given[k] + b.remaining[k]
       IN  /\ Ga!Sum([k \in DOMAIN work.given |-> share(k)]) = b.total
           /\ \A k \in DOMAIN work.given : NearShare(share(k), weights[k], Ga!Sum(weights), b.total)
           /\ \A x \in work.sample : x[1] \in work.seeds \/ InAlias(x[1]) \/ Answered(x[1])

\* What is saved at any time can be loaded: each deserializer refuses models
\* that its own program never makes (region.rs:112-137, sixgraph/mod.rs,
\* six_probe/generation.rs:33-60, entropy_ip/generate.rs:71-135).
SavedModelLoads ==
  /\ kind = "6forest" => \A i \in DOMAIN work.m.regions : Fo!ValidRegion(work.m.regions[i])
  /\ kind = "6graph" => Gr!Loads(work.m)
  /\ kind = "6probe" => \A k \in DOMAIN work.patterns : Pr!ValidPattern(work.patterns[k])
  /\ kind = "entropy-ip" => En!Compiles(work.m)
  /\ kind = "6gcvae" => Va!Valid(work.m)
  /\ kind = "6gan" => Ga!Valid(work.m)
  /\ kind = "6veclm" => Ve!Valid(work.m)

\* An address written under evidence has, in each segment the evidence names,
\* a value of one of the accepted states, though the states are latent and
\* their ranges may overlap (condition.rs:44-104).
EvidenceHolds ==
  kind = "entropy-ip" =>
    \A i \in DOMAIN work.written, k \in DOMAIN work.evidence :
       LET s == work.m.segments[k]
           v == En!Window(work.written[i], s.start, En!Width(s))
       IN  work.evidence[k] = {} \/ \E x \in work.evidence[k] : s.states[x].lo <= v /\ v <= s.states[x].hi

\* The fast algorithms compute what their definitions say: the sort of NumPy
\* sorts (argsort.rs), clustering of values on a line is DBSCAN
\* (stats.rs:40-130), the walk of the seed trie finds the nearest seeds and
\* counts those in a range (index.rs:60-172), and the continued fractions by
\* which densities are compared agree with cross products; integers here are
\* unbounded, so overflow is not examined.
Sign(n) == IF n > 0 THEN 1 ELSE IF n < 0 THEN -1 ELSE 0
Distance(r, a) == Cardinality({d \in Ge!Dim : a[d] \notin r[d] /\ ~Ge!Dynamic(r[d])})

FastIsExact ==
  /\ kind = "argsort" =>
       /\ Range(work.order) = DOMAIN work.values
       /\ \A i \in 1..(Len(work.order) - 1) : work.values[work.order[i]] <= work.values[work.order[i + 1]]
  /\ kind = "dbscan" => work.line = work.plane
  /\ kind = "ratio" =>
       Ge!CompareRatio(work[1], work[2], work[3], work[4]) = Sign(work[1] * work[4] - work[3] * work[2])
  /\ kind = "6gen" =>
       \A c \in work.g.clusters :
          LET inside == Ge!SeedsIn(work.g.seeds, c)
              out == work.g.seeds \ inside
          IN  /\ Ge!NearestExternal(work.g.seeds, c) = {a \in out : \A b \in out : Distance(c, a) <= Distance(c, b)}
              /\ Ge!CountInRange(Ge!Root(work.g.seeds), c) = Cardinality(inside)
=============================================================================
