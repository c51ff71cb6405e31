--------------------------- MODULE EntropySampler ---------------------------
(***************************************************************************)
(* Drawing addresses from an Entropy/IP model (generate.rs, model.rs and   *)
(* condition.rs): the model is compiled into tables, once; a sampler may   *)
(* keep only addresses whose states are among those accepted.              *)
(*                                                                         *)
(* The rows of a conditional table are found by their place in a dense     *)
(* table; a larger one, beyond DENSE_LOOKUP_MAX_SLOTS, is looked up by key *)
(* to the same end.                                                        *)
(***************************************************************************)
EXTENDS EntropyIp
LOCAL INSTANCE FiniteSetsExt

-----------------------------------------------------------------------------
(* What compile() refuses.                                                 *)

DistinctMembers(seq) == Cardinality(Range(seq)) = Len(seq)

ValidLayout(segments) ==
  \A k \in DOMAIN segments :
    /\ segments[k].start <= segments[k].end /\ segments[k].end < Dims
    /\ segments[k].start = IF k = 1 THEN 0 ELSE segments[k - 1].end + 1
ValidStates(s) ==
  s.states # <<>> /\ \A k \in DOMAIN s.states : /\ s.states[k].lo <= s.states[k].hi
                                                /\ s.states[k].hi < 2^(NibbleBits * Width(s))
ValidValues(m, k) ==
  /\ Len(m.values[k]) = m.cards[k] /\ m.cards[k] > 0
  /\ DistinctMembers(m.values[k]) /\ Range(m.values[k]) \subseteq DOMAIN m.segments[k].states
ValidParents(m, k) == DistinctMembers(m.parents[k]) /\ Range(m.parents[k]) \subseteq 1..(k - 1)

\* A row is for states of the parents, its mass at most one.
Mass(entry) == MapThenSumSet(LAMBDA s : entry.counts[s], DOMAIN entry.counts)
ValidCpt(m, k) ==
  \A g \in DOMAIN m.cpts[k] :
    /\ Len(g) = Len(m.parents[k]) /\ \A j \in DOMAIN g : g[j] \in 0..(m.cards[m.parents[k][j]] - 1)
    /\ DOMAIN m.cpts[k][g].counts \subseteq 0..(m.cards[k] - 1)
    /\ Mass(m.cpts[k][g]) <= m.cpts[k][g].total

Compiles(m) ==
  /\ m.segments # <<>>
  /\ Len(m.values) = Len(m.segments) /\ Len(m.cards) = Len(m.segments)
  /\ Len(m.parents) = Len(m.segments) /\ Len(m.cpts) = Len(m.segments)
  /\ ValidLayout(m.segments)
  /\ \A k \in DOMAIN m.segments :
       ValidStates(m.segments[k]) /\ ValidValues(m, k) /\ ValidParents(m, k) /\ ValidCpt(m, k)

-----------------------------------------------------------------------------
(* Sampling.                                                               *)

\* The first parent has the largest stride.
Stride(m, k, j) ==
  MapThenFoldSet(LAMBDA a, b : a * b, 1, LAMBDA i : m.cards[m.parents[k][i]],
                 LAMBDA S : CHOOSE i \in S : TRUE, {i \in DOMAIN m.parents[k] : i > j})
FlatIndex(m, k, config) == MapThenSumSet(LAMBDA j : config[j] * Stride(m, k, j), DOMAIN config)

\* The row of the states sampled so far, if there is one.
EntryFor(m, k, sampled) ==
  LET config == [j \in DOMAIN m.parents[k] |-> sampled[m.parents[k][j]]]
  IN  {m.cpts[k][g] : g \in {h \in DOMAIN m.cpts[k] : FlatIndex(m, k, h) = FlatIndex(m, k, config)}}

\* sample_compiled_state(): the first state the draw does not exceed the
\* cumulative mass of, else a state without mass; with no such state, or no
\* row, any.
All(m, k) == 0..(m.cards[k] - 1)
DrawnState(m, k, entry, draw) ==
  LET upTo(s) == MapThenSumSet(LAMBDA t : entry.counts[t], {t \in DOMAIN entry.counts : t <= s})
      reached == {s \in DOMAIN entry.counts : draw <= upTo(s)}
      others == All(m, k) \ DOMAIN entry.counts
  IN  CASE reached # {} -> {Min(reached)}
        [] reached = {} /\ others # {} -> others
        [] OTHER -> All(m, k)
SampleState(m, k, sampled) ==
  LET entries == EntryFor(m, k, sampled)
  IN  IF entries = {} THEN All(m, k)
      ELSE UNION {DrawnState(m, k, e, draw) : <<e, draw>> \in {<<f, d>> \in entries \X (1..64) : d <= f.total}}

RECURSIVE SampledFrom(_, _)
SampledFrom(m, sampled) ==
  LET k == Len(sampled) + 1
  IN  IF k > Len(m.segments) THEN {sampled}
      ELSE UNION {SampledFrom(m, Append(sampled, s)) : s \in SampleState(m, k, sampled)}

\* write_segment_value(): the nibbles of a value; those of no segment are 0.
WriteValue(a, s, value) ==
  [d \in Dim |-> IF d \in s.start..s.end THEN (value \div 2^(NibbleBits * (s.end - d))) % 2^NibbleBits ELSE a[d]]
StateAt(m, k, s) == m.segments[k].states[m.values[k][s + 1]]

RECURSIVE Written(_, _, _)
Written(m, sampled, k) ==
  IF k = 0 THEN {[d \in Dim |-> 0]}
  ELSE {WriteValue(a, m.segments[k], v) :
          a \in Written(m, sampled, k - 1), v \in StateAt(m, k, sampled[k]).lo..StateAt(m, k, sampled[k]).hi}

\* generate_address(): with the states it stands for.
GenerateAddress(m) ==
  UNION {{[address |-> a, states |-> sampled] : a \in Written(m, sampled, Len(m.segments))} :
           sampled \in SampledFrom(m, <<>>)}

\* conditioned_sampler(): the states accepted in each segment of the
\* evidence; an empty selection leaves the segment free.
KnownEvidence(m, evidence) ==
  \A k \in DOMAIN evidence : k \in DOMAIN m.values /\ evidence[k] \subseteq Range(m.values[k])
Accepted_Code(m, evidence, sampled) ==
  \A k \in DOMAIN evidence : evidence[k] = {} \/ sampled[k] \in evidence[k]
Accepted(m, evidence, sampled) ==
  \A k \in DOMAIN evidence : evidence[k] = {} \/ m.values[k][sampled[k] + 1] \in evidence[k]

\* An attempt of sample().
Start(m, evidence) == [m |-> m, evidence |-> evidence, written |-> <<>>, attempts |-> 0]
Steps(run, output, maxAttempts) ==
  IF Len(run.written) = output \/ run.attempts = maxAttempts THEN {}
  ELSE {[run EXCEPT !.attempts = @ + 1,
                    !.written = IF Accepted(run.m, run.evidence, g.states) THEN Append(@, g.address) ELSE @] :
          g \in GenerateAddress(run.m)}
=============================================================================
