------------------------------ MODULE Isolation ------------------------------
(***************************************************************************)
(* The isolation weights by which 6Forest and 6Probe find outliers among   *)
(* the seeds of a group, a sequence of addresses.                          *)
(*                                                                         *)
(* Weights are exact: a singleton weighs WeightUnit by the number of       *)
(* singletons.                                                             *)
(***************************************************************************)
EXTENDS Address, SequencesExt
LOCAL INSTANCE FiniteSetsExt

CONSTANT WeightUnit   \* a multiple of the numbers of values of a nibble

ValueSet(group, d) == {group[i][d] : i \in DOMAIN group}
WithValue(group, d, v) == {i \in DOMAIN group : group[i][d] = v}
Singletons(group, d) == {v \in ValueSet(group, d) : Cardinality(WithValue(group, d, v)) = 1}
FreeDims(group) == {d \in Dim : Cardinality(ValueSet(group, d)) > 1}

IsolationWeights(group) ==
  [i \in DOMAIN group |->
     MapThenSumSet(LAMBDA d : IF group[i][d] \in Singletons(group, d)
                              THEN WeightUnit \div Cardinality(Singletons(group, d)) ELSE 0,
                   FreeDims(group))]

\* The heaviest row is an outlier if it is more than three standard
\* deviations above the mean of the others.
RECURSIVE OutliersAmong(_, _)
OutliersAmong(weight, rows) ==
  IF Cardinality(rows) <= 2 THEN {}
  ELSE LET heaviest == Min({i \in rows : \A j \in rows : weight[j] <= weight[i]})
           others == rows \ {heaviest}
           n == Cardinality(others)
           sum == MapThenSumSet(LAMBDA i : weight[i], others)
           squares == MapThenSumSet(LAMBDA i : weight[i] * weight[i], others)
           above == weight[heaviest] * n - sum
       IN  IF above > 0 /\ above * above > 9 * (n * squares - sum * sum)
           THEN {heaviest} \cup OutliersAmong(weight, others)
           ELSE {}

\* The seeds by their value, in the order of the values.
Buckets(group, d) ==
  LET values == Ascending(ValueSet(group, d))
  IN  [k \in DOMAIN values |-> SelectSeq(group, LAMBDA a : a[d] = values[k])]
=============================================================================
