------------------------------ MODULE SeqUtil ------------------------------
(* Operators on sequences that several modules use.  They are written with  *)
(* recursive functions, so that facts about them can be proved (Facts).     *)
EXTENDS Integers, Sequences, FiniteSets

\* The sum of a sequence of numbers; PartialSums(s)[n] is that of the first n.
PartialSums(s) ==
  LET sum[n \in 0..Len(s)] == IF n = 0 THEN 0 ELSE sum[n - 1] + s[n] IN sum

Total(s) == PartialSums(s)[Len(s)]

\* The elements of s that are not in S, in their order.
PartsOutside(s, S) ==
  LET part[n \in 0..Len(s)] ==
        IF n = 0 THEN <<>>
        ELSE IF s[n] \in S THEN part[n - 1] ELSE Append(part[n - 1], s[n])
  IN  part

Outside(s, S) == PartsOutside(s, S)[Len(s)]

\* How often a is in s.
Occurrences(s, a) == Cardinality({i \in DOMAIN s : s[i] = a})

\* The elements of a finite set, each once, and the sum of f[x] over them.
Numbered(S) ==
  CHOOSE f \in [1..Cardinality(S) -> S] : \A i, j \in 1..Cardinality(S) : f[i] = f[j] => i = j

SumOver(f, S) == Total([i \in 1..Cardinality(S) |-> f[Numbered(S)[i]]])

\* The sequences of ss after each other.
PartialJoins(ss) ==
  LET join[n \in 0..Len(ss)] == IF n = 0 THEN <<>> ELSE join[n - 1] \o ss[n] IN join

Concatenated(ss) == PartialJoins(ss)[Len(ss)]
=============================================================================
