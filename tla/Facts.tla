-------------------------------- MODULE Facts --------------------------------
(* Facts that the proofs of several components need: the least number of a  *)
(* set, induction up to a number, and what the operators of SeqUtil return. *)
EXTENDS SeqUtil, FiniteSetsExt, FiniteSetTheorems, TLAPS

-----------------------------------------------------------------------------
(* Least numbers, and induction.                                            *)

\* Every set of natural numbers has a least one.
LEMMA LeastNat ==
  ASSUME NEW T \in SUBSET Nat, T # {}
  PROVE  \E x \in T : \A y \in T : x <= y
<1> DEFINE Below == {0..k : k \in T}
<1>1. IsWellFoundedOn(StrictSubsetOrdering(Nat), FiniteSubsetsOf(Nat))
  BY FS_StrictSubsetOrderingWellFounded
<1>2. Below \subseteq FiniteSubsetsOf(Nat)
  <2> SUFFICES ASSUME NEW k \in T PROVE 0..k \in FiniteSubsetsOf(Nat)
    OBVIOUS
  <2>1. IsFiniteSet(0..k)
    BY FS_Interval, k \in Int, 0 \in Int
  <2> QED
    BY <2>1 DEF FiniteSubsetsOf
<1>3. Below # {}
  OBVIOUS
<1> HIDE DEF Below
<1>4. PICK b \in Below : \A c \in Below : <<c, b>> \notin StrictSubsetOrdering(Nat)
  BY <1>1, <1>2, <1>3, WFMin
<1> USE DEF Below
<1>5. PICK x \in T : b = 0..x
  OBVIOUS
<1>6. ASSUME NEW y \in T, y < x PROVE FALSE
  <2>1. 0..y \in Below /\ 0..y \subseteq 0..x /\ x \in 0..x /\ x \notin 0..y
    BY <1>6
  <2>2. <<0..y, 0..x>> \in StrictSubsetOrdering(Nat)
    BY <2>1 DEF StrictSubsetOrdering
  <2> QED
    BY <1>4, <1>5, <2>1, <2>2
<1> QED
  BY <1>6

\* Min() of the community modules is the least number.
LEMMA MinFacts ==
  ASSUME NEW S \in SUBSET Nat, S # {}
  PROVE  Min(S) \in S /\ \A y \in S : Min(S) <= y
<1>1. PICK x \in S : \A y \in S : x <= y
  BY LeastNat
<1> QED
  BY <1>1 DEF Min

\* Induction up to N, on the set of the numbers that have the property.
LEMMA InductionUpTo ==
  ASSUME NEW N \in Nat, NEW S, 0 \in S,
         \A k \in 0..(N - 1) : k \in S => k + 1 \in S
  PROVE  0..N \subseteq S /\ N \in S
<1> DEFINE Bad == {k \in 0..N : k \notin S}
<1> SUFFICES ASSUME Bad # {} PROVE FALSE
  OBVIOUS
<1>1. Bad \in SUBSET Nat
  OBVIOUS
<1> HIDE DEF Bad
<1>2. PICK k \in Bad : \A j \in Bad : k <= j
  BY <1>1, LeastNat
<1> USE DEF Bad
<1>3. k \in 0..N /\ k \notin S /\ k # 0
  OBVIOUS
<1>4. k - 1 \in 0..(N - 1)
  BY <1>3
<1>5. k - 1 \in S
  <2>1. CASE k - 1 \in Bad
    BY <1>2, <1>3, <2>1
  <2> QED
    BY <1>4, <2>1
<1>6. (k - 1) + 1 = k
  BY <1>3
<1> QED
  BY <1>3, <1>4, <1>5, <1>6

-----------------------------------------------------------------------------
(* Sums of sequences.                                                       *)

SumsUpTo(f, s, m) ==
  /\ f \in [0..m -> Nat]
  /\ f[0] = 0
  /\ \A n \in 1..m : f[n] = f[n - 1] + s[n]

\* One more place of a running sum.
LEMMA SumsStep ==
  ASSUME NEW f, NEW s, NEW m \in Nat, SumsUpTo(f, s, m), NEW k \in 0..(m - 1)
  PROVE  f[k] \in Nat /\ f[k + 1] = f[k] + s[k + 1]
<1>1. k \in 0..m /\ k + 1 \in 1..m /\ (k + 1) - 1 = k
  OBVIOUS
<1>2. f[k + 1] = f[(k + 1) - 1] + s[k + 1] /\ f[k] \in Nat
  BY <1>1 DEF SumsUpTo
<1> QED
  BY <1>1, <1>2

\* Every sequence of numbers has running sums.
LEMMA SumsExist ==
  ASSUME NEW s \in Seq(Nat)
  PROVE  \E f : SumsUpTo(f, s, Len(s))
<1> DEFINE S == {k \in 0..Len(s) : \E f : SumsUpTo(f, s, k)}
<1>1. 0 \in S
  <2>1. SumsUpTo([n \in 0..0 |-> 0], s, 0)
    BY DEF SumsUpTo
  <2> QED
    BY <2>1
<1>2. ASSUME NEW k \in 0..(Len(s) - 1), k \in S PROVE k + 1 \in S
  <2>1. PICK f : SumsUpTo(f, s, k)
    BY <1>2
  <2> DEFINE g == [n \in 0..(k + 1) |-> IF n = k + 1 THEN f[k] + s[k + 1] ELSE f[n]]
  <2>2. s[k + 1] \in Nat /\ \A n \in 0..k : f[n] \in Nat
    BY <2>1 DEF SumsUpTo
  <2>3. g \in [0..(k + 1) -> Nat] /\ g[0] = 0
    BY <2>1, <2>2 DEF SumsUpTo
  <2>4. \A n \in 1..(k + 1) : g[n] = g[n - 1] + s[n]
    BY <2>1, SMTT(60) DEF SumsUpTo
  <2>5. SumsUpTo(g, s, k + 1)
    BY <2>3, <2>4 DEF SumsUpTo
  <2> QED
    BY <2>5
<1> HIDE DEF S
<1>3. Len(s) \in Nat
  OBVIOUS
<1>5. Len(s) \in S
  BY <1>1, <1>2, <1>3, InductionUpTo
<1> QED
  BY <1>5 DEF S

\* PartialSums(s) are the running sums of s.
LEMMA PartialSumsFacts ==
  ASSUME NEW s \in Seq(Nat)
  PROVE  SumsUpTo(PartialSums(s), s, Len(s))
<1> DEFINE Is(f) == f = [n \in 0..Len(s) |-> IF n = 0 THEN 0 ELSE f[n - 1] + s[n]]
<1>1. PICK f : SumsUpTo(f, s, Len(s))
  BY SumsExist
<1>2. Is(f)
  BY <1>1 DEF SumsUpTo
<1>3. Is(PartialSums(s))
  BY <1>2 DEF PartialSums
<1> DEFINE p == PartialSums(s)
           S == {k \in 0..Len(s) : p[k] \in Nat}
<1>a. Len(s) \in Nat /\ \A n \in 1..Len(s) : s[n] \in Nat
  OBVIOUS
<1>b. p = [n \in 0..Len(s) |-> IF n = 0 THEN 0 ELSE p[n - 1] + s[n]]
  BY <1>3
<1> HIDE DEF p
<1>4. p[0] = 0 /\ \A n \in 1..Len(s) : p[n] = p[n - 1] + s[n]
  BY <1>a, <1>b
<1>5. 0 \in S
  BY <1>4
<1>6. ASSUME NEW k \in 0..(Len(s) - 1), k \in S PROVE k + 1 \in S
  <2>1. p[k] \in Nat /\ k + 1 \in 1..Len(s)
    BY <1>6, <1>a
  <2> QED
    BY <1>4, <1>a, <2>1
<1> HIDE DEF S
<1>7. 0..Len(s) \subseteq S
  BY <1>5, <1>6, <1>a, InductionUpTo
<1>8. p \in [0..Len(s) -> Nat]
  BY <1>b, <1>7 DEF S
<1>9. SumsUpTo(p, s, Len(s))
  BY <1>4, <1>8 DEF SumsUpTo
<1> QED
  BY <1>9 DEF p

\* Sums of two sequences with a common beginning agree on it.
LEMMA CommonSums ==
  ASSUME NEW s \in Seq(Nat), NEW t \in Seq(Nat), NEW m \in Nat,
         m <= Len(s), m <= Len(t), \A i \in 1..m : s[i] = t[i]
  PROVE  PartialSums(s)[m] = PartialSums(t)[m]
<1> DEFINE p == PartialSums(s)
           q == PartialSums(t)
           S == {k \in 0..m : p[k] = q[k]}
<1>1. SumsUpTo(p, s, Len(s)) /\ SumsUpTo(q, t, Len(t))
  BY PartialSumsFacts
<1> HIDE DEF p, q
<1>2. 0 \in S
  BY <1>1 DEF SumsUpTo
<1>3. ASSUME NEW k \in 0..(m - 1), k \in S PROVE k + 1 \in S
  BY <1>1, <1>3 DEF SumsUpTo
<1> HIDE DEF S
<1>4. 0..m \subseteq S
  BY <1>2, <1>3, InductionUpTo
<1> QED
  BY <1>4 DEF S, p, q

\* A total of numbers is a number.
LEMMA TotalType ==
  ASSUME NEW s \in Seq(Nat)
  PROVE  Total(s) \in Nat
  BY PartialSumsFacts DEF Total, SumsUpTo

\* The total of nothing.
LEMMA TotalEmpty ==
  ASSUME NEW s \in Seq(Nat), s = <<>>
  PROVE  Total(s) = 0
  BY PartialSumsFacts, Len(s) = 0 DEF Total, SumsUpTo

\* The total of one number more.
LEMMA TotalAppend ==
  ASSUME NEW s \in Seq(Nat), NEW n \in Nat
  PROVE  Total(Append(s, n)) = Total(s) + n
<1> DEFINE t == Append(s, n)
<1>1. /\ t \in Seq(Nat) /\ Len(t) = Len(s) + 1 /\ Len(s) \in Nat
      /\ \A i \in 1..Len(s) : s[i] = t[i]
      /\ t[Len(s) + 1] = n
  OBVIOUS
<1> HIDE DEF t
<1>2. PartialSums(s)[Len(s)] = PartialSums(t)[Len(s)]
  <2>1. Len(s) <= Len(s) /\ Len(s) <= Len(t)
    BY <1>1
  <2> QED
    BY <1>1, <2>1, CommonSums
<1>3. PartialSums(t)[Len(s) + 1] = PartialSums(t)[Len(s)] + n
  BY <1>1, PartialSumsFacts DEF SumsUpTo
<1> QED
  BY <1>1, <1>2, <1>3 DEF Total, t

\* The total of two sequences after each other.
LEMMA TotalConcat ==
  ASSUME NEW s \in Seq(Nat), NEW t \in Seq(Nat)
  PROVE  Total(s \o t) = Total(s) + Total(t)
<1> DEFINE u == s \o t
           p == PartialSums(u)
           q == PartialSums(t)
           S == {k \in 0..Len(t) : p[Len(s) + k] = Total(s) + q[k]}
<1>1. /\ u \in Seq(Nat) /\ Len(u) = Len(s) + Len(t) /\ Len(s) \in Nat /\ Len(t) \in Nat
      /\ \A i \in 1..Len(s) : s[i] = u[i]
      /\ \A i \in 1..Len(t) : u[Len(s) + i] = t[i]
  OBVIOUS
<1> HIDE DEF u
<1>2. SumsUpTo(p, u, Len(u)) /\ SumsUpTo(q, t, Len(t)) /\ Total(s) \in Nat
  BY <1>1, PartialSumsFacts, TotalType
<1>3. p[Len(s)] = Total(s)
  <2>1. Len(s) <= Len(s) /\ Len(s) <= Len(u)
    BY <1>1
  <2> QED
    BY <1>1, <2>1, CommonSums DEF Total
<1> HIDE DEF p, q
<1>4. 0 \in S
  BY <1>1, <1>2, <1>3 DEF SumsUpTo
<1>5. ASSUME NEW k \in 0..(Len(t) - 1), k \in S PROVE k + 1 \in S
  <2>1. k + 1 \in 1..Len(t) /\ Len(s) + (k + 1) \in 1..Len(u)
    BY <1>1
  <2>2. q[k + 1] = q[k] + t[k + 1] /\ q[k] \in Nat /\ t[k + 1] \in Nat
    <3>1. t[k + 1] \in Nat
      BY <2>1
    <3>2. SumsUpTo(q, t, Len(t)) /\ Len(t) \in Nat
      BY <1>1, <1>2
    <3>3. q[k] \in Nat /\ q[k + 1] = q[k] + t[k + 1]
      BY <3>2, SumsStep
    <3> QED
      BY <3>1, <3>3
  <2>3. p[Len(s) + (k + 1)] = p[Len(s) + k] + t[k + 1]
    <3>1. /\ Len(s) + k \in 0..(Len(u) - 1) /\ (Len(s) + k) + 1 = Len(s) + (k + 1)
          /\ u[Len(s) + (k + 1)] = t[k + 1]
      BY <1>1, <2>1, SMTT(60)
    <3>2. SumsUpTo(p, u, Len(u)) /\ Len(u) \in Nat
      BY <1>1, <1>2
    <3>3. \A j \in 0..(Len(u) - 1) : p[j + 1] = p[j] + u[j + 1]
      BY <3>2, SumsStep
    <3>4. p[(Len(s) + k) + 1] = p[Len(s) + k] + u[(Len(s) + k) + 1]
      BY <3>1, <3>3
    <3> QED
      BY <3>1, <3>4
  <2>4. p[Len(s) + k] = Total(s) + q[k]
    BY <1>5
  <2>5. (Total(s) + q[k]) + t[k + 1] = Total(s) + (q[k] + t[k + 1])
    BY <1>2, <2>2
  <2>6. k + 1 \in 0..Len(t)
    BY <2>1
  <2> QED
    BY <2>2, <2>3, <2>4, <2>5, <2>6
<1> HIDE DEF S
<1>6. Len(t) \in S
  BY <1>1, <1>4, <1>5, InductionUpTo
<1> QED
  BY <1>1, <1>6 DEF S, Total, p, q, u

\* The total by its first number.
LEMMA TotalCons ==
  ASSUME NEW s \in Seq(Nat), s # <<>>
  PROVE  Total(s) = Head(s) + Total(Tail(s))
<1>1. /\ s = <<Head(s)>> \o Tail(s) /\ <<Head(s)>> \in Seq(Nat) /\ Tail(s) \in Seq(Nat)
      /\ <<Head(s)>> = Append(<<>>, Head(s)) /\ Head(s) \in Nat
  OBVIOUS
<1>e. <<>> \in Seq(Nat)
  OBVIOUS
<1>2. Total(<<>>) = 0
  BY <1>e, TotalEmpty
<1>3. Total(<<Head(s)>>) = Head(s)
  <2>1. Total(Append(<<>>, Head(s))) = 0 + Head(s)
    BY <1>1, <1>2, <1>e, TotalAppend
  <2> QED
    BY <1>1, <2>1
<1> QED
  BY <1>1, <1>3, TotalConcat

\* A change at one place changes the sum by as much.
LEMMA TotalExcept ==
  ASSUME NEW s \in Seq(Nat), NEW i \in 1..Len(s), NEW n \in Nat
  PROVE  Total([s EXCEPT ![i] = n]) = (Total(s) - s[i]) + n
<1> DEFINE t == [s EXCEPT ![i] = n]
           p == PartialSums(s)
           q == PartialSums(t)
           S == {k \in 0..Len(s) : q[k] = IF k < i THEN p[k] ELSE (p[k] - s[i]) + n}
<1>1. /\ t \in Seq(Nat) /\ Len(t) = Len(s) /\ t[i] = n /\ Len(s) \in Nat
      /\ \A j \in 1..Len(s) : j # i => t[j] = s[j]
      /\ \A j \in 1..Len(s) : s[j] \in Nat
  OBVIOUS
<1> HIDE DEF t
<1>2. SumsUpTo(p, s, Len(s)) /\ SumsUpTo(q, t, Len(s))
  BY <1>1, PartialSumsFacts
<1> HIDE DEF p, q
<1>3. 0 \in S
  BY <1>2 DEF SumsUpTo
<1>4. ASSUME NEW k \in 0..(Len(s) - 1), k \in S PROVE k + 1 \in S
  <2>1. /\ k + 1 \in 1..Len(s) /\ p[k] \in Nat /\ q[k] \in Nat
        /\ p[k + 1] = p[k] + s[k + 1] /\ q[k + 1] = q[k] + t[k + 1]
    BY <1>1, <1>2, SumsStep
  <2>2. k \in 0..Len(s) /\ k + 1 \in 0..Len(s) /\ i \in Nat
        /\ q[k] = (IF k < i THEN p[k] ELSE (p[k] - s[i]) + n)
        /\ s[i] \in Nat /\ s[k + 1] \in Nat
    BY <1>1, <1>4
  <2>3. CASE k + 1 < i
    BY <1>1, <2>1, <2>2, <2>3
  <2>4. CASE k + 1 = i
    BY <1>1, <2>1, <2>2, <2>4, SMTT(60)
  <2>5. CASE k + 1 > i
    <3>1. t[k + 1] = s[k + 1]
      BY <1>1, <2>1, <2>5
    <3>2. q[k] = (p[k] - s[i]) + n
      BY <2>2, <2>5
    <3>3. q[k + 1] = (p[k + 1] - s[i]) + n
      BY <2>1, <2>2, <3>1, <3>2, SMTT(60)
    <3> QED
      BY <2>2, <2>5, <3>3
  <2> QED
    BY <2>2, <2>3, <2>4, <2>5
<1> HIDE DEF S
<1>5. Len(s) \in S
  BY <1>1, <1>3, <1>4, InductionUpTo
<1> QED
  BY <1>1, <1>5 DEF S, Total, p, q, t

\* No element exceeds the sum.
LEMMA TotalBounds ==
  ASSUME NEW s \in Seq(Nat), NEW i \in 1..Len(s)
  PROVE  s[i] <= Total(s)
<1>1. [s EXCEPT ![i] = 0] \in Seq(Nat) /\ s[i] \in Nat
  OBVIOUS
<1>2. Total([s EXCEPT ![i] = 0]) \in Nat /\ Total(s) \in Nat
  BY <1>1, TotalType
<1>3. Total([s EXCEPT ![i] = 0]) = (Total(s) - s[i]) + 0
  BY TotalExcept
<1> QED
  BY <1>1, <1>2, <1>3

\* What is at most as large element by element has at most the same sum.
LEMMA TotalMonotone ==
  ASSUME NEW s \in Seq(Nat), NEW t \in Seq(Nat), Len(s) = Len(t),
         \A i \in 1..Len(s) : s[i] <= t[i]
  PROVE  Total(s) <= Total(t)
<1> DEFINE p == PartialSums(s)
           q == PartialSums(t)
           S == {k \in 0..Len(s) : p[k] <= q[k]}
<1>1. SumsUpTo(p, s, Len(s)) /\ SumsUpTo(q, t, Len(s)) /\ Len(s) \in Nat
  BY PartialSumsFacts
<1> HIDE DEF p, q
<1>2. 0 \in S
  BY <1>1 DEF SumsUpTo
<1>3. ASSUME NEW k \in 0..(Len(s) - 1), k \in S PROVE k + 1 \in S
  <2>1. /\ p[k] \in Nat /\ p[k + 1] = p[k] + s[k + 1]
        /\ q[k] \in Nat /\ q[k + 1] = q[k] + t[k + 1]
    BY <1>1, SumsStep
  <2>2. k + 1 \in 1..Len(s) /\ k + 1 \in 0..Len(s)
    BY <1>1
  <2>3. s[k + 1] \in Nat /\ t[k + 1] \in Nat /\ s[k + 1] <= t[k + 1]
    BY <2>2
  <2>4. p[k] <= q[k]
    BY <1>3
  <2>5. p[k + 1] <= q[k + 1]
    BY <2>1, <2>3, <2>4
  <2> QED
    BY <2>2, <2>5
<1> HIDE DEF S
<1>4. Len(s) \in S
  BY <1>1, <1>2, <1>3, InductionUpTo
<1> QED
  BY <1>4 DEF S, Total, p, q

\* The total of zeros.
LEMMA TotalZero ==
  ASSUME NEW n \in Nat
  PROVE  Total([i \in 1..n |-> 0]) = 0
<1> DEFINE s == [i \in 1..n |-> 0]
           p == PartialSums(s)
           S == {k \in 0..n : p[k] = 0}
<1>0. s \in Seq(Nat) /\ Len(s) = n /\ \A i \in 1..n : s[i] = 0
  OBVIOUS
<1> HIDE DEF s
<1>1. SumsUpTo(p, s, n)
  BY <1>0, PartialSumsFacts
<1> HIDE DEF p
<1>2. 0 \in S
  BY <1>1 DEF SumsUpTo
<1>3. ASSUME NEW k \in 0..(n - 1), k \in S PROVE k + 1 \in S
  <2>1. p[k] \in Nat /\ p[k + 1] = p[k] + s[k + 1]
    BY <1>1, SumsStep
  <2>2. k + 1 \in 1..n /\ k + 1 \in 0..n /\ p[k] = 0
    BY <1>3
  <2>3. s[k + 1] = 0
    BY <1>0, <2>2
  <2> QED
    BY <2>1, <2>2, <2>3
<1> HIDE DEF S
<1>4. n \in S
  BY <1>2, <1>3, InductionUpTo
<1>5. Total(s) = 0
  BY <1>0, <1>4 DEF S, Total, p
<1> QED
  BY <1>5 DEF s

-----------------------------------------------------------------------------
(* Sums over sequences of anything, each element with its weight.           *)

Weights(s, f) == [i \in DOMAIN s |-> f[s[i]]]
Weigh(s, f)   == Total(Weights(s, f))

\* The weights of the elements are a sequence of numbers of the same length.
LEMMA WeightsType ==
  ASSUME NEW T, NEW s \in Seq(T), NEW f \in [T -> Nat]
  PROVE  /\ Weights(s, f) \in Seq(Nat) /\ Len(Weights(s, f)) = Len(s) /\ Len(s) \in Nat
         /\ \A i \in 1..Len(s) : Weights(s, f)[i] = f[s[i]] /\ s[i] \in T
         /\ Weigh(s, f) \in Nat
<1>1. Len(s) \in Nat /\ DOMAIN s = 1..Len(s) /\ \A i \in 1..Len(s) : s[i] \in T
  OBVIOUS
<1>2. Weights(s, f) \in [1..Len(s) -> Nat]
  BY <1>1 DEF Weights
<1>3. Weights(s, f) \in Seq(Nat) /\ Len(Weights(s, f)) = Len(s)
  BY <1>1, <1>2
<1>4. \A i \in 1..Len(s) : Weights(s, f)[i] = f[s[i]]
  BY <1>1 DEF Weights
<1> QED
  BY <1>1, <1>3, <1>4, TotalType DEF Weigh

\* Nothing weighs nothing.
LEMMA WeighEmpty == ASSUME NEW f PROVE Weigh(<<>>, f) = 0
<1>1. Weights(<<>>, f) = <<>> /\ <<>> \in Seq(Nat)
  BY DEF Weights
<1> QED
  BY <1>1, TotalEmpty DEF Weigh

\* The places of two sequences after each other.
LEMMA ConcatFacts ==
  ASSUME NEW T, NEW s \in Seq(T), NEW t \in Seq(T)
  PROVE  /\ s \o t \in Seq(T) /\ Len(s) \in Nat /\ Len(t) \in Nat
         /\ Len(s \o t) = Len(s) + Len(t)
         /\ \A i \in 1..Len(s) : (s \o t)[i] = s[i]
         /\ \A i \in 1..Len(t) : (s \o t)[Len(s) + i] = t[i]
  OBVIOUS

\* Sequences of the same length with the same elements are equal.
LEMMA SameSequence ==
  ASSUME NEW T, NEW s \in Seq(T), NEW t \in Seq(T), Len(s) = Len(t),
         \A i \in 1..Len(s) : s[i] = t[i]
  PROVE  s = t
<1>1. DOMAIN s = 1..Len(s) /\ DOMAIN t = 1..Len(s)
  OBVIOUS
<1>2. s = [i \in DOMAIN s |-> s[i]] /\ t = [i \in DOMAIN t |-> t[i]]
  OBVIOUS
<1> QED
  BY <1>1, <1>2, Zenon

\* The weight of two sequences after each other.
LEMMA WeighConcat ==
  ASSUME NEW T, NEW s \in Seq(T), NEW t \in Seq(T), NEW f \in [T -> Nat]
  PROVE  Weigh(s \o t, f) = Weigh(s, f) + Weigh(t, f)
<1> DEFINE c == s \o t
           u == Weights(s, f)
           v == Weights(t, f)
           w == Weights(c, f)
           m == Len(s)
           n == Len(t)
<1>1. /\ c \in Seq(T) /\ Len(c) = m + n /\ m \in Nat /\ n \in Nat
      /\ \A i \in 1..m : c[i] = s[i]
      /\ \A i \in 1..n : c[m + i] = t[i]
  OBVIOUS
<1> HIDE DEF c
<1>2. /\ u \in Seq(Nat) /\ Len(u) = m /\ \A i \in 1..m : u[i] = f[s[i]]
      /\ v \in Seq(Nat) /\ Len(v) = n /\ \A i \in 1..n : v[i] = f[t[i]]
  BY WeightsType
<1>2w. w \in Seq(Nat) /\ Len(w) = Len(c) /\ \A i \in 1..Len(c) : w[i] = f[c[i]]
  <2>1. c \in Seq(T)
    BY <1>1
  <2> QED
    BY <2>1, WeightsType
<1> HIDE DEF u, v, w, m, n
<1>3. /\ u \o v \in Seq(Nat) /\ Len(u \o v) = m + n
      /\ \A i \in 1..m : (u \o v)[i] = u[i]
      /\ \A i \in 1..n : (u \o v)[m + i] = v[i]
  <2>1. \A a, b \in Seq(Nat) :
          /\ a \o b \in Seq(Nat) /\ Len(a \o b) = Len(a) + Len(b)
          /\ \A i \in 1..Len(a) : (a \o b)[i] = a[i]
          /\ \A i \in 1..Len(b) : (a \o b)[Len(a) + i] = b[i]
    BY ConcatFacts
  <2> QED
    BY <1>2, <2>1
<1>4. \A i \in 1..m : w[i] = (u \o v)[i]
  <2> SUFFICES ASSUME NEW i \in 1..m PROVE w[i] = (u \o v)[i]
    OBVIOUS
  <2>1. i \in 1..Len(c)
    BY <1>1
  <2>2. w[i] = f[c[i]] /\ c[i] = s[i] /\ u[i] = f[s[i]] /\ (u \o v)[i] = u[i]
    BY <1>1, <1>2, <1>2w, <1>3, <2>1
  <2> QED
    BY <2>2
<1>5. \A i \in 1..n : w[m + i] = (u \o v)[m + i]
  <2> SUFFICES ASSUME NEW i \in 1..n PROVE w[m + i] = (u \o v)[m + i]
    OBVIOUS
  <2>1. m + i \in 1..Len(c)
    BY <1>1
  <2>2. w[m + i] = f[c[m + i]]
    BY <1>2w, <2>1
  <2>3. c[m + i] = t[i]
    BY <1>1
  <2>4. v[i] = f[t[i]] /\ (u \o v)[m + i] = v[i]
    BY <1>2, <1>3
  <2> QED
    BY <2>2, <2>3, <2>4
<1>6. ASSUME NEW i \in 1..(m + n) PROVE w[i] = (u \o v)[i]
  <2>1. i \in 1..m \/ (i - m \in 1..n /\ i = m + (i - m))
    BY <1>1
  <2> QED
    BY <1>4, <1>5, <2>1
<1>7. w = u \o v
  <2>1. w \in Seq(Nat) /\ Len(w) = m + n /\ u \o v \in Seq(Nat) /\ Len(u \o v) = Len(w)
    BY <1>1, <1>2w, <1>3
  <2>2. \A i \in 1..Len(w) : w[i] = (u \o v)[i]
    BY <1>6, <2>1
  <2> QED
    BY <2>1, <2>2, SameSequence
<1>8. Total(u \o v) = Total(u) + Total(v)
  BY <1>2, TotalConcat
<1> QED
  BY <1>7, <1>8 DEF Weigh, u, v, w, c

\* The weight of one element.
LEMMA WeighOne ==
  ASSUME NEW T, NEW x \in T, NEW f \in [T -> Nat]
  PROVE  Weigh(<<x>>, f) = f[x]
<1>1. Weights(<<x>>, f) = <<f[x]>> /\ f[x] \in Nat
  BY DEF Weights
<1>2. <<f[x]>> = Append(<<>>, f[x]) /\ <<>> \in Seq(Nat)
  BY <1>1
<1>3. Total(<<>>) = 0
  BY <1>2, TotalEmpty
<1>4. Total(Append(<<>>, f[x])) = Total(<<>>) + f[x]
  BY <1>1, <1>2, TotalAppend
<1> QED
  BY <1>1, <1>2, <1>3, <1>4 DEF Weigh

\* The weight with one element more, at the end.
LEMMA WeighAppend ==
  ASSUME NEW T, NEW s \in Seq(T), NEW x \in T, NEW f \in [T -> Nat]
  PROVE  Weigh(Append(s, x), f) = Weigh(s, f) + f[x]
<1>1. Append(s, x) = s \o <<x>> /\ <<x>> \in Seq(T)
  OBVIOUS
<1>2. Weigh(s \o <<x>>, f) = Weigh(s, f) + Weigh(<<x>>, f)
  BY <1>1, WeighConcat
<1> QED
  BY <1>1, <1>2, WeighOne

\* The weight with one element more, at the front.
LEMMA WeighCons ==
  ASSUME NEW T, NEW s \in Seq(T), NEW x \in T, NEW f \in [T -> Nat]
  PROVE  Weigh(<<x>> \o s, f) = f[x] + Weigh(s, f)
<1>1. <<x>> \in Seq(T)
  OBVIOUS
<1>2. Weigh(<<x>> \o s, f) = Weigh(<<x>>, f) + Weigh(s, f)
  BY <1>1, WeighConcat
<1> QED
  BY <1>2, WeighOne

\* The weight by its first element.
LEMMA WeighTail ==
  ASSUME NEW T, NEW s \in Seq(T), s # <<>>, NEW f \in [T -> Nat]
  PROVE  Weigh(s, f) = f[Head(s)] + Weigh(Tail(s), f)
<1>1. s = <<Head(s)>> \o Tail(s) /\ Head(s) \in T /\ Tail(s) \in Seq(T)
  OBVIOUS
<1> QED
  BY <1>1, WeighCons

\* The weight with one element replaced.
LEMMA WeighExcept ==
  ASSUME NEW T, NEW s \in Seq(T), NEW i \in 1..Len(s), NEW x \in T, NEW f \in [T -> Nat]
  PROVE  Weigh([s EXCEPT ![i] = x], f) = (Weigh(s, f) - f[s[i]]) + f[x]
<1>1. Weights([s EXCEPT ![i] = x], f) = [Weights(s, f) EXCEPT ![i] = f[x]]
  BY DEF Weights
<1>2. /\ Weights(s, f) \in Seq(Nat) /\ i \in 1..Len(Weights(s, f)) /\ f[x] \in Nat
      /\ Weights(s, f)[i] = f[s[i]]
  BY WeightsType
<1> QED
  BY <1>1, <1>2, TotalExcept DEF Weigh

\* Smaller weights give a smaller sum.
LEMMA WeighMonotone ==
  ASSUME NEW T, NEW s \in Seq(T), NEW f \in [T -> Nat], NEW g \in [T -> Nat],
         \A x \in T : f[x] <= g[x]
  PROVE  Weigh(s, f) <= Weigh(s, g)
<1>1. /\ Weights(s, f) \in Seq(Nat) /\ Weights(s, g) \in Seq(Nat)
      /\ Len(Weights(s, f)) = Len(Weights(s, g)) /\ Len(Weights(s, f)) = Len(s)
  BY WeightsType
<1>2. \A i \in 1..Len(s) : Weights(s, f)[i] <= Weights(s, g)[i]
  <2> SUFFICES ASSUME NEW i \in 1..Len(s) PROVE Weights(s, f)[i] <= Weights(s, g)[i]
    OBVIOUS
  <2>1. Weights(s, f)[i] = f[s[i]] /\ Weights(s, g)[i] = g[s[i]] /\ s[i] \in T
    BY WeightsType
  <2> QED
    BY <2>1
<1> QED
  BY <1>1, <1>2, TotalMonotone DEF Weigh

-----------------------------------------------------------------------------
(* The elements of a sequence outside a set.                                *)

\* Occurrences are counted by a number.
LEMMA OccurrencesType ==
  ASSUME NEW T, NEW s \in Seq(T), NEW a
  PROVE  Occurrences(s, a) \in Nat /\ IsFiniteSet({i \in DOMAIN s : s[i] = a})
<1>1. IsFiniteSet(1..Len(s)) /\ DOMAIN s = 1..Len(s)
  BY FS_Interval
<1>2. IsFiniteSet({i \in DOMAIN s : s[i] = a})
  BY <1>1, FS_Subset
<1> QED
  BY <1>2, FS_CardinalityType DEF Occurrences

\* Nothing occurs in a sequence more often than it has places.
LEMMA OccurrencesBound ==
  ASSUME NEW T, NEW s \in Seq(T), NEW a
  PROVE  Occurrences(s, a) <= Len(s)
<1>1. DOMAIN s = 1..Len(s) /\ Len(s) \in Nat
  OBVIOUS
<1>2. IsFiniteSet(1..Len(s)) /\ Cardinality(1..Len(s)) = Len(s)
  BY <1>1, FS_Interval
<1> QED
  BY <1>1, <1>2, FS_Subset DEF Occurrences

\* Nothing occurs in an empty sequence.
LEMMA OccurrencesEmpty == ASSUME NEW a PROVE Occurrences(<<>>, a) = 0
<1>1. {i \in DOMAIN <<>> : <<>>[i] = a} = {}
  OBVIOUS
<1> QED
  BY <1>1, FS_EmptySet DEF Occurrences

\* An element more is an occurrence more of itself.
LEMMA OccurrencesAppend ==
  ASSUME NEW T, NEW s \in Seq(T), NEW x \in T, NEW a
  PROVE  Occurrences(Append(s, x), a) = Occurrences(s, a) + IF x = a THEN 1 ELSE 0
<1> DEFINE t == Append(s, x)
           A == {i \in DOMAIN s : s[i] = a}
           B == {i \in DOMAIN t : t[i] = a}
<1>1. /\ DOMAIN t = 1..(Len(s) + 1) /\ DOMAIN s = 1..Len(s) /\ Len(s) \in Nat
      /\ \A i \in 1..Len(s) : t[i] = s[i]
      /\ t[Len(s) + 1] = x
  OBVIOUS
<1>2. IsFiniteSet(A) /\ Cardinality(A) \in Nat
  BY OccurrencesType DEF Occurrences
<1>3. CASE x = a
  <2>1. B = A \cup {Len(s) + 1} /\ Len(s) + 1 \notin A
    BY <1>1, <1>3
  <2>2. Cardinality(A \cup {Len(s) + 1}) = Cardinality(A) + 1
    BY <1>2, <2>1, FS_AddElement
  <2> QED
    BY <1>3, <2>1, <2>2 DEF Occurrences
<1>4. CASE x # a
  <2>1. B = A
    BY <1>1, <1>4
  <2> QED
    BY <1>2, <1>4, <2>1, Cardinality(A) + 0 = Cardinality(A) DEF Occurrences
<1> QED
  BY <1>3, <1>4

\* f[n] is what the first n elements of s leave outside S.
OutsideUpTo(f, s, S, m) ==
  /\ f[0] = <<>>
  /\ \A n \in 1..m : f[n] = IF s[n] \in S THEN f[n - 1] ELSE Append(f[n - 1], s[n])

\* Every sequence has parts outside a set.
LEMMA OutsideExist ==
  ASSUME NEW T, NEW s \in Seq(T), NEW S
  PROVE  \E f : OutsideUpTo(f, s, S, Len(s)) /\ DOMAIN f = 0..Len(s) /\ f = [n \in DOMAIN f |-> f[n]]
<1> DEFINE Fun(f, k) == DOMAIN f = 0..k /\ f = [n \in DOMAIN f |-> f[n]]
           K == {k \in 0..Len(s) : \E f : OutsideUpTo(f, s, S, k) /\ Fun(f, k)}
<1>1. 0 \in K
  <2>1. OutsideUpTo([n \in 0..0 |-> <<>>], s, S, 0) /\ Fun([n \in 0..0 |-> <<>>], 0)
    BY DEF OutsideUpTo
  <2> QED
    BY <2>1
<1>2. ASSUME NEW k \in 0..(Len(s) - 1), k \in K PROVE k + 1 \in K
  <2>1. PICK f : OutsideUpTo(f, s, S, k) /\ Fun(f, k)
    BY <1>2
  <2> DEFINE g == [n \in 0..(k + 1) |->
                     IF n = k + 1 THEN (IF s[k + 1] \in S THEN f[k] ELSE Append(f[k], s[k + 1]))
                     ELSE f[n]]
  <2>2. Fun(g, k + 1) /\ g[0] = <<>>
    BY <2>1 DEF OutsideUpTo
  <2>3. \A n \in 1..(k + 1) : g[n] = IF s[n] \in S THEN g[n - 1] ELSE Append(g[n - 1], s[n])
    BY <2>1 DEF OutsideUpTo
  <2>4. OutsideUpTo(g, s, S, k + 1)
    BY <2>2, <2>3 DEF OutsideUpTo
  <2>5. k + 1 \in 0..Len(s)
    OBVIOUS
  <2> HIDE DEF g
  <2> QED
    BY <2>2, <2>4, <2>5
<1>3. Len(s) \in Nat
  OBVIOUS
<1> HIDE DEF K
<1>4. Len(s) \in K
  BY <1>1, <1>2, <1>3, InductionUpTo
<1> QED
  BY <1>4 DEF K

\* PartsOutside(s, S) are those parts.
LEMMA PartsOutsideFacts ==
  ASSUME NEW T, NEW s \in Seq(T), NEW S
  PROVE  OutsideUpTo(PartsOutside(s, S), s, S, Len(s))
<1> DEFINE Is(f) == f = [n \in 0..Len(s) |->
                           IF n = 0 THEN <<>>
                           ELSE IF s[n] \in S THEN f[n - 1] ELSE Append(f[n - 1], s[n])]
<1>1. PICK f : OutsideUpTo(f, s, S, Len(s)) /\ DOMAIN f = 0..Len(s) /\ f = [n \in DOMAIN f |-> f[n]]
  BY OutsideExist
<1>2. Len(s) \in Nat
  OBVIOUS
<1>3. Is(f)
  <2> DEFINE e(n) == IF n = 0 THEN <<>>
                     ELSE IF s[n] \in S THEN f[n - 1] ELSE Append(f[n - 1], s[n])
  <2>1. ASSUME NEW n \in 0..Len(s) PROVE f[n] = e(n)
    <3>1. CASE n = 0
      BY <1>1, <3>1 DEF OutsideUpTo
    <3>2. CASE n # 0
      <4>1. n \in 1..Len(s)
        BY <1>2, <3>2
      <4>2. f[n] = IF s[n] \in S THEN f[n - 1] ELSE Append(f[n - 1], s[n])
        BY <1>1, <4>1 DEF OutsideUpTo
      <4> QED
        BY <3>2, <4>2
    <3> QED
      BY <3>1, <3>2
  <2> HIDE DEF e
  <2>2. f = [n \in 0..Len(s) |-> e(n)]
    BY <1>1, <2>1
  <2> QED
    BY <2>2 DEF e
<1> DEFINE p == PartsOutside(s, S)
<1>4. Is(p)
  BY <1>3 DEF PartsOutside
<1> HIDE DEF p
<1>5. OutsideUpTo(p, s, S, Len(s))
  <2>1. p[0] = <<>>
    BY <1>2, <1>4
  <2>2. ASSUME NEW n \in 1..Len(s)
        PROVE  p[n] = IF s[n] \in S THEN p[n - 1] ELSE Append(p[n - 1], s[n])
    <3>1. n \in 0..Len(s) /\ n # 0
      BY <1>2
    <3> QED
      BY <1>4, <3>1
  <2> QED
    BY <2>1, <2>2 DEF OutsideUpTo
<1> QED
  BY <1>5 DEF p

\* What Outside() returns: elements of s outside S, each as often as s has it.
LEMMA OutsideFacts ==
  ASSUME NEW T, NEW s \in Seq(T), NEW S
  PROVE  /\ Outside(s, S) \in Seq(T \ S)
         /\ Len(Outside(s, S)) <= Len(s)
         /\ \A a : Occurrences(Outside(s, S), a) = IF a \in S THEN 0 ELSE Occurrences(s, a)
<1> DEFINE p == PartsOutside(s, S)
           Upto(n) == SubSeq(s, 1, n)
           Good(n) == /\ p[n] \in Seq(T \ S) /\ Len(p[n]) <= n
                      /\ \A a : Occurrences(p[n], a) = IF a \in S THEN 0 ELSE Occurrences(Upto(n), a)
           K == {k \in 0..Len(s) : Good(k)}
<1>1. OutsideUpTo(p, s, S, Len(s)) /\ Len(s) \in Nat
  BY PartsOutsideFacts
<1> HIDE DEF p
<1>2. Upto(0) = <<>> /\ Upto(Len(s)) = s
  OBVIOUS
<1>3. ASSUME NEW k \in 0..(Len(s) - 1)
      PROVE  Upto(k) \in Seq(T) /\ Upto(k + 1) = Append(Upto(k), s[k + 1]) /\ s[k + 1] \in T
  OBVIOUS
<1> HIDE DEF Upto
<1>4. 0 \in K
  <2>1. p[0] = <<>>
    BY <1>1 DEF OutsideUpTo
  <2>2. <<>> \in Seq(T \ S) /\ Len(<<>>) = 0 /\ 0 \in 0..Len(s)
    BY <1>1
  <2>3. \A a : Occurrences(<<>>, a) = 0
    BY OccurrencesEmpty
  <2>4. Good(0)
    BY <1>2, <2>1, <2>2, <2>3
  <2> HIDE DEF Good
  <2> QED
    BY <2>2, <2>4
<1>5. ASSUME NEW k \in 0..(Len(s) - 1), k \in K PROVE k + 1 \in K
  <2>1. k + 1 \in 1..Len(s) /\ (k + 1) - 1 = k
    BY <1>1
  <2>2. p[k + 1] = IF s[k + 1] \in S THEN p[k] ELSE Append(p[k], s[k + 1])
    BY <1>1, <2>1 DEF OutsideUpTo
  <2>3. /\ p[k] \in Seq(T \ S) /\ Len(p[k]) <= k
        /\ \A a : Occurrences(p[k], a) = IF a \in S THEN 0 ELSE Occurrences(Upto(k), a)
    BY <1>5
  <2>4. \A a : Occurrences(Upto(k + 1), a) = Occurrences(Upto(k), a) + IF s[k + 1] = a THEN 1 ELSE 0
    <3>1. /\ Upto(k) \in Seq(T) /\ s[k + 1] \in T
          /\ Upto(k + 1) = Append(Upto(k), s[k + 1])
      BY <1>3
    <3>2. \A a : Occurrences(Append(Upto(k), s[k + 1]), a)
                    = Occurrences(Upto(k), a) + IF s[k + 1] = a THEN 1 ELSE 0
      BY <3>1, OccurrencesAppend
    <3> QED
      BY <3>1, <3>2
  <2>5. \A a : Occurrences(Upto(k), a) \in Nat
    BY <1>3, OccurrencesType
  <2>6. CASE s[k + 1] \in S
    <3>1. \A a : a \notin S => Occurrences(Upto(k + 1), a) = Occurrences(Upto(k), a)
      BY <2>4, <2>5, <2>6
    <3> QED
      BY <2>1, <2>2, <2>3, <2>6, <3>1
  <2>7. CASE s[k + 1] \notin S
    <3>1. s[k + 1] \in T \ S
      BY <1>3, <2>7
    <3>2. p[k + 1] = Append(p[k], s[k + 1])
      BY <2>2, <2>7
    <3>3. \A a : Occurrences(p[k + 1], a) = Occurrences(p[k], a) + IF s[k + 1] = a THEN 1 ELSE 0
      BY <2>3, <3>1, <3>2, OccurrencesAppend
    <3>4. \A a : Occurrences(p[k + 1], a) = IF a \in S THEN 0 ELSE Occurrences(Upto(k + 1), a)
      BY <2>3, <2>4, <2>5, <2>7, <3>3
    <3>5. p[k + 1] \in Seq(T \ S) /\ Len(p[k + 1]) = Len(p[k]) + 1 /\ Len(p[k]) \in Nat
      BY <2>3, <3>1, <3>2
    <3> QED
      BY <2>1, <2>3, <3>4, <3>5
  <2> QED
    BY <2>6, <2>7
<1> HIDE DEF K
<1>6. Len(s) \in K
  BY <1>1, <1>4, <1>5, InductionUpTo
<1> QED
  BY <1>2, <1>6 DEF K, Outside, p

\* What Outside() leaves out is as many as there are elements in S.
LEMMA OutsideLength ==
  ASSUME NEW T, NEW s \in Seq(T), NEW S
  PROVE  /\ IsFiniteSet({i \in 1..Len(s) : s[i] \in S})
         /\ Len(Outside(s, S)) + Cardinality({i \in 1..Len(s) : s[i] \in S}) = Len(s)
<1> DEFINE p == PartsOutside(s, S)
           In(n) == {i \in 1..n : s[i] \in S}
           Good(n) == /\ p[n] \in Seq(T) /\ IsFiniteSet(In(n))
                      /\ Len(p[n]) + Cardinality(In(n)) = n
           K == {k \in 0..Len(s) : Good(k)}
<1>1. OutsideUpTo(p, s, S, Len(s)) /\ Len(s) \in Nat
  BY PartsOutsideFacts
<1> HIDE DEF p
<1>2. 0 \in K
  <2>1. p[0] = <<>> /\ <<>> \in Seq(T) /\ Len(<<>>) = 0 /\ 0 \in 0..Len(s)
    BY <1>1 DEF OutsideUpTo
  <2>2. In(0) = {} /\ IsFiniteSet({}) /\ Cardinality({}) = 0
    BY FS_EmptySet
  <2>3. IsFiniteSet(In(0)) /\ Cardinality(In(0)) = 0
    BY <2>2
  <2> HIDE DEF In
  <2>4. Good(0)
    BY <2>1, <2>3
  <2> HIDE DEF Good
  <2> QED
    BY <2>1, <2>4
<1>3. ASSUME NEW k \in 0..(Len(s) - 1), k \in K PROVE k + 1 \in K
  <2>1. k \in Nat /\ k + 1 \in 1..Len(s) /\ (k + 1) - 1 = k /\ s[k + 1] \in T
    BY <1>1
  <2>2. p[k + 1] = IF s[k + 1] \in S THEN p[k] ELSE Append(p[k], s[k + 1])
    BY <1>1, <2>1 DEF OutsideUpTo
  <2>3. p[k] \in Seq(T) /\ IsFiniteSet(In(k)) /\ Len(p[k]) + Cardinality(In(k)) = k
    BY <1>3
  <2>4. In(k + 1) = IF s[k + 1] \in S THEN In(k) \cup {k + 1} ELSE In(k)
    BY <2>1
  <2>5. k + 1 \notin In(k)
    BY <2>1
  <2> HIDE DEF In
  <2> DEFINE m == Len(p[k])
             c == Cardinality(In(k))
  <2>6. m \in Nat /\ c \in Nat /\ m + c = k
    BY <2>3, FS_CardinalityType
  <2>7. CASE s[k + 1] \in S
    <3>1. IsFiniteSet(In(k + 1)) /\ Cardinality(In(k + 1)) = c + 1
      BY <2>3, <2>4, <2>5, <2>7, FS_AddElement
    <3>2. p[k + 1] \in Seq(T) /\ Len(p[k + 1]) = m
      BY <2>2, <2>3, <2>7
    <3> HIDE DEF m, c
    <3>3. m + (c + 1) = k + 1
      BY <2>6
    <3> QED
      BY <2>1, <3>1, <3>2, <3>3
  <2>8. CASE s[k + 1] \notin S
    <3>1. IsFiniteSet(In(k + 1)) /\ Cardinality(In(k + 1)) = c
      BY <2>3, <2>4, <2>8
    <3>2. p[k + 1] \in Seq(T) /\ Len(p[k + 1]) = m + 1
      BY <2>1, <2>2, <2>3, <2>8
    <3> HIDE DEF m, c
    <3>3. (m + 1) + c = k + 1
      BY <2>6
    <3> QED
      BY <2>1, <3>1, <3>2, <3>3
  <2> QED
    BY <2>7, <2>8
<1> HIDE DEF K
<1>4. Len(s) \in K
  BY <1>1, <1>2, <1>3, InductionUpTo
<1> QED
  BY <1>4 DEF K, Outside, p

\* As many ones as there are places.
LEMMA TotalOnes ==
  ASSUME NEW n \in Nat
  PROVE  Total([i \in 1..n |-> 1]) = n
<1> DEFINE s == [i \in 1..n |-> 1]
           p == PartialSums(s)
           S == {k \in 0..n : p[k] = k}
<1>0. s \in Seq(Nat) /\ Len(s) = n /\ \A i \in 1..n : s[i] = 1
  OBVIOUS
<1> HIDE DEF s
<1>1. SumsUpTo(p, s, n)
  BY <1>0, PartialSumsFacts
<1> HIDE DEF p
<1>2. 0 \in S
  BY <1>1 DEF SumsUpTo
<1>3. ASSUME NEW k \in 0..(n - 1), k \in S PROVE k + 1 \in S
  <2>1. p[k] \in Nat /\ p[k + 1] = p[k] + s[k + 1]
    BY <1>1, SumsStep
  <2>2. k + 1 \in 1..n /\ k + 1 \in 0..n /\ p[k] = k
    BY <1>3
  <2>3. s[k + 1] = 1
    BY <1>0, <2>2
  <2> QED
    BY <2>1, <2>2, <2>3
<1> HIDE DEF S
<1>4. n \in S
  BY <1>2, <1>3, InductionUpTo
<1>5. Total(s) = n
  BY <1>0, <1>4 DEF S, Total, p
<1> QED
  BY <1>5 DEF s

\* The numbered elements of a finite set.
Numbering(f, S) ==
  /\ f \in [1..Cardinality(S) -> S] /\ Cardinality(S) \in Nat
  /\ \A i, j \in 1..Cardinality(S) : f[i] = f[j] => i = j
  /\ \A x \in S : \E i \in 1..Cardinality(S) : f[i] = x

\* A function that numbers elements of a finite set, none twice, numbers all.
LEMMA NumberingFacts ==
  ASSUME NEW S, IsFiniteSet(S)
  PROVE  /\ \E f \in [1..Cardinality(S) -> S] :
              \A i, j \in 1..Cardinality(S) : f[i] = f[j] => i = j
         /\ \A f \in [1..Cardinality(S) -> S] :
              (\A i, j \in 1..Cardinality(S) : f[i] = f[j] => i = j) => Numbering(f, S)
<1> DEFINE n == Cardinality(S)
<1>1. n \in Nat /\ ExistsBijection(1..n, S)
  BY FS_CardinalityType
<1>2. PICK g : g \in Bijection(1..n, S)
  BY <1>1 DEF ExistsBijection
<1>3. g \in [1..n -> S] /\ \A i, j \in 1..n : g[i] = g[j] => i = j
  BY <1>2 DEF Bijection, Injection, IsInjective
<1>4. IsFiniteSet(1..n) /\ Cardinality(1..n) = n
  BY <1>1, FS_Interval
<1>5. ASSUME NEW f \in [1..n -> S], \A i, j \in 1..n : f[i] = f[j] => i = j
      PROVE  Numbering(f, S)
  <2>1. f \in Injection(1..n, S)
    BY <1>5 DEF Injection, IsInjective
  <2>2. f \in Surjection(1..n, S)
    BY <1>4, <2>1, FS_Injection
  <2> QED
    BY <1>1, <1>5, <2>2 DEF Surjection, Numbering
<1> QED
  BY <1>3, <1>5

\* A set that is numbered, none twice, has as many elements.
LEMMA NumberedCardinality ==
  ASSUME NEW I, IsFiniteSet(I), NEW f, \A i, j \in I : f[i] = f[j] => i = j
  PROVE  IsFiniteSet({f[i] : i \in I}) /\ Cardinality({f[i] : i \in I}) = Cardinality(I)
<1> DEFINE R == {f[i] : i \in I}
           g == [i \in I |-> f[i]]
<1>1. g \in Bijection(I, R)
  BY DEF Bijection, Injection, Surjection, IsInjective
<1> QED
  BY <1>1, FS_Bijection DEF ExistsBijection

\* The order in which sequences are put after each other does not matter.
LEMMA ConcatAssoc ==
  ASSUME NEW T, NEW s \in Seq(T), NEW t \in Seq(T), NEW u \in Seq(T)
  PROVE  (s \o t) \o u = s \o (t \o u)
<1> DEFINE l == Len(s)
           m == Len(t)
           n == Len(u)
           a == (s \o t) \o u
           b == s \o (t \o u)
<1>1. /\ l \in Nat /\ m \in Nat /\ n \in Nat
      /\ s \o t \in Seq(T) /\ Len(s \o t) = l + m
      /\ t \o u \in Seq(T) /\ Len(t \o u) = m + n
      /\ \A i \in 1..l : (s \o t)[i] = s[i]
      /\ \A i \in 1..m : (s \o t)[l + i] = t[i]
      /\ \A i \in 1..m : (t \o u)[i] = t[i]
      /\ \A i \in 1..n : (t \o u)[m + i] = u[i]
  BY ConcatFacts
<1> DEFINE st == s \o t
           tu == t \o u
<1>2. /\ a \in Seq(T) /\ Len(a) = Len(st) + n
      /\ \A i \in 1..Len(st) : a[i] = st[i]
      /\ \A i \in 1..n : a[Len(st) + i] = u[i]
  BY <1>1, ConcatFacts
<1>3. /\ b \in Seq(T) /\ Len(b) = l + Len(tu)
      /\ \A i \in 1..l : b[i] = s[i]
      /\ \A i \in 1..Len(tu) : b[l + i] = tu[i]
  BY <1>1, ConcatFacts
<1> HIDE DEF l, m, n, a, b, st, tu
<1>4. Len(st) = l + m /\ Len(tu) = m + n
  BY <1>1 DEF st, tu
<1>5. Len(a) = (l + m) + n /\ Len(b) = (l + m) + n
  BY <1>1, <1>2, <1>3, <1>4
<1>6. ASSUME NEW i \in 1..Len(a) PROVE a[i] = b[i]
  <2>0. i \in Nat /\ (i <= l \/ (i > l /\ i <= l + m) \/ (i > l + m))
    BY <1>1, <1>5
  <2>1. CASE i <= l
    <3>1. i \in 1..l /\ i \in 1..(l + m)
      BY <1>1, <2>0, <2>1
    <3>2. a[i] = st[i] /\ st[i] = s[i] /\ b[i] = s[i]
      BY <1>1, <1>2, <1>3, <1>4, <3>1 DEF st
    <3> QED
      BY <3>2
  <2>2. CASE i > l /\ i <= l + m
    <3> DEFINE k == i - l
    <3>1. k \in 1..m /\ l + k = i /\ i \in 1..(l + m) /\ k \in 1..(m + n)
      BY <1>1, <2>0, <2>2
    <3> HIDE DEF k
    <3>2. a[i] = st[i] /\ st[l + k] = t[k]
      BY <1>1, <1>2, <1>4, <3>1 DEF st
    <3>3. b[l + k] = tu[k] /\ tu[k] = t[k]
      BY <1>1, <1>3, <1>4, <3>1 DEF tu
    <3> QED
      BY <3>1, <3>2, <3>3
  <2>3. CASE i > l + m
    <3> DEFINE k == i - (l + m)
    <3>1. k \in 1..n /\ (l + m) + k = i /\ l + (m + k) = i /\ m + k \in 1..(m + n)
      BY <1>1, <1>5, <2>0, <2>3
    <3> HIDE DEF k
    <3>2. a[i] = u[k]
      BY <1>2, <1>4, <3>1
    <3>3. b[i] = tu[m + k] /\ tu[m + k] = u[k]
      BY <1>1, <1>3, <1>4, <3>1 DEF tu
    <3> QED
      BY <3>2, <3>3
  <2> QED
    BY <2>0, <2>1, <2>2, <2>3
<1>7. a = b
  BY <1>2, <1>3, <1>5, <1>6, SameSequence
<1> QED
  BY <1>7 DEF a, b

-----------------------------------------------------------------------------
(* Sums over finite sets.                                                   *)

\* A finite set is numbered.
LEMMA NumberedFacts ==
  ASSUME NEW S, IsFiniteSet(S)
  PROVE  Numbering(Numbered(S), S)
<1> DEFINE Apart(f) == \A i, j \in 1..Cardinality(S) : f[i] = f[j] => i = j
           g == Numbered(S)
<1>1. \E f \in [1..Cardinality(S) -> S] : Apart(f)
  BY NumberingFacts
<1>2. g = CHOOSE f \in [1..Cardinality(S) -> S] : Apart(f)
  BY DEF Numbered
<1> HIDE DEF Apart, g
<1>3. g \in [1..Cardinality(S) -> S] /\ Apart(g)
  BY <1>1, <1>2, ZenonT(60)
<1> USE DEF Apart, g
<1> QED
  BY <1>3, NumberingFacts

\* A sum over a set is one of numbers.
LEMMA SumOverType ==
  ASSUME NEW S, IsFiniteSet(S), NEW f \in [S -> Nat]
  PROVE  SumOver(f, S) \in Nat
<1> DEFINE s == [i \in 1..Cardinality(S) |-> f[Numbered(S)[i]]]
<1>1. s \in [1..Cardinality(S) -> Nat] /\ Cardinality(S) \in Nat
  BY NumberedFacts DEF Numbering
<1>2. s \in Seq(Nat)
  BY <1>1
<1> QED
  BY <1>2, TotalType DEF SumOver

\* A change of one number changes the sum by as much; and none exceeds the sum.
LEMMA SumOverChange ==
  ASSUME NEW S, IsFiniteSet(S), NEW f \in [S -> Nat], NEW x \in S,
         NEW h \in [S -> Nat], \A y \in S \ {x} : h[y] = f[y]
  PROVE  /\ SumOver(h, S) = (SumOver(f, S) - f[x]) + h[x]
         /\ f[x] <= SumOver(f, S)
<1> DEFINE N == Cardinality(S)
           g == Numbered(S)
           s == [i \in 1..N |-> f[g[i]]]
           t == [i \in 1..N |-> h[g[i]]]
           n == h[x]
<1>1. Numbering(g, S)
  BY NumberedFacts
<1> HIDE DEF g
<1>2. /\ N \in Nat /\ s \in [1..N -> Nat] /\ t \in [1..N -> Nat] /\ n \in Nat
      /\ \A i \in 1..N : g[i] \in S
  BY <1>1 DEF Numbering
<1>3. s \in Seq(Nat) /\ Len(s) = N
  BY <1>2
<1>4. PICK k \in 1..N : g[k] = x
  BY <1>1 DEF Numbering
<1>5. \A i \in 1..N : i # k => g[i] # x
  BY <1>1, <1>4 DEF Numbering
<1>6. s[k] = f[x] /\ t[k] = n
  BY <1>4
<1>7. t = [s EXCEPT ![k] = n]
  <2>1. \A i \in 1..N : t[i] = IF i = k THEN n ELSE s[i]
    BY <1>2, <1>4, <1>5
  <2> QED
    BY <1>2, <2>1
<1>8. SumOver(f, S) = Total(s) /\ SumOver(h, S) = Total(t)
  BY DEF SumOver, g
<1> HIDE DEF s, t, N, n
<1>9. k \in 1..Len(s)
  BY <1>3
<1>10. Total([s EXCEPT ![k] = n]) = (Total(s) - s[k]) + n /\ s[k] <= Total(s)
  BY <1>2, <1>3, <1>9, TotalExcept, TotalBounds
<1> QED
  BY <1>6, <1>7, <1>8, <1>10 DEF n

\* The sum of zeros.
LEMMA SumOverZero ==
  ASSUME NEW S, IsFiniteSet(S), NEW f, \A x \in S : f[x] = 0
  PROVE  SumOver(f, S) = 0
<1> DEFINE g == Numbered(S)
<1>1. Numbering(g, S)
  BY NumberedFacts
<1> HIDE DEF g
<1>2. Cardinality(S) \in Nat /\ \A i \in 1..Cardinality(S) : f[g[i]] = 0
  BY <1>1 DEF Numbering
<1>3. [i \in 1..Cardinality(S) |-> f[g[i]]] = [i \in 1..Cardinality(S) |-> 0]
  BY <1>2
<1> QED
  BY <1>2, <1>3, TotalZero DEF SumOver, g

\* f[n] is what the first n sequences of ss are after each other.
JoinsUpTo(f, ss, m) ==
  /\ f[0] = <<>>
  /\ \A n \in 1..m : f[n] = f[n - 1] \o ss[n]

\* Sequences can be put after each other.
LEMMA JoinsExist ==
  ASSUME NEW T, NEW ss \in Seq(T)
  PROVE  \E f : JoinsUpTo(f, ss, Len(ss)) /\ DOMAIN f = 0..Len(ss) /\ f = [n \in DOMAIN f |-> f[n]]
<1> DEFINE Fun(f, k) == DOMAIN f = 0..k /\ f = [n \in DOMAIN f |-> f[n]]
           K == {k \in 0..Len(ss) : \E f : JoinsUpTo(f, ss, k) /\ Fun(f, k)}
<1>1. 0 \in K
  <2>1. JoinsUpTo([n \in 0..0 |-> <<>>], ss, 0) /\ Fun([n \in 0..0 |-> <<>>], 0)
    BY DEF JoinsUpTo
  <2> QED
    BY <2>1
<1>2. ASSUME NEW k \in 0..(Len(ss) - 1), k \in K PROVE k + 1 \in K
  <2>1. PICK f : JoinsUpTo(f, ss, k) /\ Fun(f, k)
    BY <1>2
  <2> DEFINE g == [n \in 0..(k + 1) |-> IF n = k + 1 THEN f[k] \o ss[k + 1] ELSE f[n]]
  <2>2. Fun(g, k + 1) /\ g[0] = <<>>
    BY <2>1 DEF JoinsUpTo
  <2>3. \A n \in 1..(k + 1) : g[n] = g[n - 1] \o ss[n]
    BY <2>1 DEF JoinsUpTo
  <2>4. JoinsUpTo(g, ss, k + 1)
    BY <2>2, <2>3 DEF JoinsUpTo
  <2>5. k + 1 \in 0..Len(ss)
    OBVIOUS
  <2> HIDE DEF g
  <2> QED
    BY <2>2, <2>4, <2>5
<1>3. Len(ss) \in Nat
  OBVIOUS
<1> HIDE DEF K
<1>4. Len(ss) \in K
  BY <1>1, <1>2, <1>3, InductionUpTo
<1> QED
  BY <1>4 DEF K

\* PartialJoins(ss) is that.
LEMMA PartialJoinsFacts ==
  ASSUME NEW T, NEW ss \in Seq(T)
  PROVE  JoinsUpTo(PartialJoins(ss), ss, Len(ss))
<1> DEFINE Is(f) == f = [n \in 0..Len(ss) |-> IF n = 0 THEN <<>> ELSE f[n - 1] \o ss[n]]
<1>1. PICK f : JoinsUpTo(f, ss, Len(ss)) /\ DOMAIN f = 0..Len(ss) /\ f = [n \in DOMAIN f |-> f[n]]
  BY JoinsExist
<1>2. Len(ss) \in Nat
  OBVIOUS
<1>3. Is(f)
  <2> DEFINE e(n) == IF n = 0 THEN <<>> ELSE f[n - 1] \o ss[n]
  <2>1. ASSUME NEW n \in 0..Len(ss) PROVE f[n] = e(n)
    <3>1. CASE n = 0
      BY <1>1, <3>1 DEF JoinsUpTo
    <3>2. CASE n # 0
      <4>1. n \in 1..Len(ss)
        BY <1>2, <3>2
      <4>2. f[n] = f[n - 1] \o ss[n]
        BY <1>1, <4>1 DEF JoinsUpTo
      <4> QED
        BY <3>2, <4>2
    <3> QED
      BY <3>1, <3>2
  <2> HIDE DEF e
  <2>2. f = [n \in 0..Len(ss) |-> e(n)]
    BY <1>1, <2>1
  <2> QED
    BY <2>2 DEF e
<1> DEFINE p == PartialJoins(ss)
<1>4. Is(p)
  BY <1>3 DEF PartialJoins
<1> HIDE DEF p
<1>5. JoinsUpTo(p, ss, Len(ss))
  <2>1. p[0] = <<>>
    BY <1>2, <1>4
  <2>2. ASSUME NEW n \in 1..Len(ss)
        PROVE  p[n] = p[n - 1] \o ss[n]
    <3>1. n \in 0..Len(ss) /\ n # 0
      BY <1>2
    <3> QED
      BY <1>4, <3>1
  <2> QED
    BY <2>1, <2>2 DEF JoinsUpTo
<1> QED
  BY <1>5 DEF p

\* Sequences that agree up to m are the same up to m when joined.
LEMMA CommonJoins ==
  ASSUME NEW T, NEW s \in Seq(T), NEW t \in Seq(T), NEW m \in Nat,
         m <= Len(s), m <= Len(t), \A i \in 1..m : s[i] = t[i]
  PROVE  PartialJoins(s)[m] = PartialJoins(t)[m]
<1> DEFINE p == PartialJoins(s)
           q == PartialJoins(t)
           S == {k \in 0..m : p[k] = q[k]}
<1>1. JoinsUpTo(p, s, Len(s)) /\ JoinsUpTo(q, t, Len(t)) /\ Len(s) \in Nat /\ Len(t) \in Nat
  BY PartialJoinsFacts
<1> HIDE DEF p, q
<1>2. 0 \in S
  BY <1>1 DEF JoinsUpTo
<1>3. ASSUME NEW k \in 0..(m - 1), k \in S PROVE k + 1 \in S
  <2>1. /\ k + 1 \in 1..m /\ k + 1 \in 1..Len(s) /\ k + 1 \in 1..Len(t) /\ (k + 1) - 1 = k
        /\ k + 1 \in 0..m
    BY <1>1
  <2>2. p[k + 1] = p[k] \o s[k + 1] /\ q[k + 1] = q[k] \o t[k + 1] /\ p[k] = q[k]
    BY <1>1, <1>3, <2>1 DEF JoinsUpTo
  <2>3. p[k + 1] = q[k + 1]
    BY <2>1, <2>2
  <2> QED
    BY <2>1, <2>3
<1> HIDE DEF S
<1>4. m \in S
  BY <1>2, <1>3, InductionUpTo
<1> QED
  BY <1>4 DEF S, p, q

\* Nothing joined, and one sequence more.
LEMMA ConcatenatedEmpty ==
  ASSUME NEW ss, ss = <<>>
  PROVE  Concatenated(ss) = <<>>
<1>1. <<>> \in Seq({}) /\ Len(<<>>) = 0
  OBVIOUS
<1> QED
  BY <1>1, PartialJoinsFacts DEF Concatenated, JoinsUpTo

LEMMA ConcatenatedAppend ==
  ASSUME NEW T, NEW s \in Seq(T), NEW x \in T
  PROVE  Concatenated(Append(s, x)) = Concatenated(s) \o x
<1> DEFINE t == Append(s, x)
<1>1. /\ t \in Seq(T) /\ Len(t) = Len(s) + 1 /\ Len(s) \in Nat
      /\ \A i \in 1..Len(s) : s[i] = t[i]
      /\ t[Len(s) + 1] = x
  OBVIOUS
<1> HIDE DEF t
<1>2. PartialJoins(s)[Len(s)] = PartialJoins(t)[Len(s)]
  BY <1>1, CommonJoins
<1>3. /\ Len(s) + 1 \in 1..Len(t) /\ (Len(s) + 1) - 1 = Len(s)
  BY <1>1
<1>4. PartialJoins(t)[Len(s) + 1] = PartialJoins(t)[Len(s)] \o x
  BY <1>1, <1>3, PartialJoinsFacts DEF JoinsUpTo
<1> QED
  BY <1>1, <1>2, <1>4 DEF Concatenated, t

\* What sequences over T are when joined.
LEMMA ConcatenatedType ==
  ASSUME NEW T, NEW ss \in Seq(Seq(T))
  PROVE  Concatenated(ss) \in Seq(T)
<1> DEFINE p == PartialJoins(ss)
           Good(k) == p[k] \in Seq(T)
           S == {k \in 0..Len(ss) : Good(k)}
<1>1. JoinsUpTo(p, ss, Len(ss)) /\ Len(ss) \in Nat
  BY PartialJoinsFacts
<1> HIDE DEF p
<1>2. 0 \in S
  <2>1. p[0] = <<>> /\ <<>> \in Seq(T)
    BY <1>1 DEF JoinsUpTo
  <2>2. 0 \in 0..Len(ss) /\ Good(0)
    BY <1>1, <2>1
  <2> HIDE DEF Good
  <2> QED
    BY <2>2
<1>3. ASSUME NEW k \in 0..(Len(ss) - 1), k \in S PROVE k + 1 \in S
  <2>1. k + 1 \in 1..Len(ss) /\ (k + 1) - 1 = k /\ k + 1 \in 0..Len(ss)
    BY <1>1
  <2>2. p[k + 1] = p[k] \o ss[k + 1] /\ p[k] \in Seq(T)
    BY <1>1, <1>3, <2>1 DEF JoinsUpTo
  <2>3. ss[k + 1] \in Seq(T)
    BY <2>1
  <2>4. Good(k + 1)
    BY <2>2, <2>3
  <2> HIDE DEF Good
  <2> QED
    BY <2>1, <2>4
<1> HIDE DEF S
<1>4. Len(ss) \in S
  BY <1>1, <1>2, <1>3, InductionUpTo
<1> QED
  BY <1>4 DEF S, p, Concatenated

\* The first of the sequences comes first.
LEMMA ConcatenatedCons ==
  ASSUME NEW T, NEW ss \in Seq(Seq(T)), ss # <<>>
  PROVE  Concatenated(ss) = Head(ss) \o Concatenated(Tail(ss))
<1> DEFINE t == Tail(ss)
           h == Head(ss)
           p == PartialJoins(ss)
           q == PartialJoins(t)
           Good(k) == q[k] \in Seq(T) /\ p[k + 1] = h \o q[k]
           S == {k \in 0..Len(t) : Good(k)}
<1>1. /\ t \in Seq(Seq(T)) /\ h \in Seq(T) /\ h = ss[1] /\ Len(ss) = Len(t) + 1 /\ Len(t) \in Nat
      /\ \A i \in 1..Len(t) : t[i] = ss[i + 1] /\ t[i] \in Seq(T)
  OBVIOUS
<1>2. JoinsUpTo(p, ss, Len(ss)) /\ JoinsUpTo(q, t, Len(t))
  BY <1>1, PartialJoinsFacts
<1> HIDE DEF p, q, t, h
<1>3. 0 \in S
  <2>1. q[0] = <<>> /\ p[0] = <<>> /\ <<>> \in Seq(T)
    BY <1>2 DEF JoinsUpTo
  <2>2. 1 \in 1..Len(ss) /\ 1 - 1 = 0
    BY <1>1
  <2>3. p[1] = p[0] \o ss[1]
    BY <1>2, <2>2 DEF JoinsUpTo
  <2>4. p[1] = h /\ h \o q[0] = h
    BY <1>1, <2>1, <2>3
  <2>5. 0 \in 0..Len(t) /\ Good(0)
    BY <1>1, <2>1, <2>4
  <2> HIDE DEF Good
  <2> QED
    BY <2>5
<1>4. ASSUME NEW k \in 0..(Len(t) - 1), k \in S PROVE k + 1 \in S
  <2>1. /\ k + 1 \in 1..Len(t) /\ (k + 1) - 1 = k /\ k + 1 \in 0..Len(t)
        /\ (k + 1) + 1 \in 1..Len(ss) /\ ((k + 1) + 1) - 1 = k + 1
    BY <1>1
  <2>2. q[k + 1] = q[k] \o t[k + 1] /\ q[k] \in Seq(T) /\ t[k + 1] \in Seq(T)
        /\ t[k + 1] = ss[(k + 1) + 1]
    BY <1>1, <1>2, <1>4, <2>1 DEF JoinsUpTo
  <2>3. p[(k + 1) + 1] = p[k + 1] \o ss[(k + 1) + 1] /\ p[k + 1] = h \o q[k]
    BY <1>2, <1>4, <2>1 DEF JoinsUpTo
  <2>4. (h \o q[k]) \o t[k + 1] = h \o (q[k] \o t[k + 1])
    <3> DEFINE u == q[k]
               v == t[k + 1]
    <3>1. h \in Seq(T) /\ u \in Seq(T) /\ v \in Seq(T)
      BY <1>1, <2>2
    <3> HIDE DEF u, v
    <3>2. (h \o u) \o v = h \o (u \o v)
      BY <3>1, ConcatAssoc, SMTT(60)
    <3> QED
      BY <3>2 DEF u, v
  <2>5. Good(k + 1)
    BY <2>2, <2>3, <2>4
  <2> HIDE DEF Good
  <2> QED
    BY <2>1, <2>5
<1> HIDE DEF S
<1>5. Len(t) \in S
  BY <1>1, <1>3, <1>4, InductionUpTo
<1> QED
  BY <1>1, <1>5 DEF S, p, q, t, h, Concatenated

\* Nothing, and one element more.
LEMMA OutsideEmpty == ASSUME NEW S PROVE Outside(<<>>, S) = <<>>
<1>1. <<>> \in Seq({}) /\ Len(<<>>) = 0
  OBVIOUS
<1> QED
  BY <1>1, PartsOutsideFacts DEF Outside, OutsideUpTo

LEMMA OutsideAppend ==
  ASSUME NEW T, NEW s \in Seq(T), NEW x \in T, NEW S
  PROVE  Outside(Append(s, x), S) = IF x \in S THEN Outside(s, S) ELSE Append(Outside(s, S), x)
<1> DEFINE t == Append(s, x)
           p == PartsOutside(s, S)
           q == PartsOutside(t, S)
           K == {k \in 0..Len(s) : p[k] = q[k]}
<1>1. /\ t \in Seq(T) /\ Len(t) = Len(s) + 1 /\ Len(s) \in Nat
      /\ \A i \in 1..Len(s) : s[i] = t[i]
      /\ t[Len(s) + 1] = x
  OBVIOUS
<1>2. OutsideUpTo(p, s, S, Len(s)) /\ OutsideUpTo(q, t, S, Len(t))
  BY <1>1, PartsOutsideFacts
<1> HIDE DEF p, q, t
<1>3. 0 \in K
  BY <1>1, <1>2 DEF OutsideUpTo
<1>4. ASSUME NEW k \in 0..(Len(s) - 1), k \in K PROVE k + 1 \in K
  <2>1. k + 1 \in 1..Len(s) /\ k + 1 \in 1..Len(t) /\ (k + 1) - 1 = k /\ k + 1 \in 0..Len(s)
    BY <1>1
  <2>2. /\ p[k + 1] = IF s[k + 1] \in S THEN p[k] ELSE Append(p[k], s[k + 1])
        /\ q[k + 1] = IF t[k + 1] \in S THEN q[k] ELSE Append(q[k], t[k + 1])
        /\ p[k] = q[k] /\ s[k + 1] = t[k + 1]
    BY <1>1, <1>2, <1>4, <2>1 DEF OutsideUpTo
  <2>3. p[k + 1] = q[k + 1]
    BY <2>2
  <2> QED
    BY <2>1, <2>3
<1> HIDE DEF K
<1>5. Len(s) \in K
  BY <1>1, <1>3, <1>4, InductionUpTo
<1>6. Len(s) + 1 \in 1..Len(t) /\ (Len(s) + 1) - 1 = Len(s)
  BY <1>1
<1>7. q[Len(s) + 1] = IF x \in S THEN q[Len(s)] ELSE Append(q[Len(s)], x)
  BY <1>1, <1>2, <1>6 DEF OutsideUpTo
<1> QED
  BY <1>1, <1>5, <1>7 DEF K, p, q, t, Outside
=============================================================================
