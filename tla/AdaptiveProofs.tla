--------------------------- MODULE AdaptiveProofs ---------------------------
(* Theorems about the adaptive scan, for every set of addresses, every model *)
(* and every bound: every candidate is answered once, what is journaled is   *)
(* what the model was told, a round is told as a whole, and no target is     *)
(* skipped before its alias is announced.                                    *)
EXTENDS Adaptive, Facts, TLAPS

ItemType == [kind : Session!Judged \cup {"Aliased", "BatchComplete"}, of : SUBSET Addr]
States   == {"Ready", "AwaitingFeedback", "Exhausted"}

AdaptiveTypes ==
  /\ pc \in {"top", "select", "done", "failed"}
  /\ task \in {"none", "running", "finished"}
  /\ feedback \in Seq(ItemType) /\ applied \in Seq(ItemType) /\ journal \in Seq(ItemType)
  /\ state \in States /\ emptyRound \in BOOLEAN
  /\ attempts \in Nat /\ written \in Nat
  /\ seen \in SUBSET Addr /\ IsFiniteSet(seen) /\ wire \subseteq seen
  /\ covered \in SUBSET Addr
  /\ verdict \in [Addr -> {"none", "asked"} \cup Session!Judged]
  /\ testing \in BOOLEAN /\ asking \in BOOLEAN
  /\ job \in [told : Seq(ItemType), limit : Nat]
  /\ batch \in [targets : Seq(Addr), state : States]

\* The model's task and its results; it has no more room than there is left.
TasksInOrder ==
  /\ task = "none" => job = NoJob
  /\ task # "finished" => batch = NoBatch /\ journal = applied
  /\ task = "finished" => \/ applied = journal \o job.told
                          \/ applied = journal /\ pc = "failed"
  /\ Len(batch.targets) <= job.limit
  /\ written + job.limit <= Count
  /\ pc = "done" => /\ task = "none" /\ feedback = <<>> /\ Settled
                    /\ written = Count \/ state = "Exhausted"

\* The attempts are within their maximum, and only candidates are asked about.
OnlySeen ==
  /\ attempts <= MaxAttempts
  /\ \A a \in Addr : a \in seen <=> verdict[a] # "none"

\* Each candidate has a verdict, told or to be told, or is waited for.
EachAnswered == VerdictsIn(InHand) + Cardinality(Awaited) = attempts

\* What is covered has been announced, and a judged target has its item.
CoveredTold(items) ==
  \A a \in covered : \E j \in DOMAIN items : items[j].kind = "Aliased" /\ a \in items[j].of
SeenTold(items) ==
  \A a \in seen : verdict[a] = "asked" \/ \E j \in DOMAIN items : items[j].of = {a}

\* Why the i-th item may be a skipped target.
MaySkip(items, waiting, i) ==
  \E a \in Addr :
    /\ items[i].of = {a}
    /\ \/ a \in Exclude
       \/ a \in waiting
       \/ \E j \in DOMAIN items \ {i} : items[j].of = {a}
       \/ \E j \in 1..(i - 1) : items[j].kind = "Aliased" /\ a \in items[j].of
SkipsFit(items, waiting) ==
  \A i \in DOMAIN items : items[i].kind = "Skipped" => MaySkip(items, waiting, i)

Announced == CoveredTold(InHand) /\ SeenTold(InHand) /\ SkipsFit(InHand, Awaited)

\* The round of a model that has asked for feedback: it is yet to end, has ended
\* with the end yet to be told, or is being told so.
EndToTell == job.limit = 0 /\ feedback # <<>> /\ Last(feedback) = BatchComplete
EndTold   == /\ task = "running" /\ job.limit > 0 /\ feedback = <<>>
             /\ job.told # <<>> /\ Last(job.told) = BatchComplete
RoundInOrder ==
  asking =>
    \/ task = "finished" /\ job.limit > 0 /\ batch.state = "AwaitingFeedback"
    \/ state = "AwaitingFeedback" /\ job.limit = 0
    \/ state = "Ready" /\ Settled /\ (Remaining = 0 \/ EndToTell \/ EndTold)

AdaptiveIInv ==
  /\ AdaptiveTypes
  /\ TasksInOrder
  /\ OnlySeen
  /\ EachAnswered
  /\ Announced
  /\ RoundInOrder

-----------------------------------------------------------------------------
(* Feedback items and the verdicts among them.                              *)

\* The kinds of items are told apart.
LEMMA ItemFacts ==
  /\ Session!Judged = {"Active", "Inactive", "Skipped"}
  /\ BatchComplete \in ItemType /\ BatchComplete.kind = "BatchComplete"
  /\ \A A \in SUBSET Addr : \A k \in Session!Judged \cup {"Aliased"} :
        Item(k, A) \in ItemType /\ Item(k, A).kind = k /\ Item(k, A).of = A
  BY DEF Session!Judged, BatchComplete, Item, ItemType

\* One for an item that is a verdict.
VerdictWeight == [i \in ItemType |-> IF i.kind \in Session!Judged THEN 1 ELSE 0]

\* The verdicts among items are what they weigh.
LEMMA VerdictsWeigh ==
  ASSUME NEW s \in Seq(ItemType)
  PROVE  VerdictsIn(s) = Weigh(s, VerdictWeight) /\ VerdictsIn(s) \in Nat
         /\ VerdictWeight \in [ItemType -> Nat]
<1>1. VerdictWeight \in [ItemType -> Nat]
  BY DEF VerdictWeight
<1>2. \A i \in DOMAIN s : VerdictWeight[s[i]] = IF s[i].kind \in Session!Judged THEN 1 ELSE 0
  BY DEF VerdictWeight
<1>3. Weights(s, VerdictWeight)
        = [i \in DOMAIN s |-> IF s[i].kind \in Session!Judged THEN 1 ELSE 0]
  BY <1>2 DEF Weights
<1>4. Weigh(s, VerdictWeight) \in Nat
  BY <1>1, WeightsType
<1> QED
  BY <1>1, <1>3, <1>4 DEF VerdictsIn, Weigh

\* The verdicts among the items of two sequences.
LEMMA VerdictsConcat ==
  ASSUME NEW s \in Seq(ItemType), NEW t \in Seq(ItemType)
  PROVE  /\ VerdictsIn(s \o t) = VerdictsIn(s) + VerdictsIn(t)
         /\ VerdictsIn(s) \in Nat /\ VerdictsIn(t) \in Nat
<1>1. s \o t \in Seq(ItemType)
  OBVIOUS
<1>2. Weigh(s \o t, VerdictWeight) = Weigh(s, VerdictWeight) + Weigh(t, VerdictWeight)
  BY VerdictsWeigh, WeighConcat
<1> QED
  BY <1>1, <1>2, VerdictsWeigh

\* No items, no verdicts.
LEMMA VerdictsEmpty == VerdictsIn(<<>>) = 0 /\ <<>> \in Seq(ItemType)
<1>1. <<>> \in Seq(ItemType)
  OBVIOUS
<1> QED
  BY <1>1, VerdictsWeigh, WeighEmpty

\* One item.
LEMMA VerdictsOne ==
  ASSUME NEW i \in ItemType
  PROVE  <<i>> \in Seq(ItemType) /\ VerdictsIn(<<i>>) = IF i.kind \in Session!Judged THEN 1 ELSE 0
<1>1. <<i>> \in Seq(ItemType)
  OBVIOUS
<1>a. VerdictWeight \in [ItemType -> Nat]
  BY DEF VerdictWeight
<1>2. Weigh(<<i>>, VerdictWeight) = VerdictWeight[i]
  BY <1>a, WeighOne
<1> QED
  BY <1>1, <1>2, VerdictsWeigh DEF VerdictWeight

\* Skipped targets are all verdicts.
LEMMA SkipsFacts ==
  ASSUME NEW s \in Seq(Addr)
  PROVE  /\ Skips(s) \in Seq(ItemType) /\ Len(Skips(s)) = Len(s) /\ Len(s) \in Nat
         /\ \A i \in 1..Len(s) : /\ Skips(s)[i] = Item("Skipped", {s[i]}) /\ s[i] \in Addr
                                 /\ Skips(s)[i].kind = "Skipped" /\ Skips(s)[i].of = {s[i]}
         /\ VerdictsIn(Skips(s)) = Len(s)
<1>1. Len(s) \in Nat /\ DOMAIN s = 1..Len(s) /\ \A i \in 1..Len(s) : s[i] \in Addr
  OBVIOUS
<1>2. \A i \in 1..Len(s) : Item("Skipped", {s[i]}) \in ItemType
  BY <1>1, ItemFacts
<1>3. Skips(s) = [i \in 1..Len(s) |-> Item("Skipped", {s[i]})]
  BY <1>1 DEF Skips
<1>4. /\ Skips(s) \in Seq(ItemType) /\ Len(Skips(s)) = Len(s) /\ DOMAIN Skips(s) = 1..Len(s)
      /\ \A i \in 1..Len(s) : Skips(s)[i] = Item("Skipped", {s[i]})
  BY <1>1, <1>2, <1>3
<1>5. \A i \in 1..Len(s) : Skips(s)[i].kind = "Skipped" /\ Skips(s)[i].of = {s[i]}
  BY <1>4 DEF Item
<1>6. [i \in DOMAIN Skips(s) |-> IF Skips(s)[i].kind \in Session!Judged THEN 1 ELSE 0]
        = [i \in 1..Len(s) |-> 1]
  BY <1>4, <1>5, ItemFacts
<1>7. VerdictsIn(Skips(s)) = Len(s)
  BY <1>1, <1>6, TotalOnes DEF VerdictsIn
<1> QED
  BY <1>1, <1>4, <1>5, <1>7

\* The addresses of a finite set, listed.
LEMMA ListedFacts ==
  ASSUME NEW A \in SUBSET Addr, IsFiniteSet(A)
  PROVE  /\ SetToSeq(A) \in Seq(Addr) /\ Len(SetToSeq(A)) = Cardinality(A)
         /\ \A i \in 1..Len(SetToSeq(A)) : SetToSeq(A)[i] \in A
         /\ \A a \in A : \E i \in 1..Len(SetToSeq(A)) : SetToSeq(A)[i] = a
<1> DEFINE n == Cardinality(A)
           Once(f) == \A i, j \in 1..n : f[i] = f[j] => i = j
           list == SetToSeq(A)
<1>1. \E f \in [1..n -> A] : Once(f)
  BY NumberingFacts
<1>2. \A f \in [1..n -> A] : IsInjective(f) <=> Once(f)
  BY DEF IsInjective
<1>3. list = CHOOSE f \in [1..n -> A] : IsInjective(f)
  BY DEF SetToSeq
<1> HIDE DEF Once, list
<1>4. list \in [1..n -> A] /\ Once(list)
  BY <1>1, <1>2, <1>3
<1>5. Numbering(list, A)
  BY <1>4, NumberingFacts DEF Once
<1>6. list \in Seq(Addr) /\ Len(list) = n
  BY <1>4, <1>5 DEF Numbering
<1> QED
  BY <1>4, <1>5, <1>6 DEF Numbering, list

-----------------------------------------------------------------------------
(* The candidate filter.                                                    *)

\* The first place of an address that is neither known nor left out is fresh.
LEMMA FirstIsFresh ==
  ASSUME NEW t \in Seq(Addr), NEW p \in 1..Len(t)
  PROVE  t[p] \in seen \cup Exclude \cup covered \cup Accepted(t)
<1> SUFFICES ASSUME t[p] \notin seen \cup Exclude \cup covered PROVE t[p] \in Accepted(t)
  OBVIOUS
<1> DEFINE Same == {q \in 1..Len(t) : t[q] = t[p]}
<1>1. Same \in SUBSET Nat /\ Same # {} /\ DOMAIN t = 1..Len(t)
  OBVIOUS
<1> HIDE DEF Same
<1>2. PICK q \in Same : \A r \in Same : q <= r
  BY <1>1, LeastNat
<1>3. q \in 1..Len(t) /\ t[q] = t[p] /\ \A r \in 1..Len(t) : t[r] = t[p] => q <= r
  BY <1>2 DEF Same
<1>4. \A j \in 1..(q - 1) : t[j] # t[q]
  BY <1>3
<1>5. q \in FreshPlaces(t)
  BY <1>1, <1>3, <1>4 DEF FreshPlaces, Fresh
<1> QED
  BY <1>3, <1>5 DEF Accepted

\* What is accepted is new, and what is rejected is known or left out; every
\* target is one of the two.
LEMMA FilterFacts ==
  ASSUME NEW t \in Seq(Addr)
  PROVE  /\ Accepted(t) \in SUBSET Addr /\ IsFiniteSet(Accepted(t))
         /\ Accepted(t) \cap (seen \cup Exclude \cup covered) = {}
         /\ Cardinality(Accepted(t)) \in Nat /\ Cardinality(Accepted(t)) <= Len(t)
         /\ Rejected(t) \in Seq(ItemType)
         /\ VerdictsIn(Rejected(t)) + Cardinality(Accepted(t)) = Len(t)
         /\ VerdictsIn(Rejected(t)) = Len(Rejected(t))
         /\ \A n \in 1..Len(Rejected(t)) :
               \E a \in Addr : /\ Rejected(t)[n].kind = "Skipped" /\ Rejected(t)[n].of = {a}
                               /\ a \in seen \cup Exclude \cup covered \cup Accepted(t)
<1> DEFINE n == Len(t)
           F == FreshPlaces(t)
           ids == [i \in DOMAIN t |-> i]
           places == Outside(ids, F)
           picked == [m \in DOMAIN places |-> t[places[m]]]
<1>1. n \in Nat /\ DOMAIN t = 1..n /\ \A i \in 1..n : t[i] \in Addr
  OBVIOUS
<1>2. F \in SUBSET (1..n) /\ IsFiniteSet(1..n)
  BY <1>1, FS_Interval DEF FreshPlaces
<1>3. IsFiniteSet(F) /\ Cardinality(F) \in Nat
  BY <1>2, FS_Subset, FS_CardinalityType
<1>4. \A i \in F : i \in 1..n /\ t[i] \notin seen \cup Exclude \cup covered
  BY <1>1 DEF FreshPlaces, Fresh
<1>5. ASSUME NEW i \in F, NEW j \in F, t[i] = t[j] PROVE i = j
  <2>1. i \in 1..n /\ j \in 1..n
    BY <1>4
  <2>2. ~(j < i)
    BY <1>5, <2>1 DEF FreshPlaces, Fresh
  <2>3. ~(i < j)
    BY <1>5, <2>1 DEF FreshPlaces, Fresh
  <2> QED
    BY <2>1, <2>2, <2>3
<1>6. ids \in Seq(1..n) /\ Len(ids) = n /\ \A i \in 1..n : ids[i] = i
  BY <1>1
<1> HIDE DEF F, ids
<1>7. Accepted(t) = {t[i] : i \in F}
  BY DEF Accepted, F
<1>8. IsFiniteSet(Accepted(t)) /\ Cardinality(Accepted(t)) = Cardinality(F)
  BY <1>3, <1>5, <1>7, NumberedCardinality
<1>9. Accepted(t) \in SUBSET Addr /\ Accepted(t) \cap (seen \cup Exclude \cup covered) = {}
  BY <1>1, <1>4, <1>7
<1>10. places \in Seq((1..n) \ F)
  BY <1>6, OutsideFacts
<1>11. Len(places) + Cardinality(F) = n
  <2>1. {i \in 1..Len(ids) : ids[i] \in F} = F
    BY <1>2, <1>6
  <2> QED
    BY <1>6, <2>1, OutsideLength
<1> HIDE DEF places
<1>12. /\ picked \in Seq(Addr) /\ Len(picked) = Len(places) /\ Len(places) \in Nat
       /\ \A m \in 1..Len(picked) : picked[m] = t[places[m]] /\ places[m] \in 1..n
  BY <1>1, <1>10
<1> HIDE DEF picked
<1>13. Rejected(t) = Skips(picked)
  BY DEF Rejected, picked, places, ids, F
<1>14. /\ Rejected(t) \in Seq(ItemType) /\ Len(Rejected(t)) = Len(picked)
       /\ VerdictsIn(Rejected(t)) = Len(picked)
       /\ \A m \in 1..Len(picked) : Rejected(t)[m].kind = "Skipped" /\ Rejected(t)[m].of = {picked[m]}
                                    /\ picked[m] \in Addr
  <2>1. /\ Skips(picked) \in Seq(ItemType) /\ Len(Skips(picked)) = Len(picked)
        /\ VerdictsIn(Skips(picked)) = Len(picked)
    BY <1>12, SkipsFacts
  <2>2. \A m \in 1..Len(picked) : /\ Skips(picked)[m].kind = "Skipped"
                                  /\ Skips(picked)[m].of = {picked[m]} /\ picked[m] \in Addr
    BY <1>12, SkipsFacts
  <2> QED
    BY <1>13, <2>1, <2>2
<1>15. \A m \in 1..Len(picked) : picked[m] \in seen \cup Exclude \cup covered \cup Accepted(t)
  BY <1>12, FirstIsFresh
<1>16. VerdictsIn(Rejected(t)) + Cardinality(Accepted(t)) = Len(t)
  BY <1>8, <1>11, <1>12, <1>14
<1>17. Cardinality(Accepted(t)) <= Len(t) /\ Cardinality(Accepted(t)) \in Nat
  BY <1>1, <1>3, <1>8, <1>11, <1>12
<1> QED
  BY <1>8, <1>9, <1>14, <1>15, <1>16, <1>17

\* No targets, none accepted or rejected.
LEMMA FilterEmpty == Accepted(<<>>) = {} /\ Rejected(<<>>) = <<>>
<1>1. <<>> \in Seq(Addr) /\ Len(<<>>) = 0 /\ DOMAIN <<>> = {}
  OBVIOUS
<1>2. Accepted(<<>>) = {}
  BY <1>1 DEF Accepted, FreshPlaces
<1>3. VerdictsIn(Rejected(<<>>)) + Cardinality({}) = 0 /\ Rejected(<<>>) \in Seq(ItemType)
  BY <1>1, <1>2, FilterFacts
<1>4. VerdictsIn(Rejected(<<>>)) = Len(Rejected(<<>>))
  BY <1>1, FilterFacts
<1>5. Len(Rejected(<<>>)) = 0
  BY <1>3, <1>4, FS_EmptySet
<1> QED
  BY <1>2, <1>3, <1>5

-----------------------------------------------------------------------------
(* The items in hand.                                                       *)

\* What the model was told, is being told and is to be told.
LEMMA InHandFacts ==
  ASSUME AdaptiveTypes
  PROVE  /\ InHand \in Seq(ItemType)
         /\ task = "running" => InHand = (applied \o job.told) \o feedback
         /\ task # "running" => InHand = applied \o feedback
<1>1. /\ applied \in Seq(ItemType) /\ feedback \in Seq(ItemType) /\ job.told \in Seq(ItemType)
  BY DEF AdaptiveTypes
<1>2. CASE task = "running"
  BY <1>1, <1>2 DEF InHand
<1>3. CASE task # "running"
  <2>1. InHand = (applied \o <<>>) \o feedback /\ applied \o <<>> = applied
    BY <1>1, <1>3 DEF InHand
  <2> QED
    BY <1>1, <1>3, <2>1
<1> QED
  BY <1>2, <1>3

\* Skipped targets stay justified when items are added that tell of every
\* target that is no longer waited for.
LEMMA SkipsFitMore ==
  ASSUME NEW s \in Seq(ItemType), NEW t \in Seq(ItemType), NEW waiting, NEW later,
         SkipsFit(s, waiting),
         \A a \in waiting \ later : \E k \in 1..Len(t) : t[k].of = {a},
         \A k \in 1..Len(t) : t[k].kind = "Skipped" => MaySkip(s \o t, later, Len(s) + k)
  PROVE  SkipsFit(s \o t, later)
<1> DEFINE u == s \o t
           m == Len(s)
           n == Len(t)
<1>1. /\ m \in Nat /\ n \in Nat /\ DOMAIN s = 1..m /\ DOMAIN u = 1..(m + n)
      /\ \A j \in 1..m : u[j] = s[j]
      /\ \A k \in 1..n : u[m + k] = t[k]
  OBVIOUS
<1>2. SUFFICES ASSUME NEW i \in DOMAIN u, u[i].kind = "Skipped" PROVE MaySkip(u, later, i)
  BY DEF SkipsFit
<1>a. \A k \in 1..n : t[k].kind = "Skipped" => MaySkip(u, later, m + k)
  OBVIOUS
<1>b. \A a \in waiting \ later : \E k \in 1..n : t[k].of = {a}
  OBVIOUS
<1> HIDE DEF u, m, n
<1>3. CASE i \in 1..m
  <2>1. i \in DOMAIN s /\ s[i] = u[i] /\ s[i].kind = "Skipped"
    BY <1>1, <1>2, <1>3
  <2>2. MaySkip(s, waiting, i)
    BY <2>1 DEF SkipsFit
  <2>3. PICK a \in Addr : /\ s[i].of = {a}
                          /\ \/ a \in Exclude
                             \/ a \in waiting
                             \/ \E j \in DOMAIN s \ {i} : s[j].of = {a}
                             \/ \E j \in 1..(i - 1) : s[j].kind = "Aliased" /\ a \in s[j].of
    BY <2>2 DEF MaySkip
  <2>4. u[i].of = {a}
    BY <2>1, <2>3
  <2>5. CASE a \in Exclude \/ a \in later
    BY <2>4, <2>5 DEF MaySkip
  <2>6. CASE a \in waiting \ later
    <3>1. PICK k \in 1..n : t[k].of = {a}
      BY <1>b, <2>6
    <3>2. m + k \in 1..(m + n) /\ m + k # i
      BY <1>1, <1>3
    <3>3. u[m + k] = t[k]
      BY <1>1
    <3>4. u[m + k].of = {a} /\ m + k \in DOMAIN u \ {i}
      BY <1>1, <3>1, <3>2, <3>3
    <3> QED
      BY <2>4, <3>4 DEF MaySkip
  <2>7. CASE \E j \in DOMAIN s \ {i} : s[j].of = {a}
    <3>1. PICK j \in DOMAIN s \ {i} : s[j].of = {a}
      BY <2>7
    <3>2. u[j].of = {a} /\ j \in DOMAIN u \ {i}
      BY <1>1, <3>1
    <3> QED
      BY <2>4, <3>2 DEF MaySkip
  <2>8. CASE \E j \in 1..(i - 1) : s[j].kind = "Aliased" /\ a \in s[j].of
    <3>1. PICK j \in 1..(i - 1) : s[j].kind = "Aliased" /\ a \in s[j].of
      BY <2>8
    <3>2. u[j] = s[j]
      BY <1>1, <1>3, <3>1
    <3> QED
      BY <2>4, <3>1, <3>2 DEF MaySkip
  <2> QED
    BY <2>3, <2>5, <2>6, <2>7, <2>8
<1>4. CASE i \notin 1..m
  <2>1. PICK k \in 1..n : i = m + k
    <3>1. i \in Nat /\ i - m \in 1..n /\ i = m + (i - m)
      BY <1>1, <1>4
    <3> QED
      BY <3>1
  <2>2. t[k].kind = "Skipped"
    BY <1>1, <1>2, <2>1
  <2> QED
    BY <1>a, <2>1, <2>2
<1> QED
  BY <1>3, <1>4

\* What is announced stays so when the items in hand grow by what was found:
\* newly covered addresses, and targets that are no longer waited for.
LEMMA AnnouncedGrows ==
  ASSUME Announced, InHand \in Seq(ItemType), NEW items \in Seq(ItemType),
         InHand' = InHand \o items,
         \A a \in covered' \ covered :
            \E k \in 1..Len(items) : items[k].kind = "Aliased" /\ a \in items[k].of,
         seen' \subseteq seen \cup Awaited', seen \subseteq Addr,
         \A a \in Awaited \ Awaited' : \E k \in 1..Len(items) : items[k].of = {a},
         \A k \in 1..Len(items) :
            items[k].kind = "Skipped" => MaySkip(InHand \o items, Awaited', Len(InHand) + k)
  PROVE  Announced'
<1> DEFINE s == InHand
           u == s \o items
           m == Len(s)
           n == Len(items)
<1>1. /\ m \in Nat /\ n \in Nat /\ DOMAIN s = 1..m /\ DOMAIN u = 1..(m + n)
      /\ \A j \in 1..m : u[j] = s[j]
      /\ \A k \in 1..n : u[m + k] = items[k]
  OBVIOUS
<1>2. u = InHand'
  OBVIOUS
<1>3. \A a \in covered : \E j \in DOMAIN s : s[j].kind = "Aliased" /\ a \in s[j].of
  BY DEF Announced, CoveredTold
<1>4. \A a \in seen : a \in Awaited \/ \E j \in DOMAIN s : s[j].of = {a}
  BY DEF Announced, SeenTold, Awaited
<1>5. SkipsFit(s, Awaited)
  BY DEF Announced
<1>6. SkipsFit(u, Awaited')
  BY <1>5, SkipsFitMore
<1>a. \A a \in covered' \ covered : \E k \in 1..n : items[k].kind = "Aliased" /\ a \in items[k].of
  OBVIOUS
<1>b. \A a \in Awaited \ Awaited' : \E k \in 1..n : items[k].of = {a}
  OBVIOUS
<1> HIDE DEF s, u, m, n
<1>7. \A a \in covered' : \E j \in DOMAIN u : u[j].kind = "Aliased" /\ a \in u[j].of
  <2> SUFFICES ASSUME NEW a \in covered'
               PROVE  \E j \in DOMAIN u : u[j].kind = "Aliased" /\ a \in u[j].of
    OBVIOUS
  <2>1. CASE a \in covered
    <3>1. PICK j \in DOMAIN s : s[j].kind = "Aliased" /\ a \in s[j].of
      BY <1>3, <2>1
    <3>2. j \in DOMAIN u /\ u[j] = s[j]
      BY <1>1, <3>1
    <3> QED
      BY <3>1, <3>2
  <2>2. CASE a \notin covered
    <3>1. PICK k \in 1..n : items[k].kind = "Aliased" /\ a \in items[k].of
      BY <1>a, <2>2
    <3>2. m + k \in DOMAIN u /\ u[m + k] = items[k]
      BY <1>1, <3>1
    <3> QED
      BY <3>1, <3>2
  <2> QED
    BY <2>1, <2>2
<1>8. \A a \in seen' : a \in Awaited' \/ \E j \in DOMAIN u : u[j].of = {a}
  <2> SUFFICES ASSUME NEW a \in seen', a \notin Awaited'
               PROVE  \E j \in DOMAIN u : u[j].of = {a}
    OBVIOUS
  <2>1. a \in seen
    OBVIOUS
  <2>2. CASE a \in Awaited
    <3>1. PICK k \in 1..n : items[k].of = {a}
      BY <1>b, <2>2
    <3>2. m + k \in DOMAIN u /\ u[m + k] = items[k]
      BY <1>1, <3>1
    <3> QED
      BY <3>1, <3>2
  <2>3. CASE a \notin Awaited
    <3>1. PICK j \in DOMAIN s : s[j].of = {a}
      BY <1>4, <2>1, <2>3
    <3>2. j \in DOMAIN u /\ u[j] = s[j]
      BY <1>1, <3>1
    <3> QED
      BY <3>1, <3>2
  <2> QED
    BY <2>2, <2>3
<1>9. CoveredTold(InHand)'
  BY <1>2, <1>7 DEF CoveredTold
<1>10. SeenTold(InHand)'
  BY <1>2, <1>8 DEF SeenTold, Awaited
<1>11. SkipsFit(InHand, Awaited)'
  <2>1. SkipsFit(InHand', Awaited')
    BY <1>2, <1>6
  <2> QED
    BY <2>1
<1> QED
  BY <1>9, <1>10, <1>11 DEF Announced

-----------------------------------------------------------------------------
(* The inductive invariant.                                                 *)

\* A scan begins with the known aliases to be told.
LEMMA AdaptiveInitIInv == Init => AdaptiveIInv
<1> SUFFICES ASSUME Init PROVE AdaptiveIInv
  OBVIOUS
<1> USE DEF Init
<1>1. /\ InitAliases \in SUBSET Addr /\ Count \in Nat \ {0} /\ MaxAttempts \in Nat
  BY AdaptiveAssumption
<1>2. /\ verdict = [a \in Addr |-> "none"] /\ covered = InitAliases
      /\ Awaited = {} /\ Settled
  BY DEF Session!Init, Awaited, Settled
<1>3. Item("Aliased", InitAliases) \in ItemType /\ Item("Aliased", InitAliases).kind = "Aliased"
      /\ Item("Aliased", InitAliases).of = InitAliases
  BY <1>1 DEF Item, ItemType
<1>4. feedback \in Seq(ItemType) /\ <<>> \in Seq(ItemType)
  BY <1>3
<1>5. NoBatch \in [targets : Seq(Addr), state : States] /\ NoJob \in [told : Seq(ItemType), limit : Nat]
      /\ NoJob.limit = 0 /\ Len(NoBatch.targets) = 0
  BY <1>4 DEF NoBatch, NoJob, States
<1>6. AdaptiveTypes
  BY <1>1, <1>2, <1>4, <1>5, FS_EmptySet DEF AdaptiveTypes, States
<1>7. TasksInOrder
  BY <1>1, <1>5 DEF TasksInOrder
<1>8. OnlySeen
  BY <1>1, <1>2 DEF OnlySeen
<1>9. InHand = feedback
  BY <1>4, <1>6, InHandFacts
<1>10. EachAnswered
  <2>1. VerdictsIn(feedback) = 0
    <3>1. CASE InitAliases = {}
      BY <3>1, VerdictsEmpty
    <3>2. CASE InitAliases # {}
      BY <1>3, <3>2, VerdictsOne, ItemFacts
    <3> QED
      BY <3>1, <3>2
  <2> QED
    BY <1>2, <1>9, <2>1, FS_EmptySet DEF EachAnswered
<1>11. Announced
  <2>1. CoveredTold(feedback)
    <3>1. CASE InitAliases = {}
      BY <1>2, <3>1 DEF CoveredTold
    <3>2. CASE InitAliases # {}
      BY <1>2, <1>3, <3>2 DEF CoveredTold
    <3> QED
      BY <3>1, <3>2
  <2>2. SeenTold(feedback)
    BY DEF SeenTold
  <2>3. \A i \in DOMAIN feedback : feedback[i].kind = "Aliased"
    BY <1>3
  <2>4. SkipsFit(feedback, Awaited)
    BY <2>3 DEF SkipsFit
  <2> QED
    BY <1>9, <2>1, <2>2, <2>4 DEF Announced
<1>12. RoundInOrder
  BY DEF RoundInOrder
<1> QED
  BY <1>6, <1>7, <1>8, <1>10, <1>11, <1>12 DEF AdaptiveIInv

\* What neither judges a target nor touches the items in hand keeps them.
LEMMA QuietKeeps ==
  ASSUME OnlySeen, EachAnswered, Announced, InHand' = InHand,
         UNCHANGED <<verdict, covered, seen, attempts>>
  PROVE  OnlySeen' /\ EachAnswered' /\ Announced'
<1>1. Awaited' = Awaited
  BY DEF Awaited
<1>2. EachAnswered'
  BY <1>1 DEF EachAnswered
<1>3. OnlySeen'
  BY DEF OnlySeen
<1>4. CoveredTold(InHand)' /\ SeenTold(InHand)'
  BY DEF Announced, CoveredTold, SeenTold
<1>5. SkipsFit(InHand', Awaited')
  BY <1>1 DEF Announced
<1>6. SkipsFit(InHand, Awaited)'
  BY <1>5
<1> QED
  BY <1>2, <1>3, <1>4, <1>6 DEF Announced

\* So does what leaves the model's task and the feedback alone.
LEMMA PassKeeps ==
  ASSUME AdaptiveIInv, UNCHANGED <<feedback, state, emptyRound, attempts, written, seen, task, job, batch,
                                  verdict, covered, asking, applied>>
  PROVE  OnlySeen' /\ EachAnswered' /\ Announced' /\ Awaited' = Awaited
<1>1. InHand' = InHand
  BY DEF InHand
<1>2. Awaited' = Awaited
  BY DEF Awaited
<1> QED
  BY <1>1, <1>2, QuietKeeps DEF AdaptiveIInv

\* A pass that starts or ends an alias test.
LEMMA TestAliasIInv ==
  ASSUME AdaptiveIInv, TestAlias
  PROVE  AdaptiveIInv'
<1>1. /\ pc = "select" /\ (testing \/ Awaited # {}) /\ pc' = "top" /\ testing' = ~testing
      /\ UNCHANGED <<feedback, state, emptyRound, attempts, written, seen, task, job, batch,
                     verdict, covered, wire, asking, applied, journal>>
  BY DEF TestAlias, hvars
<1>2. OnlySeen' /\ EachAnswered' /\ Announced'
  BY <1>1, PassKeeps
<1>3. AdaptiveTypes'
  BY <1>1 DEF AdaptiveIInv, AdaptiveTypes
<1>4. TasksInOrder'
  BY <1>1 DEF AdaptiveIInv, TasksInOrder
<1>5. ~Settled
  BY <1>1 DEF Settled
<1>6. RoundInOrder'
  BY <1>1, <1>5 DEF AdaptiveIInv, RoundInOrder
<1> QED
  BY <1>2, <1>3, <1>4, <1>6 DEF AdaptiveIInv

\* A pass in which a target expires.
LEMMA ExpireTargetIInv ==
  ASSUME AdaptiveIInv, ExpireTarget
  PROVE  AdaptiveIInv'
<1>1. /\ pc = "select" /\ pc' = "top" /\ wire # {} /\ wire' \subseteq wire
      /\ UNCHANGED <<feedback, state, emptyRound, attempts, written, seen, task, job, batch,
                     verdict, covered, testing, asking, applied, journal>>
  BY DEF ExpireTarget, hvars
<1>2. OnlySeen' /\ EachAnswered' /\ Announced'
  BY <1>1, PassKeeps
<1>3. AdaptiveTypes'
  BY <1>1 DEF AdaptiveIInv, AdaptiveTypes
<1>4. TasksInOrder'
  BY <1>1 DEF AdaptiveIInv, TasksInOrder
<1>5. ~Settled
  BY <1>1 DEF Settled
<1>6. RoundInOrder'
  BY <1>1, <1>5 DEF AdaptiveIInv, RoundInOrder
<1> QED
  BY <1>2, <1>3, <1>4, <1>6 DEF AdaptiveIInv

\* The model is at work, or has nothing to do.
LEMMA AwaitIInv ==
  ASSUME AdaptiveIInv, Await
  PROVE  AdaptiveIInv'
<1>1. /\ pc = "top" /\ pc' = "select"
      /\ UNCHANGED <<feedback, state, emptyRound, attempts, written, seen, task, job, batch,
                     verdict, covered, wire, testing, asking, applied, journal>>
  BY DEF Await, hvars, svars
<1>2. OnlySeen' /\ EachAnswered' /\ Announced'
  BY <1>1, PassKeeps
<1>3. AdaptiveTypes'
  BY <1>1 DEF AdaptiveIInv, AdaptiveTypes
<1>4. TasksInOrder'
  BY <1>1 DEF AdaptiveIInv, TasksInOrder
<1>5. Settled' = Settled /\ Remaining' = Remaining
  BY <1>1 DEF Settled, Awaited, Remaining
<1>6. RoundInOrder'
  BY <1>1, <1>5 DEF AdaptiveIInv, RoundInOrder, EndToTell, EndTold
<1> QED
  BY <1>2, <1>3, <1>4, <1>6 DEF AdaptiveIInv

\* The scan is done: all is settled and told.
LEMMA FinishIInv ==
  ASSUME AdaptiveIInv, Finish
  PROVE  AdaptiveIInv'
<1>1. /\ pc = "top" /\ task = "none" /\ Over /\ pc' = "done"
      /\ UNCHANGED <<feedback, state, emptyRound, attempts, written, seen, task, job, batch,
                     verdict, covered, wire, testing, asking, applied, journal>>
  BY DEF Finish, hvars, svars
<1>2. OnlySeen' /\ EachAnswered' /\ Announced'
  BY <1>1, PassKeeps
<1>3. AdaptiveTypes'
  BY <1>1 DEF AdaptiveIInv, AdaptiveTypes
<1>4. Settled' = Settled /\ Remaining' = Remaining
  BY <1>1 DEF Settled, Awaited, Remaining
<1>5. Settled /\ ToTell = <<>> /\ (StateNow = "Exhausted" \/ Remaining = 0)
  BY <1>1 DEF Over
<1>6. feedback = <<>>
  <2>1. feedback \in Seq(ItemType) /\ BatchComplete \in ItemType
    BY ItemFacts DEF AdaptiveIInv, AdaptiveTypes
  <2>2. Len(Append(feedback, BatchComplete)) = Len(feedback) + 1 /\ Len(feedback) \in Nat
    BY <2>1
  <2>3. Append(feedback, BatchComplete) # <<>>
    BY <2>2, Len(<<>>) = 0
  <2> QED
    BY <1>5, <2>3 DEF ToTell
<1>7. written = Count \/ state = "Exhausted"
  <2>1. Count \in Nat /\ written \in Nat
    BY AdaptiveAssumption DEF AdaptiveIInv, AdaptiveTypes
  <2>2. Remaining = 0 => written = Count
    BY <2>1 DEF Remaining
  <2> QED
    BY <1>5, <2>2 DEF StateNow
<1>8. TasksInOrder'
  BY <1>1, <1>4, <1>5, <1>6, <1>7 DEF AdaptiveIInv, TasksInOrder
<1>9. RoundInOrder'
  BY <1>1, <1>4 DEF AdaptiveIInv, RoundInOrder, EndToTell, EndTold
<1> QED
  BY <1>2, <1>3, <1>8, <1>9 DEF AdaptiveIInv

\* The scan fails, while the model may be at work.
LEMMA FailIInv ==
  ASSUME AdaptiveIInv, Fail
  PROVE  AdaptiveIInv'
<1>1. /\ pc \in {"top", "select"} /\ pc' = "failed"
      /\ UNCHANGED <<feedback, state, emptyRound, attempts, written, seen, task, job, batch,
                     verdict, covered, wire, testing, asking, applied, journal>>
  BY DEF Fail, hvars, svars
<1>2. OnlySeen' /\ EachAnswered' /\ Announced'
  BY <1>1, PassKeeps
<1>3. AdaptiveTypes'
  BY <1>1 DEF AdaptiveIInv, AdaptiveTypes
<1>4. TasksInOrder'
  BY <1>1 DEF AdaptiveIInv, TasksInOrder
<1>5. Settled' = Settled /\ Remaining' = Remaining
  BY <1>1 DEF Settled, Awaited, Remaining
<1>6. RoundInOrder'
  BY <1>1, <1>5 DEF AdaptiveIInv, RoundInOrder, EndToTell, EndTold
<1> QED
  BY <1>2, <1>3, <1>4, <1>6 DEF AdaptiveIInv

\* The scan fails once the model's result is in; the journal has what it was told.
LEMMA GiveUpIInv ==
  ASSUME AdaptiveIInv, GiveUp
  PROVE  AdaptiveIInv'
<1>1. /\ pc = "select" /\ task = "finished" /\ pc' = "failed" /\ journal' = journal \o job.told
      /\ UNCHANGED <<feedback, state, emptyRound, attempts, written, seen, task, job, batch,
                     verdict, covered, wire, testing, asking, applied>>
  BY DEF GiveUp, svars, Journaled
<1>2. OnlySeen' /\ EachAnswered' /\ Announced'
  BY <1>1, PassKeeps
<1>3. applied = journal \o job.told
  BY <1>1 DEF AdaptiveIInv, TasksInOrder
<1>4. AdaptiveTypes'
  BY <1>1, <1>3 DEF AdaptiveIInv, AdaptiveTypes
<1>5. TasksInOrder'
  BY <1>1, <1>3 DEF AdaptiveIInv, TasksInOrder
<1>6. Settled' = Settled /\ Remaining' = Remaining
  BY <1>1 DEF Settled, Awaited, Remaining
<1>7. RoundInOrder'
  BY <1>1, <1>6 DEF AdaptiveIInv, RoundInOrder, EndToTell, EndTold
<1> QED
  BY <1>2, <1>4, <1>5, <1>7 DEF AdaptiveIInv

\* The model is done: it was told its feedback.
LEMMA RunModelIInv ==
  ASSUME AdaptiveIInv, RunModel
  PROVE  AdaptiveIInv'
<1>1. /\ task = "running" /\ task' = "finished" /\ applied' = applied \o job.told
      /\ UNCHANGED <<pc, feedback, state, emptyRound, attempts, written, seen, job, verdict,
                     covered, wire, testing, journal>>
  BY DEF RunModel, svars
<1>2. /\ applied \in Seq(ItemType) /\ feedback \in Seq(ItemType) /\ job.told \in Seq(ItemType)
      /\ job.limit \in Nat
  BY DEF AdaptiveIInv, AdaptiveTypes
<1>3. /\ batch' \in [targets : Seq(Addr), state : States]
      /\ Len(batch'.targets) <= job.limit
      /\ asking' \in BOOLEAN
      /\ asking' => \/ job.limit > 0 /\ batch'.state = "AwaitingFeedback"
                    \/ asking /\ job.limit = 0
  <2>1. CASE job.limit > 0
    <3>1. PICK n \in 0..job.limit : batch' \in [targets : [1..n -> Addr],
                                               state : {"Ready", "AwaitingFeedback", "Exhausted"}]
      BY <2>1 DEF RunModel
    <3>2. batch'.targets \in Seq(Addr) /\ batch'.state \in States /\ batch' = [targets |-> batch'.targets, state |-> batch'.state]
      BY <1>2, <3>1 DEF States
    <3>3. Len(batch'.targets) <= job.limit
      BY <2>1 DEF RunModel, Valid
    <3>4. asking' = (batch'.state = "AwaitingFeedback")
      BY <2>1 DEF RunModel
    <3> QED
      BY <2>1, <3>2, <3>3, <3>4
  <2>2. CASE ~(job.limit > 0)
    <3>1. batch' = NoBatch /\ asking' = asking
      BY <2>2 DEF RunModel
    <3>2. NoBatch \in [targets : Seq(Addr), state : States] /\ Len(NoBatch.targets) = 0
      BY DEF NoBatch, States
    <3>3. job.limit = 0 /\ asking \in BOOLEAN
      BY <1>2, <2>2 DEF AdaptiveIInv, AdaptiveTypes
    <3> QED
      BY <3>1, <3>2, <3>3
  <2> QED
    BY <2>1, <2>2
<1>4. AdaptiveTypes'
  <2>1. applied' \in Seq(ItemType)
    BY <1>1, <1>2
  <2> QED
    BY <1>1, <1>3, <2>1 DEF AdaptiveIInv, AdaptiveTypes
<1>5. InHand' = InHand
  <2>1. InHand = (applied \o job.told) \o feedback
    BY <1>1, InHandFacts DEF AdaptiveIInv
  <2>2. InHand' = (applied' \o <<>>) \o feedback' /\ applied' \in Seq(ItemType)
    BY <1>1, <1>4 DEF InHand, AdaptiveTypes
  <2> QED
    BY <1>1, <2>1, <2>2
<1>6. OnlySeen' /\ EachAnswered' /\ Announced'
  BY <1>1, <1>5, QuietKeeps DEF AdaptiveIInv
<1>7. TasksInOrder'
  <2>1. journal = applied /\ pc # "done"
    BY <1>1 DEF AdaptiveIInv, TasksInOrder
  <2> QED
    BY <1>1, <1>3, <2>1 DEF AdaptiveIInv, TasksInOrder
<1>8. Settled' = Settled /\ Remaining' = Remaining
  BY <1>1 DEF Settled, Awaited, Remaining
<1>9. RoundInOrder'
  <2> SUFFICES ASSUME asking' PROVE RoundInOrder'
    BY DEF RoundInOrder
  <2>1. CASE job.limit > 0 /\ batch'.state = "AwaitingFeedback"
    BY <1>1, <2>1 DEF RoundInOrder
  <2>2. CASE asking /\ job.limit = 0
    BY <1>1, <1>8, <2>2 DEF AdaptiveIInv, RoundInOrder, EndToTell, EndTold
  <2> QED
    BY <1>3, <2>1, <2>2
<1> QED
  BY <1>4, <1>6, <1>7, <1>9 DEF AdaptiveIInv

-----------------------------------------------------------------------------
(* The model is started.                                                    *)

\* A sequence is its first n elements and the rest.
LEMMA SplitFacts ==
  ASSUME NEW T, NEW s \in Seq(T), NEW n \in Nat \ {0}
  PROVE  /\ SubSeq(s, 1, Min({n, Len(s)})) \in Seq(T) /\ SubSeq(s, n + 1, Len(s)) \in Seq(T)
         /\ SubSeq(s, 1, Min({n, Len(s)})) \o SubSeq(s, n + 1, Len(s)) = s
         /\ Len(s) <= n => SubSeq(s, 1, Min({n, Len(s)})) = s /\ SubSeq(s, n + 1, Len(s)) = <<>>
         /\ Len(s) > n => /\ SubSeq(s, n + 1, Len(s)) # <<>>
                          /\ Last(SubSeq(s, n + 1, Len(s))) = Last(s)
<1>1. Len(s) \in Nat /\ {n, Len(s)} \in SUBSET Nat
  OBVIOUS
<1>2. Min({n, Len(s)}) = IF Len(s) <= n THEN Len(s) ELSE n
  <2>1. Min({n, Len(s)}) \in {n, Len(s)} /\ \A y \in {n, Len(s)} : Min({n, Len(s)}) <= y
    BY <1>1, MinFacts
  <2> QED
    BY <1>1, <2>1
<1> DEFINE k == Min({n, Len(s)})
           told == SubSeq(s, 1, k)
           left == SubSeq(s, n + 1, Len(s))
<1> HIDE DEF k
<1>3. CASE Len(s) <= n
  <2>1. k = Len(s)
    BY <1>2, <1>3 DEF k
  <2>2. told = s
    BY <2>1
  <2>3. left = <<>>
    BY <1>1, <1>3
  <2> HIDE DEF told, left
  <2>4. told \o left = s /\ <<>> \in Seq(T)
    BY <2>2, <2>3
  <2> QED
    <3>1. ~(Len(s) > n) /\ told \in Seq(T) /\ left \in Seq(T)
      BY <1>1, <1>3, <2>2, <2>3, <2>4
    <3> QED
      BY <2>2, <2>3, <2>4, <3>1 DEF told, left, k
<1>4. CASE ~(Len(s) <= n)
  <2>1. k = n /\ n \in 1..Len(s) /\ n < Len(s)
    BY <1>1, <1>2, <1>4 DEF k
  <2>2. told \in Seq(T) /\ Len(told) = n /\ \A i \in 1..n : told[i] = s[i]
    BY <2>1
  <2>3. left \in Seq(T) /\ Len(left) = Len(s) - n /\ \A i \in 1..(Len(s) - n) : left[i] = s[n + i]
    BY <2>1
  <2> HIDE DEF told, left
  <2>4. told \o left \in Seq(T) /\ Len(told \o left) = Len(s)
    <3>1. told \o left \in Seq(T) /\ Len(told \o left) = Len(told) + Len(left)
      BY <2>2, <2>3, ConcatFacts
    <3>2. n + (Len(s) - n) = Len(s)
      BY <1>1
    <3> QED
      BY <2>2, <2>3, <3>1, <3>2
  <2>5. ASSUME NEW i \in 1..Len(s) PROVE (told \o left)[i] = s[i]
    <3>1. CASE i <= n
      BY <2>1, <2>2, <2>3, <3>1
    <3>2. CASE i > n
      <4>1. i - n \in 1..(Len(s) - n) /\ n + (i - n) = i
        BY <1>1, <2>1, <3>2
      <4>2. (told \o left)[i] = left[i - n]
        BY <2>2, <2>3, <3>2
      <4> QED
        BY <2>3, <4>1, <4>2
    <3>3. i <= n \/ i > n
      BY <1>1
    <3> QED
      BY <3>1, <3>2, <3>3
  <2>6. told \o left = s
    BY <2>4, <2>5, SameSequence
  <2>7. left # <<>> /\ Last(left) = Last(s)
    <3>1. Len(s) - n \in 1..(Len(s) - n) /\ n + (Len(s) - n) = Len(s)
      BY <1>1, <2>1
    <3>2. left[Len(s) - n] = s[Len(s)]
      BY <2>3, <3>1
    <3>3. left # <<>>
      BY <2>3, <3>1, Len(<<>>) = 0
    <3> QED
      BY <2>3, <3>2, <3>3 DEF Last
  <2> QED
    BY <1>4, <2>2, <2>3, <2>6, <2>7 DEF told, left, k
<1> QED
  BY <1>3, <1>4

\* The room for targets, and when there is none.
LEMMA LimitFacts ==
  ASSUME AdaptiveTypes, TasksInOrder, NEW room \in Room
  PROVE  /\ Limit(room) \in Nat /\ written + Limit(room) <= Count
         /\ StateNow # "Ready" \/ Len(ToTell) > FeedbackMax => Limit(room) = 0
         /\ Settled /\ StateNow = "Ready" /\ Len(ToTell) <= FeedbackMax /\ Limit(room) = 0
              => Remaining = 0
<1>1. /\ Count \in Nat \ {0} /\ BatchSize \in Nat \ {0} /\ MaxInFlight \in Nat \ {0} /\ FeedbackMax \in Nat \ {0}
  BY AdaptiveAssumption
<1>2. written \in Nat /\ written <= Count
  BY <1>1 DEF AdaptiveTypes, TasksInOrder
<1>3. Remaining \in Nat /\ written + Remaining = Count
  BY <1>1, <1>2 DEF Remaining
<1>4. room \in Nat /\ (Settled => room = MaxInFlight)
  <2>1. IsFiniteSet(wire)
    BY FS_Subset DEF AdaptiveTypes
  <2>2. Cardinality(wire) \in Nat
    BY <2>1, FS_CardinalityType
  <2> QED
    BY <1>1, <2>2 DEF Room
<1> DEFINE m == Min({Remaining, room, BatchSize})
<1>5. m \in Nat /\ m <= Remaining /\ (m = 0 => Remaining = 0 \/ room = 0)
  <2>1. {Remaining, room, BatchSize} \in SUBSET Nat
    BY <1>1, <1>3, <1>4
  <2>2. m \in {Remaining, room, BatchSize} /\ \A y \in {Remaining, room, BatchSize} : m <= y
    BY <2>1, MinFacts
  <2> HIDE DEF m
  <2> QED
    BY <1>1, <2>1, <2>2
<1>6. Limit(room) = IF StateNow = "Ready" /\ Len(ToTell) <= FeedbackMax THEN m ELSE 0
  BY DEF Limit
<1> HIDE DEF m
<1>7. Limit(room) \in Nat /\ Limit(room) <= Remaining
  BY <1>3, <1>5, <1>6
<1>8. written + Limit(room) <= Count
  BY <1>1, <1>2, <1>3, <1>7
<1>9. Len(ToTell) > FeedbackMax => ~(Len(ToTell) <= FeedbackMax)
  <2>1. ToTell \in Seq(ItemType)
    BY ItemFacts DEF ToTell, AdaptiveTypes
  <2> QED
    BY <1>1, <2>1
<1>10. Settled /\ StateNow = "Ready" /\ Len(ToTell) <= FeedbackMax /\ Limit(room) = 0 => Remaining = 0
  BY <1>1, <1>4, <1>5, <1>6
<1> QED
  BY <1>6, <1>7, <1>8, <1>9, <1>10

\* The model is given its feedback and its room.
LEMMA StartModelIInv ==
  ASSUME AdaptiveIInv, StartModel
  PROVE  AdaptiveIInv'
<1> DEFINE told == SubSeq(ToTell, 1, Min({FeedbackMax, Len(ToTell)}))
<1>1. /\ pc = "top" /\ task = "none" /\ pc' = "select" /\ task' = "running"
      /\ feedback' = Left /\ state' = StateNow
      /\ UNCHANGED <<emptyRound, attempts, written, seen, batch, verdict, covered, wire, testing,
                     asking, applied, journal>>
  BY DEF StartModel, svars, hvars
<1>2. PICK room \in Room : job' = [told |-> told, limit |-> Limit(room)]
  BY DEF StartModel
<1>3. /\ job'.told = told /\ job'.limit = Limit(room)
      /\ Limit(room) \in Nat /\ written + Limit(room) <= Count
  BY <1>2, LimitFacts DEF AdaptiveIInv
<1>4. /\ feedback \in Seq(ItemType) /\ applied \in Seq(ItemType)
      /\ ToTell \in Seq(ItemType) /\ <<BatchComplete>> \in Seq(ItemType)
      /\ ToTell = IF RoundOver THEN feedback \o <<BatchComplete>> ELSE feedback
      /\ RoundOver => ToTell # <<>> /\ Last(ToTell) = BatchComplete
  <2>1. feedback \in Seq(ItemType) /\ applied \in Seq(ItemType) /\ BatchComplete \in ItemType
    BY ItemFacts DEF AdaptiveIInv, AdaptiveTypes
  <2>2. /\ Append(feedback, BatchComplete) \in Seq(ItemType) /\ <<BatchComplete>> \in Seq(ItemType)
        /\ Append(feedback, BatchComplete) = feedback \o <<BatchComplete>>
        /\ Len(Append(feedback, BatchComplete)) = Len(feedback) + 1 /\ Len(feedback) \in Nat
        /\ Append(feedback, BatchComplete)[Len(feedback) + 1] = BatchComplete
    BY <2>1, SMTT(30)
  <2>3. Append(feedback, BatchComplete) # <<>> /\ Last(Append(feedback, BatchComplete)) = BatchComplete
    BY <2>2, Len(<<>>) = 0 DEF Last
  <2> QED
    BY <2>1, <2>2, <2>3 DEF ToTell
<1>5. /\ told \in Seq(ItemType) /\ feedback' \in Seq(ItemType) /\ told \o feedback' = ToTell
      /\ Len(ToTell) <= FeedbackMax => told = ToTell /\ feedback' = <<>>
      /\ Len(ToTell) > FeedbackMax => feedback' # <<>> /\ Last(feedback') = Last(ToTell)
  <2>1. FeedbackMax \in Nat \ {0}
    BY AdaptiveAssumption
  <2> DEFINE left == SubSeq(ToTell, FeedbackMax + 1, Len(ToTell))
  <2>2. /\ told \in Seq(ItemType) /\ left \in Seq(ItemType) /\ told \o left = ToTell
        /\ Len(ToTell) <= FeedbackMax => told = ToTell /\ left = <<>>
        /\ Len(ToTell) > FeedbackMax => left # <<>> /\ Last(left) = Last(ToTell)
    <3>1. ToTell \in Seq(ItemType)
      BY <1>4
    <3> QED
      BY <2>1, <3>1, SplitFacts, Zenon
  <2>3. feedback' = left
    BY <1>1 DEF Left
  <2> HIDE DEF told, left
  <2> QED
    BY <2>2, <2>3
<1> HIDE DEF told
<1>6. AdaptiveTypes'
  <2>1. job' \in [told : Seq(ItemType), limit : Nat]
    BY <1>2, <1>3, <1>5
  <2>2. state' \in States
    BY <1>1 DEF StateNow, AdaptiveIInv, AdaptiveTypes, States
  <2> QED
    BY <1>1, <1>5, <2>1, <2>2 DEF AdaptiveIInv, AdaptiveTypes
<1>7. TasksInOrder'
  <2>1. batch = NoBatch /\ journal = applied /\ Len(NoBatch.targets) = 0
    BY <1>1 DEF AdaptiveIInv, TasksInOrder, NoBatch
  <2> QED
    BY <1>1, <1>3, <2>1 DEF TasksInOrder
<1>8. OnlySeen' /\ EachAnswered' /\ Announced'
  <2>1. InHand = applied \o feedback /\ InHand \in Seq(ItemType)
    BY <1>1, InHandFacts DEF AdaptiveIInv
  <2>2. InHand' = applied \o ToTell
    <3>1. InHand' = (applied \o told) \o feedback'
      BY <1>1, <1>3 DEF InHand
    <3>2. (applied \o told) \o feedback' = applied \o (told \o feedback')
      <4>1. applied \in Seq(ItemType) /\ told \in Seq(ItemType) /\ feedback' \in Seq(ItemType)
        BY <1>4, <1>5
      <4> QED
        BY <4>1, ConcatAssoc, SMTT(30)
    <3> QED
      BY <1>5, <3>1, <3>2
  <2>3. Awaited' = Awaited
    BY <1>1 DEF Awaited
  <2>4. CASE ~RoundOver
    <3>1. InHand' = InHand
      BY <1>4, <2>1, <2>2, <2>4
    <3> QED
      BY <1>1, <3>1, QuietKeeps DEF AdaptiveIInv
  <2>5. CASE RoundOver
    <3> DEFINE items == <<BatchComplete>>
    <3>1. InHand' = InHand \o items
      BY <1>4, <2>1, <2>2, <2>5
    <3>2. VerdictsIn(items) = 0 /\ items \in Seq(ItemType) /\ Len(items) = 1 /\ items[1].kind # "Skipped"
      BY ItemFacts, VerdictsOne, <1>4
    <3> HIDE DEF items
    <3>3. EachAnswered'
      <4>1. VerdictsIn(InHand') = VerdictsIn(InHand) + VerdictsIn(items) /\ VerdictsIn(InHand) \in Nat
        BY <2>1, <3>1, <3>2, VerdictsConcat
      <4>2. VerdictsIn(InHand') = VerdictsIn(InHand)
        BY <3>2, <4>1
      <4> QED
        BY <1>1, <2>3, <4>2 DEF EachAnswered, AdaptiveIInv
    <3>4. Announced'
      <4>1. \A k \in 1..Len(items) : items[k].kind # "Skipped"
        BY <3>2
      <4>2. seen \subseteq Addr /\ seen' = seen /\ covered' = covered /\ Announced
        BY <1>1 DEF AdaptiveIInv, AdaptiveTypes
      <4> QED
        BY <2>1, <2>3, <3>1, <3>2, <4>1, <4>2, AnnouncedGrows
    <3>5. OnlySeen'
      BY <1>1 DEF AdaptiveIInv, OnlySeen
    <3> QED
      BY <3>3, <3>4, <3>5
  <2> QED
    BY <2>4, <2>5
<1>9. RoundInOrder'
  <2> SUFFICES ASSUME asking PROVE RoundInOrder'
    BY <1>1 DEF RoundInOrder
  <2>1. /\ Settled' = Settled /\ Remaining' = Remaining /\ job.limit = 0
    BY <1>1 DEF Settled, Awaited, Remaining, AdaptiveIInv, TasksInOrder, NoJob
  <2>2. /\ StateNow # "Ready" \/ Len(ToTell) > FeedbackMax => Limit(room) = 0
        /\ Settled /\ StateNow = "Ready" /\ Len(ToTell) <= FeedbackMax /\ Limit(room) = 0 => Remaining = 0
    BY LimitFacts DEF AdaptiveIInv
  <2>3. ASSUME Settled, StateNow = "Ready", ToTell # <<>>, Last(ToTell) = BatchComplete
        PROVE  RoundInOrder'
    <3>1. Len(ToTell) \in Nat /\ FeedbackMax \in Nat
      BY <1>4, AdaptiveAssumption
    <3>2. CASE Len(ToTell) > FeedbackMax
      <4>1. EndToTell'
        BY <1>3, <1>5, <2>2, <2>3, <3>2 DEF EndToTell
      <4> QED
        BY <1>1, <2>1, <2>3, <4>1 DEF RoundInOrder
    <3>3. CASE Len(ToTell) <= FeedbackMax /\ Limit(room) = 0
      BY <1>1, <2>1, <2>2, <2>3, <3>3 DEF RoundInOrder
    <3>4. CASE Len(ToTell) <= FeedbackMax /\ Limit(room) # 0
      <4>1. EndTold'
        BY <1>1, <1>3, <1>5, <2>3, <3>4 DEF EndTold
      <4> QED
        BY <1>1, <2>1, <2>3, <4>1 DEF RoundInOrder
    <3> QED
      BY <3>1, <3>2, <3>3, <3>4
  <2>4. CASE state = "AwaitingFeedback" /\ ~Settled
    <3>1. StateNow = "AwaitingFeedback" /\ Limit(room) = 0
      BY <2>2, <2>4 DEF StateNow, RoundOver
    <3> QED
      BY <1>1, <1>3, <3>1 DEF RoundInOrder
  <2>5. CASE state = "AwaitingFeedback" /\ Settled
    BY <1>4, <2>3, <2>5 DEF StateNow, RoundOver
  <2>6. CASE state = "Ready" /\ Settled /\ Remaining = 0
    BY <1>1, <2>1, <2>6 DEF RoundInOrder, StateNow, RoundOver
  <2>7. CASE state = "Ready" /\ Settled /\ EndToTell
    <3>1. ToTell = feedback /\ StateNow = "Ready"
      BY <2>7 DEF ToTell, StateNow, RoundOver
    <3> QED
      BY <2>3, <2>7, <3>1 DEF EndToTell
  <2>8. \/ state = "AwaitingFeedback"
        \/ state = "Ready" /\ Settled /\ (Remaining = 0 \/ EndToTell)
    BY <1>1 DEF AdaptiveIInv, RoundInOrder, EndTold
  <2> QED
    BY <2>4, <2>5, <2>6, <2>7, <2>8
<1> QED
  BY <1>6, <1>7, <1>8, <1>9 DEF AdaptiveIInv

-----------------------------------------------------------------------------
(* Feedback is extended.                                                    *)

\* What is added to the feedback is added to the items in hand.
LEMMA InHandExtended ==
  ASSUME AdaptiveTypes, NEW items \in Seq(ItemType), feedback' = feedback \o items,
         applied' = applied,
         \/ task = "running" /\ task' = "running" /\ job' = job
         \/ task # "running" /\ task' # "running"
  PROVE  InHand' = InHand \o items /\ InHand \in Seq(ItemType) /\ feedback' \in Seq(ItemType)
<1>1. applied \in Seq(ItemType) /\ feedback \in Seq(ItemType) /\ job.told \in Seq(ItemType)
  BY DEF AdaptiveTypes
<1>2. feedback' \in Seq(ItemType)
  BY <1>1
<1>3. CASE task = "running" /\ task' = "running" /\ job' = job
  <2> DEFINE X == applied \o job.told
  <2>1. X \in Seq(ItemType)
    BY <1>1
  <2>2. InHand = X \o feedback
    BY <1>3, InHandFacts
  <2>3. InHand' = X \o feedback'
    BY <1>3 DEF InHand
  <2> HIDE DEF X
  <2>4. X \o (feedback \o items) = (X \o feedback) \o items
    <3>1. X \in Seq(ItemType) /\ feedback \in Seq(ItemType) /\ items \in Seq(ItemType)
      BY <1>1, <2>1
    <3> QED
      BY <3>1, ConcatAssoc
  <2> QED
    BY <1>2, <2>2, <2>3, <2>4, InHandFacts
<1>4. CASE task # "running" /\ task' # "running"
  <2>1. InHand = applied \o feedback
    BY <1>4, InHandFacts
  <2>2. InHand' = (applied \o <<>>) \o feedback'
    BY <1>4 DEF InHand
  <2>3. applied \o <<>> = applied
    BY <1>1
  <2>4. applied \o (feedback \o items) = (applied \o feedback) \o items
    BY <1>1, ConcatAssoc, SMTT(30)
  <2> QED
    BY <1>2, <2>1, <2>2, <2>3, <2>4, InHandFacts
<1> QED
  BY <1>3, <1>4

\* The targets that are waited for are finitely many.
LEMMA AwaitedFacts ==
  ASSUME AdaptiveTypes, OnlySeen
  PROVE  Awaited \subseteq seen /\ Awaited \subseteq Addr /\ IsFiniteSet(Awaited)
         /\ Cardinality(Awaited) \in Nat
<1>1. Awaited \subseteq seen /\ Awaited \subseteq Addr
  BY DEF Awaited, OnlySeen
<1>2. IsFiniteSet(Awaited)
  BY <1>1, FS_Subset DEF AdaptiveTypes
<1> QED
  BY <1>1, <1>2, FS_CardinalityType

\* A target is judged.
LEMMA JudgeTargetIInv ==
  ASSUME AdaptiveIInv, JudgeTarget
  PROVE  AdaptiveIInv'
<1>1. PICK a \in Awaited, v \in Session!Judged :
        /\ Session!Fits(a, v)
        /\ verdict' = [verdict EXCEPT ![a] = v]
        /\ feedback' = Extended(<<Item(v, {a})>>)
        /\ wire' \in {wire} \cup (IF v = "Active" THEN {} ELSE {wire \ {a}})
  BY DEF JudgeTarget
<1>2. /\ pc = "select" /\ pc' = "top"
      /\ UNCHANGED <<state, emptyRound, attempts, written, seen, task, job, batch, covered,
                     testing, asking, applied, journal>>
  BY DEF JudgeTarget, hvars
<1> DEFINE items == <<Item(v, {a})>>
<1>3. /\ AdaptiveTypes /\ TasksInOrder /\ OnlySeen /\ EachAnswered /\ Announced /\ RoundInOrder
  BY DEF AdaptiveIInv
<1>4. /\ a \in Addr /\ verdict[a] = "asked" /\ a \in seen /\ v # "asked" /\ v # "none"
  BY <1>1, <1>3, AwaitedFacts, ItemFacts DEF Awaited
<1>5. Item(v, {a}) \in ItemType /\ Item(v, {a}).kind = v /\ Item(v, {a}).of = {a}
  BY <1>4, ItemFacts
<1>6. /\ items \in Seq(ItemType) /\ Len(items) = 1 /\ items[1] = Item(v, {a})
      /\ VerdictsIn(items) = 1
  BY <1>5, VerdictsOne
<1>7. feedback' = feedback \o items
  BY <1>1 DEF Extended
<1> HIDE DEF items
<1>8. InHand' = InHand \o items /\ InHand \in Seq(ItemType) /\ feedback' \in Seq(ItemType)
  BY <1>2, <1>3, <1>6, <1>7, InHandExtended
<1>9. /\ verdict' \in [Addr -> {"none", "asked"} \cup Session!Judged]
      /\ Awaited' = Awaited \ {a}
      /\ \A b \in Addr : verdict'[b] # "none" <=> verdict[b] # "none"
  BY <1>1, <1>3, <1>4 DEF Awaited, AdaptiveTypes
<1>10. AdaptiveTypes'
  BY <1>1, <1>2, <1>3, <1>8, <1>9 DEF AdaptiveTypes
<1>11. TasksInOrder'
  BY <1>2, <1>3 DEF TasksInOrder
<1>12. OnlySeen'
  BY <1>2, <1>3, <1>9 DEF OnlySeen
<1>13. EachAnswered'
  <2> DEFINE n == Cardinality(Awaited)
             w == VerdictsIn(InHand)
  <2>1. n \in Nat /\ Cardinality(Awaited') = n - 1
    BY <1>1, <1>3, <1>9, AwaitedFacts, FS_RemoveElement
  <2>2. VerdictsIn(InHand') = w + 1 /\ w \in Nat
    BY <1>6, <1>8, VerdictsConcat
  <2>3. w + n = attempts /\ attempts' = attempts
    BY <1>2, <1>3 DEF EachAnswered
  <2> HIDE DEF n, w
  <2>4. (w + 1) + (n - 1) = w + n
    BY <2>1, <2>2
  <2> QED
    BY <2>1, <2>2, <2>3, <2>4 DEF EachAnswered
<1>14. Announced'
  <2>1. \A b \in Awaited \ Awaited' : \E k \in 1..Len(items) : items[k].of = {b}
    <3>1. 1 \in 1..Len(items)
      BY <1>6
    <3>2. items[1].of = {a}
      BY <1>5, <1>6
    <3> QED
      BY <1>9, <3>1, <3>2
  <2>2. ASSUME NEW k \in 1..Len(items), items[k].kind = "Skipped"
        PROVE  MaySkip(InHand \o items, Awaited', Len(InHand) + k)
    <3>1. k = 1 /\ v = "Skipped"
      BY <1>5, <1>6, <2>2
    <3>2. a \in covered
      BY <1>1, <3>1 DEF Session!Fits
    <3>3. PICK j \in DOMAIN InHand : InHand[j].kind = "Aliased" /\ a \in InHand[j].of
      BY <1>3, <3>2 DEF Announced, CoveredTold
    <3> DEFINE m == Len(InHand)
               u == InHand \o items
    <3>4. m \in Nat /\ j \in 1..m /\ u[j] = InHand[j] /\ u[m + 1] = items[1]
      <4>1. items \in Seq(ItemType) /\ InHand \in Seq(ItemType) /\ 1 \in 1..Len(items)
        BY <1>6, <1>8
      <4>2. m \in Nat /\ DOMAIN InHand = 1..m
        BY <4>1
      <4>3. \A i \in 1..m : u[i] = InHand[i]
        BY <4>1, ConcatFacts
      <4>4. u[m + 1] = items[1]
        BY <4>1, ConcatFacts
      <4> HIDE DEF m, u
      <4> QED
        BY <4>2, <4>3, <4>4
    <3>a. items[1].of = {a}
      BY <1>5, <1>6
    <3> HIDE DEF m, u
    <3>5. j \in 1..((m + k) - 1) /\ u[j].kind = "Aliased" /\ a \in u[j].of /\ u[m + k].of = {a}
      <4>1. (m + k) - 1 = m /\ m + k = m + 1
        BY <3>1, <3>4
      <4> QED
        BY <3>a, <3>3, <3>4, <4>1
    <3> QED
      BY <1>4, <3>5 DEF MaySkip, m, u
  <2>3. covered' = covered /\ seen' = seen /\ seen \subseteq Addr
    BY <1>2, <1>3 DEF AdaptiveTypes
  <2> QED
    BY <1>3, <1>6, <1>8, <2>1, <2>2, <2>3, AnnouncedGrows
<1>15. RoundInOrder'
  <2>1. ~Settled
    BY <1>1 DEF Settled
  <2> QED
    BY <1>2, <1>3, <2>1 DEF RoundInOrder
<1> QED
  BY <1>10, <1>11, <1>12, <1>13, <1>14, <1>15 DEF AdaptiveIInv

\* An alias is found, and targets that waited for its test are skipped.
LEMMA FindAliasIInv ==
  ASSUME AdaptiveIInv, FindAlias
  PROVE  AdaptiveIInv'
<1>1. PICK C \in Alias : \E A \in SUBSET (Awaited \cap C) :
        /\ ~(C \subseteq covered)
        /\ \A a \in C : verdict[a] # "Active"
        /\ covered' = covered \cup C
        /\ verdict' = [a \in Addr |-> IF a \in A THEN "Skipped" ELSE verdict[a]]
        /\ feedback' = Extended(<<Item("Aliased", C)>> \o Skips(SetToSeq(A)))
  BY DEF FindAlias
<1>2. PICK A \in SUBSET (Awaited \cap C) :
        /\ covered' = covered \cup C
        /\ verdict' = [a \in Addr |-> IF a \in A THEN "Skipped" ELSE verdict[a]]
        /\ feedback' = Extended(<<Item("Aliased", C)>> \o Skips(SetToSeq(A)))
  BY <1>1
<1>3. /\ pc = "select" /\ pc' = "top" /\ testing
      /\ UNCHANGED <<state, emptyRound, attempts, written, seen, task, job, batch, wire,
                     testing, asking, applied, journal>>
  BY DEF FindAlias, hvars
<1>4. /\ AdaptiveTypes /\ TasksInOrder /\ OnlySeen /\ EachAnswered /\ Announced /\ RoundInOrder
  BY DEF AdaptiveIInv
<1>5. /\ C \in SUBSET Addr /\ A \in SUBSET Addr /\ A \subseteq Awaited /\ A \subseteq seen /\ A \subseteq C
      /\ IsFiniteSet(A) /\ IsFiniteSet(Awaited)
  BY <1>2, <1>4, AwaitedFacts, FS_Subset, AdaptiveAssumption
<1> DEFINE list  == SetToSeq(A)
           alias == <<Item("Aliased", C)>>
           skips == Skips(list)
           items == alias \o skips
           n     == Cardinality(A)
<1>6. /\ list \in Seq(Addr) /\ Len(list) = n /\ n \in Nat
      /\ \A i \in 1..n : list[i] \in A
      /\ \A a \in A : \E i \in 1..n : list[i] = a
  BY <1>5, ListedFacts, FS_CardinalityType
<1> HIDE DEF list
<1>7. /\ skips \in Seq(ItemType) /\ Len(skips) = n /\ VerdictsIn(skips) = n
      /\ \A i \in 1..n : skips[i].kind = "Skipped" /\ skips[i].of = {list[i]}
  BY <1>6, SkipsFacts
<1>8. Item("Aliased", C) \in ItemType /\ Item("Aliased", C).kind = "Aliased" /\ Item("Aliased", C).of = C
  BY <1>5, ItemFacts
<1>9. /\ alias \in Seq(ItemType) /\ Len(alias) = 1 /\ alias[1] = Item("Aliased", C)
      /\ VerdictsIn(alias) = 0
  BY <1>8, VerdictsOne, ItemFacts
<1> HIDE DEF alias, skips
<1>10. /\ items \in Seq(ItemType) /\ Len(items) = 1 + n /\ items[1] = alias[1]
       /\ \A i \in 1..n : items[1 + i] = skips[i]
       /\ VerdictsIn(items) = n
  <2>1. /\ items \in Seq(ItemType) /\ Len(items) = Len(alias) + Len(skips)
        /\ \A i \in 1..Len(alias) : items[i] = alias[i]
        /\ \A i \in 1..Len(skips) : items[Len(alias) + i] = skips[i]
    <3>1. alias \in Seq(ItemType) /\ skips \in Seq(ItemType)
      BY <1>7, <1>9
    <3> QED
      BY <3>1, ConcatFacts
  <2>2. VerdictsIn(items) = VerdictsIn(alias) + VerdictsIn(skips)
    BY <1>7, <1>9, VerdictsConcat
  <2> HIDE DEF items
  <2>3. 1 \in 1..Len(alias) /\ 0 + n = n
    BY <1>6, <1>9
  <2> QED
    BY <1>7, <1>9, <2>1, <2>2, <2>3
<1>11. feedback' = feedback \o items
  BY <1>2 DEF Extended, items, alias, skips, list
<1> HIDE DEF items
<1>12. InHand' = InHand \o items /\ InHand \in Seq(ItemType) /\ feedback' \in Seq(ItemType)
  BY <1>3, <1>4, <1>10, <1>11, InHandExtended
<1>13. /\ verdict' \in [Addr -> {"none", "asked"} \cup Session!Judged]
       /\ Awaited' = Awaited \ A
       /\ \A b \in Addr : verdict'[b] # "none" <=> verdict[b] # "none"
  <2>1. \A b \in Addr : verdict'[b] = IF b \in A THEN "Skipped" ELSE verdict[b]
    BY <1>2
  <2>2. \A b \in A : verdict[b] = "asked"
    BY <1>5 DEF Awaited
  <2>3. Awaited' = Awaited \ A
    BY <2>1 DEF Awaited
  <2>4. verdict' \in [Addr -> {"none", "asked"} \cup Session!Judged]
    BY <1>2, <1>4, ItemFacts DEF AdaptiveTypes
  <2> QED
    BY <1>5, <2>1, <2>2, <2>3, <2>4
<1>14. AdaptiveTypes'
  BY <1>2, <1>3, <1>4, <1>5, <1>12, <1>13 DEF AdaptiveTypes
<1>15. TasksInOrder'
  BY <1>3, <1>4 DEF TasksInOrder
<1>16. OnlySeen'
  BY <1>3, <1>4, <1>13 DEF OnlySeen
<1>17. EachAnswered'
  <2> DEFINE c == Cardinality(Awaited)
             w == VerdictsIn(InHand)
  <2>1. c \in Nat /\ Cardinality(Awaited') = c - n
    <3>1. Awaited \cap A = A
      BY <1>5
    <3>2. c \in Nat
      BY <1>5, FS_CardinalityType
    <3>3. Cardinality(Awaited \ A) = c - Cardinality(Awaited \cap A)
      BY <1>5, FS_Difference
    <3> QED
      BY <1>13, <3>1, <3>2, <3>3
  <2>2. VerdictsIn(InHand') = w + n /\ w \in Nat
    BY <1>10, <1>12, VerdictsConcat
  <2>3. w + c = attempts /\ attempts' = attempts
    BY <1>3, <1>4 DEF EachAnswered
  <2> HIDE DEF c, w, n
  <2>4. (w + n) + (c - n) = w + c
    BY <1>6, <2>1, <2>2
  <2> QED
    BY <2>1, <2>2, <2>3, <2>4 DEF EachAnswered
<1> HIDE DEF n
<1>18. Announced'
  <2>1. ASSUME NEW b \in Awaited \ Awaited' PROVE \E k \in 1..Len(items) : items[k].of = {b}
    <3>1. b \in A
      BY <1>13
    <3>2. PICK i \in 1..n : list[i] = b
      BY <1>6, <3>1
    <3>3. items[1 + i].of = {b} /\ 1 + i \in 1..Len(items)
      BY <1>6, <1>7, <1>10, <3>2
    <3> QED
      BY <3>3
  <2>2. ASSUME NEW b \in covered' \ covered
        PROVE  \E k \in 1..Len(items) : items[k].kind = "Aliased" /\ b \in items[k].of
    <3>1. 1 \in 1..Len(items) /\ items[1] = Item("Aliased", C) /\ b \in C
      BY <1>2, <1>6, <1>9, <1>10
    <3> QED
      BY <1>8, <3>1
  <2>3. ASSUME NEW k \in 1..Len(items), items[k].kind = "Skipped"
        PROVE  MaySkip(InHand \o items, Awaited', Len(InHand) + k)
    <3>1. k # 1
      BY <1>8, <1>9, <1>10, <2>3
    <3>2. PICK i \in 1..n : k = 1 + i
      <4>1. k - 1 \in 1..n /\ k = 1 + (k - 1)
        BY <1>6, <1>10, <3>1
      <4> QED
        BY <4>1
    <3>3. items[k].of = {list[i]} /\ list[i] \in A /\ list[i] \in C /\ list[i] \in Addr
      BY <1>5, <1>6, <1>7, <1>10, <3>2
    <3> DEFINE m == Len(InHand)
               u == InHand \o items
    <3>4. /\ m \in Nat /\ u[m + 1] = items[1] /\ u[m + k] = items[k]
      <4>1. \A j \in 1..Len(items) : u[m + j] = items[j]
        BY <1>10, <1>12, ConcatFacts
      <4>2. 1 \in 1..Len(items) /\ m \in Nat
        BY <1>6, <1>10, <1>12
      <4> HIDE DEF u, m
      <4> QED
        BY <4>1, <4>2
    <3> HIDE DEF m, u
    <3>5. m + 1 \in 1..((m + k) - 1)
      BY <3>2, <3>4
    <3>6. u[m + 1].kind = "Aliased" /\ list[i] \in u[m + 1].of
      BY <1>8, <1>9, <1>10, <3>3, <3>4
    <3>7. u[m + k].of = {list[i]}
      BY <3>3, <3>4
    <3> QED
      BY <3>3, <3>5, <3>6, <3>7 DEF MaySkip, m, u
  <2>4. seen' = seen /\ seen \subseteq Addr
    BY <1>3, <1>4 DEF AdaptiveTypes
  <2> QED
    BY <1>4, <1>10, <1>12, <2>1, <2>2, <2>3, <2>4, AnnouncedGrows
<1>19. RoundInOrder'
  <2>1. ~Settled
    BY <1>3 DEF Settled
  <2> QED
    BY <1>3, <1>4, <2>1 DEF RoundInOrder
<1> QED
  BY <1>14, <1>15, <1>16, <1>17, <1>18, <1>19 DEF AdaptiveIInv

\* The model's result is in: its targets are filtered and submitted.
LEMMA ModelDoneIInv ==
  ASSUME AdaptiveIInv, ModelDone
  PROVE  AdaptiveIInv'
<1> DEFINE t == batch.targets
           A == Accepted(t)
           n == Cardinality(A)
           items == Rejected(t)
<1>1. /\ pc = "select" /\ task = "finished" /\ pc' = "top" /\ task' = "none" /\ job' = NoJob /\ batch' = NoBatch
      /\ journal' = journal \o job.told
      /\ state' = (IF job.limit > 0 THEN batch.state ELSE state)
      /\ attempts + Len(t) <= MaxAttempts
      /\ attempts' = attempts + Len(t)
      /\ written' = written + n
      /\ seen' = seen \cup A /\ wire' = wire \cup A
      /\ verdict' = [a \in Addr |-> IF a \in A THEN "asked" ELSE verdict[a]]
      /\ feedback' = feedback \o items
      /\ UNCHANGED <<covered, testing, asking, applied>>
  BY DEF ModelDone, Journaled
<1>2. emptyRound' \in BOOLEAN
  BY DEF ModelDone, Empty, AdaptiveIInv, AdaptiveTypes
<1>3. /\ AdaptiveTypes /\ TasksInOrder /\ OnlySeen /\ EachAnswered /\ Announced /\ RoundInOrder
  BY DEF AdaptiveIInv
<1>4. /\ t \in Seq(Addr) /\ Len(t) \in Nat /\ Len(t) <= job.limit /\ job.limit \in Nat
      /\ batch.state \in States /\ written \in Nat /\ attempts \in Nat
      /\ written + job.limit <= Count
  BY <1>3 DEF AdaptiveTypes, TasksInOrder
<1>5. /\ A \in SUBSET Addr /\ IsFiniteSet(A) /\ A \cap (seen \cup Exclude \cup covered) = {}
      /\ n \in Nat /\ n <= Len(t)
      /\ items \in Seq(ItemType)
      /\ VerdictsIn(items) + n = Len(t)
      /\ \A k \in 1..Len(items) :
            \E a \in Addr : /\ items[k].kind = "Skipped" /\ items[k].of = {a}
                            /\ a \in seen \cup Exclude \cup covered \cup A
  BY <1>4, FilterFacts
<1>6. t = <<>> => A = {} /\ items = <<>>
  BY FilterEmpty
<1> HIDE DEF t, A, items
<1>7. InHand' = InHand \o items /\ InHand \in Seq(ItemType) /\ feedback' \in Seq(ItemType)
  BY <1>1, <1>3, <1>5, InHandExtended
<1>8. /\ verdict' \in [Addr -> {"none", "asked"} \cup Session!Judged]
      /\ Awaited' = Awaited \cup A /\ Awaited \cap A = {}
      /\ \A b \in Addr : b \in seen' <=> verdict'[b] # "none"
  <2>1. \A b \in Addr : verdict'[b] = IF b \in A THEN "asked" ELSE verdict[b]
    BY <1>1
  <2>2. verdict' \in [Addr -> {"none", "asked"} \cup Session!Judged]
    BY <1>1, <1>3 DEF AdaptiveTypes
  <2>3. Awaited' = Awaited \cup A
    BY <1>5, <2>1 DEF Awaited
  <2>4. Awaited \cap A = {}
    BY <1>3, <1>5, AwaitedFacts
  <2>5. \A b \in Addr : b \in seen <=> verdict[b] # "none"
    BY <1>3 DEF OnlySeen
  <2> QED
    BY <1>1, <2>1, <2>2, <2>3, <2>4, <2>5
<1>9. journal' \in Seq(ItemType) /\ journal' = applied /\ journal' = applied'
  BY <1>1, <1>3 DEF TasksInOrder, AdaptiveTypes
<1>10. /\ NoBatch \in [targets : Seq(Addr), state : States] /\ Len(NoBatch.targets) = 0
       /\ NoJob \in [told : Seq(ItemType), limit : Nat] /\ NoJob.limit = 0
  BY DEF NoBatch, NoJob, States
<1>11. AdaptiveTypes'
  <2>1. /\ seen' \in SUBSET Addr /\ IsFiniteSet(seen') /\ wire' \subseteq seen'
    BY <1>1, <1>3, <1>5, FS_Union DEF AdaptiveTypes
  <2>2. attempts' \in Nat /\ written' \in Nat /\ state' \in States
    <3>1. attempts' \in Nat
      BY <1>1, <1>4
    <3>2. written' \in Nat
      BY <1>1, <1>4, <1>5
    <3>3. state' \in States
      BY <1>1, <1>3, <1>4 DEF AdaptiveTypes
    <3> QED
      BY <3>1, <3>2, <3>3
  <2> QED
    BY <1>1, <1>2, <1>3, <1>7, <1>8, <1>9, <1>10, <2>1, <2>2 DEF AdaptiveTypes
<1>12. TasksInOrder'
  <2>1. written' + 0 <= Count
    <3>1. Len(t) + written <= Count /\ Count \in Nat
      BY <1>4, AdaptiveAssumption
    <3> QED
      BY <1>1, <1>4, <1>5, <3>1, SMTT(30)
  <2> QED
    BY <1>1, <1>9, <1>10, <2>1 DEF TasksInOrder
<1>13. OnlySeen'
  BY <1>1, <1>8 DEF OnlySeen
<1>14. EachAnswered'
  <2> DEFINE c == Cardinality(Awaited)
             w == VerdictsIn(InHand)
             r == VerdictsIn(items)
             l == Len(t)
  <2>1. c \in Nat /\ IsFiniteSet(Awaited)
    BY <1>3, AwaitedFacts
  <2>2. Cardinality(Awaited') = c + n
    <3>1. Cardinality(Awaited \cup A) = c + n - Cardinality(Awaited \cap A)
      BY <1>5, <2>1, FS_Union
    <3>2. Cardinality(Awaited \cap A) = 0
      BY <1>8, FS_EmptySet
    <3> HIDE DEF c, n
    <3> QED
      BY <1>5, <1>8, <2>1, <3>1, <3>2
  <2>3. VerdictsIn(InHand') = w + r /\ w \in Nat /\ r \in Nat
    BY <1>5, <1>7, VerdictsConcat
  <2>4. w + c = attempts /\ attempts' = attempts + l /\ r + n = l
    BY <1>1, <1>3, <1>5 DEF EachAnswered
  <2> HIDE DEF c, w, n, r, l
  <2>5. (w + r) + (c + n) = (w + c) + (r + n)
    BY <1>5, <2>1, <2>3
  <2> QED
    BY <2>2, <2>3, <2>4, <2>5 DEF EachAnswered
<1> HIDE DEF n
<1>15. Announced'
  <2>1. Awaited \ Awaited' = {} /\ seen' \subseteq seen \cup Awaited' /\ seen \subseteq Addr /\ covered' \ covered = {}
    BY <1>1, <1>3, <1>8 DEF AdaptiveTypes
  <2>2. ASSUME NEW k \in 1..Len(items), items[k].kind = "Skipped"
        PROVE  MaySkip(InHand \o items, Awaited', Len(InHand) + k)
    <3> DEFINE m == Len(InHand)
               u == InHand \o items
    <3>1. PICK a \in Addr : items[k].of = {a} /\ a \in seen \cup Exclude \cup covered \cup A
      BY <1>5
    <3>2. /\ m \in Nat /\ DOMAIN InHand = 1..m
      BY <1>7
    <3>3. /\ \A j \in 1..m : u[j] = InHand[j]
          /\ \A j \in 1..Len(items) : u[m + j] = items[j]
      BY <1>5, <1>7, ConcatFacts
    <3>4. DOMAIN u = 1..(m + Len(items)) /\ Len(items) \in Nat
      BY <1>5, <1>7
    <3> HIDE DEF m, u
    <3>5. u[m + k].of = {a}
      BY <3>1, <3>3
    <3>6. CASE a \in Exclude
      BY <3>1, <3>5, <3>6 DEF MaySkip, m, u
    <3>7. CASE a \in Awaited'
      BY <3>1, <3>5, <3>7 DEF MaySkip, m, u
    <3>8. CASE a \in covered
      <4>1. PICK j \in DOMAIN InHand : InHand[j].kind = "Aliased" /\ a \in InHand[j].of
        BY <1>3, <3>8 DEF Announced, CoveredTold
      <4>2. j \in 1..((m + k) - 1) /\ u[j].kind = "Aliased" /\ a \in u[j].of
        BY <3>2, <3>3, <4>1
      <4> QED
        BY <3>1, <3>5, <4>2 DEF MaySkip, m, u
    <3>9. CASE a \in seen /\ a \notin Awaited'
      <4>1. verdict[a] # "asked"
        BY <1>8, <3>1, <3>9 DEF Awaited
      <4>2. PICK j \in DOMAIN InHand : InHand[j].of = {a}
        BY <1>3, <3>9, <4>1 DEF Announced, SeenTold
      <4>3. j \in DOMAIN u \ {m + k} /\ u[j].of = {a}
        BY <3>2, <3>3, <3>4, <4>2
      <4> QED
        BY <3>1, <3>5, <4>3 DEF MaySkip, m, u
    <3> QED
      BY <1>8, <3>1, <3>6, <3>7, <3>8, <3>9
  <2> QED
    BY <1>3, <1>5, <1>7, <2>1, <2>2, AnnouncedGrows
<1>16. RoundInOrder'
  <2> SUFFICES ASSUME asking PROVE RoundInOrder'
    BY <1>1 DEF RoundInOrder
  <2>1. CASE job.limit > 0 /\ batch.state = "AwaitingFeedback"
    BY <1>1, <1>10, <2>1 DEF RoundInOrder
  <2>2. CASE state = "AwaitingFeedback" /\ job.limit = 0
    BY <1>1, <1>10, <2>2 DEF RoundInOrder
  <2>3. CASE state = "Ready" /\ Settled /\ (Remaining = 0 \/ EndToTell)
    <3>1. job.limit = 0
      <4>1. CASE Remaining = 0
        BY <1>4, <4>1, AdaptiveAssumption DEF Remaining
      <4>2. CASE EndToTell
        BY <4>2 DEF EndToTell
      <4> QED
        BY <2>3, <4>1, <4>2
    <3>2. t = <<>>
      BY <1>4, <3>1
    <3>3. A = {} /\ items = <<>> /\ n = 0
      BY <1>6, <3>2, FS_EmptySet DEF n
    <3>4. feedback' = feedback /\ wire' = wire /\ verdict' = verdict /\ written' = written /\ state' = "Ready"
      <4>1. feedback \in Seq(ItemType)
        BY <1>3 DEF AdaptiveTypes
      <4>2. \A a \in Addr : verdict'[a] = verdict[a]
        BY <1>1, <3>3
      <4>3. verdict' = verdict
        BY <1>3, <1>8, <4>2 DEF AdaptiveTypes
      <4> QED
        BY <1>1, <1>4, <2>3, <3>1, <3>3, <4>1, <4>3
    <3>5. Settled' = Settled /\ Remaining' = Remaining
      BY <1>1, <3>4 DEF Settled, Awaited, Remaining
    <3> QED
      BY <1>1, <1>10, <2>3, <3>4, <3>5 DEF RoundInOrder, EndToTell
  <2> QED
    BY <1>1, <1>3, <2>1, <2>2, <2>3 DEF RoundInOrder, EndTold
<1> QED
  BY <1>11, <1>12, <1>13, <1>14, <1>15, <1>16 DEF AdaptiveIInv

\* Every step keeps the invariant.
LEMMA AdaptiveNextIInv ==
  ASSUME AdaptiveIInv, [Next]_vars
  PROVE  AdaptiveIInv'
<1>1. CASE UNCHANGED vars
  <2>1. UNCHANGED <<pc, feedback, state, emptyRound, attempts, written, seen, task, job, batch,
                    verdict, covered, wire, testing, asking, applied, journal>>
    BY <1>1 DEF vars, dvars, svars, hvars
  <2>2. OnlySeen' /\ EachAnswered' /\ Announced'
    BY <2>1, PassKeeps
  <2>3. Settled' = Settled /\ Remaining' = Remaining
    BY <2>1 DEF Settled, Awaited, Remaining
  <2>4. RoundInOrder'
    BY <2>1, <2>3 DEF AdaptiveIInv, RoundInOrder, EndToTell, EndTold
  <2>5. AdaptiveTypes'
    BY <2>1 DEF AdaptiveIInv, AdaptiveTypes
  <2>6. TasksInOrder'
    BY <2>1, <2>3 DEF AdaptiveIInv, TasksInOrder
  <2> QED
    BY <2>2, <2>4, <2>5, <2>6 DEF AdaptiveIInv
<1>2. CASE StartModel
  BY <1>2, StartModelIInv
<1>3. CASE Await
  BY <1>3, AwaitIInv
<1>4. CASE Finish
  BY <1>4, FinishIInv
<1>5. CASE TestAlias
  BY <1>5, TestAliasIInv
<1>6. CASE FindAlias
  BY <1>6, FindAliasIInv
<1>7. CASE JudgeTarget
  BY <1>7, JudgeTargetIInv
<1>8. CASE ExpireTarget
  BY <1>8, ExpireTargetIInv
<1>9. CASE RunModel
  BY <1>9, RunModelIInv
<1>10. CASE ModelDone
  BY <1>10, ModelDoneIInv
<1>11. CASE GiveUp
  BY <1>11, GiveUpIInv
<1>12. CASE Fail
  BY <1>12, FailIInv
<1>13. CASE Ended
  BY <1>1, <1>13 DEF Ended
<1> QED
  BY <1>1, <1>2, <1>3, <1>4, <1>5, <1>6, <1>7, <1>8, <1>9, <1>10, <1>11, <1>12, <1>13
     DEF Next, Turn, Pass, Result

\* The inductive invariant holds throughout every scan.
THEOREM AdaptiveInvariant == Spec => []AdaptiveIInv
<1>1. Init => AdaptiveIInv
  BY AdaptiveInitIInv
<1>2. AdaptiveIInv /\ [Next]_vars => AdaptiveIInv'
  BY AdaptiveNextIInv
<1> QED
  BY <1>1, <1>2, PTL DEF Spec

-----------------------------------------------------------------------------
(* What it says of the scan.                                                *)

\* The counters stay within the planned count and the attempts allowed.
THEOREM AdaptiveTypeCorrect == Spec => []AdaptiveTypeOK
<1>1. AdaptiveIInv => AdaptiveTypeOK
  <2> SUFFICES ASSUME AdaptiveIInv PROVE AdaptiveTypeOK
    OBVIOUS
  <2>1. written \in 0..Count
    BY AdaptiveAssumption DEF AdaptiveIInv, AdaptiveTypes, TasksInOrder
  <2>2. attempts \in 0..MaxAttempts
    BY AdaptiveAssumption DEF AdaptiveIInv, AdaptiveTypes, OnlySeen
  <2> QED
    BY <2>1, <2>2 DEF AdaptiveIInv, AdaptiveTypes, AdaptiveTypeOK, ItemType, States
<1> QED
  BY <1>1, AdaptiveInvariant, PTL

\* The journal is what the model was told, but for the feedback of a task that
\* has just finished: a scan that fails leaves a prefix of it, and a scan that is
\* done has journaled all of it.
THEOREM AdaptiveJournal == Spec => []JournalIsApplied
<1>1. AdaptiveIInv => JournalIsApplied
  <2> SUFFICES ASSUME AdaptiveIInv PROVE JournalIsApplied
    OBVIOUS
  <2>1. journal \in Seq(ItemType) /\ applied \in Seq(ItemType) /\ job.told \in Seq(ItemType)
    BY DEF AdaptiveIInv, AdaptiveTypes
  <2>2. task # "finished" => journal = applied
    BY DEF AdaptiveIInv, TasksInOrder
  <2>3. IsPrefix(journal, applied)
    <3>1. CASE journal = applied
      BY <2>1, <3>1 DEF IsPrefix
    <3>2. CASE applied = journal \o job.told
      <4>1. Len(journal) <= Len(journal \o job.told)
        BY <2>1
      <4>2. SubSeq(journal, 1, Len(journal)) = SubSeq(journal \o job.told, 1, Len(journal))
        BY <2>1
      <4> QED
        BY <3>2, <4>1, <4>2 DEF IsPrefix
    <3> QED
      BY <2>2, <3>1, <3>2 DEF AdaptiveIInv, TasksInOrder
  <2>4. pc = "done" => journal = InHand
    <3> SUFFICES ASSUME pc = "done" PROVE journal = InHand
      OBVIOUS
    <3>1. task = "none" /\ feedback = <<>> /\ journal = applied
      BY <2>2 DEF AdaptiveIInv, TasksInOrder
    <3>2. InHand = applied \o <<>>
      BY <3>1, InHandFacts DEF AdaptiveIInv
    <3> QED
      BY <2>1, <3>1, <3>2
  <2> QED
    BY <2>2, <2>3, <2>4 DEF JournalIsApplied
<1> QED
  BY <1>1, AdaptiveInvariant, PTL

\* Every candidate has one verdict, told or on its way, or a place in the session;
\* a scan that is done has told the model the verdict on each.
THEOREM AdaptiveAnswers == Spec => []EveryCandidateAnswered
<1>1. AdaptiveIInv => EveryCandidateAnswered
  <2> SUFFICES ASSUME AdaptiveIInv PROVE EveryCandidateAnswered
    OBVIOUS
  <2>1. VerdictsIn(InHand) + Cardinality(Awaited) = attempts
    BY DEF AdaptiveIInv, EachAnswered
  <2>2. ASSUME pc = "done"
        PROVE  /\ written = Count \/ state = "Exhausted"
               /\ VerdictsIn(applied) = attempts
               /\ \A a \in seen : verdict[a] \in Session!Judged
    <3>1. /\ task = "none" /\ feedback = <<>> /\ Awaited = {}
          /\ written = Count \/ state = "Exhausted"
      BY <2>2 DEF AdaptiveIInv, TasksInOrder, Settled
    <3>2. InHand = applied \o <<>> /\ applied \in Seq(ItemType)
      BY <3>1, InHandFacts DEF AdaptiveIInv, AdaptiveTypes
    <3>3. InHand = applied /\ VerdictsIn(applied) \in Nat
      BY <3>2, VerdictsWeigh
    <3>4. VerdictsIn(applied) = attempts
      <4>1. Cardinality(Awaited) = 0
        BY <3>1, FS_EmptySet
      <4> QED
        BY <2>1, <3>3, <4>1
    <3>5. ASSUME NEW a \in seen PROVE verdict[a] \in Session!Judged
      <4>1. a \in Addr /\ verdict[a] # "none" /\ verdict[a] \in {"none", "asked"} \cup Session!Judged
        BY DEF AdaptiveIInv, AdaptiveTypes, OnlySeen
      <4>2. verdict[a] # "asked"
        BY <3>1, <4>1 DEF Awaited
      <4> QED
        BY <4>1, <4>2
    <3> QED
      BY <3>1, <3>4, <3>5
  <2> QED
    BY <2>1, <2>2 DEF EveryCandidateAnswered
<1> QED
  BY <1>1, AdaptiveInvariant, PTL

\* The model is not told that a target was skipped before it was told of the
\* alias, unless the target has another verdict, is excluded or is waited for.
THEOREM AdaptiveAliases == Spec => []AliasFirst
<1>1. AdaptiveIInv => AliasFirst
  <2> SUFFICES ASSUME AdaptiveIInv, NEW i \in DOMAIN InHand,
                      InHand[i].kind = "Skipped", OnlyOn(i),
                      InHand[i].of \cap (Exclude \cup Awaited) = {}
               PROVE  \E j \in 1..(i - 1) :
                        InHand[j].kind = "Aliased" /\ InHand[i].of \subseteq InHand[j].of
    BY DEF AliasFirst
  <2>1. MaySkip(InHand, Awaited, i)
    BY DEF AdaptiveIInv, Announced, SkipsFit
  <2>2. PICK a \in Addr : /\ InHand[i].of = {a}
                          /\ \/ a \in Exclude
                             \/ a \in Awaited
                             \/ \E j \in DOMAIN InHand \ {i} : InHand[j].of = {a}
                             \/ \E j \in 1..(i - 1) : InHand[j].kind = "Aliased" /\ a \in InHand[j].of
    BY <2>1 DEF MaySkip
  <2>3. a \notin Exclude /\ a \notin Awaited
    BY <2>2
  <2>4. ~ \E j \in DOMAIN InHand \ {i} : InHand[j].of = {a}
    BY <2>2 DEF OnlyOn
  <2> QED
    BY <2>2, <2>3, <2>4
<1> QED
  BY <1>1, AdaptiveInvariant, PTL

\* A model that asked for feedback generates again only after it was told the
\* verdict on every candidate, and last that the round is over.
THEOREM AdaptiveRounds == Spec => RoundIsWhole
<1> DEFINE Whole == asking /\ task = "running" /\ job.limit > 0 /\ task' = "finished"
                      => /\ applied' # <<>> /\ Last(applied') = BatchComplete
                         /\ VerdictsIn(applied') = attempts
<1>1. ASSUME AdaptiveIInv, [Next]_vars PROVE [Whole]_vars
  <2> SUFFICES ASSUME asking, task = "running", job.limit > 0, task' = "finished"
               PROVE  /\ applied' # <<>> /\ Last(applied') = BatchComplete
                      /\ VerdictsIn(applied') = attempts
    OBVIOUS
  <2>1. RunModel
    BY <1>1 DEF Next, Turn, Pass, Result, StartModel, Await, Finish, TestAlias, FindAlias,
                JudgeTarget, ExpireTarget, ModelDone, GiveUp, Fail, Ended, vars, dvars
  <2>2. applied' = applied \o job.told
    BY <2>1 DEF RunModel
  <2>3. /\ applied \in Seq(ItemType) /\ job.told \in Seq(ItemType) /\ job.limit \in Nat
        /\ written \in Nat /\ written + job.limit <= Count
    BY <1>1 DEF AdaptiveIInv, AdaptiveTypes, TasksInOrder
  <2>4. Remaining # 0
    BY <2>3, AdaptiveAssumption DEF Remaining
  <2>5. Settled /\ EndTold
    BY <1>1, <2>3, <2>4 DEF AdaptiveIInv, RoundInOrder, EndToTell
  <2>6. Len(job.told) \in Nat \ {0} /\ job.told[Len(job.told)] = BatchComplete
    BY <2>3, <2>5 DEF EndTold, Last
  <2>7. applied' # <<>> /\ Last(applied') = BatchComplete
    <3> DEFINE m == Len(applied)
               k == Len(job.told)
               u == applied \o job.told
    <3>1. m \in Nat /\ k \in 1..k /\ Len(u) = m + k
      BY <2>3, <2>6
    <3>2. u[m + k] = job.told[k]
      BY <2>3, <3>1, ConcatFacts
    <3> HIDE DEF m, u
    <3>3. Len(u) # 0
      BY <2>6, <3>1
    <3>4. u # <<>>
      BY <3>3, Len(<<>>) = 0
    <3> QED
      BY <2>2, <2>6, <3>1, <3>2, <3>4 DEF Last, u
  <2>8. VerdictsIn(applied') = attempts
    <3>1. InHand = (applied \o job.told) \o <<>>
      BY <1>1, <2>5, InHandFacts DEF AdaptiveIInv, EndTold
    <3>2. InHand = applied' /\ applied' \in Seq(ItemType)
      BY <2>2, <2>3, <3>1
    <3>3. Cardinality(Awaited) = 0
      BY <2>5, FS_EmptySet DEF Settled
    <3>4. VerdictsIn(InHand) + 0 = attempts /\ VerdictsIn(InHand) \in Nat
      BY <1>1, <3>2, <3>3, VerdictsWeigh DEF AdaptiveIInv, EachAnswered
    <3> QED
      BY <3>2, <3>4
  <2> QED
    BY <2>7, <2>8
<1>2. AdaptiveIInv /\ [Next]_vars => [Whole]_vars
  BY <1>1
<1> QED
  BY <1>2, AdaptiveInvariant, PTL DEF Spec, RoundIsWhole
=============================================================================
