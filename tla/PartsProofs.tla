----------------------------- MODULE PartsProofs -----------------------------
(* Theorems about the small parts a scan is built on: the prefix set, for    *)
(* every width of an address and every set of prefixes that nest: its        *)
(* queries and its listing are those of what was inserted; the generation of *)
(* composed addresses, for every number of parts, every stream of addresses  *)
(* and every count: that the compositions are emitted in the order of the    *)
(* parts' streams, none twice and none left out; and the packet links, for   *)
(* rings, batches and numbers of frames of any size: that no frame is lost   *)
(* by a transmitter, and that a receiver hands them on in order.             *)
EXTENDS PrefixSet, Generation, Link, Facts, TLAPS

-----------------------------------------------------------------------------
(* PrefixSet.                                                                *)

RangesTypeOK ==
  /\ ranges \in [DOMAIN ranges -> Addr]
  /\ DOMAIN ranges \subseteq Addr
  /\ entering \in [on : BOOLEAN, start : Addr, end : Addr]
  /\ entering.start <= entering.end

\* Every stored range is a range, and between two of them an address is free.
Separate ==
  \A r, s \in DOMAIN ranges : r <= ranges[r] /\ (r < s => ranges[r] + 1 < s)

\* The range being built neither overlaps nor touches one to its left.
LeftIsClear ==
  entering.on => \A s \in DOMAIN ranges : s < entering.start => ranges[s] + 1 < entering.start

Building(a) == entering.on /\ entering.start <= a /\ a <= entering.end

\* What has been given is in the stored ranges or in the one being built.
NothingLost ==
  \A a \in Addr :
    a \in given <=> \/ \E s \in DOMAIN ranges : s <= a /\ a <= ranges[s]
                    \/ Building(a)

RangesIInv == RangesTypeOK /\ Separate /\ LeftIsClear /\ NothingLost

-----------------------------------------------------------------------------
(* The queries.                                                             *)

\* contains() finds the one range an address can be in.
LEMMA ContainsIsMember ==
  ASSUME RangesTypeOK, Separate, NEW a \in Addr
  PROVE  Contains(a) <=> \E s \in DOMAIN ranges : s <= a /\ a <= ranges[s]
<1>1. ASSUME NEW s \in DOMAIN ranges, s <= a, a <= ranges[s]
      PROVE  s \in Floor(a)
  <2>1. ASSUME NEW r \in DOMAIN ranges, r <= a
        PROVE  r <= s
    BY <1>1, <2>1 DEF RangesTypeOK, Separate, Addr
  <2> QED
    BY <1>1, <2>1 DEF Floor
<1> QED
  BY <1>1 DEF Contains, Floor

\* A prefix whose addresses are all in some range is within a single one: the
\* range of its first address cannot end before its last address, because the
\* address after the end of a range is free.
LEMMA CoversIsSubset ==
  ASSUME PrefixesAssumption, RangesTypeOK, Separate, NothingLost, ~entering.on, NEW p \in Prefix
  PROVE  Covers(p) <=> p.first..p.last \subseteq given
<1>1. /\ p.first \in Addr
      /\ p.last \in Addr
      /\ p.first <= p.last
  BY DEF PrefixesAssumption
<1>2. ASSUME NEW s \in Floor(p.first), p.last <= ranges[s], NEW a \in p.first..p.last
      PROVE  a \in given
  <2>1. a \in Addr /\ s \in DOMAIN ranges /\ s <= a /\ a <= ranges[s]
    BY <1>1, <1>2, PrefixesAssumption DEF Floor, RangesTypeOK, Addr
  <2> QED
    BY <2>1 DEF NothingLost
<1>3. ASSUME p.first..p.last \subseteq given
      PROVE  Covers(p)
  <2>1. PICK s \in DOMAIN ranges : s <= p.first /\ p.first <= ranges[s]
    BY <1>1, <1>3 DEF NothingLost, Building, Addr
  <2>2. s \in Floor(p.first)
    BY <1>1, <2>1 DEF Floor, RangesTypeOK, Separate, Addr
  <2>3. p.last <= ranges[s]
    <3>1. SUFFICES ASSUME ranges[s] < p.last
                   PROVE  FALSE
      BY <1>1 DEF RangesTypeOK, Addr
    <3>2. /\ ranges[s] + 1 \in p.first..p.last
          /\ ranges[s] + 1 \in Addr
      BY <1>1, <2>1, <3>1, PrefixesAssumption DEF RangesTypeOK, Addr
    <3>3. PICK r \in DOMAIN ranges : r <= ranges[s] + 1 /\ ranges[s] + 1 <= ranges[r]
      BY <1>3, <3>2 DEF NothingLost, Building
    <3>4. r # s
      BY <3>3 DEF RangesTypeOK, Addr
    <3> QED
      BY <3>3, <3>4 DEF RangesTypeOK, Separate, Addr
  <2> QED
    BY <2>2, <2>3 DEF Covers
<1> QED
  BY <1>2, <1>3 DEF Covers

\* The queries' answers follow from the invariant.
LEMMA InvariantAnswers ==
  ASSUME RangesIInv PROVE QueriesAgree
BY ContainsIsMember, CoversIsSubset, PrefixesAssumption
   DEF RangesIInv, QueriesAgree, NothingLost, Building

-----------------------------------------------------------------------------
(* The listing.                                                              *)

\* The largest prefixes within a range.
Within(first, end)  == {p \in Prefix : first <= p.first /\ p.last <= end}
Largest(first, end) ==
  {p \in Within(first, end) : \A q \in Within(first, end) : q.first <= p.first /\ p.last <= q.last => q = p}

\* A prefix is the pair of its bounds.
LEMMA PrefixIs ==
  ASSUME NEW p \in Prefix
  PROVE  /\ p.first \in Int /\ p.last \in Int /\ 0 <= p.first /\ p.first <= p.last /\ p.last <= Top /\ Top \in Nat
         /\ \A q \in Prefix : p.first = q.first /\ p.last = q.last => p = q
BY PrefixesAssumption DEF Addr

\* The prefix that is cut off.
LEMMA LongestIs ==
  ASSUME NEW first \in Addr, NEW end \in Addr, first <= end
  PROVE  LET p == Longest(first, end)
         IN  /\ p \in Prefix /\ p.first = first /\ p.last <= end
             /\ \A q \in Prefix : q.first = first /\ q.last <= end => q.last <= p.last
<1> DEFINE S == LongestTo(first, end)
           T == {end - p.last : p \in S}
<1>1. \A p \in S : p \in Prefix /\ p.last \in Int /\ p.last <= end /\ end \in Int
  BY PrefixIs, PrefixesAssumption DEF LongestTo, Addr
<1>2. [first |-> first, last |-> first] \in S
  BY NestingAssumption DEF LongestTo
<1> HIDE DEF S
<1>3. T \in SUBSET Nat /\ T # {}
  BY <1>1, <1>2
<1>4. PICK x \in T : \A y \in T : x <= y
  BY <1>3, LeastNat
<1>5. PICK p \in S : x = end - p.last
  BY <1>4
<1>6. ASSUME NEW q \in S PROVE q.last <= p.last
  <2>1. end - p.last <= end - q.last
    BY <1>4, <1>5
  <2> QED
    BY <1>1, <2>1
<1>7. Longest(first, end) \in S /\ \A q \in S : q.last <= Longest(first, end).last
  BY <1>6 DEF Longest, S
<1> QED
  BY <1>7 DEF S, LongestTo

\* The ways to cut the range from each of its addresses on.
Cuts(g, first, end) ==
  g = [s \in first..end |-> LET p == Longest(s, end)
                            IN  {p} \cup (IF p.last = end THEN {} ELSE g[p.last + 1])]

\* What such a way cuts off at s.
LEMMA CutsIs ==
  ASSUME NEW g, NEW first \in Addr, NEW end \in Addr, Cuts(g, first, end), NEW s \in first..end
  PROVE  LET p == Longest(s, end)
         IN  /\ p.last \in s..end
             /\ p.last = end => g[s] = {p}
             /\ p.last # end => p.last + 1 \in (s + 1)..end /\ g[s] = {p} \cup g[p.last + 1]
<1> DEFINE p == Longest(s, end)
<1>1. s \in Addr /\ s <= end
  BY PrefixesAssumption DEF Addr
<1>2. p \in Prefix /\ p.first = s /\ p.last <= end
  BY <1>1, LongestIs
<1>3. p.last \in s..end
  BY <1>2, PrefixIs
<1>4. g[s] = {p} \cup (IF p.last = end THEN {} ELSE g[p.last + 1])
  BY DEF Cuts
<1>5. p.last # end => p.last + 1 \in (s + 1)..end
  <2>1. s \in Int /\ end \in Int
    BY PrefixesAssumption DEF Addr
  <2> HIDE DEF p
  <2> QED
    BY <1>3, <2>1
<1> QED
  BY <1>3, <1>4, <1>5

\* There is one: cut from the right.
LEMMA CutsExist ==
  ASSUME NEW first \in Addr, NEW end \in Addr, first <= end
  PROVE  \E g : Cuts(g, first, end)
<1> DEFINE T == {s \in first..end : \E g : Cuts(g, s, end)}
<1>0. first \in Nat /\ end \in Nat /\ Top \in Nat /\ end <= Top
  BY PrefixesAssumption DEF Addr
<1>1. end \in T
  <2> DEFINE g == [s \in end..end |-> {Longest(s, end)}]
  <2>1. ASSUME NEW s \in end..end PROVE Longest(s, end).last = end
    <3>1. s = end
      BY <1>0
    <3>2. Longest(end, end) \in Prefix /\ Longest(end, end).first = end /\ Longest(end, end).last <= end
      BY LongestIs
    <3> QED
      BY <1>0, <3>1, <3>2, PrefixIs
  <2>2. g = [s \in end..end |-> LET p == Longest(s, end)
                                IN  {p} \cup (IF p.last = end THEN {} ELSE g[p.last + 1])]
    BY <2>1
  <2>3. Cuts(g, end, end)
    BY <2>2 DEF Cuts
  <2> QED
    BY <1>0, <2>3
<1>2. T \in SUBSET Nat
  BY <1>0
<1> HIDE DEF T
<1>3. PICK m \in T : \A k \in T : m <= k
  BY <1>1, <1>2, LeastNat
<1>4. m \in first..end /\ \E g : Cuts(g, m, end)
  BY <1>3 DEF T
<1>5. CASE m = first
  BY <1>4, <1>5
<1>6. CASE m # first
  <2> DEFINE n == m - 1
  <2>1. n \in first..end /\ n \in Addr /\ m \in Addr /\ n + 1 = m /\ n <= end /\ n < m
    BY <1>0, <1>4, <1>6 DEF Addr
  <2> HIDE DEF n
  <2>2. PICK g : Cuts(g, m, end)
    BY <1>4
  <2> DEFINE p(s) == Longest(s, end)
             h == [s \in n..end |-> IF s = n THEN {p(n)} \cup (IF p(n).last = end THEN {} ELSE g[p(n).last + 1])
                                    ELSE g[s]]
  <2>3. ASSUME NEW s \in n..end
        PROVE  h[s] = {p(s)} \cup (IF p(s).last = end THEN {} ELSE h[p(s).last + 1])
    <3>1. s \in Addr /\ s <= end /\ s \in Int
      BY <1>0, <2>1 DEF Addr
    <3>2. p(s).last \in s..end
      <4>1. p(s) \in Prefix /\ p(s).first = s /\ p(s).last <= end
        BY <3>1, LongestIs
      <4> QED
        BY <4>1, PrefixIs
    <3> HIDE DEF p
    <3>3. p(s).last # end => p(s).last + 1 \in n..end /\ p(s).last + 1 # n
      BY <1>0, <2>1, <3>1, <3>2
    <3>4. p(s).last # end => h[p(s).last + 1] = g[p(s).last + 1]
      BY <3>3
    <3>5. CASE s = n
      BY <3>4, <3>5
    <3>6. CASE s # n
      <4>1. s \in m..end
        BY <1>0, <2>1, <3>1, <3>6
      <4>2. g[s] = {p(s)} \cup (IF p(s).last = end THEN {} ELSE g[p(s).last + 1])
        BY <2>2, <4>1 DEF Cuts, p
      <4> QED
        BY <3>4, <3>6, <4>2
    <3> QED
      BY <3>5, <3>6
  <2>4. h = [s \in n..end |-> {p(s)} \cup (IF p(s).last = end THEN {} ELSE h[p(s).last + 1])]
    <3>1. h = [s \in n..end |-> h[s]]
      OBVIOUS
    <3> HIDE DEF h
    <3> QED
      BY <2>3, <3>1
  <2>5. Cuts(h, n, end)
    <3> HIDE DEF h
    <3> QED
      BY <2>4 DEF Cuts
  <2>6. n \in T
    BY <2>1, <2>5 DEF T
  <2> QED
    BY <1>0, <1>3, <2>1, <2>6
<1> QED
  BY <1>5, <1>6

\* What is cut off is the largest prefix at its place, and the largest prefixes
\* in the rest of the range are the others.
LEMMA LargestSplit ==
  ASSUME NEW first \in Addr, NEW end \in Addr, first <= end
  PROVE  LET p == Longest(first, end)
         IN  Largest(first, end) = {p} \cup (IF p.last = end THEN {} ELSE Largest(p.last + 1, end))
<1> DEFINE p == Longest(first, end)
           next == p.last + 1
<1>1. /\ p \in Prefix /\ p.first = first /\ p.last <= end
      /\ \A q \in Prefix : q.first = first /\ q.last <= end => q.last <= p.last
  BY LongestIs
<1> HIDE DEF p
<1>2. first \in Int /\ end \in Int
  BY PrefixesAssumption DEF Addr
<1>3. p \in Largest(first, end)
  <2>1. ASSUME NEW q \in Within(first, end), q.first <= p.first, p.last <= q.last PROVE q = p
    <3>1. q \in Prefix /\ first <= q.first /\ q.last <= end
      BY <2>1 DEF Within
    <3>2. q.first = first
      BY <1>1, <1>2, <2>1, <3>1, PrefixIs
    <3>3. q.last = p.last
      BY <1>1, <2>1, <3>1, <3>2, PrefixIs
    <3> QED
      BY <1>1, <3>1, <3>2, <3>3, PrefixIs
  <2> QED
    BY <1>1, <1>2, <2>1 DEF Largest, Within
<1>4. ASSUME NEW r \in Largest(first, end), ~(p.last < r.first) PROVE r = p
  <2>1. /\ r \in Prefix /\ first <= r.first /\ r.last <= end
        /\ \A q \in Within(first, end) : q.first <= r.first /\ r.last <= q.last => q = r
    BY <1>4 DEF Largest, Within
  <2>2. p \in Within(first, end)
    BY <1>1, <1>2 DEF Within
  <2>3. \/ p.first <= r.first /\ r.last <= p.last
        \/ r.first <= p.first /\ p.last <= r.last
    <3>1. ~(r.last < p.first)
      BY <1>1, <2>1, PrefixIs
    <3> QED
      BY <1>1, <1>4, <2>1, <3>1, NestingAssumption
  <2>4. CASE p.first <= r.first /\ r.last <= p.last
    BY <2>1, <2>2, <2>4
  <2>5. CASE r.first <= p.first /\ p.last <= r.last
    <3>1. r \in Within(first, end)
      BY <2>1 DEF Within
    <3> QED
      BY <1>3, <2>5, <3>1 DEF Largest
  <2> QED
    BY <2>3, <2>4, <2>5
<1>5. CASE p.last = end
  <2>1. ASSUME NEW r \in Largest(first, end) PROVE r = p
    <3>1. r \in Prefix /\ r.last <= end
      BY DEF Largest, Within
    <3>2. ~(p.last < r.first)
      BY <1>2, <1>5, <3>1, PrefixIs
    <3> QED
      BY <1>4, <3>2
  <2> QED
    BY <1>3, <1>5, <2>1 DEF p
<1>6. CASE p.last # end
  <2>1. p.last \in Int /\ first <= p.last
    BY <1>1, PrefixIs
  <2>2. ASSUME NEW r \in Largest(next, end) PROVE r \in Largest(first, end)
    <3>1. /\ r \in Prefix /\ next <= r.first /\ r.last <= end
          /\ \A q \in Within(next, end) : q.first <= r.first /\ r.last <= q.last => q = r
      BY DEF Largest, Within
    <3>2. ASSUME NEW q \in Within(first, end), q.first <= r.first, r.last <= q.last PROVE q = r
      <4>1. q \in Prefix /\ first <= q.first /\ q.last <= end
        BY <3>2 DEF Within
      <4>2. CASE next <= q.first
        <5>1. q \in Within(next, end)
          BY <4>1, <4>2 DEF Within
        <5> QED
          BY <3>1, <3>2, <5>1
      <4>3. CASE ~(next <= q.first)
        <5>1. /\ ~(p.last < q.first) /\ ~(q.last < p.first) /\ ~(q.last <= p.last)
          BY <1>1, <2>1, <3>1, <3>2, <4>1, <4>3, PrefixIs
        <5>2. q.first <= p.first
          BY <1>1, <4>1, <5>1, NestingAssumption
        <5>3. q.first = first
          BY <1>1, <1>2, <4>1, <5>2, PrefixIs
        <5> QED
          BY <1>1, <4>1, <5>1, <5>3
      <4> QED
        BY <4>2, <4>3
    <3>3. r \in Within(first, end)
      BY <1>2, <2>1, <3>1, PrefixIs DEF Within
    <3> QED
      BY <3>2, <3>3 DEF Largest
  <2>3. ASSUME NEW r \in Largest(first, end), p.last < r.first PROVE r \in Largest(next, end)
    <3>1. /\ r \in Prefix /\ r.last <= end
          /\ \A q \in Within(first, end) : q.first <= r.first /\ r.last <= q.last => q = r
      BY DEF Largest, Within
    <3>2. r \in Within(next, end)
      BY <2>1, <2>3, <3>1, PrefixIs DEF Within
    <3>3. Within(next, end) \subseteq Within(first, end)
      <4>1. ASSUME NEW q \in Within(next, end) PROVE q \in Within(first, end)
        BY <1>2, <2>1, PrefixIs DEF Within
      <4> QED
        BY <4>1
    <3> QED
      BY <3>1, <3>2, <3>3 DEF Largest
  <2>4. Largest(first, end) = {p} \cup Largest(next, end)
    BY <1>3, <1>4, <2>2, <2>3
  <2> QED
    BY <1>6, <2>4 DEF p
<1> QED
  BY <1>5, <1>6

\* So any such way cuts a range into its largest prefixes.
LEMMA CutsAreLargest ==
  ASSUME NEW g, NEW first \in Addr, NEW end \in Addr, Cuts(g, first, end), first <= end
  PROVE  g[first] = Largest(first, end)
<1> DEFINE Bad == {s \in first..end : g[s] # Largest(s, end)}
           T == {end - s : s \in Bad}
<1>0. first \in Nat /\ end \in Nat /\ Top \in Nat /\ end <= Top
  BY PrefixesAssumption DEF Addr
<1>1. SUFFICES ASSUME Bad # {} PROVE FALSE
  BY <1>0
<1>2. T \in SUBSET Nat /\ T # {}
  BY <1>0, <1>1
<1>3. PICK x \in T : \A y \in T : x <= y
  BY <1>2, LeastNat
<1>4. PICK s \in Bad : x = end - s
  BY <1>3
<1>5. s \in first..end /\ g[s] # Largest(s, end)
  OBVIOUS
<1>6. ASSUME NEW k \in (s + 1)..end PROVE g[k] = Largest(k, end)
  <2>1. k \in first..end /\ end - k < end - s
    BY <1>0, <1>5
  <2>2. k \notin Bad
    <3>1. ASSUME k \in Bad PROVE FALSE
      <4>1. end - k \in T
        BY <3>1
      <4>2. end - s <= end - k
        BY <1>3, <1>4, <4>1
      <4> QED
        BY <1>0, <1>5, <2>1, <4>2
    <3> QED
      BY <3>1
  <2> QED
    BY <2>1, <2>2
<1> HIDE DEF Bad, T
<1>7. s \in Addr /\ s <= end
  BY <1>0, <1>5 DEF Addr
<1> DEFINE p == Longest(s, end)
<1>8. Largest(s, end) = {p} \cup (IF p.last = end THEN {} ELSE Largest(p.last + 1, end))
  BY <1>7, LargestSplit
<1>9. /\ p.last = end => g[s] = {p}
      /\ p.last # end => p.last + 1 \in (s + 1)..end /\ g[s] = {p} \cup g[p.last + 1]
  BY <1>5, CutsIs
<1> HIDE DEF p
<1> QED
  BY <1>5, <1>6, <1>8, <1>9

\* prefixes() lists of a range the largest prefixes within it.
LEMMA BlocksAreLargest ==
  ASSUME NEW first \in Addr, NEW end \in Addr, first <= end
  PROVE  Blocks(first, end) = Largest(first, end)
<1>1. PICK f : Cuts(f, first, end)
  BY CutsExist
<1>2. \E g : Cuts(g, first, end) /\ Blocks(first, end) = g[first]
  BY <1>1 DEF Blocks, Cuts
<1> QED
  BY <1>2, CutsAreLargest

\* The coverage is that of the ranges, and a prefix within it is within one.
LEMMA InvariantLists ==
  ASSUME RangesIInv PROVE ListingIsMinimal
<1> SUFFICES ASSUME ~entering.on
             PROVE  Listed = {p \in Prefix :
                                /\ p.first..p.last \subseteq given
                                /\ \A q \in Prefix :
                                      q.first <= p.first /\ p.last <= q.last /\ q.first..q.last \subseteq given
                                        => q = p}
  BY DEF ListingIsMinimal
<1>0. RangesTypeOK /\ Separate /\ NothingLost
  BY DEF RangesIInv
<1>1. ASSUME NEW s \in DOMAIN ranges
      PROVE  s \in Addr /\ ranges[s] \in Addr /\ s <= ranges[s] /\ Blocks(s, ranges[s]) = Largest(s, ranges[s])
  <2>1. s \in Addr /\ ranges[s] \in Addr /\ s <= ranges[s]
    BY <1>0 DEF RangesTypeOK, Separate
  <2> QED
    BY <2>1, BlocksAreLargest
<1>2. ASSUME NEW p \in Prefix
      PROVE  p.first..p.last \subseteq given <=> \E s \in DOMAIN ranges : p \in Within(s, ranges[s])
  <2>1. Covers(p) <=> p.first..p.last \subseteq given
    BY <1>0, CoversIsSubset, PrefixesAssumption
  <2>2. Covers(p) => \E s \in DOMAIN ranges : p \in Within(s, ranges[s])
    BY DEF Covers, Floor, Within
  <2>3. ASSUME NEW s \in DOMAIN ranges, p \in Within(s, ranges[s]) PROVE p.first..p.last \subseteq given
    <3>1. ASSUME NEW a \in p.first..p.last PROVE a \in given
      <4>1. a \in Addr /\ s <= a /\ a <= ranges[s]
        BY <1>1, <2>3, PrefixIs DEF Within, Addr
      <4> QED
        BY <1>0, <4>1 DEF NothingLost
    <3> QED
      BY <3>1
  <2> QED
    BY <2>1, <2>2, <2>3
<1>3. ASSUME NEW p \in Prefix, NEW q \in Prefix, q.first <= p.first, p.last <= q.last,
             NEW s \in DOMAIN ranges, p \in Within(s, ranges[s]),
             NEW r \in DOMAIN ranges, q \in Within(r, ranges[r])
      PROVE  r = s
  <2>1. s \in Int /\ r \in Int /\ ranges[s] \in Int /\ ranges[r] \in Int
    BY <1>1, PrefixesAssumption DEF Addr
  <2>2. s <= p.first /\ p.first <= ranges[s] /\ r <= p.first /\ p.first <= ranges[r]
    BY <1>3, <2>1, PrefixIs DEF Within
  <2>3. ~(s < r) /\ ~(r < s)
    BY <1>0, <2>1, <2>2, PrefixIs DEF Separate
  <2> QED
    BY <2>1, <2>3
<1>4. Listed = UNION {Largest(s, ranges[s]) : s \in DOMAIN ranges}
  BY <1>1 DEF Listed
<1>5. ASSUME NEW s \in DOMAIN ranges, NEW p \in Largest(s, ranges[s])
      PROVE  /\ p \in Prefix /\ p.first..p.last \subseteq given
             /\ \A q \in Prefix : q.first <= p.first /\ p.last <= q.last /\ q.first..q.last \subseteq given => q = p
  <2>1. p \in Prefix /\ p \in Within(s, ranges[s])
    BY DEF Largest, Within
  <2>2. ASSUME NEW q \in Prefix, q.first <= p.first, p.last <= q.last, q.first..q.last \subseteq given PROVE q = p
    <3>1. PICK r \in DOMAIN ranges : q \in Within(r, ranges[r])
      BY <1>2, <2>2
    <3>2. r = s
      BY <1>3, <2>1, <2>2, <3>1
    <3> QED
      BY <2>2, <3>1, <3>2 DEF Largest
  <2> QED
    BY <1>2, <2>1, <2>2
<1>6. ASSUME NEW p \in Prefix, p.first..p.last \subseteq given,
             \A q \in Prefix : q.first <= p.first /\ p.last <= q.last /\ q.first..q.last \subseteq given => q = p
      PROVE  \E s \in DOMAIN ranges : p \in Largest(s, ranges[s])
  <2>1. PICK s \in DOMAIN ranges : p \in Within(s, ranges[s])
    BY <1>2, <1>6
  <2>2. ASSUME NEW q \in Within(s, ranges[s]), q.first <= p.first, p.last <= q.last PROVE q = p
    <3>1. q \in Prefix
      BY DEF Within
    <3>2. q.first..q.last \subseteq given
      BY <1>2, <3>1
    <3> QED
      BY <1>6, <2>2, <3>1, <3>2
  <2> QED
    BY <2>1, <2>2 DEF Largest
<1> QED
  BY <1>4, <1>5, <1>6

-----------------------------------------------------------------------------
(* The steps of insert().                                                   *)

\* What the step of InsertApart and of InsertJoining start from.
LEMMA NewIsARange ==
  ASSUME PrefixesAssumption, NEW p \in Prefix
  PROVE  /\ p.first \in Addr
         /\ p.last \in Addr
         /\ p.first <= p.last
         /\ \A a \in Addr : a \in p.first..p.last <=> p.first <= a /\ a <= p.last
BY DEF PrefixesAssumption, Addr

\* The early return: the prefix adds no address.
LEMMA InsertCoveredKeeps ==
  ASSUME PrefixesAssumption, RangesIInv, NEW p \in Prefix, InsertCovered(p)
  PROVE  RangesIInv'
<1>1. Covers(p) /\ ~entering.on /\ given' = given \cup (p.first..p.last)
  BY DEF InsertCovered
<1>2. p.first..p.last \subseteq given
  BY <1>1, CoversIsSubset DEF RangesIInv
<1>3. given' = given
  BY <1>1, <1>2
<1> QED
  BY <1>3 DEF InsertCovered, RangesIInv, RangesTypeOK, Separate, LeftIsClear, NothingLost, Building

\* Nothing to the left touches the prefix.
LEMMA InsertApartKeeps ==
  ASSUME PrefixesAssumption, RangesIInv, NEW p \in Prefix, InsertApart(p)
  PROVE  RangesIInv'
<1>1. /\ ~entering.on
      /\ Touching(p.first) = {}
      /\ entering' = [on |-> TRUE, start |-> p.first, end |-> p.last]
      /\ given' = given \cup (p.first..p.last)
      /\ ranges' = ranges
  BY DEF InsertApart
<1>2. RangesTypeOK' /\ Separate'
  BY <1>1, NewIsARange DEF RangesIInv, RangesTypeOK, Separate
<1>3. ASSUME NEW s \in DOMAIN ranges, s < p.first
      PROVE  ranges[s] + 1 < p.first
  <2>1. SUFFICES ASSUME ranges[s] + 1 >= p.first
                 PROVE  FALSE
    BY NewIsARange DEF RangesIInv, RangesTypeOK, Addr
  <2>2. s \in Floor(p.first)
    BY <1>3, <2>1, NewIsARange DEF Floor, RangesIInv, RangesTypeOK, Separate, Addr
  <2>3. SatAdd(ranges[s]) >= p.first
    BY <2>1, NewIsARange, PrefixesAssumption DEF SatAdd, RangesIInv, RangesTypeOK, Addr
  <2> QED
    BY <1>1, <2>2, <2>3 DEF Touching
<1>4. LeftIsClear'
  BY <1>1, <1>3 DEF LeftIsClear
<1>5. NothingLost'
  BY <1>1, NewIsARange DEF NothingLost, Building, RangesIInv
<1> QED
  BY <1>2, <1>4, <1>5 DEF RangesIInv

\* The range to the left touches the prefix and becomes part of the new one.
LEMMA InsertJoiningKeeps ==
  ASSUME PrefixesAssumption, RangesIInv, NEW p \in Prefix, InsertJoining(p)
  PROVE  RangesIInv'
<1>1. PICK s \in Touching(p.first) :
         /\ entering' = [on |-> TRUE, start |-> s,
                         end |-> IF ranges[s] > p.last THEN ranges[s] ELSE p.last]
         /\ ranges' = Without(s)
  BY DEF InsertJoining
<1>2. ~entering.on /\ given' = given \cup (p.first..p.last)
  BY DEF InsertJoining
<1>3. /\ s \in DOMAIN ranges
      /\ s \in Addr
      /\ ranges[s] \in Addr
      /\ s <= p.first
      /\ p.first <= ranges[s] + 1
      /\ s <= ranges[s]
  <2>1. s \in DOMAIN ranges /\ s <= p.first /\ SatAdd(ranges[s]) >= p.first
    BY DEF Touching, Floor
  <2>2. SatAdd(ranges[s]) <= ranges[s] + 1
    BY <2>1, PrefixesAssumption DEF SatAdd, RangesIInv, RangesTypeOK, Addr
  <2> QED
    BY <2>1, <2>2, NewIsARange, PrefixesAssumption
       DEF RangesIInv, RangesTypeOK, Separate, Addr, SatAdd
<1>4. /\ DOMAIN ranges' = DOMAIN ranges \ {s}
      /\ \A r \in DOMAIN ranges' : ranges'[r] = ranges[r]
  BY <1>1 DEF Without
<1>5. RangesTypeOK' /\ Separate'
  <2>1. entering' \in [on : BOOLEAN, start : Addr, end : Addr] /\ entering'.start <= entering'.end
    BY <1>1, <1>3, NewIsARange DEF Addr
  <2>2. ranges' \in [DOMAIN ranges' -> Addr] /\ DOMAIN ranges' \subseteq Addr
    BY <1>1, <1>4 DEF Without, RangesIInv, RangesTypeOK
  <2> QED
    BY <1>4, <2>1, <2>2 DEF RangesIInv, RangesTypeOK, Separate
<1>6. LeftIsClear'
  BY <1>1, <1>3, <1>4 DEF LeftIsClear, RangesIInv, Separate
<1>7. NothingLost'
  <2>1. ASSUME NEW a \in Addr
        PROVE  Building(a)' <=> (s <= a /\ a <= ranges[s]) \/ (p.first <= a /\ a <= p.last)
    BY <1>1, <1>3, NewIsARange DEF Building, Addr
  <2>2. ASSUME NEW a \in Addr
        PROVE  a \in given' <=> \/ \E r \in DOMAIN ranges : r <= a /\ a <= ranges[r]
                                \/ p.first <= a /\ a <= p.last
    BY <1>2, NewIsARange DEF NothingLost, Building, RangesIInv
  <2> QED
    BY <1>3, <1>4, <2>1, <2>2 DEF NothingLost
<1> QED
  BY <1>5, <1>6, <1>7 DEF RangesIInv

\* A range to the right that touches the new one becomes part of it.
LEMMA AbsorbKeeps ==
  ASSUME PrefixesAssumption, RangesIInv, Absorb
  PROVE  RangesIInv'
<1>1. PICK s \in ToAbsorb :
         /\ \A r \in ToAbsorb : s <= r
         /\ entering' = [entering EXCEPT !.end = IF ranges[s] > @ THEN ranges[s] ELSE @]
         /\ ranges' = Without(s)
  BY DEF Absorb
<1>2. entering.on /\ given' = given
  BY DEF Absorb
<1>3. /\ s \in DOMAIN ranges
      /\ s \in Addr
      /\ ranges[s] \in Addr
      /\ entering.start <= s
      /\ s <= entering.end + 1
      /\ s <= ranges[s]
  <2>1. s \in DOMAIN ranges /\ entering.start <= s /\ s <= SatAdd(entering.end)
    BY DEF ToAbsorb
  <2>2. SatAdd(entering.end) <= entering.end + 1
    BY PrefixesAssumption DEF SatAdd, RangesIInv, RangesTypeOK, Addr
  <2> QED
    BY <2>1, <2>2, PrefixesAssumption DEF RangesIInv, RangesTypeOK, Separate, Addr, SatAdd
<1>4. /\ DOMAIN ranges' = DOMAIN ranges \ {s}
      /\ \A r \in DOMAIN ranges' : ranges'[r] = ranges[r]
  BY <1>1 DEF Without
<1>5. /\ entering'.on /\ entering'.start = entering.start
      /\ entering'.end = IF ranges[s] > entering.end THEN ranges[s] ELSE entering.end
  BY <1>1, <1>2 DEF RangesIInv, RangesTypeOK
<1>6. RangesTypeOK' /\ Separate'
  <2>1. entering' \in [on : BOOLEAN, start : Addr, end : Addr] /\ entering'.start <= entering'.end
    BY <1>1, <1>3, <1>5 DEF Addr, RangesIInv, RangesTypeOK
  <2>2. ranges' \in [DOMAIN ranges' -> Addr] /\ DOMAIN ranges' \subseteq Addr
    BY <1>1, <1>4 DEF Without, RangesIInv, RangesTypeOK
  <2> QED
    BY <1>4, <2>1, <2>2 DEF RangesIInv, RangesTypeOK, Separate
<1>7. LeftIsClear'
  BY <1>2, <1>4, <1>5 DEF LeftIsClear, RangesIInv
<1>8. NothingLost'
  <2>1. ASSUME NEW a \in Addr
        PROVE  Building(a)' <=> Building(a) \/ (s <= a /\ a <= ranges[s])
    BY <1>2, <1>3, <1>5 DEF Building, Addr, RangesIInv, RangesTypeOK
  <2> QED
    BY <1>2, <1>3, <1>4, <2>1 DEF NothingLost, RangesIInv
<1> QED
  BY <1>6, <1>7, <1>8 DEF RangesIInv

\* Nothing is left that touches the new range: it is stored.
LEMMA StoreKeeps ==
  ASSUME PrefixesAssumption, RangesIInv, Store
  PROVE  RangesIInv'
<1>1. /\ entering.on
      /\ ToAbsorb = {}
      /\ entering' = Idle
      /\ given' = given
      /\ ranges' = [r \in DOMAIN ranges \cup {entering.start} |->
                      IF r = entering.start THEN entering.end ELSE ranges[r]]
  BY DEF Store
<1>2. /\ DOMAIN ranges' = DOMAIN ranges \cup {entering.start}
      /\ \A r \in DOMAIN ranges' : ranges'[r] = IF r = entering.start THEN entering.end ELSE ranges[r]
  BY <1>1
<1>3. ASSUME NEW s \in DOMAIN ranges
      PROVE  \/ s < entering.start /\ ranges[s] + 1 < entering.start
             \/ entering.end + 1 < s
  <2>1. CASE s < entering.start
    BY <1>1, <2>1 DEF RangesIInv, LeftIsClear
  <2>2. CASE s >= entering.start
    BY <1>1, <2>2, PrefixesAssumption DEF ToAbsorb, SatAdd, RangesIInv, RangesTypeOK, Addr
  <2> QED
    BY <2>1, <2>2 DEF RangesIInv, RangesTypeOK, Addr
<1>4. RangesTypeOK'
  BY <1>1, PrefixesAssumption DEF RangesIInv, RangesTypeOK, Idle, Addr
<1>5. Separate'
  BY <1>2, <1>3 DEF Separate, RangesIInv, RangesTypeOK, Addr
<1>6. LeftIsClear'
  BY <1>1 DEF LeftIsClear, Idle
<1>7. NothingLost'
  <2>1. ~entering'.on
    BY <1>1 DEF Idle
  <2>2. entering.start \notin DOMAIN ranges
    BY <1>3 DEF RangesIInv, RangesTypeOK, Addr
  <2> QED
    BY <1>1, <1>2, <2>1, <2>2 DEF NothingLost, Building, RangesIInv
<1> QED
  BY <1>4, <1>5, <1>6, <1>7 DEF RangesIInv

-----------------------------------------------------------------------------
(* The theorem.                                                             *)

\* The set keeps its ranges apart and loses and invents no address, in every
\* step of every insert().
THEOREM RangesInvariant == Spec => []RangesIInv
<1> USE PrefixesAssumption
<1>1. Init => RangesIInv
  BY DEF Init, Idle, RangesIInv, RangesTypeOK, Separate, LeftIsClear, NothingLost, Building, Addr
<1>2. RangesIInv /\ [Next]_pvars => RangesIInv'
  <2> SUFFICES ASSUME RangesIInv, [Next]_pvars
               PROVE  RangesIInv'
    OBVIOUS
  <2>1. ASSUME NEW p \in Prefix, InsertCovered(p)
        PROVE  RangesIInv'
    BY <2>1, InsertCoveredKeeps
  <2>2. ASSUME NEW p \in Prefix, InsertApart(p)
        PROVE  RangesIInv'
    BY <2>2, InsertApartKeeps
  <2>3. ASSUME NEW p \in Prefix, InsertJoining(p)
        PROVE  RangesIInv'
    BY <2>3, InsertJoiningKeeps
  <2>4. CASE Absorb
    BY <2>4, AbsorbKeeps
  <2>5. CASE Store
    BY <2>5, StoreKeeps
  <2>6. CASE UNCHANGED pvars
    BY <2>6 DEF pvars, RangesIInv, RangesTypeOK, Separate, LeftIsClear, NothingLost, Building
  <2> QED
    BY <2>1, <2>2, <2>3, <2>4, <2>5, <2>6 DEF Next
<1> QED
  BY <1>1, <1>2, PTL DEF Spec

\* contains() and covers() answer exactly for the prefixes inserted so far.
THEOREM PrefixSetAnswers == Spec => []QueriesAgree
<1>1. RangesIInv => QueriesAgree
  BY InvariantAnswers
<1> QED
  BY <1>1, RangesInvariant, PTL

\* prefixes() lists the largest prefixes of what was inserted and nothing else,
\* whatever ranges they came to lie in (prefixes.rs:51-80).
THEOREM PrefixSetLists == Spec => []ListingIsMinimal
<1>1. RangesIInv => ListingIsMinimal
  BY InvariantLists
<1> QED
  BY <1>1, RangesInvariant, PTL

-----------------------------------------------------------------------------
(* Generation.                                                               *)

GenerationTypeOK ==
  /\ options \in Options
  /\ pc \in {"top", "ask", "compose", "filter", "ok", "failed"}
  /\ asking \in Part
  /\ yielded \in [Part -> Nat] /\ \A p \in Part : yielded[p] <= Len(Stream[p])
  /\ pending \in [Part -> Seq(Nat)]
  /\ ended \in [Part -> States]
  /\ batch \in Seq([Part -> Nat]) /\ emitted \in Seq([Part -> Nat])
  /\ state \in States
  /\ attempts \in Nat
  /\ failure \in {"none", "model", "composition", "ended", "attempts", "output"}

\* The buffer is never larger than what is still to be emitted.
WithinCount ==
  /\ Len(emitted) + Len(batch) <= options.count
  /\ pc \in {"top", "ask", "compose"} => batch = <<>>
  /\ pc \in {"ask", "compose"} => Remaining > 0 /\ state = "Ready"

\* A part that has been asked in this round has addresses pending or has ended.
Asked(p) == pending[p] # <<>> \/ ended[p] # "Ready"
AskedInTurn ==
  /\ pc = "ask" => \A p \in 1..(asking - 1) : Asked(p)
  /\ pc = "compose" => \A p \in Part : Asked(p)

\* The composition has ended because one of its parts has.
EndedByPart ==
  /\ state # "Ready" => \E p \in Part : ended[p] # "Ready" /\ pending[p] = <<>>
  /\ failure # "none" => pc = "failed"

\* What has been emitted has been tried.
EmittedTried ==
  \A i \in DOMAIN emitted : \A p \in Part : emitted[i][p] <= attempts

GenerationIInv ==
  /\ GenerationTypeOK
  /\ InOrder
  /\ WithinCount
  /\ AskedInTurn
  /\ EndedByPart
  /\ EmittedTried

-----------------------------------------------------------------------------
\* A generation begins with nothing emitted.
LEMMA GenerationInitIInv == GenerationInit => GenerationIInv
<1> SUFFICES ASSUME GenerationInit PROVE GenerationIInv
  OBVIOUS
<1> USE DEF GenerationInit
<1>1. 1 \in Part
  BY GenerationAssumption DEF Part
<1>2. GenerationTypeOK
  BY <1>1 DEF GenerationTypeOK, States
<1>3. InOrder
  BY DEF InOrder, Composed
<1>4. WithinCount
  BY GenerationAssumption DEF WithinCount
<1> QED
  BY <1>2, <1>3, <1>4 DEF GenerationIInv, AskedInTurn, EndedByPart, EmittedTried

\* The counts the guards compare are numbers.
LEMMA CountFacts ==
  ASSUME GenerationTypeOK
  PROVE  options.count \in Nat /\ Len(emitted) \in Nat /\ Len(batch) \in Nat
  BY GenerationAssumption DEF GenerationTypeOK

\* The buffer has room while something is still to be emitted.
LEMMA CapacityFacts ==
  ASSUME GenerationTypeOK, Remaining > 0
  PROVE  Capacity \in Nat \ {0} /\ Capacity <= Remaining
<1>1. {Remaining, Buffer} \in SUBSET (Nat \ {0})
  BY GenerationAssumption DEF GenerationTypeOK, Remaining
<1>2. Capacity \in {Remaining, Buffer} /\ Capacity <= Remaining
  BY <1>1, MinFacts DEF Capacity
<1> QED
  BY <1>1, <1>2

\* Steps that only move the control keep what the streams are used for.
LEMMA ControlKeepsOrder ==
  ASSUME InOrder,
         UNCHANGED <<yielded, pending, ended, batch, attempts, emitted>>,
         failure' \in {"model", "attempts", failure}
  PROVE  InOrder'
  BY DEF InOrder, Composed

\* The next round starts with the first part.
LEMMA AgainIInv ==
  ASSUME GenerationIInv, Again
  PROVE  GenerationIInv'
<1> USE DEF Again, GenerationIInv
<1>1. InOrder'
  BY ControlKeepsOrder
<1>2. 1 \in Part /\ GenerationTypeOK'
  BY GenerationAssumption DEF GenerationTypeOK, Part
<1> QED
  BY <1>1, <1>2 DEF WithinCount, AskedInTurn, EndedByPart, EmittedTried, Remaining

\* run() returns once all is emitted.
LEMMA SucceedIInv ==
  ASSUME GenerationIInv, Succeed
  PROVE  GenerationIInv'
<1> USE DEF Succeed, GenerationIInv
<1>1. InOrder'
  BY ControlKeepsOrder
<1> QED
  BY <1>1 DEF GenerationTypeOK, WithinCount, AskedInTurn, EndedByPart, EmittedTried, Remaining

\* The part that ended the composition has had all its addresses tried.
LEMMA GiveUpIInv ==
  ASSUME GenerationIInv, GiveUp
  PROVE  GenerationIInv'
<1> USE DEF GiveUp, Fail, GenerationIInv
<1>1. PICK p \in Part : ended[p] # "Ready" /\ pending[p] = <<>>
  BY DEF EndedByPart
<1>2. attempts = yielded[p]
  BY <1>1 DEF InOrder, Composed, WithinCount, GenerationTypeOK
<1>3. InOrder'
  BY <1>1, <1>2 DEF InOrder, Composed
<1> QED
  BY <1>3 DEF GenerationTypeOK, WithinCount, AskedInTurn, EndedByPart, EmittedTried

\* The next part is asked when this one has been.
LEMMA NextPartFacts ==
  ASSUME GenerationTypeOK, WithinCount, AskedInTurn, EndedByPart, pc = "ask", NextPart,
         pending' \in [Part -> Seq(Nat)], ended' \in [Part -> States],
         \A p \in Part \ {asking} : pending'[p] = pending[p] /\ ended'[p] = ended[p],
         pending'[asking] # <<>> \/ ended'[asking] # "Ready",
         UNCHANGED <<options, batch, state, attempts, emitted, failure>>
  PROVE  asking' \in Part /\ pc' \in {"ask", "compose"} /\ WithinCount' /\ AskedInTurn' /\ EndedByPart'
<1>1. Part = 1..Len(Stream) /\ Len(Stream) \in Nat /\ asking \in Part
  BY GenerationAssumption DEF Part, GenerationTypeOK
<1>2. \A p \in 1..asking : Asked(p)'
  <2> SUFFICES ASSUME NEW p \in 1..asking PROVE Asked(p)'
    OBVIOUS
  <2>1. CASE p = asking
    BY <2>1 DEF Asked
  <2>2. CASE p # asking
    <3>1. p \in Part \ {asking} /\ p \in 1..(asking - 1)
      BY <1>1, <2>2
    <3>2. Asked(p)
      BY <3>1 DEF AskedInTurn
    <3>3. pending'[p] = pending[p] /\ ended'[p] = ended[p]
      BY <3>1
    <3> QED
      BY <3>2, <3>3 DEF Asked
  <2> QED
    BY <2>1, <2>2
<1>3. asking' \in Part /\ pc' \in {"ask", "compose"} /\ AskedInTurn'
  <2>1. CASE asking + 1 \in Part
    BY <1>1, <1>2, <2>1 DEF NextPart, AskedInTurn
  <2>2. CASE asking + 1 \notin Part
    BY <1>1, <1>2, <2>2 DEF NextPart, AskedInTurn
  <2> QED
    BY <2>1, <2>2
<1> QED
  BY <1>3 DEF WithinCount, EndedByPart, Remaining

\* A part with addresses pending, or ended, is not asked.
LEMMA SkipPartIInv ==
  ASSUME GenerationIInv, SkipPart
  PROVE  GenerationIInv'
<1> USE DEF SkipPart, GenerationIInv
<1>1. InOrder'
  BY ControlKeepsOrder
<1>2. asking' \in Part /\ pc' \in {"ask", "compose"} /\ WithinCount' /\ AskedInTurn' /\ EndedByPart'
  BY NextPartFacts DEF GenerationTypeOK, NeedsMore
<1> QED
  BY <1>1, <1>2 DEF GenerationTypeOK, EmittedTried

\* A part that needs more has used all it has yielded: what it answers with
\* follows on what has been composed.
LEMMA AskPartIInv ==
  ASSUME GenerationIInv, AskPart
  PROVE  GenerationIInv'
<1> USE DEF AskPart, GenerationIInv
<1>1. PICK w \in 0..Min({Capacity, Len(Stream[asking]) - yielded[asking]}), s \in States :
        IF Valid(w, s)
          THEN /\ yielded' = [yielded EXCEPT ![asking] = @ + w]
               /\ pending' = [pending EXCEPT ![asking] = [i \in 1..w |-> yielded[asking] + i]]
               /\ ended' = [ended EXCEPT ![asking] = s]
               /\ NextPart
               /\ UNCHANGED failure
          ELSE /\ MayFail
               /\ Fail("model")
               /\ UNCHANGED <<options, asking, yielded, pending, ended>>
  OBVIOUS
<1>2. CASE ~Valid(w, s)
  <2>1. /\ pc' = "failed" /\ failure' = "model"
        /\ UNCHANGED <<options, asking, yielded, pending, ended, batch, state, attempts, seen, emitted>>
    BY <1>1, <1>2 DEF Fail
  <2>2. InOrder'
    BY <2>1, ControlKeepsOrder
  <2> QED
    BY <2>1, <2>2 DEF GenerationTypeOK, WithinCount, AskedInTurn, EndedByPart, EmittedTried
<1>3. CASE Valid(w, s)
  <2>1. /\ yielded' = [yielded EXCEPT ![asking] = @ + w]
        /\ pending' = [pending EXCEPT ![asking] = [i \in 1..w |-> yielded[asking] + i]]
        /\ ended' = [ended EXCEPT ![asking] = s]
        /\ NextPart
        /\ UNCHANGED <<options, batch, state, attempts, seen, emitted, failure>>
    BY <1>1, <1>3
  <2>2. /\ asking \in Part /\ yielded[asking] \in Nat /\ w \in Nat
        /\ yielded[asking] + w <= Len(Stream[asking])
    <3> DEFINE left == Len(Stream[asking]) - yielded[asking]
    <3>1. asking \in Part /\ yielded[asking] \in Nat /\ left \in Nat /\ Len(Stream[asking]) \in Nat
      BY GenerationAssumption DEF GenerationTypeOK, Part
    <3>2. Capacity \in Nat
      BY CapacityFacts DEF WithinCount
    <3>3. Min({Capacity, left}) \in Nat /\ Min({Capacity, left}) <= left
      BY <3>1, <3>2, MinFacts, {Capacity, left} \in SUBSET Nat
    <3> QED
      BY <3>1, <3>3
  <2> DEFINE new == [i \in 1..w |-> yielded[asking] + i]
  <2>3. /\ new \in Seq(Nat) /\ Len(new) = w
        /\ \A i \in DOMAIN new : new[i] = yielded[asking] + i
    BY <2>2
  <2> HIDE DEF new
  <2>4. /\ yielded' \in [Part -> Nat] /\ yielded'[asking] = yielded[asking] + w
        /\ pending' \in [Part -> Seq(Nat)] /\ pending'[asking] = new
        /\ ended' \in [Part -> States] /\ ended'[asking] = s
        /\ \A p \in Part \ {asking} : /\ yielded'[p] = yielded[p]
                                      /\ pending'[p] = pending[p]
                                      /\ ended'[p] = ended[p]
    BY <2>1, <2>2, <2>3 DEF GenerationTypeOK, new
  <2>5. new # <<>> \/ s # "Ready"
    BY <1>3, <2>3 DEF Valid
  <2>6. asking' \in Part /\ pc' \in {"ask", "compose"} /\ WithinCount' /\ AskedInTurn' /\ EndedByPart'
    BY <2>1, <2>4, <2>5, NextPartFacts
  <2>7. yielded[asking] = Composed
    <3>1. pending[asking] = <<>> /\ Len(pending[asking]) = 0
      BY DEF NeedsMore
    <3>2. yielded[asking] = Composed + Len(pending[asking])
      BY <2>2 DEF InOrder
    <3>3. Composed \in Nat
      BY DEF Composed, GenerationTypeOK
    <3> QED
      BY <3>1, <3>2, <3>3
  <2>8. InOrder'
    <3>1. ASSUME NEW p \in Part
          PROVE  /\ yielded'[p] = Composed + Len(pending'[p])
                 /\ \A i \in DOMAIN pending'[p] : pending'[p][i] = Composed + i
      <4>1. CASE p = asking
        BY <2>3, <2>4, <2>7, <4>1
      <4>2. CASE p # asking
        BY <2>4, <4>2 DEF InOrder
      <4> QED
        BY <4>1, <4>2
    <3>2. failure' = "none" /\ Composed' = Composed
      BY <2>1 DEF EndedByPart, Composed
    <3>3. UNCHANGED <<batch, attempts, emitted>>
      BY <2>1
    <3> QED
      BY <3>1, <3>2, <3>3 DEF InOrder
  <2>9. \A p \in Part : yielded'[p] <= Len(Stream[p])
    BY <2>2, <2>4 DEF GenerationTypeOK
  <2>10. GenerationTypeOK'
    BY <2>1, <2>4, <2>6, <2>9 DEF GenerationTypeOK
  <2> QED
    BY <2>1, <2>6, <2>8, <2>10 DEF EmittedTried
<1> QED
  BY <1>2, <1>3

\* As many addresses are composed as every part has pending, and the state is
\* that of a part that has none left: what has been composed is never refused.
LEMMA ComposeIInv ==
  ASSUME GenerationIInv, Compose
  PROVE  GenerationIInv'
<1> USE DEF GenerationIInv
<1> DEFINE lens  == {Len(pending[p]) : p \in Part}
           taken == Min(lens \cup {Capacity})
           rest  == [p \in Part |-> SubSeq(pending[p], taken + 1, Len(pending[p]))]
           over  == EndedParts(rest)
           s     == IF over = {} THEN "Ready" ELSE ended[Min(over)]
           new   == [i \in 1..taken |-> [p \in Part |-> pending[p][i]]]
<1>1. /\ pc = "compose" /\ pending' = rest /\ batch' = new /\ state' = s
      /\ IF Valid(taken, s) THEN pc' = "filter" /\ UNCHANGED failure ELSE Fail("composition")
      /\ UNCHANGED <<options, asking, yielded, ended, attempts, seen, emitted>>
  BY DEF Compose
<1>2. Capacity \in Nat \ {0} /\ Capacity <= Remaining /\ batch = <<>>
  BY <1>1, CapacityFacts DEF WithinCount
<1>3. /\ taken \in Nat /\ taken <= Capacity
      /\ \A p \in Part : taken <= Len(pending[p])
      /\ taken = 0 => \E p \in Part : pending[p] = <<>>
  <2>1. lens \cup {Capacity} \in SUBSET Nat
    BY <1>2 DEF GenerationTypeOK
  <2>2. /\ taken \in lens \cup {Capacity}
        /\ \A k \in lens \cup {Capacity} : taken <= k
    <3> HIDE DEF lens
    <3> QED
      BY <2>1, MinFacts
  <2>3. \A p \in Part : Len(pending[p]) \in lens
    OBVIOUS
  <2>4. taken = 0 => \E p \in Part : Len(pending[p]) = 0
    BY <1>2, <2>2
  <2> HIDE DEF taken
  <2>5. \A p \in Part : pending[p] \in Seq(Nat)
    BY DEF GenerationTypeOK
  <2> HIDE DEF lens
  <2> QED
    BY <1>2, <2>1, <2>2, <2>3, <2>4, <2>5
<1> HIDE DEF taken
<1>4. ASSUME NEW p \in Part
      PROVE  /\ rest[p] \in Seq(Nat) /\ Len(rest[p]) = Len(pending[p]) - taken
             /\ \A i \in 1..Len(rest[p]) : rest[p][i] = pending[p][taken + i]
  BY <1>3, SMTT(60) DEF GenerationTypeOK
<1>5. /\ rest \in [Part -> Seq(Nat)]
      /\ new \in Seq([Part -> Nat]) /\ Len(new) = taken
      /\ \A i \in 1..taken : \A p \in Part : new[i][p] = pending[p][i]
  <2>1. \A i \in 1..taken : [p \in Part |-> pending[p][i]] \in [Part -> Nat]
    <3> SUFFICES ASSUME NEW i \in 1..taken, NEW p \in Part PROVE pending[p][i] \in Nat
      OBVIOUS
    <3>1. pending[p] \in Seq(Nat) /\ i \in 1..Len(pending[p])
      BY <1>3 DEF GenerationTypeOK
    <3> QED
      BY <3>1
  <2>2. new \in [1..taken -> [Part -> Nat]]
    BY <2>1
  <2> QED
    BY <1>3, <1>4, <2>1, <2>2
<1> HIDE DEF rest, new
<1>6. over # {} => Min(over) \in over
  <2>1. over \in SUBSET Nat
    BY GenerationAssumption DEF EndedParts, Part
  <2> QED
    BY <2>1, MinFacts
<1>7. /\ s \in States
      /\ s # "Ready" => \E p \in Part : ended[p] # "Ready" /\ rest[p] = <<>>
      /\ taken = 0 => s # "Ready"
  <2>1. over = {} => taken # 0
    <3> SUFFICES ASSUME taken = 0 PROVE over # {}
      OBVIOUS
    <3>1. PICK p \in Part : pending[p] = <<>>
      BY <1>3
    <3>2. ended[p] # "Ready"
      BY <1>1, <3>1 DEF AskedInTurn, Asked
    <3>3. rest[p] = <<>>
      BY <1>4, <3>1, Len(rest[p]) = 0
    <3> QED
      BY <3>2, <3>3 DEF EndedParts
  <2> QED
    BY <1>6, <2>1 DEF EndedParts, GenerationTypeOK, States
<1> HIDE DEF s
<1>8. pc' = "filter" /\ failure' = failure
  BY <1>1, <1>3, <1>7 DEF Valid
<1>9. InOrder'
  <2>1. Composed = attempts /\ Composed' = attempts + taken /\ attempts \in Nat
    BY <1>1, <1>2, <1>5 DEF Composed, GenerationTypeOK
  <2>2. ASSUME NEW p \in Part
        PROVE  /\ yielded'[p] = Composed' + Len(pending'[p])
               /\ \A i \in DOMAIN pending'[p] : pending'[p][i] = Composed' + i
    <3>1. yielded[p] = attempts + Len(pending[p]) /\ Len(pending[p]) \in Nat
      BY <2>1 DEF InOrder, GenerationTypeOK
    <3>2. \A i \in 1..Len(pending[p]) : pending[p][i] = attempts + i
      BY <2>1 DEF InOrder, GenerationTypeOK
    <3>3. /\ rest[p] \in Seq(Nat) /\ Len(rest[p]) = Len(pending[p]) - taken
          /\ DOMAIN rest[p] = 1..(Len(pending[p]) - taken)
          /\ \A i \in DOMAIN rest[p] : rest[p][i] = pending[p][taken + i] /\ taken + i \in 1..Len(pending[p])
      <4> DEFINE n == Len(pending[p])
                 m == Len(rest[p])
      <4>1. rest[p] \in Seq(Nat) /\ m = n - taken /\ n \in Nat /\ taken \in 0..n
        BY <1>3, <1>4, <3>1
      <4>2. DOMAIN rest[p] = 1..m
        BY <4>1
      <4>3. \A i \in 1..m : rest[p][i] = pending[p][taken + i]
        BY <1>4
      <4> HIDE DEF m, n
      <4>4. \A i \in 1..m : taken + i \in 1..n
        BY <4>1
      <4> QED
        BY <4>1, <4>2, <4>3, <4>4 DEF m, n
    <3>4. pending'[p] = rest[p] /\ yielded'[p] = yielded[p]
      BY <1>1
    <3>5. \A i \in DOMAIN rest[p] : rest[p][i] = attempts + (taken + i) /\ i \in Nat
      <4>1. SUFFICES ASSUME NEW i \in DOMAIN rest[p]
                     PROVE  rest[p][i] = attempts + (taken + i) /\ i \in Nat
        OBVIOUS
      <4>2. rest[p][i] = pending[p][taken + i] /\ taken + i \in 1..Len(pending[p])
        BY <3>3
      <4> QED
        BY <3>2, <3>3, <4>2
    <3>6. yielded'[p] = Composed' + Len(pending'[p])
      <4> DEFINE left == Len(pending[p])
      <4>1. left \in Nat /\ taken \in Nat /\ attempts \in Nat
        BY <1>3, <2>1, <3>1
      <4>2. /\ yielded'[p] = attempts + left
            /\ Len(pending'[p]) = left - taken
            /\ Composed' = attempts + taken
        BY <2>1, <3>1, <3>3, <3>4
      <4> HIDE DEF left
      <4>3. (attempts + taken) + (left - taken) = attempts + left
        BY <4>1
      <4> QED
        BY <4>2, <4>3
    <3>7. \A i \in DOMAIN rest[p] : rest[p][i] = Composed' + i
      BY <1>3, <2>1, <3>5
    <3> QED
      BY <3>4, <3>6, <3>7
  <2>3. \A i \in DOMAIN batch' : \A p \in Part : batch'[i][p] = attempts' + i
    <3> SUFFICES ASSUME NEW i \in 1..taken, NEW p \in Part PROVE pending[p][i] = attempts + i
      <4>1. batch' = new /\ attempts' = attempts
        BY <1>1
      <4>2. DOMAIN new = 1..taken
        BY <1>3, <1>5
      <4>3. \A i \in 1..taken : \A p \in Part : new[i][p] = pending[p][i]
        BY <1>5
      <4> QED
        BY <4>1, <4>2, <4>3
    <3>1. pending[p] \in Seq(Nat) /\ i \in 1..Len(pending[p])
      BY <1>3 DEF GenerationTypeOK
    <3>2. i \in DOMAIN pending[p]
      BY <3>1
    <3> QED
      BY <2>1, <3>2 DEF InOrder
  <2>4. failure' = "none"
    BY <1>1, <1>8 DEF EndedByPart
  <2> QED
    BY <1>1, <2>2, <2>3, <2>4 DEF InOrder
<1>10. GenerationTypeOK'
  BY <1>1, <1>5, <1>7, <1>8 DEF GenerationTypeOK
<1>11. WithinCount'
  BY <1>1, <1>2, <1>3, <1>5, <1>8, CountFacts DEF WithinCount, Remaining
<1> QED
  BY <1>1, <1>7, <1>8, <1>9, <1>10, <1>11 DEF AskedInTurn, EndedByPart, EmittedTried

\* An attempt takes the next candidate, whose positions are one further.
LEMMA AttemptFacts ==
  ASSUME GenerationIInv, Attempt, UNCHANGED <<yielded, pending, ended>>
  PROVE  /\ batch' \in Seq([Part -> Nat]) /\ Len(batch') = Len(batch) - 1
         /\ Len(batch) \in Nat \ {0} /\ attempts' \in Nat
         /\ Head(batch) \in [Part -> Nat]
         /\ Composed' = Composed
         /\ \A p \in Part : Head(batch)[p] = attempts'
         /\ \A i \in DOMAIN batch' : \A p \in Part : batch'[i][p] = attempts' + i
<1> USE DEF GenerationIInv, Attempt, GenerationTypeOK
<1>1. /\ batch' \in Seq([Part -> Nat]) /\ Len(batch') = Len(batch) - 1
      /\ Len(batch) \in Nat \ {0} /\ Head(batch) = batch[1] /\ 1 \in DOMAIN batch
      /\ batch[1] \in [Part -> Nat]
      /\ \A i \in DOMAIN batch' : batch'[i] = batch[i + 1] /\ i \in Nat /\ i + 1 \in DOMAIN batch
  OBVIOUS
<1>2. Composed' = Composed
  BY <1>1 DEF Composed
<1>3. \A i \in DOMAIN batch : \A p \in Part : batch[i][p] = attempts + i
  BY DEF InOrder
<1>4. attempts \in Nat /\ attempts' = attempts + 1 /\ attempts' \in Nat
  OBVIOUS
<1>5. ASSUME NEW i \in DOMAIN batch', NEW p \in Part PROVE batch'[i][p] = attempts' + i
  <2>1. batch'[i][p] = attempts + (i + 1) /\ i \in Nat
    BY <1>1, <1>3
  <2> QED
    BY <1>4, <2>1
<1> QED
  BY <1>1, <1>2, <1>3, <1>4, <1>5, ZenonT(60)

\* A composition that the output rejects counts as an attempt.
LEMMA RejectIInv ==
  ASSUME GenerationIInv, Reject
  PROVE  GenerationIInv'
<1> USE DEF GenerationIInv, Reject
<1>1. pc = "filter" /\ attempts' = attempts + 1
  BY DEF Attempt
<1>2. InOrder'
  BY <1>1, AttemptFacts DEF InOrder, EndedByPart
<1>3. EmittedTried'
  BY <1>1 DEF EmittedTried, GenerationTypeOK
<1>4. /\ batch' \in Seq([Part -> Nat]) /\ Len(batch') = Len(batch) - 1
      /\ Len(batch) \in Nat /\ attempts' \in Nat
  BY AttemptFacts
<1>5. GenerationTypeOK'
  BY <1>4 DEF GenerationTypeOK
<1>6. WithinCount'
  BY <1>1, <1>4, CountFacts DEF WithinCount
<1> QED
  BY <1>1, <1>2, <1>3, <1>5, <1>6 DEF AskedInTurn, EndedByPart

\* What is emitted comes after all that has been emitted before.
LEMMA AcceptIInv ==
  ASSUME GenerationIInv, Accept
  PROVE  GenerationIInv'
<1> USE DEF GenerationIInv
<1>1. /\ pc = "filter" /\ attempts' = attempts + 1 /\ attempts \in Nat
      /\ UNCHANGED <<options, asking, yielded, pending, ended, state>>
  BY DEF Accept, Attempt, GenerationTypeOK
<1>2. Attempt
  BY DEF Accept
<1>3. \/ pc' = pc /\ emitted' = Append(emitted, Head(batch)) /\ UNCHANGED failure
      \/ pc' = "failed" /\ failure' = "output" /\ UNCHANGED emitted
  BY DEF Accept, Fail
<1>4. /\ batch' \in Seq([Part -> Nat]) /\ Len(batch') = Len(batch) - 1
      /\ Len(batch) \in Nat \ {0} /\ attempts' \in Nat
      /\ Head(batch) \in [Part -> Nat]
      /\ Composed' = Composed
      /\ \A p \in Part : Head(batch)[p] = attempts'
      /\ \A i \in DOMAIN batch' : \A p \in Part : batch'[i][p] = attempts' + i
  BY <1>1, <1>2, AttemptFacts
<1>5. failure = "none"
  BY <1>1 DEF EndedByPart
<1>6. CASE pc' = "failed" /\ failure' = "output" /\ UNCHANGED emitted
  <2>1. InOrder' /\ EmittedTried'
    <3>1. \A p \in Part : /\ yielded'[p] = Composed' + Len(pending'[p])
                          /\ \A i \in DOMAIN pending'[p] : pending'[p][i] = Composed' + i
      BY <1>1, <1>4 DEF InOrder
    <3>2. InOrder'
      BY <1>4, <1>6, <3>1 DEF InOrder
    <3>3. ASSUME NEW i \in DOMAIN emitted, NEW p \in Part
          PROVE  emitted[i][p] <= attempts'
      <4>1. emitted[i][p] \in Nat /\ emitted[i][p] <= attempts
        BY DEF GenerationTypeOK, EmittedTried
      <4> QED
        BY <1>1, <4>1
    <3> QED
      BY <1>6, <3>2, <3>3 DEF EmittedTried
  <2>2. GenerationTypeOK'
    BY <1>1, <1>4, <1>6 DEF GenerationTypeOK
  <2>3. WithinCount'
    BY <1>1, <1>4, <1>6, CountFacts DEF WithinCount
  <2> QED
    BY <1>1, <1>6, <2>1, <2>2, <2>3 DEF AskedInTurn, EndedByPart
<1>7. CASE pc' = pc /\ emitted' = Append(emitted, Head(batch)) /\ UNCHANGED failure
  <2>1. /\ emitted' \in Seq([Part -> Nat]) /\ Len(emitted') = Len(emitted) + 1
        /\ DOMAIN emitted = 1..Len(emitted) /\ Len(emitted) \in Nat
        /\ DOMAIN emitted' = 1..(Len(emitted) + 1)
        /\ \A i \in DOMAIN emitted : emitted'[i] = emitted[i] /\ emitted[i] \in [Part -> Nat]
        /\ emitted'[Len(emitted) + 1] = Head(batch)
    BY <1>4, <1>7, SMTT(60) DEF GenerationTypeOK
  <2>2. EmittedTried'
    <3> SUFFICES ASSUME NEW i \in DOMAIN emitted', NEW p \in Part PROVE emitted'[i][p] <= attempts'
      BY DEF EmittedTried
    <3>1. CASE i \in DOMAIN emitted
      BY <1>1, <2>1, <3>1 DEF EmittedTried
    <3>2. CASE i = Len(emitted) + 1
      BY <1>4, <2>1, <3>2
    <3> QED
      BY <2>1, <3>1, <3>2
  <2>3. \A i \in DOMAIN emitted' : \A p, q \in Part : emitted'[i][p] = emitted'[i][q]
    <3> SUFFICES ASSUME NEW i \in DOMAIN emitted', NEW p \in Part, NEW q \in Part
                 PROVE  emitted'[i][p] = emitted'[i][q]
      OBVIOUS
    <3>1. CASE i \in DOMAIN emitted
      BY <2>1, <3>1 DEF InOrder
    <3>2. CASE i = Len(emitted) + 1
      BY <1>4, <2>1, <3>2
    <3> QED
      BY <2>1, <3>1, <3>2
  <2>4. \A i, j \in DOMAIN emitted' : i < j => \A p \in Part : emitted'[i][p] < emitted'[j][p]
    <3> SUFFICES ASSUME NEW i \in DOMAIN emitted', NEW j \in DOMAIN emitted', i < j, NEW p \in Part
                 PROVE  emitted'[i][p] < emitted'[j][p]
      OBVIOUS
    <3>1. i \in DOMAIN emitted
      BY <2>1
    <3>2. CASE j \in DOMAIN emitted
      BY <2>1, <3>1, <3>2 DEF InOrder
    <3>3. CASE j = Len(emitted) + 1
      BY <1>1, <1>4, <2>1, <3>1, <3>3 DEF EmittedTried
    <3> QED
      BY <2>1, <3>2, <3>3
  <2>5. InOrder'
    BY <1>1, <1>4, <1>5, <1>7, <2>3, <2>4 DEF InOrder
  <2> QED
    BY <1>1, <1>4, <1>5, <1>7, <2>1, <2>2, <2>5, SMTT(60)
       DEF GenerationTypeOK, WithinCount, AskedInTurn, EndedByPart
<1> QED
  BY <1>3, <1>6, <1>7

\* run() fails when its attempts are used up.
LEMMA OutOfAttemptsIInv ==
  ASSUME GenerationIInv, OutOfAttempts
  PROVE  GenerationIInv'
<1> USE DEF OutOfAttempts, Fail, GenerationIInv
<1>1. InOrder'
  BY ControlKeepsOrder
<1> QED
  BY <1>1 DEF GenerationTypeOK, WithinCount, AskedInTurn, EndedByPart, EmittedTried

\* The buffer has gone through the filter.
LEMMA FilteredIInv ==
  ASSUME GenerationIInv, Filtered
  PROVE  GenerationIInv'
<1> USE DEF Filtered, GenerationIInv
<1>1. InOrder'
  BY ControlKeepsOrder
<1> QED
  BY <1>1 DEF GenerationTypeOK, WithinCount, AskedInTurn, EndedByPart, EmittedTried

-----------------------------------------------------------------------------
\* The invariant of generation, for every composition and every limit.
THEOREM GenerationInvariant == GenerationSpec => []GenerationIInv
<1>1. GenerationIInv /\ [GenerationNext]_gvars => GenerationIInv'
  <2> SUFFICES ASSUME GenerationIInv, [GenerationNext]_gvars PROVE GenerationIInv'
    OBVIOUS
  <2>1. CASE UNCHANGED gvars
    BY <2>1 DEF gvars, GenerationIInv, GenerationTypeOK, InOrder, Composed, WithinCount,
       Remaining, AskedInTurn, Asked, EndedByPart, EmittedTried
  <2>2. CASE Step
    BY <2>2, AgainIInv, SucceedIInv, GiveUpIInv, AskPartIInv, SkipPartIInv, ComposeIInv,
       AcceptIInv, RejectIInv, OutOfAttemptsIInv, FilteredIInv DEF Step
  <2> QED
    BY <2>1, <2>2 DEF GenerationNext, Returned
<1> QED
  BY <1>1, GenerationInitIInv, PTL DEF GenerationSpec

\* Parts that yield addresses in batches of different lengths stay in step
\* (Composed::generate() and the filter of generate()).
THEOREM CompositionsInOrder == GenerationSpec => []InOrder
<1>1. GenerationIInv => InOrder
  BY DEF GenerationIInv
<1> QED
  BY <1>1, GenerationInvariant, PTL

-----------------------------------------------------------------------------
(* The packet links: the AF_XDP transmitter.                                 *)

\* An AF_XDP transmitter, each of its frames in one place.
XTx == [free : Nat, pending : Nat, ring : Nat, done : Nat, wake : Nat, awake : BOOLEAN, ready : BOOLEAN,
        refusals : Nat]
XGood(t) == t \in XTx /\ X!Accounted(t)

\* What Min() of two numbers is.
LEMMA LeastOfTwo ==
  ASSUME NEW a \in Int, NEW b \in Int
  PROVE  X!Min({a, b}) \in {a, b} /\ X!Min({a, b}) <= a /\ X!Min({a, b}) <= b
<1>1. \E x \in {a, b} : \A y \in {a, b} : x <= y
  <2>1. CASE a <= b
    BY <2>1
  <2>2. CASE ~(a <= b)
    BY <2>2
  <2> QED
    BY <2>1, <2>2
<1> QED
  BY <1>1 DEF X!Min

\* The calls of the AF_XDP transmitter and the steps of its kernel keep every
\* frame: a wake-up, successful or not,
LEMMA XKick ==
  ASSUME NEW t, XGood(t), NEW faults, NEW k \in X!Kick(t, faults)
  PROVE  /\ XGood(k.tx) /\ k.tx.pending = t.pending
         /\ k.result = "ok" => k.tx.wake = 0
         /\ k.result \in {"ok", "no", "error"}
<1>1. \/ k = X!Outcome(t, "no")
      \/ k = X!Outcome([t EXCEPT !.wake = 0, !.awake = TRUE], "ok")
      \/ t.refusals > 0 /\ k = X!Outcome(X!Refused(t), "no")
      \/ k = X!Outcome(t, "error")
  BY DEF X!Kick, X!When
<1>2. CASE k = X!Outcome(t, "no") \/ k = X!Outcome(t, "error")
  BY <1>2 DEF X!Outcome
<1>3. CASE k = X!Outcome([t EXCEPT !.wake = 0, !.awake = TRUE], "ok")
  BY <1>3 DEF X!Outcome, XGood, XTx, X!Accounted
<1>4. CASE t.refusals > 0 /\ k = X!Outcome(X!Refused(t), "no")
  <2>1. k.tx = X!Refused(t) /\ k.result = "no"
    BY <1>4 DEF X!Outcome
  <2>2. t.refusals - 1 \in Nat
    BY <1>4 DEF XGood, XTx
  <2>3. X!Refused(t) = [t EXCEPT !.refusals = t.refusals - 1, !.ready = TRUE]
    BY DEF X!Refused
  <2>4. X!Refused(t) \in XTx /\ X!Accounted(X!Refused(t)) /\ X!Refused(t).pending = t.pending
    BY <2>2, <2>3 DEF XGood, XTx, X!Accounted
  <2> QED
    BY <2>1, <2>4 DEF XGood
<1> QED
  BY <1>1, <1>2, <1>3, <1>4

\* completed frames taken back,
LEMMA XReap ==
  ASSUME NEW t, XGood(t)
  PROVE  XGood(X!Reap(t)) /\ X!Reap(t).pending = t.pending
<1> DEFINE u == X!Reap(t)
<1>1. t.free \in Nat /\ t.pending \in Nat /\ t.ring \in Nat /\ t.done \in Nat
      /\ t.free + t.pending + t.ring + t.done = FrameCount
      /\ t.pending <= TxBatch /\ t.ring <= RingCount
  BY DEF XGood, XTx, X!Accounted
<1>2. u \in XTx /\ u.free = t.free + t.done /\ u.pending = t.pending /\ u.ring = t.ring /\ u.done = 0
  <2>1. u = [t EXCEPT !.free = t.free + t.done, !.done = 0] /\ t.free + t.done \in Nat
    BY <1>1 DEF X!Reap
  <2> HIDE DEF u
  <2>2. t \in XTx
    BY DEF XGood
  <2>3. u \in XTx
    BY <2>1, <2>2 DEF XTx
  <2>4. u.free = t.free + t.done /\ u.pending = t.pending /\ u.ring = t.ring /\ u.done = 0
    BY <2>1, <2>2 DEF XTx
  <2> QED
    BY <2>3, <2>4
<1>3. RingCount \in Nat
  BY LinkAssumption
<1> HIDE DEF u
<1>4. X!Accounted(u)
  BY <1>1, <1>2, <1>3 DEF X!Accounted
<1> QED
  BY <1>2, <1>4 DEF XGood, u

\* frames transmitted by the kernel,
LEMMA XTransmitted ==
  ASSUME NEW t, XGood(t), NEW n \in Nat, n <= t.ring, t.done + n <= RingCount
  PROVE  XGood(X!Transmitted(t, n)) /\ X!Transmitted(t, n).pending = t.pending
         /\ X!Transmitted(t, n).wake = t.wake
<1>1. t.ring - n \in Nat /\ t.done + n \in Nat /\ (t.ready \/ n > 0) \in BOOLEAN
  BY DEF XGood, XTx
<1>2. X!Transmitted(t, n)
        = [t EXCEPT !.ring = t.ring - n, !.done = t.done + n, !.ready = t.ready \/ n > 0]
  BY DEF X!Transmitted
<1> DEFINE u == X!Transmitted(t, n)
<1>3. t.free \in Nat /\ t.pending \in Nat /\ t.ring \in Nat /\ t.done \in Nat
      /\ t.free + t.pending + t.ring + t.done = FrameCount
      /\ t.pending <= TxBatch /\ t.ring <= RingCount /\ RingCount \in Nat
  BY LinkAssumption DEF XGood, XTx, X!Accounted
<1>4. /\ u \in XTx /\ u.free = t.free /\ u.pending = t.pending /\ u.ring = t.ring - n
      /\ u.done = t.done + n /\ u.wake = t.wake
  BY <1>1, <1>2 DEF XGood, XTx
<1> HIDE DEF u
<1>5. X!Accounted(u)
  BY <1>3, <1>4 DEF X!Accounted
<1> QED
  BY <1>4, <1>5 DEF XGood, u

\* also before a call looks,
LEMMA XMeanwhile ==
  ASSUME NEW t, XGood(t), NEW u \in X!Meanwhile(t)
  PROVE  XGood(u) /\ u.pending = t.pending
<1>0. t.ring \in Nat /\ t.done \in Nat /\ t.done <= RingCount /\ RingCount \in Nat
  BY LinkAssumption DEF XGood, XTx, X!Accounted
<1>1. PICK n \in IF t.awake THEN 0..X!Min({t.ring, RingCount - t.done}) ELSE {0} :
         u = X!Transmitted(t, n)
  BY DEF X!Meanwhile
<1> DEFINE m == X!Min({t.ring, RingCount - t.done})
<1>3. t.ring \in Int /\ RingCount - t.done \in Int
  BY <1>0
<1>4. m \in {t.ring, RingCount - t.done} /\ m <= t.ring /\ m <= RingCount - t.done
  BY <1>3, LeastOfTwo
<1> HIDE DEF m
<1>5. n \in 0..m \/ n = 0
  BY <1>1 DEF m
<1>2. n \in Nat /\ n <= t.ring /\ t.done + n <= RingCount
  BY <1>0, <1>4, <1>5
<1> QED
  BY <1>1, <1>2, XTransmitted

\* pending frames written to the ring,
LEMMA XQueued ==
  ASSUME NEW t, XGood(t), NEW faults, NEW q \in X!Queued(t, faults)
  PROVE  XGood(q.tx) /\ q.tx.pending <= t.pending
         /\ q.n \in Int
<1> DEFINE m == X!Min({t.pending, RingCount - t.ring})
           v == X!Refused(t)
<1>0. t.ring \in Nat /\ t.pending \in Nat /\ t.ring <= RingCount /\ RingCount \in Nat /\ t.wake \in Nat
  BY LinkAssumption DEF XGood, XTx, X!Accounted
<1>6. RingCount - t.ring \in Int /\ t.pending \in Int
  BY <1>0
<1>7. m \in {t.pending, RingCount - t.ring} /\ m <= t.pending /\ m <= RingCount - t.ring
  BY <1>6, LeastOfTwo
<1>1. m \in Nat /\ m <= t.pending /\ m <= RingCount - t.ring
  <2> HIDE DEF m
  <2> QED
    BY <1>0, <1>7
<1>2. \/ q = [tx |-> X!Queue(t, m), n |-> m]
      \/ t.refusals > 0 /\ q = [tx |-> X!Reap(v), n |-> 0]
      \/ q = [tx |-> t, n |-> -1]
  BY DEF X!Queued, X!When
<1> HIDE DEF m, v
<1>3. CASE q = [tx |-> X!Queue(t, m), n |-> m]
  <2>1. X!Queue(t, m) = [t EXCEPT !.pending = t.pending - m, !.ring = t.ring + m, !.wake = t.wake + m]
    BY DEF X!Queue
  <2>2. t.pending - m \in Nat /\ t.ring + m \in Nat /\ t.wake + m \in Nat /\ t.ring + m <= RingCount
    BY <1>0, <1>1
  <2> DEFINE u == X!Queue(t, m)
  <2>4. /\ u \in XTx /\ u.free = t.free /\ u.pending = t.pending - m /\ u.ring = t.ring + m
        /\ u.done = t.done
    BY <2>1, <2>2 DEF XGood, XTx
  <2>5. t.free \in Nat /\ t.done \in Nat /\ t.free + t.pending + t.ring + t.done = FrameCount
        /\ t.pending <= TxBatch /\ t.done <= RingCount /\ TxBatch \in Nat
    BY LinkAssumption DEF XGood, XTx, X!Accounted
  <2> HIDE DEF u
  <2>6. X!Accounted(u)
    BY <1>0, <1>1, <2>2, <2>4, <2>5 DEF X!Accounted
  <2>3. XGood(X!Queue(t, m)) /\ X!Queue(t, m).pending = t.pending - m
    BY <2>4, <2>6 DEF XGood, u
  <2> QED
    BY <1>0, <1>1, <1>3, <2>3
<1>4. CASE t.refusals > 0 /\ q = [tx |-> X!Reap(v), n |-> 0]
  <2>1. v = [t EXCEPT !.refusals = t.refusals - 1, !.ready = TRUE] /\ t.refusals - 1 \in Nat
    BY <1>4 DEF v, X!Refused, XGood, XTx
  <2>2. XGood(v) /\ v.pending = t.pending
    BY <2>1 DEF XGood, XTx, X!Accounted
  <2>3. XGood(X!Reap(v)) /\ X!Reap(v).pending = t.pending
    BY <2>2, XReap
  <2> QED
    BY <1>0, <1>4, <2>3
<1>5. CASE q = [tx |-> t, n |-> -1]
  BY <1>0, <1>5
<1> QED
  BY <1>2, <1>3, <1>4, <1>5

\* the flush that tries once,
LEMMA XTryFlush ==
  ASSUME NEW t, XGood(t), NEW faults, NEW o \in X!TryFlush(t, faults)
  PROVE  XGood(o.tx) /\ o.tx.pending <= t.pending
         /\ o.result \in {"none", "some", "error"}
<1>1. PICK q \in UNION {X!Queued(u, faults) : u \in X!Meanwhile(X!Reap(t))} :
         o \in IF q.n = -1 THEN {X!Outcome(q.tx, "error")}
               ELSE IF X!MustKick(q.tx, q.n)
               THEN {X!Outcome(k.tx, IF k.result = "error" THEN "error"
                                     ELSE IF q.n = 0 THEN "none" ELSE "some") : k \in X!Kick(q.tx, faults)}
               ELSE {X!Outcome(q.tx, IF q.n = 0 THEN "none" ELSE "some")}
  BY DEF X!TryFlush
<1>2. XGood(X!Reap(t)) /\ X!Reap(t).pending = t.pending
  BY XReap
<1>3. PICK u \in X!Meanwhile(X!Reap(t)) : q \in X!Queued(u, faults)
  BY <1>1
<1>4. XGood(u) /\ u.pending = t.pending
  BY <1>2, <1>3, XMeanwhile
<1>7. XGood(q.tx) /\ q.tx.pending <= t.pending
  BY <1>3, <1>4, XQueued
<1>5. CASE q.n # -1 /\ X!MustKick(q.tx, q.n)
  <2>1. PICK k \in X!Kick(q.tx, faults) :
           o = X!Outcome(k.tx, IF k.result = "error" THEN "error" ELSE IF q.n = 0 THEN "none" ELSE "some")
    BY <1>1, <1>5
  <2>2. XGood(k.tx) /\ k.tx.pending = q.tx.pending
    BY <1>7, <2>1, XKick
  <2> QED
    BY <1>7, <2>1, <2>2 DEF X!Outcome
<1>6. CASE q.n = -1 \/ ~X!MustKick(q.tx, q.n)
  <2>1. o = X!Outcome(q.tx, "error") \/ o = X!Outcome(q.tx, "none") \/ o = X!Outcome(q.tx, "some")
    BY <1>1, <1>6
  <2> QED
    BY <1>7, <2>1 DEF X!Outcome
<1> QED
  BY <1>5, <1>6

\* a frame taken to be filled,
LEMMA XTake ==
  ASSUME NEW t, XGood(t), t.free > 0, t.pending < TxBatch
  PROVE  XGood([X!Take(t) EXCEPT !.pending = @ + 1])
<1> DEFINE u == X!Take(t)
<1>1. u = [t EXCEPT !.free = t.free - 1]
  BY DEF X!Take
<1>2. t.free - 1 \in Nat /\ t.pending + 1 \in Nat /\ TxBatch \in Nat
  BY LinkAssumption DEF XGood, XTx
<1>3. [u EXCEPT !.pending = @ + 1] = [t EXCEPT !.free = t.free - 1, !.pending = t.pending + 1]
  BY <1>1 DEF XGood, XTx
<1> DEFINE v == [t EXCEPT !.free = t.free - 1, !.pending = t.pending + 1]
<1>4. v \in XTx /\ v.free = t.free - 1 /\ v.pending = t.pending + 1 /\ v.ring = t.ring /\ v.done = t.done
  BY <1>2 DEF XGood, XTx
<1>5. t.free \in Nat /\ t.pending \in Nat /\ t.ring \in Nat /\ t.done \in Nat
      /\ t.free + t.pending + t.ring + t.done = FrameCount /\ t.ring <= RingCount /\ t.done <= RingCount
  BY DEF XGood, XTx, X!Accounted
<1> HIDE DEF v
<1>6. X!Accounted(v)
  BY <1>2, <1>4, <1>5 DEF X!Accounted
<1> QED
  BY <1>3, <1>4, <1>6 DEF XGood, v

\* and then try_send(),
LEMMA XTrySend ==
  ASSUME NEW t, XGood(t), NEW frame \in {"fits", "large"}, NEW faults, NEW o \in X!TrySend(t, frame, faults)
  PROVE  XGood(o.tx) /\ o.result \in {"sent", "full", "error"}
<1> DEFINE a == X!Alloc(t)
           u == X!Append(a, frame)
<1>0. TxBatch \in Nat /\ t.pending \in Nat
  BY LinkAssumption DEF XGood, XTx
<1>1. XGood(a) /\ a.pending = t.pending
  BY XReap DEF X!Alloc
<1>2. a.free \in Nat
  BY <1>1 DEF XGood, XTx
<1> HIDE DEF a
<1>3. t.pending < TxBatch /\ a.free # 0 => XGood(u)
  BY <1>1, <1>2, XTake DEF X!Append
<1> HIDE DEF u
<1>4. CASE t.pending >= TxBatch
  <2>1. o = X!Outcome(t, "full")
    BY <1>0, <1>4 DEF X!TrySend
  <2> QED
    BY <2>1 DEF X!Outcome
<1>5. CASE t.pending < TxBatch /\ a.free = 0
  <2>1. o = X!Outcome(a, "full")
    BY <1>0, <1>5 DEF X!TrySend, a
  <2> QED
    BY <1>1, <2>1 DEF X!Outcome
<1>6. CASE t.pending < TxBatch /\ a.free # 0
  <2>1. o \in IF frame = "large" THEN {X!Outcome(u, "error")}
              ELSE IF u.pending < TxBatch THEN {X!Outcome(u, "sent")}
              ELSE {X!Outcome(f.tx, IF f.result = "error" THEN "error" ELSE "sent") :
                      f \in X!TryFlush(u, faults)}
    BY <1>0, <1>6 DEF X!TrySend, a, u
  <2>2. CASE o = X!Outcome(u, "error") \/ o = X!Outcome(u, "sent")
    BY <1>3, <1>6, <2>2 DEF X!Outcome
  <2>3. CASE o \in {X!Outcome(f.tx, IF f.result = "error" THEN "error" ELSE "sent") :
                      f \in X!TryFlush(u, faults)}
    <3>1. PICK f \in X!TryFlush(u, faults) :
             o = X!Outcome(f.tx, IF f.result = "error" THEN "error" ELSE "sent")
      BY <2>3
    <3>2. XGood(f.tx)
      BY <1>3, <1>6, <3>1, XTryFlush
    <3> QED
      BY <3>1, <3>2 DEF X!Outcome
  <2> QED
    BY <2>1, <2>2, <2>3
<1> QED
  BY <1>0, <1>4, <1>5, <1>6

\* a turn of flush(),
LEMMA XFlushStep ==
  ASSUME NEW t, XGood(t), NEW faults, NEW o \in X!FlushStep(t, faults)
  PROVE  /\ XGood(o.tx)
         /\ o.result \in {"wake", "again", "wait", "error"}
         /\ o.result = "wake" => o.tx.pending = 0
<1>1. CASE t.pending = 0
  BY <1>1 DEF X!FlushStep, X!Outcome
<1>2. CASE t.pending # 0
  <2>1. PICK f \in X!TryFlush(t, faults) :
           o \in IF f.result = "none" /\ f.tx.pending > 0
                 THEN {X!Outcome(k.tx, CASE k.result = "ok" -> "again" [] k.result = "no" -> "wait"
                                         [] k.result = "error" -> "error") : k \in X!Kick(f.tx, faults)}
                 ELSE {X!Outcome(f.tx, IF f.result = "error" THEN "error" ELSE "again")}
    BY <1>2 DEF X!FlushStep
  <2>2. XGood(f.tx)
    BY <2>1, XTryFlush
  <2>3. CASE f.result = "none" /\ f.tx.pending > 0
    <3>1. PICK k \in X!Kick(f.tx, faults) :
             o = X!Outcome(k.tx, CASE k.result = "ok" -> "again" [] k.result = "no" -> "wait"
                                   [] k.result = "error" -> "error")
      BY <2>1, <2>3
    <3>2. XGood(k.tx) /\ k.result \in {"ok", "no", "error"}
      BY <2>2, <3>1, XKick
    <3> QED
      BY <3>1, <3>2 DEF X!Outcome
  <2>4. CASE ~(f.result = "none" /\ f.tx.pending > 0)
    BY <2>1, <2>2, <2>4 DEF X!Outcome
  <2> QED
    BY <2>3, <2>4
<1> QED
  BY <1>1, <1>2

\* the wake-up at its end,
LEMMA XWakeStep ==
  ASSUME NEW t, XGood(t), NEW faults, NEW o \in X!WakeStep(t, faults)
  PROVE  /\ XGood(o.tx) /\ o.tx.pending = t.pending
         /\ o.result \in {"done", "wait", "error"}
         /\ o.result = "done" => o.tx.wake = 0
<1>1. CASE t.wake = 0
  BY <1>1 DEF X!WakeStep, X!Outcome
<1>2. CASE t.wake # 0
  <2>1. PICK k \in X!Kick(t, faults) :
           o = X!Outcome(k.tx, CASE k.result = "ok" -> "done" [] k.result = "no" -> "wait"
                                 [] k.result = "error" -> "error")
    BY <1>2 DEF X!WakeStep
  <2>2. XGood(k.tx) /\ k.tx.pending = t.pending /\ k.result \in {"ok", "no", "error"}
        /\ (k.result = "ok" => k.tx.wake = 0)
    BY <2>1, XKick
  <2> QED
    BY <2>1, <2>2 DEF X!Outcome
<1> QED
  BY <1>1, <1>2

\* and the drop.
LEMMA XDrop ==
  ASSUME NEW t, XGood(t), NEW faults, NEW u \in X!Drop(t, faults)
  PROVE  XGood(u)
<1>1. PICK f \in X!TryFlush(t, faults) : u \in {k.tx : k \in X!Kick(f.tx, faults)}
  BY DEF X!Drop
<1>2. XGood(f.tx)
  BY <1>1, XTryFlush
<1> QED
  BY <1>1, <1>2, XKick

-----------------------------------------------------------------------------
(* Places around a ring of N slots.                                         *)

\* How far ahead a place is, without the remainder.
LEMMA AheadIs ==
  ASSUME NEW N \in Nat \ {0}, NEW i \in 0..(N - 1), NEW n \in 0..N
  PROVE  /\ P!Ahead(i, n, N) = IF i + n < N THEN i + n ELSE i + n - N
         /\ P!Ahead(i, n, N) \in 0..(N - 1)
<1>1. CASE i + n < N
  BY <1>1 DEF P!Ahead
<1>2. CASE i + n >= N
  BY <1>2 DEF P!Ahead
<1> QED
  BY <1>1, <1>2

\* The remainder of a difference of two places.
LEMMA ModIs ==
  ASSUME NEW N \in Nat \ {0}, NEW x \in Int, -N < x, x < N
  PROVE  x % N = IF x < 0 THEN x + N ELSE x
<1>1. CASE x < 0
  BY <1>1
<1>2. CASE x >= 0
  BY <1>2
<1> QED
  BY <1>1, <1>2

\* How far one place is behind another.
LEMMA BehindIs ==
  ASSUME NEW N \in Nat \ {0}, NEW i \in 0..(N - 1), NEW n \in 0..N
  PROVE  (P!Ahead(i, n, N) - i) % N = IF n = N THEN 0 ELSE n
<1> DEFINE x == P!Ahead(i, n, N) - i
<1>1. x = IF i + n < N THEN n ELSE n - N
  BY AheadIs
<1> HIDE DEF x
<1>2. x \in Int /\ -N < x /\ x < N
  BY <1>1
<1>3. x % N = IF x < 0 THEN x + N ELSE x
  BY <1>2, ModIs
<1>4. x % N = IF n = N THEN 0 ELSE n
  <2>1. CASE i + n < N
    BY <1>1, <1>3, <2>1
  <2>2. CASE i + n >= N
    BY <1>1, <1>3, <2>2
  <2> QED
    BY <2>1, <2>2
<1> QED
  BY <1>4 DEF x

\* Every place is ahead of any other by less than the ring.
LEMMA AheadOnto ==
  ASSUME NEW N \in Nat \ {0}, NEW h \in 0..(N - 1), NEW i \in 0..(N - 1)
  PROVE  \E k \in 0..(N - 1) : i = P!Ahead(h, k, N)
<1> DEFINE k == IF i >= h THEN i - h ELSE i - h + N
<1>1. k \in 0..(N - 1) /\ k \in 0..N
  OBVIOUS
<1>2. P!Ahead(h, k, N) = IF h + k < N THEN h + k ELSE h + k - N
  BY <1>1, AheadIs
<1>3. P!Ahead(h, k, N) = i
  BY <1>2
<1> QED
  BY <1>1, <1>3

\* And by one distance only.
LEMMA AheadOnce ==
  ASSUME NEW N \in Nat \ {0}, NEW h \in 0..(N - 1), NEW k \in 0..(N - 1), NEW l \in 0..(N - 1),
         P!Ahead(h, k, N) = P!Ahead(h, l, N)
  PROVE  k = l
<1>1. P!Ahead(h, k, N) = IF h + k < N THEN h + k ELSE h + k - N
  BY AheadIs, k \in 0..N
<1>2. P!Ahead(h, l, N) = IF h + l < N THEN h + l ELSE h + l - N
  BY AheadIs, l \in 0..N
<1>3. (IF h + k < N THEN h + k ELSE h + k - N) = IF h + l < N THEN h + l ELSE h + l - N
  BY <1>1, <1>2
<1> QED
  BY <1>3

-----------------------------------------------------------------------------
(* The AF_PACKET transmitter: unless the kernel has rejected a frame, the    *)
(* slots requested are in a row from its head on, and they are never the     *)
(* whole ring when none of them is pending.                                  *)

Place == 0..(TxSlots - 1)
PTx == [slot : [Place -> {"available", "request", "sending", "wrong"}], current : Place, pending : Nat,
        head : Place, ready : BOOLEAN, refusals : Nat]

HasWrong(t) == \E i \in Place : t.slot[i] = "wrong"
Requesting(t, m) ==
  /\ m \in 0..TxSlots /\ t.current = P!Ahead(t.head, m, TxSlots)
  /\ \A k \in Place : t.slot[P!Ahead(t.head, k, TxSlots)] = "request" <=> k < m

\* With nothing pending some slot is not requested (NotStuck).
Unstuck(t) == t.pending = 0 => \E i \in Place : t.slot[i] # "request"
InARow(t)  == (\E m \in 0..TxSlots : Requesting(t, m)) /\ Unstuck(t)

PClean(t) == t \in PTx /\ ~HasWrong(t) /\ InARow(t)
PGood(t)  == t \in PTx /\ (HasWrong(t) \/ InARow(t))

\* What Requested() counts.
Runs(t) == {n \in 0..TxSlots : \A k \in 0..(n - 1) : t.slot[P!Ahead(t.head, k, TxSlots)] = "request"}

\* Requested() is how many are in a row.
LEMMA RequestedIs ==
  ASSUME NEW t, t \in PTx
  PROVE  /\ P!Requested(t) \in Runs(t)
         /\ \A m : Requesting(t, m) => P!Requested(t) = m
<1> DEFINE S == Runs(t)
           T == {TxSlots - n : n \in S}
<1>0. TxSlots \in Nat /\ TxSlots # 0 /\ 0 \in S
  BY LinkAssumption DEF Runs
<1>1. T \in SUBSET Nat /\ T # {}
  BY <1>0 DEF Runs
<1>2. PICK x \in T : \A y \in T : x <= y
  BY <1>1, LeastNat
<1>3. PICK m \in S : x = TxSlots - m
  BY <1>2
<1>4. S \subseteq Nat
  BY <1>0 DEF Runs
<1>5. \A n \in S : m >= n
  <2>1. ASSUME NEW n \in S PROVE m >= n
    <3>1. TxSlots - n \in T
      OBVIOUS
    <3>2. TxSlots - m <= TxSlots - n
      BY <1>2, <1>3, <3>1
    <3> HIDE DEF S, T
    <3> QED
      BY <1>0, <1>4, <3>2
  <2> QED
    BY <2>1
<1>6. P!Requested(t) = P!Max(S)
  BY DEF P!Requested, Runs
<1>7. P!Max(S) \in S /\ \A n \in S : P!Max(S) >= n
  <2> HIDE DEF S
  <2> QED
    BY <1>3, <1>5 DEF P!Max
<1>8. ASSUME NEW j, Requesting(t, j) PROVE P!Requested(t) = j
  <2>0. j \in Nat /\ j <= TxSlots
    BY <1>0, <1>8 DEF Requesting
  <2>1. j \in S
    BY <1>0, <1>8, <2>0 DEF Runs, Requesting, Place
  <2>2. ASSUME NEW n \in S, n > j PROVE FALSE
    <3>1. n \in Nat /\ n <= TxSlots /\ j \in 0..(n - 1) /\ j \in Place
      BY <1>0, <2>0, <2>2 DEF Runs, Place
    <3>2. t.slot[P!Ahead(t.head, j, TxSlots)] = "request"
      BY <3>1 DEF Runs
    <3> QED
      BY <1>8, <2>0, <3>1, <3>2 DEF Requesting
  <2> DEFINE r == P!Requested(t)
  <2>3. r \in S /\ r >= j
    BY <1>6, <1>7, <2>1
  <2> HIDE DEF r
  <2>4. r \in Nat /\ ~(r > j)
    BY <1>4, <2>2, <2>3
  <2>5. r = j
    <3> HIDE DEF S
    <3> QED
      BY <2>0, <2>3, <2>4
  <2> QED
    BY <2>5 DEF r
<1> QED
  BY <1>6, <1>7, <1>8

LEMMA SlotAhead ==
  ASSUME NEW h \in Place, NEW k \in 0..TxSlots
  PROVE  /\ P!Ahead(h, k, TxSlots) \in Place
         /\ P!Ahead(h, k, TxSlots) = IF h + k < TxSlots THEN h + k ELSE h + k - TxSlots
BY AheadIs, LinkAssumption DEF Place

\* From a place further on.
LEMMA AheadPlus ==
  ASSUME NEW N \in Nat \ {0}, NEW c \in 0..(N - 1), NEW n \in 0..N, NEW k \in 0..N
  PROVE  P!Ahead(P!Ahead(c, n, N), k, N) = IF n + k <= N THEN P!Ahead(c, n + k, N) ELSE P!Ahead(c, n + k - N, N)
<1> DEFINE d == P!Ahead(c, n, N)
<1>1. d \in 0..(N - 1) /\ d = IF c + n < N THEN c + n ELSE c + n - N
  BY AheadIs
<1> HIDE DEF d
<1>2. P!Ahead(d, k, N) = IF d + k < N THEN d + k ELSE d + k - N
  BY <1>1, AheadIs
<1>3. CASE n + k <= N
  <2>1. n + k \in 0..N
    BY <1>3
  <2>2. P!Ahead(c, n + k, N) = IF c + (n + k) < N THEN c + (n + k) ELSE c + (n + k) - N
    BY <2>1, AheadIs
  <2>3. P!Ahead(d, k, N) = P!Ahead(c, n + k, N)
    BY <1>1, <1>2, <1>3, <2>2
  <2> QED
    BY <1>3, <2>3 DEF d
<1>4. CASE ~(n + k <= N)
  <2>1. n + k - N \in 0..N
    BY <1>4
  <2>2. P!Ahead(c, n + k - N, N) = IF c + (n + k - N) < N THEN c + (n + k - N) ELSE c + (n + k - N) - N
    BY <2>1, AheadIs
  <2>3. P!Ahead(d, k, N) = P!Ahead(c, n + k - N, N)
    BY <1>1, <1>2, <1>4, <2>2
  <2> QED
    BY <1>4, <2>3 DEF d
<1> QED
  BY <1>3, <1>4

\* The kernel takes the first n of those that are requested, at least one if
\* there is one.
LEMMA PTaken ==
  ASSUME NEW t, PGood(t), NEW n \in P!Taken(t)
  PROVE  LET u == [P!TakeRequests(t, n) EXCEPT !.pending = 0]
         IN  PGood(u) /\ u.pending = 0 /\ (PClean(t) => PClean(u))
<1> DEFINE took(i) == \E k \in 0..(n - 1) : i = P!Ahead(t.head, k, TxSlots)
           slots == [i \in Place |-> IF took(i) THEN "sending" ELSE t.slot[i]]
           head == P!Ahead(t.head, n, TxSlots)
           u == [t EXCEPT !.head = head, !.slot = slots, !.pending = 0]
<1>0. TxSlots \in Nat \ {0} /\ t \in PTx /\ t.head \in Place /\ DOMAIN t.slot = Place
      /\ t.slot \in [Place -> {"available", "request", "sending", "wrong"}]
  BY LinkAssumption DEF PGood, PTx
<1>a. P!Requested(t) \in 0..TxSlots
  BY <1>0, RequestedIs DEF Runs
<1>1. /\ n \in 0..TxSlots /\ \A k \in 0..(n - 1) : t.slot[P!Ahead(t.head, k, TxSlots)] = "request"
      /\ n = 0 => P!Requested(t) = 0
  <2> DEFINE r == P!Requested(t)
  <2>1. r \in 0..TxSlots /\ \A k \in 0..(r - 1) : t.slot[P!Ahead(t.head, k, TxSlots)] = "request"
    BY <1>0, RequestedIs DEF Runs
  <2>0. n \in IF r = 0 THEN {0} ELSE 1..r
    BY DEF P!Taken
  <2> HIDE DEF r
  <2>2. n \in 0..r /\ (n = 0 => r = 0)
    BY <1>0, <2>0, <2>1
  <2>3. \A k \in 0..(n - 1) : k \in 0..(r - 1)
    BY <1>0, <2>1, <2>2
  <2>4. n \in 0..TxSlots /\ \A k \in 0..(n - 1) : t.slot[P!Ahead(t.head, k, TxSlots)] = "request"
    BY <1>0, <2>1, <2>2, <2>3
  <2> QED
    BY <2>2, <2>4 DEF r
<1>2. [P!TakeRequests(t, n) EXCEPT !.pending = 0] = u
  BY <1>0 DEF P!TakeRequests, PTx
<1>3. head \in Place
  BY <1>0, <1>1, SlotAhead
<1>4. slots \in [Place -> {"available", "request", "sending", "wrong"}]
  BY <1>0
<1>5. u \in PTx /\ u.head = head /\ u.slot = slots /\ u.pending = 0 /\ u.current = t.current
  <2> HIDE DEF head, slots
  <2> QED
    BY <1>0, <1>3, <1>4 DEF PTx
<1> HIDE DEF u
<1>6. ASSUME HasWrong(t) PROVE HasWrong(u)
  <2>1. PICK i \in Place : t.slot[i] = "wrong"
    BY <1>6 DEF HasWrong
  <2>2. ~took(i)
    BY <1>1, <2>1
  <2>3. slots[i] = "wrong"
    BY <2>1, <2>2
  <2> QED
    BY <1>5, <2>1, <2>3 DEF HasWrong
<1>7. ASSUME ~HasWrong(t) PROVE ~HasWrong(u)
  BY <1>5, <1>7 DEF HasWrong
<1>8. ASSUME NEW m \in 0..TxSlots, Requesting(t, m) PROVE Requesting(u, m - n) /\ m - n \in 0..TxSlots /\ n <= m
  <2>0. /\ t.current = P!Ahead(t.head, m, TxSlots) /\ t.head \in 0..(TxSlots - 1)
        /\ \A k \in Place : t.slot[P!Ahead(t.head, k, TxSlots)] = "request" <=> k < m
    BY <1>0, <1>8 DEF Requesting, Place
  <2>1. n <= m /\ m - n \in 0..TxSlots
    <3>1. P!Requested(t) = m
      BY <1>0, <1>8, RequestedIs
    <3>2. n = 0 \/ n \in 1..m
      BY <3>1 DEF P!Taken
    <3> QED
      BY <1>0, <1>1, <3>1, <3>2
  <2>2. P!Ahead(head, m - n, TxSlots) = t.current
    <3>1. P!Ahead(head, m - n, TxSlots) = IF n + (m - n) <= TxSlots THEN P!Ahead(t.head, n + (m - n), TxSlots)
                                          ELSE P!Ahead(t.head, n + (m - n) - TxSlots, TxSlots)
      BY <1>0, <1>1, <2>0, <2>1, AheadPlus
    <3>2. n + (m - n) = m /\ m <= TxSlots
      BY <1>0, <1>1
    <3> QED
      BY <2>0, <3>1, <3>2
  <2>3. ASSUME NEW k \in Place PROVE slots[P!Ahead(head, k, TxSlots)] = "request" <=> k < m - n
    <3> DEFINE i == P!Ahead(head, k, TxSlots)
    <3>0. k \in 0..TxSlots /\ i \in Place
      <4>1. k \in 0..TxSlots
        BY <1>0 DEF Place
      <4> QED
        BY <1>3, <4>1, SlotAhead
    <3>1. i = IF n + k <= TxSlots THEN P!Ahead(t.head, n + k, TxSlots) ELSE P!Ahead(t.head, n + k - TxSlots, TxSlots)
      BY <1>0, <1>1, <2>0, <3>0, AheadPlus
    <3>2. P!Ahead(t.head, TxSlots, TxSlots) = P!Ahead(t.head, 0, TxSlots)
      <4>1. TxSlots \in 0..TxSlots /\ 0 \in 0..TxSlots
        BY <1>0
      <4>2. P!Ahead(t.head, TxSlots, TxSlots)
              = IF t.head + TxSlots < TxSlots THEN t.head + TxSlots ELSE t.head + TxSlots - TxSlots
        BY <1>0, <4>1, SlotAhead
      <4>3. P!Ahead(t.head, 0, TxSlots) = IF t.head + 0 < TxSlots THEN t.head + 0 ELSE t.head + 0 - TxSlots
        BY <1>0, <4>1, SlotAhead
      <4> QED
        BY <1>0, <2>0, <4>2, <4>3
    <3> HIDE DEF i, head
    <3>3. CASE n + k < TxSlots
      <4>1. i = P!Ahead(t.head, n + k, TxSlots) /\ n + k \in Place
        BY <1>0, <1>1, <3>0, <3>1, <3>3 DEF Place
      <4>2. ASSUME NEW j \in 0..(n - 1), i = P!Ahead(t.head, j, TxSlots) PROVE FALSE
        <5>1. j \in 0..(TxSlots - 1) /\ n + k \in 0..(TxSlots - 1) /\ j # n + k
          BY <1>0, <1>1, <3>0, <4>1 DEF Place
        <5> QED
          BY <1>0, <2>0, <4>1, <4>2, <5>1, AheadOnce
      <4>3. slots[i] = t.slot[i]
        BY <3>0, <4>2
      <4>4. k < m - n <=> n + k < m
        BY <1>0, <1>1, <3>0
      <4> QED
        BY <2>0, <4>1, <4>3, <4>4 DEF i
    <3>4. CASE ~(n + k < TxSlots)
      <4>1. n + k - TxSlots \in 0..(n - 1)
        BY <1>0, <1>1, <3>0, <3>4 DEF Place
      <4>2. i = P!Ahead(t.head, n + k - TxSlots, TxSlots)
        <5>1. CASE n + k = TxSlots
          <6>1. n + k - TxSlots = 0 /\ n + k <= TxSlots
            BY <1>0, <1>1, <3>0, <5>1
          <6> QED
            BY <3>1, <3>2, <5>1, <6>1
        <5>2. CASE n + k # TxSlots
          <6>1. ~(n + k <= TxSlots)
            BY <1>0, <1>1, <3>0, <3>4, <5>2
          <6> QED
            BY <3>1, <6>1
        <5> QED
          BY <5>1, <5>2
      <4>3. slots[i] = "sending"
        BY <3>0, <4>1, <4>2
      <4>4. ~(k < m - n)
        BY <1>0, <1>1, <3>0, <3>4
      <4> QED
        BY <4>3, <4>4 DEF i
    <3> QED
      BY <3>3, <3>4
  <2> HIDE DEF slots, head
  <2> QED
    BY <1>5, <2>1, <2>2, <2>3 DEF Requesting
<1>9. ASSUME InARow(t) PROVE InARow(u)
  <2>1. PICK m \in 0..TxSlots : Requesting(t, m)
    BY <1>9 DEF InARow
  <2>2. Requesting(u, m - n) /\ m - n \in 0..TxSlots
    BY <1>8, <2>1
  <2>3. Unstuck(u)
    <3> DEFINE i == P!Ahead(t.head, 0, TxSlots)
    <3>1. i \in Place /\ 0 \in Place /\ P!Requested(t) = m
      <4>1. 0 \in 0..TxSlots /\ 0 \in Place
        BY <1>0 DEF Place
      <4> QED
        BY <1>0, <2>1, <4>1, SlotAhead, RequestedIs
    <3>2. CASE n = 0
      <4>1. t.slot[i] # "request"
        BY <1>1, <2>1, <3>1, <3>2 DEF Requesting
      <4>2. ~took(i)
        BY <3>2
      <4>3. slots[i] = t.slot[i]
        BY <3>1, <4>2
      <4> QED
        BY <1>5, <3>1, <4>1, <4>3 DEF Unstuck
    <3>3. CASE n # 0
      <4>1. 0 \in 0..(n - 1)
        BY <1>0, <1>1, <3>3
      <4>2. took(i)
        BY <4>1
      <4>3. slots[i] = "sending"
        BY <3>1, <4>2
      <4> QED
        BY <1>5, <3>1, <4>3 DEF Unstuck
    <3> QED
      BY <3>2, <3>3
  <2> QED
    BY <2>2, <2>3 DEF InARow
<1>10. PGood(u) /\ u.pending = 0 /\ (PClean(t) => PClean(u))
  BY <1>5, <1>6, <1>7, <1>9 DEF PGood, PClean
<1> QED
  BY <1>2, <1>10

\* A call refused for now changes no slot.
LEMMA PRefused ==
  ASSUME NEW t, t \in PTx, t.refusals > 0
  PROVE  /\ P!Refused(t) \in PTx
         /\ PGood(t) => PGood(P!Refused(t))
         /\ PClean(t) => PClean(P!Refused(t))
<1> DEFINE u == P!Refused(t)
<1>1. u = [t EXCEPT !.refusals = t.refusals - 1, !.ready = TRUE] /\ t.refusals - 1 \in Nat
  BY DEF P!Refused, PTx
<1>2. u \in PTx /\ u.slot = t.slot /\ u.current = t.current /\ u.head = t.head /\ u.pending = t.pending
  BY <1>1 DEF PTx
<1> HIDE DEF u
<1>3. /\ HasWrong(u) <=> HasWrong(t)
      /\ InARow(u) <=> InARow(t)
  BY <1>2 DEF HasWrong, InARow, Requesting, Unstuck
<1> QED
  BY <1>2, <1>3 DEF PGood, PClean, u

\* The kernel rejects a frame.
LEMMA PRejected ==
  ASSUME NEW t, t \in PTx, NEW u \in P!Rejects(t)
  PROVE  u \in PTx /\ HasWrong(u)
<1>1. u = [t EXCEPT !.slot[t.head] = "wrong"] /\ t.head \in Place
  BY DEF P!Rejects, P!When, PTx
<1>2. u = [t EXCEPT !.slot = [t.slot EXCEPT ![t.head] = "wrong"]]
  BY <1>1 DEF PTx
<1> DEFINE s == [t.slot EXCEPT ![t.head] = "wrong"]
<1>3. s \in [Place -> {"available", "request", "sending", "wrong"}] /\ s[t.head] = "wrong"
  BY <1>1 DEF PTx
<1> HIDE DEF s
<1>4. u \in PTx /\ u.slot = s
  BY <1>2, <1>3 DEF PTx, s
<1> QED
  BY <1>1, <1>3, <1>4 DEF HasWrong

\* flush_now() and try_send(): only an error leaves a ring that is not in order.
LEMMA PFlushNow ==
  ASSUME NEW t, PGood(t), NEW faults, NEW o \in P!FlushNow(t, faults)
  PROVE  /\ PGood(o.tx) /\ o.result \in {"ok", "wait", "error"}
         /\ PClean(t) /\ o.result # "error" => PClean(o.tx)
         /\ o.result = "ok" => o.tx.pending = 0
<1> DEFINE taken(n) == [P!TakeRequests(t, n) EXCEPT !.pending = 0]
<1>0. t \in PTx
  BY DEF PGood
<1>1. \/ t.pending = 0 /\ o = P!Outcome(t, "ok")
      \/ \E n \in P!Taken(t) : o = P!Outcome(taken(n), "ok")
      \/ t.refusals > 0 /\ o = P!Outcome(P!Refused(t), "wait")
      \/ \E u \in {t} \cup P!Rejects(t) : o = P!Outcome(u, "error")
  BY DEF P!FlushNow, P!When
<1>2. ASSUME NEW n \in P!Taken(t)
      PROVE  PGood(taken(n)) /\ taken(n).pending = 0 /\ (PClean(t) => PClean(taken(n)))
  BY PTaken
<1> HIDE DEF taken
<1>3. CASE t.pending = 0 /\ o = P!Outcome(t, "ok")
  BY <1>3 DEF P!Outcome
<1>4. CASE \E n \in P!Taken(t) : o = P!Outcome(taken(n), "ok")
  BY <1>2, <1>4 DEF P!Outcome
<1>5. CASE t.refusals > 0 /\ o = P!Outcome(P!Refused(t), "wait")
  <2>1. PGood(P!Refused(t)) /\ (PClean(t) => PClean(P!Refused(t)))
    BY <1>0, <1>5, PRefused
  <2> QED
    BY <1>5, <2>1 DEF P!Outcome
<1>6. CASE \E u \in {t} \cup P!Rejects(t) : o = P!Outcome(u, "error")
  <2>1. PICK u \in {t} \cup P!Rejects(t) : o = P!Outcome(u, "error")
    BY <1>6
  <2>2. PGood(u)
    BY <1>0, <2>1, PRejected DEF PGood
  <2> QED
    BY <2>1, <2>2 DEF P!Outcome
<1> QED
  BY <1>1, <1>3, <1>4, <1>5, <1>6

\* A new request is next to those before it.
LEMMA PRequest ==
  ASSUME NEW t, PClean(t), t.slot[t.current] = "available"
  PROVE  PClean(P!Request(t))
<1>a. PICK m \in 0..TxSlots : Requesting(t, m)
  BY DEF PClean, InARow
<1> DEFINE slots == [t.slot EXCEPT ![t.current] = "request"]
           next == P!Next(t.current, TxSlots)
           u == [t EXCEPT !.slot = slots, !.current = next, !.pending = t.pending + 1]
<1>0. /\ TxSlots \in Nat \ {0} /\ t \in PTx /\ t.head \in Place /\ t.current \in Place /\ m \in 0..TxSlots
      /\ t.pending \in Nat
      /\ t.slot \in [Place -> {"available", "request", "sending", "wrong"}]
      /\ t.current = P!Ahead(t.head, m, TxSlots)
      /\ \A k \in Place : t.slot[P!Ahead(t.head, k, TxSlots)] = "request" <=> k < m
  BY <1>a, LinkAssumption DEF PClean, PTx, Requesting
<1>1. m < TxSlots
  <2>1. ASSUME m = TxSlots PROVE FALSE
    <3>1. PICK k \in 0..(TxSlots - 1) : t.current = P!Ahead(t.head, k, TxSlots)
      BY <1>0, AheadOnto DEF Place
    <3>2. t.slot[t.current] = "request"
      BY <1>0, <2>1, <3>1 DEF Place
    <3> QED
      BY <3>2
  <2> QED
    BY <1>0, <2>1
<1>2. P!Request(t) = u
  BY <1>0 DEF P!Request, P!Advance, PTx
<1>3. next \in Place /\ next = P!Ahead(t.head, m + 1, TxSlots)
  <2>1. next = IF t.current + 1 = TxSlots THEN 0 ELSE t.current + 1
    BY DEF P!Next
  <2>2. m + 1 \in 0..TxSlots /\ m \in 0..TxSlots
    BY <1>0, <1>1
  <2>3. P!Ahead(t.head, m + 1, TxSlots)
          = IF t.head + (m + 1) < TxSlots THEN t.head + (m + 1) ELSE t.head + (m + 1) - TxSlots
    BY <1>0, <2>2, SlotAhead
  <2>4. t.current = IF t.head + m < TxSlots THEN t.head + m ELSE t.head + m - TxSlots
    BY <1>0, <2>2, SlotAhead
  <2>5. t.head \in Nat /\ t.head < TxSlots /\ m \in Nat /\ TxSlots \in Nat
    BY <1>0 DEF Place
  <2> HIDE DEF next
  <2>6. next = P!Ahead(t.head, m + 1, TxSlots)
    BY <1>1, <2>1, <2>3, <2>4, <2>5
  <2> QED
    BY <1>0, <2>2, <2>6, SlotAhead
<1>4. slots \in [Place -> {"available", "request", "sending", "wrong"}]
  BY <1>0
<1>5. /\ u \in PTx /\ u.slot = slots /\ u.current = next /\ u.pending = t.pending + 1 /\ u.head = t.head
  <2>1. t.pending + 1 \in Nat
    BY <1>0
  <2> HIDE DEF slots, next
  <2> QED
    BY <1>0, <1>3, <1>4, <2>1 DEF PTx
<1>6. \A k \in Place : slots[P!Ahead(t.head, k, TxSlots)] = "request" <=> k < m + 1
  <2>1. ASSUME NEW k \in Place PROVE slots[P!Ahead(t.head, k, TxSlots)] = "request" <=> k < m + 1
    <3>0. k \in 0..TxSlots /\ m \in Place
      BY <1>0, <1>1 DEF Place
    <3>1. P!Ahead(t.head, k, TxSlots) \in Place /\ m \in Place
      BY <1>0, <3>0, SlotAhead
    <3>2. CASE k = m
      BY <1>0, <3>1, <3>2
    <3>3. CASE k # m
      <4>1. P!Ahead(t.head, k, TxSlots) # t.current
        BY <1>0, <3>1, <3>3, AheadOnce DEF Place
      <4>2. slots[P!Ahead(t.head, k, TxSlots)] = t.slot[P!Ahead(t.head, k, TxSlots)]
        BY <1>0, <3>1, <4>1
      <4>3. k < m <=> k < m + 1
        BY <1>0, <3>3 DEF Place
      <4> QED
        BY <1>0, <4>2, <4>3
    <3> QED
      BY <3>2, <3>3
  <2> QED
    BY <2>1
<1>7. ~HasWrong(u)
  BY <1>0, <1>5 DEF HasWrong, PClean
<1>8. InARow(u)
  <2>1. m + 1 \in 0..TxSlots
    BY <1>0, <1>1
  <2> HIDE DEF u, slots, next
  <2>2. Requesting(u, m + 1)
    BY <1>3, <1>5, <1>6, <2>1 DEF Requesting
  <2>3. Unstuck(u)
    BY <1>0, <1>5 DEF Unstuck
  <2> QED
    BY <2>1, <2>2, <2>3 DEF InARow
<1> HIDE DEF u
<1> QED
  BY <1>2, <1>5, <1>7, <1>8 DEF PClean

LEMMA PTrySend ==
  ASSUME NEW t, PClean(t), NEW frame, NEW faults, NEW o \in P!TrySend(t, frame, faults)
  PROVE  /\ PGood(o.tx) /\ o.result \in {"sent", "full", "error"}
         /\ o.result # "error" => PClean(o.tx)
<1> DEFINE u == P!Request(t)
<1>0. PGood(t) /\ t.current \in Place /\ t.slot[t.current] \in {"available", "request", "sending"}
  BY DEF PClean, PGood, PTx, HasWrong
<1>1. CASE frame = "large"
  <2>1. o = P!Outcome(t, "error")
    BY <1>1 DEF P!TrySend
  <2> QED
    BY <1>0, <2>1 DEF P!Outcome
<1>2. CASE frame # "large" /\ t.slot[t.current] \in {"request", "sending"}
  <2>1. o = P!Outcome(t, "full")
    BY <1>2 DEF P!TrySend
  <2> QED
    BY <1>0, <2>1 DEF P!Outcome
<1>3. CASE frame # "large" /\ t.slot[t.current] = "available"
  <2>1. PClean(u) /\ PGood(u)
    BY <1>3, PRequest DEF PClean, PGood
  <2>2. o \in IF u.pending < KickBatch THEN {P!Outcome(u, "sent")}
              ELSE {P!Outcome(f.tx, IF f.result = "error" THEN "error" ELSE "sent") : f \in P!FlushNow(u, faults)}
    BY <1>3 DEF P!TrySend
  <2> HIDE DEF u
  <2>3. CASE o = P!Outcome(u, "sent")
    BY <2>1, <2>3 DEF P!Outcome
  <2>4. CASE o \in {P!Outcome(f.tx, IF f.result = "error" THEN "error" ELSE "sent") : f \in P!FlushNow(u, faults)}
    <3>1. PICK f \in P!FlushNow(u, faults) :
             o = P!Outcome(f.tx, IF f.result = "error" THEN "error" ELSE "sent")
      BY <2>4
    <3>2. PGood(f.tx) /\ (f.result # "error" => PClean(f.tx))
      BY <2>1, <3>1, PFlushNow
    <3> QED
      BY <3>1, <3>2 DEF P!Outcome
  <2> QED
    BY <2>2, <2>3, <2>4
<1> QED
  BY <1>0, <1>1, <1>2, <1>3

\* A frame that was transmitted was not requested any more.
LEMMA PCompletes ==
  ASSUME NEW t, t \in PTx, NEW u \in P!Completes(t)
  PROVE  /\ PGood(t) => PGood(u)
         /\ PClean(t) => PClean(u)
         /\ u.pending = t.pending
         /\ \A i \in Place : u.slot[i] = "request" <=> t.slot[i] = "request"
<1>1. PICK i \in DOMAIN t.slot : t.slot[i] = "sending" /\ u = [t EXCEPT !.slot[i] = "available", !.ready = TRUE]
  BY DEF P!Completes
<1> DEFINE s == [t.slot EXCEPT ![i] = "available"]
<1>2. i \in Place /\ t.slot \in [Place -> {"available", "request", "sending", "wrong"}]
  BY <1>1 DEF PTx
<1>3. /\ s \in [Place -> {"available", "request", "sending", "wrong"}]
      /\ \A j \in Place : (s[j] = "request" <=> t.slot[j] = "request") /\ (s[j] = "wrong" <=> t.slot[j] = "wrong")
  BY <1>1, <1>2
<1>4. u = [t EXCEPT !.slot = s, !.ready = TRUE]
  BY <1>1 DEF PTx
<1> HIDE DEF s
<1>5. u \in PTx /\ u.slot = s /\ u.current = t.current /\ u.head = t.head /\ u.pending = t.pending
  BY <1>3, <1>4 DEF PTx
<1>6. HasWrong(u) <=> HasWrong(t)
  BY <1>3, <1>5 DEF HasWrong
<1>7. ASSUME NEW m PROVE Requesting(u, m) <=> Requesting(t, m)
  <2>1. \A k \in Place : P!Ahead(t.head, k, TxSlots) \in Place
    <3>1. \A k \in Place : k \in 0..TxSlots
      BY LinkAssumption DEF Place
    <3>2. t.head \in Place
      BY DEF PTx
    <3> QED
      BY <3>1, <3>2, SlotAhead
  <2> QED
    BY <1>3, <1>5, <2>1 DEF Requesting
<1>8. InARow(t) => InARow(u)
  <2>1. Unstuck(t) => Unstuck(u)
    BY <1>3, <1>5 DEF Unstuck
  <2> QED
    BY <1>7, <2>1 DEF InARow
<1> QED
  BY <1>3, <1>5, <1>6, <1>8 DEF PGood, PClean

\* The invariant says what Contiguous does.
LEMMA PContiguous ==
  ASSUME NEW t, PGood(t)
  PROVE  P!Contiguous(t)
<1> DEFINE behind == (t.current - t.head) % TxSlots
           waiting == {i \in DOMAIN t.slot : t.slot[i] = "request"}
<1>0. TxSlots \in Nat \ {0} /\ t \in PTx /\ t.head \in Place /\ DOMAIN t.slot = Place
  BY LinkAssumption DEF PGood, PTx
<1>1. CASE HasWrong(t)
  BY <1>0, <1>1 DEF HasWrong, P!Contiguous
<1>2. ASSUME NEW m \in 0..TxSlots, Requesting(t, m) PROVE P!Contiguous(t)
  <2>0. m \in 0..TxSlots /\ t.current = P!Ahead(t.head, m, TxSlots)
        /\ \A k \in Place : t.slot[P!Ahead(t.head, k, TxSlots)] = "request" <=> k < m
    BY <1>2 DEF Requesting
  <2>1. P!Requested(t) = m
    BY <1>0, <1>2, RequestedIs
  <2>2. behind = IF m = TxSlots THEN 0 ELSE m
    BY <1>0, <2>0, BehindIs DEF Place
  <2>3. waiting = {P!Ahead(t.head, k, TxSlots) : k \in 0..(m - 1)}
    <3>1. ASSUME NEW i \in waiting PROVE \E k \in 0..(m - 1) : i = P!Ahead(t.head, k, TxSlots)
      <4>1. PICK k \in 0..(TxSlots - 1) : i = P!Ahead(t.head, k, TxSlots)
        BY <1>0, AheadOnto DEF Place
      <4>2. k < m
        BY <2>0, <4>1 DEF Place
      <4>3. k \in 0..(m - 1)
        BY <2>0, <4>1, <4>2
      <4> QED
        BY <4>1, <4>3
    <3>2. ASSUME NEW k \in 0..(m - 1) PROVE P!Ahead(t.head, k, TxSlots) \in waiting
      <4>1. k \in Place /\ k \in 0..TxSlots /\ k < m
        BY <1>0, <2>0 DEF Place
      <4>2. P!Ahead(t.head, k, TxSlots) \in Place
        BY <1>0, <4>1, SlotAhead
      <4> QED
        BY <1>0, <2>0, <4>1, <4>2
    <3> QED
      BY <3>1, <3>2
  <2>4. m = TxSlots => waiting # {}
    <3>1. m = TxSlots => 0 \in 0..(m - 1)
      BY <1>0
    <3> QED
      BY <2>3, <3>1
  <2>5. m = 0 => waiting = {}
    BY <2>3
  <2>6. m = IF behind = 0 /\ waiting # {} THEN TxSlots ELSE behind
    <3> HIDE DEF behind, waiting
    <3> QED
      BY <1>0, <2>0, <2>2, <2>4, <2>5
  <2> QED
    BY <2>1, <2>3, <2>6 DEF P!Contiguous
<1> QED
  BY <1>1, <1>2 DEF PGood, InARow

-----------------------------------------------------------------------------
(* A transmitter's calls.                                                    *)

CallPlace == {"idle", "flushed", "try", "flush", "wake", "recv", "recv wait", "failed", "closed"} \cup Waiting
CallTypes == call \in [at : CallPlace, sending : BOOLEAN, retried : BOOLEAN]

\* A flush has emptied the program's own queue before it wakes the kernel at
\* its end, and nothing is left to tell when it returns.
XdpKept ==
  /\ XGood(tx)
  /\ call.at \in {"wake", "wake wait"} => tx.pending = 0
  /\ call.at = "flushed" => tx.pending = 0 /\ tx.wake = 0

\* A slot is rejected only in a call that fails, or in the last, at the drop.
PacketKept ==
  /\ PGood(tx)
  /\ call.at \notin {"failed", "closed"} => PClean(tx)
  /\ call.at = "flushed" => tx.pending = 0
  /\ call.at \notin {"wake", "wake wait"}

TxIInv ==
  /\ backend \in {"af-packet", "af-xdp", "rx"}
  /\ CallTypes
  /\ backend # "rx" => call.at \notin {"recv", "recv wait"}
  /\ backend = "rx" => call.at \in {"recv", "recv wait", "failed"}
  /\ backend = "af-xdp" => XdpKept
  /\ backend = "af-packet" => PacketKept

\* Transmitters as they are opened.
LEMMA XTxBuild ==
  ASSUME NEW a \in Nat, NEW b \in Nat, NEW c \in Nat, NEW d \in Nat, NEW e \in Nat, NEW n \in Nat
  PROVE  [free |-> a, pending |-> b, ring |-> c, done |-> d, wake |-> e, awake |-> FALSE, ready |-> TRUE,
          refusals |-> n] \in XTx
BY DEF XTx

LEMMA PTxBuild ==
  ASSUME NEW s \in [Place -> {"available", "request", "sending", "wrong"}], NEW i \in Place, NEW n \in Nat
  PROVE  [slot |-> s, current |-> i, pending |-> 0, head |-> i, ready |-> TRUE, refusals |-> n] \in PTx
BY DEF PTx

LEMMA TxInit == LinkInit => TxIInv
<1> SUFFICES ASSUME LinkInit PROVE TxIInv
  OBVIOUS
<1> USE DEF LinkInit, NoCall
<1>1. CallTypes /\ backend \in {"af-packet", "af-xdp", "rx"} /\ call.at = IF backend = "rx" THEN "recv" ELSE "idle"
  BY DEF CallTypes, CallPlace, Waiting
<1>2. ASSUME backend = "af-xdp" PROVE XdpKept
  <2>1. tx = X!Open(MaxRefusals)
    BY <1>2
  <2>2. tx \in XTx /\ tx.free = FrameCount /\ tx.pending = 0 /\ tx.ring = 0 /\ tx.done = 0
    <3>1. FrameCount \in Nat /\ MaxRefusals \in Nat /\ 0 \in Nat
      BY LinkAssumption
    <3> QED
      <4>1. tx = [free |-> FrameCount, pending |-> 0, ring |-> 0, done |-> 0, wake |-> 0, awake |-> FALSE,
                  ready |-> TRUE, refusals |-> MaxRefusals]
        BY <2>1 DEF X!Open
      <4>2. tx \in XTx
        BY <3>1, <4>1, XTxBuild
      <4> QED
        BY <4>1, <4>2
  <2>3. XGood(tx)
    BY <2>2, LinkAssumption DEF XGood, X!Accounted
  <2> QED
    BY <1>1, <1>2, <2>3 DEF XdpKept
<1>3. ASSUME backend = "af-packet" PROVE PacketKept
  <2>1. tx = P!Open(MaxRefusals)
    BY <1>3
  <2>2. TxSlots \in Nat \ {0} /\ 0 \in Place /\ 0 \in 0..TxSlots
    BY LinkAssumption DEF Place
  <2>3. tx \in PTx /\ tx.slot = [i \in Place |-> "available"] /\ tx.current = 0 /\ tx.head = 0 /\ tx.pending = 0
    <3>1. tx = [slot |-> [i \in Place |-> "available"], current |-> 0, pending |-> 0, head |-> 0,
                ready |-> TRUE, refusals |-> MaxRefusals]
      BY <2>1 DEF P!Open, Place
    <3>2. MaxRefusals \in Nat /\ 0 \in Nat
      BY LinkAssumption
    <3>3. [i \in Place |-> "available"] \in [Place -> {"available", "request", "sending", "wrong"}]
      OBVIOUS
    <3> QED
      <4>1. tx \in PTx
        BY <2>2, <3>1, <3>2, <3>3, PTxBuild
      <4> QED
        BY <3>1, <4>1
  <2>4. P!Ahead(0, 0, TxSlots) = 0
    BY <2>2, SlotAhead
  <2>5. \A k \in Place : P!Ahead(0, k, TxSlots) \in Place /\ ~(k < 0)
    <3>1. \A k \in Place : k \in 0..TxSlots /\ ~(k < 0)
      BY <2>2 DEF Place
    <3> QED
      BY <2>2, <3>1, SlotAhead
  <2>6. Requesting(tx, 0) /\ InARow(tx) /\ ~HasWrong(tx)
    <3>1. Unstuck(tx) /\ ~HasWrong(tx)
      BY <2>2, <2>3 DEF Unstuck, HasWrong
    <3>2. Requesting(tx, 0)
      BY <2>2, <2>3, <2>4, <2>5 DEF Requesting
    <3> QED
      BY <2>2, <3>1, <3>2 DEF InARow
  <2> QED
    BY <1>1, <1>3, <2>3, <2>6 DEF PacketKept, PGood, PClean
<1> QED
  BY <1>1, <1>2, <1>3 DEF TxIInv

\* Where a flush() returns to.
LEMMA FlushedIs ==
  ASSUME CallTypes
  PROVE  /\ Flushed \in [at : CallPlace, sending : BOOLEAN, retried : BOOLEAN]
         /\ Flushed.at \in {"flushed", "room", "try"}
BY DEF CallTypes, Flushed, NoCall, CallPlace, Waiting

\* Where a call is.
LEMMA AtIs ==
  ASSUME CallTypes, NEW place \in CallPlace
  PROVE  /\ At(place) \in [at : CallPlace, sending : BOOLEAN, retried : BOOLEAN]
         /\ At(place).at = place
BY DEF CallTypes, At

LEMMA PlacesIn ==
  /\ {"idle", "flushed", "try", "flush", "wake", "recv", "recv wait", "failed", "closed", "flush wait",
      "wake wait", "room"} = CallPlace
  /\ NoCall \in [at : CallPlace, sending : BOOLEAN, retried : BOOLEAN] /\ NoCall.at = "idle"
BY DEF CallPlace, Waiting, NoCall

Sends == backend' = backend /\ CallTypes' /\ call'.at \notin {"recv", "recv wait"}

\* A step of a worker that sends through AF_XDP, or of its kernel.
LEMMA XdpStep ==
  ASSUME TxIInv, backend = "af-xdp", LinkNext
  PROVE  Sends /\ XdpKept'
<1>0. CallTypes /\ XdpKept /\ XGood(tx) /\ call.at \notin {"recv", "recv wait"}
  BY DEF TxIInv, XdpKept
<1>1. CASE Give
  <2>0. PICK frame \in Frame : \E o \in TrySend(frame) :
          /\ tx' = o.tx
          /\ call' = CASE o.result = "sent" -> NoCall
                       [] o.result = "full" -> [NoCall EXCEPT !.at = "try", !.sending = TRUE]
                       [] o.result = "error" -> At("failed")
    BY <1>1 DEF Give
  <2>1. PICK o \in TrySend(frame) :
          /\ tx' = o.tx
          /\ call' = CASE o.result = "sent" -> NoCall
                       [] o.result = "full" -> [NoCall EXCEPT !.at = "try", !.sending = TRUE]
                       [] o.result = "error" -> At("failed")
    BY <2>0
  <2>2. frame \in {"fits", "large"} /\ o \in X!TrySend(tx, frame, KernelFails)
    BY <2>1 DEF Frame, TrySend
  <2>3. XGood(o.tx) /\ o.result \in {"sent", "full", "error"}
    BY <1>0, <2>2, XTrySend
  <2>4. call' \in {NoCall, [NoCall EXCEPT !.at = "try", !.sending = TRUE], At("failed")}
    BY <2>1, <2>3
  <2>5. CallTypes' /\ call'.at \in {"idle", "try", "failed"}
    BY AtIs, PlacesIn, <1>0, <2>4 DEF CallTypes, NoCall
  <2> QED
    BY <1>1, <2>1, <2>3, <2>5 DEF Give, Sends, XdpKept
<1>2. CASE Retry
  <2>1. PICK o \in TrySend("fits") :
          /\ tx' = o.tx
          /\ call' = At(CASE o.result = "sent" -> "idle" [] o.result = "full" -> "flush"
                          [] o.result = "error" -> "failed")
    BY <1>2 DEF Retry
  <2>2. XGood(o.tx) /\ o.result \in {"sent", "full", "error"}
    BY <1>0, <2>1, XTrySend DEF TrySend
  <2>3. call' \in {At("idle"), At("flush"), At("failed")}
    BY <2>1, <2>2
  <2>4. CallTypes' /\ call'.at \in {"idle", "flush", "failed"}
    <3>1. \A place \in {"idle", "flush", "failed"} :
             At(place) \in [at : CallPlace, sending : BOOLEAN, retried : BOOLEAN] /\ At(place).at = place
      BY AtIs, PlacesIn, <1>0
    <3> QED
      BY <2>3, <3>1 DEF CallTypes
  <2> QED
    BY <1>2, <2>1, <2>2, <2>4 DEF Retry, Sends, XdpKept
<1>3. CASE EndBurst
  <2>1. CallTypes' /\ call'.at = "flush"
    BY AtIs, PlacesIn, <1>3 DEF EndBurst, CallTypes, NoCall
  <2> QED
    BY <1>0, <1>3, <2>1 DEF EndBurst, Sends, XdpKept
<1>4. CASE Flush
  <2>1. PICK o \in FlushStep :
          /\ tx' = o.tx
          /\ call' = CASE o.result = "again" -> call
                       [] o.result = "wake" -> At("wake")
                       [] o.result = "wait" -> At("flush wait")
                       [] o.result = "done" -> Flushed
                       [] o.result = "error" -> At("failed")
    BY <1>4 DEF Flush
  <2>2. o \in X!FlushStep(tx, KernelFails)
    BY <2>1 DEF FlushStep
  <2>3. XGood(o.tx) /\ o.result \in {"wake", "again", "wait", "error"} /\ (o.result = "wake" => o.tx.pending = 0)
    BY <1>0, <2>2, XFlushStep
  <2>4. \/ call' = At("wake") /\ o.tx.pending = 0
        \/ call' \in {call, At("flush wait"), At("failed")}
    BY <2>1, <2>3
  <2>5. call.at = "flush" /\ backend' = backend
    BY <1>4 DEF Flush
  <2>6. CallTypes' /\ call'.at \in {"flush", "flush wait", "failed", "wake"}
        /\ (call'.at = "wake" => o.tx.pending = 0)
    BY AtIs, PlacesIn, <1>0, <2>4, <2>5 DEF CallTypes
  <2> QED
    BY <2>1, <2>3, <2>5, <2>6 DEF Sends, XdpKept
<1>5. CASE ForceWake
  <2>1. PICK o \in X!WakeStep(tx, KernelFails) :
          /\ tx' = o.tx
          /\ call' = CASE o.result = "done" -> Flushed
                       [] o.result = "wait" -> At("wake wait")
                       [] o.result = "error" -> At("failed")
    BY <1>5 DEF ForceWake
  <2>2. call.at = "wake" /\ tx.pending = 0 /\ backend' = backend
    BY <1>0, <1>5 DEF ForceWake, XdpKept
  <2>3. /\ XGood(o.tx) /\ o.tx.pending = 0 /\ o.result \in {"done", "wait", "error"}
        /\ o.result = "done" => o.tx.wake = 0
    BY <1>0, <2>1, <2>2, XWakeStep
  <2>4. \/ call' = Flushed /\ o.tx.wake = 0
        \/ call' \in {At("wake wait"), At("failed")}
    BY <2>1, <2>3
  <2>5. CallTypes' /\ call'.at \in {"flushed", "room", "try", "wake wait", "failed"}
        /\ (call'.at = "flushed" => o.tx.wake = 0)
    BY AtIs, PlacesIn, <1>0, <2>4, FlushedIs DEF CallTypes
  <2> QED
    BY <2>1, <2>2, <2>3, <2>5 DEF Sends, XdpKept
<1>6. CASE WaitWritable
  <2>1. /\ tx' = [tx EXCEPT !.ready = FALSE] /\ backend' = backend
        /\ call' \in {At("flush"), At("wake"), At("try")}
        /\ call' = At("wake") => call.at = "wake wait"
    <3>1. CASE call.at = "flush wait"
      BY AtIs, PlacesIn, <1>0, <1>6, <3>1 DEF WaitWritable
    <3>2. CASE call.at = "wake wait"
      BY <1>0, <1>6, <3>2 DEF WaitWritable
    <3>3. CASE call.at = "room"
      BY AtIs, PlacesIn, <1>0, <1>6, <3>3 DEF WaitWritable
    <3> QED
      BY <1>6, <3>1, <3>2, <3>3 DEF WaitWritable, Waiting
  <2>2. CallTypes' /\ call'.at \in {"flush", "wake", "try"} /\ (call'.at = "wake" => tx.pending = 0)
    <3>1. At("flush").at = "flush" /\ At("try").at = "try"
      BY AtIs, PlacesIn, <1>0
    <3>2. \A place \in {"flush", "wake", "try"} :
             At(place) \in [at : CallPlace, sending : BOOLEAN, retried : BOOLEAN] /\ At(place).at = place
      BY AtIs, PlacesIn, <1>0
    <3>3. call.at = "wake wait" => tx.pending = 0
      BY <1>0 DEF XdpKept
    <3>4. CallTypes'
      BY <2>1, <3>2 DEF CallTypes
    <3>5. call'.at \in {"flush", "wake", "try"}
      BY <2>1, <3>2
    <3>6. call'.at = "wake" => tx.pending = 0
      BY <2>1, <3>1, <3>3
    <3> QED
      BY <3>4, <3>5, <3>6
  <2>3. XGood(tx') /\ tx'.pending = tx.pending
    BY <1>0, <2>1 DEF XGood, XTx, X!Accounted
  <2> QED
    BY <2>1, <2>2, <2>3 DEF Sends, XdpKept
<1>7. CASE Close
  <2>1. tx' \in X!Drop(tx, KernelFails) /\ backend' = backend /\ call' = At("closed")
    BY <1>7 DEF Close
  <2>2. CallTypes' /\ call'.at = "closed"
    BY AtIs, PlacesIn, <1>0, <2>1 DEF CallTypes
  <2>3. XGood(tx')
    BY <1>0, <2>1, XDrop
  <2> QED
    BY <2>1, <2>2, <2>3 DEF Sends, XdpKept
<1>8. CASE Complete
  <2>1. \/ tx.ring > 0 /\ tx.done < RingCount /\ tx' = X!Transmitted(tx, 1)
        \/ tx' = X!Sleep(tx)
    BY <1>8 DEF Complete
  <2>2. /\ 1 \in Nat /\ tx.ring \in Nat /\ tx.done \in Nat /\ RingCount \in Nat
        /\ backend' = backend /\ call' = call
    BY <1>0, <1>8, LinkAssumption DEF Complete, XGood, XTx
  <2>3. XGood(tx') /\ tx'.pending = tx.pending /\ tx'.wake = tx.wake
    <3>1. CASE tx.ring > 0 /\ tx.done < RingCount /\ tx' = X!Transmitted(tx, 1)
      <4>1. 1 <= tx.ring /\ tx.done + 1 <= RingCount
        BY <2>2, <3>1
      <4> QED
        BY <1>0, <2>2, <3>1, <4>1, XTransmitted
    <3>2. CASE tx' = X!Sleep(tx)
      BY <1>0, <3>2 DEF X!Sleep, XGood, XTx, X!Accounted
    <3> QED
      BY <2>1, <3>1, <3>2
  <2> QED
    BY <1>0, <2>2, <2>3 DEF Sends, XdpKept, CallTypes
<1>9. CASE Recv \/ WaitReadable \/ Arrive \/ Done
  <2>1. UNCHANGED linkVars
    BY <1>0, <1>9 DEF Recv, WaitReadable, Arrive, Done
  <2> QED
    BY <1>0, <2>1 DEF linkVars, Sends, XdpKept, CallTypes
<1> QED
  BY <1>1, <1>2, <1>3, <1>4, <1>5, <1>6, <1>7, <1>8, <1>9 DEF LinkNext

\* A step of a worker that sends through AF_PACKET, or of its kernel.
LEMMA PacketStep ==
  ASSUME TxIInv, backend = "af-packet", LinkNext
  PROVE  Sends /\ PacketKept'
<1>0. /\ CallTypes /\ PacketKept /\ PGood(tx) /\ call.at \notin {"recv", "recv wait", "wake", "wake wait"}
      /\ call.at \notin {"failed", "closed"} => PClean(tx)
  BY DEF TxIInv, PacketKept
<1>1. CASE Give
  <2>0. PICK frame \in Frame : \E o \in TrySend(frame) :
          /\ tx' = o.tx
          /\ call' = CASE o.result = "sent" -> NoCall
                       [] o.result = "full" -> [NoCall EXCEPT !.at = "try", !.sending = TRUE]
                       [] o.result = "error" -> At("failed")
    BY <1>1 DEF Give
  <2>1. PICK o \in TrySend(frame) :
          /\ tx' = o.tx
          /\ call' = CASE o.result = "sent" -> NoCall
                       [] o.result = "full" -> [NoCall EXCEPT !.at = "try", !.sending = TRUE]
                       [] o.result = "error" -> At("failed")
    BY <2>0
  <2>2. o \in P!TrySend(tx, frame, KernelFails) /\ PClean(tx)
    BY <1>0, <1>1, <2>1 DEF TrySend, Give
  <2>3. PGood(o.tx) /\ o.result \in {"sent", "full", "error"} /\ (o.result # "error" => PClean(o.tx))
    BY <2>2, PTrySend
  <2>4. \/ call' \in {NoCall, [NoCall EXCEPT !.at = "try", !.sending = TRUE]} /\ PClean(o.tx)
        \/ call' = At("failed")
    BY <2>1, <2>3
  <2>5. CallTypes' /\ call'.at \in {"idle", "try", "failed"} /\ (call'.at # "failed" => PClean(o.tx))
    BY AtIs, PlacesIn, <1>0, <2>4 DEF CallTypes, NoCall
  <2> QED
    BY <1>1, <2>1, <2>3, <2>5 DEF Give, Sends, PacketKept
<1>2. CASE Retry
  <2>1. PICK o \in TrySend("fits") :
          /\ tx' = o.tx
          /\ call' = At(CASE o.result = "sent" -> "idle" [] o.result = "full" -> "flush"
                          [] o.result = "error" -> "failed")
    BY <1>2 DEF Retry
  <2>2. o \in P!TrySend(tx, "fits", KernelFails) /\ PClean(tx)
    BY <1>0, <1>2, <2>1 DEF TrySend, Retry
  <2>3. PGood(o.tx) /\ o.result \in {"sent", "full", "error"} /\ (o.result # "error" => PClean(o.tx))
    BY <2>2, PTrySend
  <2>4. \/ call' \in {At("idle"), At("flush")} /\ PClean(o.tx)
        \/ call' = At("failed")
    BY <2>1, <2>3
  <2>5. CallTypes' /\ call'.at \in {"idle", "flush", "failed"} /\ (call'.at # "failed" => PClean(o.tx))
    <3>1. \A place \in {"idle", "flush", "failed"} :
             At(place) \in [at : CallPlace, sending : BOOLEAN, retried : BOOLEAN] /\ At(place).at = place
      BY AtIs, PlacesIn, <1>0
    <3> QED
      BY <2>4, <3>1 DEF CallTypes
  <2> QED
    BY <1>2, <2>1, <2>3, <2>5 DEF Retry, Sends, PacketKept
<1>3. CASE EndBurst
  <2>1. CallTypes' /\ call'.at = "flush"
    BY AtIs, PlacesIn, <1>3 DEF EndBurst, CallTypes, NoCall
  <2> QED
    BY <1>0, <1>3, <2>1 DEF EndBurst, Sends, PacketKept
<1>4. CASE Flush
  <2>1. PICK o \in FlushStep :
          /\ tx' = o.tx
          /\ call' = CASE o.result = "again" -> call
                       [] o.result = "wake" -> At("wake")
                       [] o.result = "wait" -> At("flush wait")
                       [] o.result = "done" -> Flushed
                       [] o.result = "error" -> At("failed")
    BY <1>4 DEF Flush
  <2>2. PICK f \in P!FlushNow(tx, KernelFails) :
           o = P!Outcome(f.tx, IF f.result = "ok" THEN "done" ELSE f.result)
    BY <2>1 DEF FlushStep, P!FlushStep
  <2>3. PClean(tx) /\ backend' = backend
    BY <1>0, <1>4 DEF Flush
  <2>4. /\ PGood(f.tx) /\ f.result \in {"ok", "wait", "error"}
        /\ f.result # "error" => PClean(f.tx)
        /\ f.result = "ok" => f.tx.pending = 0
    BY <1>0, <2>2, <2>3, PFlushNow
  <2>5. o.tx = f.tx /\ o.result = IF f.result = "ok" THEN "done" ELSE f.result
    BY <2>2 DEF P!Outcome
  <2>6. \/ call' = Flushed /\ PClean(o.tx) /\ o.tx.pending = 0
        \/ call' = At("flush wait") /\ PClean(o.tx)
        \/ call' = At("failed")
    BY <2>1, <2>4, <2>5
  <2>7. /\ CallTypes' /\ call'.at \in {"flushed", "room", "try", "flush wait", "failed"}
        /\ call'.at # "failed" => PClean(o.tx)
        /\ call'.at = "flushed" => o.tx.pending = 0
    BY AtIs, PlacesIn, <1>0, <2>6, FlushedIs DEF CallTypes
  <2> QED
    BY <2>1, <2>3, <2>4, <2>5, <2>7 DEF Sends, PacketKept
<1>5. CASE WaitWritable
  <2>0. call.at \in {"flush wait", "room"} /\ PClean(tx)
    BY <1>0, <1>5 DEF WaitWritable, Waiting
  <2>1. tx' = [tx EXCEPT !.ready = FALSE] /\ backend' = backend /\ call' \in {At("flush"), At("try")}
    BY <1>5, <2>0 DEF WaitWritable
  <2>2. CallTypes' /\ call'.at \in {"flush", "try"}
    <3>1. \A place \in {"flush", "try"} :
             At(place) \in [at : CallPlace, sending : BOOLEAN, retried : BOOLEAN] /\ At(place).at = place
      BY AtIs, PlacesIn, <1>0
    <3> QED
      BY <2>1, <3>1 DEF CallTypes
  <2>3. PClean(tx') /\ PGood(tx')
    <3>1. tx' \in PTx /\ tx'.slot = tx.slot /\ tx'.current = tx.current /\ tx'.head = tx.head
          /\ tx'.pending = tx.pending
      BY <2>0, <2>1 DEF PClean, PTx
    <3>2. ~HasWrong(tx')
      BY <2>0, <3>1 DEF PClean, HasWrong
    <3>3. InARow(tx')
      BY <2>0, <3>1 DEF PClean, InARow, Requesting, Unstuck
    <3> QED
      BY <3>1, <3>2, <3>3 DEF PClean, PGood
  <2> QED
    BY <2>1, <2>2, <2>3 DEF Sends, PacketKept
<1>6. CASE Close
  <2>1. tx' \in P!Drop(tx, KernelFails) /\ backend' = backend /\ call' = At("closed")
    BY <1>6 DEF Close
  <2>2. CallTypes' /\ call'.at = "closed"
    BY AtIs, PlacesIn, <1>0, <2>1 DEF CallTypes
  <2>3. PICK f \in P!FlushNow(tx, KernelFails) : tx' = f.tx
    BY <2>1 DEF P!Drop
  <2>4. PGood(tx')
    BY <1>0, <2>3, PFlushNow
  <2> QED
    BY <2>1, <2>2, <2>4 DEF Sends, PacketKept
<1>7. CASE Complete
  <2>1. tx' \in P!Completes(tx) /\ backend' = backend /\ call' = call
    BY <1>7 DEF Complete
  <2>2. PGood(tx') /\ (PClean(tx) => PClean(tx')) /\ tx'.pending = tx.pending
    BY <1>0, <2>1, PCompletes DEF PGood
  <2> QED
    BY <1>0, <2>1, <2>2 DEF Sends, PacketKept, CallTypes
<1>8. CASE ForceWake
  BY <1>0, <1>8 DEF ForceWake
<1>9. CASE Recv \/ WaitReadable \/ Arrive \/ Done
  <2>1. UNCHANGED linkVars
    BY <1>0, <1>9 DEF Recv, WaitReadable, Arrive, Done
  <2> QED
    BY <1>0, <2>1 DEF linkVars, Sends, PacketKept, CallTypes
<1> QED
  BY <1>1, <1>2, <1>3, <1>4, <1>5, <1>6, <1>7, <1>8, <1>9 DEF LinkNext

\* Every step keeps the transmitters' invariant.
LEMMA TxStep ==
  ASSUME TxIInv, [LinkNext]_linkVars
  PROVE  TxIInv'
<1>1. CASE UNCHANGED linkVars
  BY <1>1 DEF linkVars, TxIInv, CallTypes, XdpKept, PacketKept
<1>2. CASE LinkNext /\ backend = "af-xdp"
  BY <1>2, XdpStep DEF Sends, TxIInv
<1>3. CASE LinkNext /\ backend = "af-packet"
  BY <1>3, PacketStep DEF Sends, TxIInv
<1>4. CASE LinkNext /\ backend = "rx"
  <2>0. CallTypes /\ call.at \in {"recv", "recv wait", "failed"}
    BY <1>4 DEF TxIInv
  <2>1. backend' = backend /\ call' \in {call, At("recv"), At("recv wait"), At("failed")}
    BY <1>4, <2>0 DEF LinkNext, Give, Retry, EndBurst, Flush, ForceWake, WaitWritable, Waiting, Close, Recv,
                      WaitReadable, Arrive, Complete, Done, linkVars
  <2>2. \A place \in {"recv", "recv wait", "failed"} :
           At(place) \in [at : CallPlace, sending : BOOLEAN, retried : BOOLEAN] /\ At(place).at = place
    BY AtIs, PlacesIn, <2>0
  <2>3. CallTypes' /\ call'.at \in {"recv", "recv wait", "failed"}
    BY <2>0, <2>1, <2>2 DEF CallTypes
  <2> QED
    BY <1>4, <2>1, <2>3 DEF TxIInv
<1>5. backend \in {"af-packet", "af-xdp", "rx"}
  BY DEF TxIInv
<1> QED
  BY <1>1, <1>2, <1>3, <1>4, <1>5

LEMMA TxInvariant == LinkSpec => []TxIInv
<1>1. LinkInit => TxIInv
  BY TxInit
<1>2. TxIInv /\ [LinkNext]_linkVars => TxIInv'
  BY TxStep
<1> QED
  BY <1>1, <1>2, PTL DEF LinkSpec

\* No frame is lost by a transmitter of either backend, for rings and batches
\* of any size, however often the kernel refuses or fails a call or takes only
\* part of what is requested: an AF_XDP frame is always in one place, the
\* requested slots of an AF_PACKET ring are those from the kernel's place on
\* and never all of them once nothing is pending, and when a flush has
\* returned nothing is pending and the AF_XDP kernel has been told of all
\* (afxdp.rs:41-80, 163-220; afpacket.rs:79-148).
THEOREM LinkAccountsFrames == LinkSpec => []FramesAccounted
<1>1. ASSUME TxIInv PROVE FramesAccounted
  <2>1. ASSUME backend = "af-xdp"
        PROVE  X!Accounted(tx) /\ (call.at = "flushed" => tx.pending = 0 /\ tx.wake = 0)
    BY <1>1, <2>1 DEF TxIInv, XdpKept, XGood
  <2>2. ASSUME backend = "af-packet"
        PROVE  P!Contiguous(tx) /\ P!NotStuck(tx) /\ (call.at = "flushed" => tx.pending = 0)
    <3>1. PGood(tx) /\ (call.at = "flushed" => tx.pending = 0)
      BY <1>1, <2>2 DEF TxIInv, PacketKept
    <3>2. P!Contiguous(tx)
      BY <3>1, PContiguous
    <3>3. DOMAIN tx.slot = Place /\ Unstuck(tx)
      BY <3>1 DEF PGood, PTx, HasWrong, InARow, Unstuck
    <3>4. P!NotStuck(tx)
      BY <3>3 DEF Unstuck, P!NotStuck
    <3> QED
      BY <3>1, <3>2, <3>4
  <2>3. call.at = "flushed" => backend # "rx"
    BY <1>1 DEF TxIInv
  <2>4. backend \in {"af-packet", "af-xdp", "rx"}
    BY <1>1 DEF TxIInv
  <2> QED
    BY <2>1, <2>2, <2>3, <2>4 DEF FramesAccounted
<1> QED
  BY <1>1, TxInvariant, PTL

-----------------------------------------------------------------------------
(* The receiver.                                                             *)

RxPlace == 0..(RxSlots - 1)
RxAt(k) == P!Ahead(rx.current, k, RxSlots)

RxTypes ==
  /\ rx \in [slot : [RxPlace -> Int], current : RxPlace, head : RxPlace, ready : BOOLEAN]
  /\ frames \in Nat /\ last \in 0..frames

\* The kernel has filled m slots, from the program's place to its own.
Filled(m) ==
  /\ m \in 0..RxSlots /\ rx.head = RxAt(m)
  /\ \A k \in RxPlace : rx.slot[RxAt(k)] # 0 <=> k < m

\* Frames are in the ring in the order they arrived, and after the last one
\* received.
InTurn ==
  \A j, k \in RxPlace :
    j < k /\ rx.slot[RxAt(j)] > 0 /\ rx.slot[RxAt(k)] > 0 => rx.slot[RxAt(j)] < rx.slot[RxAt(k)]

Newer == \A i \in RxPlace : rx.slot[i] > 0 => last < rx.slot[i] /\ rx.slot[i] <= frames

RxIInv ==
  backend = "rx" =>
    /\ CallTypes /\ RxTypes /\ Newer
    /\ call.at \in {"recv", "recv wait", "failed"}
    /\ call.at # "failed" => InTurn /\ \E m \in 0..RxSlots : Filled(m)

\* Places around the ring from the program's.
LEMMA RxAhead ==
  ASSUME RxTypes
  PROVE  /\ RxSlots \in Nat \ {0}
         /\ \A k \in 0..RxSlots :
              /\ RxAt(k) \in RxPlace
              /\ RxAt(k) = IF rx.current + k < RxSlots THEN rx.current + k ELSE rx.current + k - RxSlots
         /\ \A i \in RxPlace : \E k \in RxPlace : i = RxAt(k)
         /\ \A j, k \in RxPlace : RxAt(j) = RxAt(k) => j = k
         /\ RxPlace \subseteq 0..RxSlots
<1>1. RxSlots \in Nat \ {0} /\ rx.current \in RxPlace
  BY LinkAssumption DEF RxTypes
<1>2. ASSUME NEW k \in 0..RxSlots
      PROVE  /\ RxAt(k) \in RxPlace
             /\ RxAt(k) = IF rx.current + k < RxSlots THEN rx.current + k ELSE rx.current + k - RxSlots
  BY <1>1, AheadIs DEF RxAt, RxPlace
<1>3. ASSUME NEW i \in RxPlace PROVE \E k \in RxPlace : i = RxAt(k)
  BY <1>1, AheadOnto DEF RxAt, RxPlace
<1>4. ASSUME NEW j \in RxPlace, NEW k \in RxPlace, RxAt(j) = RxAt(k) PROVE j = k
  BY <1>1, <1>4, AheadOnce DEF RxAt, RxPlace
<1>5. RxPlace \subseteq 0..RxSlots
  BY <1>1 DEF RxPlace
<1> QED
  BY <1>1, <1>2, <1>3, <1>4, <1>5

\* One place further on.
LEMMA AheadNext ==
  ASSUME NEW N \in Nat \ {0}, NEW c \in 0..(N - 1), NEW k \in 0..(N - 1)
  PROVE  /\ P!Next(c, N) \in 0..(N - 1) /\ P!Next(c, N) = P!Ahead(c, 1, N)
         /\ P!Ahead(P!Next(c, N), k, N) = P!Ahead(c, k + 1, N)
         /\ P!Ahead(c, N, N) = c /\ P!Ahead(c, 0, N) = c
         /\ P!Next(P!Ahead(c, k, N), N) = P!Ahead(c, k + 1, N)
<1> DEFINE d == P!Next(c, N)
<1>1. d = (IF c + 1 = N THEN 0 ELSE c + 1) /\ d \in 0..(N - 1)
  BY DEF P!Next
<1> HIDE DEF d
<1>2. 1 \in 0..N /\ k \in 0..N /\ k + 1 \in 0..N /\ N \in 0..N /\ 0 \in 0..N
  OBVIOUS
<1>3. P!Ahead(c, 1, N) = IF c + 1 < N THEN c + 1 ELSE c + 1 - N
  BY <1>2, AheadIs
<1>4. P!Ahead(d, k, N) = IF d + k < N THEN d + k ELSE d + k - N
  BY <1>1, <1>2, AheadIs
<1>5. P!Ahead(c, k + 1, N) = IF c + (k + 1) < N THEN c + (k + 1) ELSE c + (k + 1) - N
  BY <1>2, AheadIs
<1>6. P!Ahead(c, N, N) = IF c + N < N THEN c + N ELSE c + N - N
  BY <1>2, AheadIs
<1>7. P!Ahead(c, 0, N) = IF c + 0 < N THEN c + 0 ELSE c + 0 - N
  BY <1>2, AheadIs
<1>8. P!Ahead(c, k, N) = IF c + k < N THEN c + k ELSE c + k - N
  BY <1>2, AheadIs
<1>9. P!Next(P!Ahead(c, k, N), N) = IF P!Ahead(c, k, N) + 1 = N THEN 0 ELSE P!Ahead(c, k, N) + 1
  BY DEF P!Next
<1>10. d = P!Ahead(c, 1, N)
  BY <1>1, <1>3
<1>11. P!Ahead(d, k, N) = P!Ahead(c, k + 1, N)
  BY <1>1, <1>4, <1>5
<1>12. P!Ahead(c, N, N) = c /\ P!Ahead(c, 0, N) = c
  BY <1>6, <1>7
<1>13. P!Next(P!Ahead(c, k, N), N) = P!Ahead(c, k + 1, N)
  BY <1>5, <1>8, <1>9
<1> QED
  BY <1>1, <1>10, <1>11, <1>12, <1>13 DEF d

LEMMA RxInit == LinkInit => RxIInv
<1> SUFFICES ASSUME LinkInit PROVE RxIInv
  OBVIOUS
<1>1. CallTypes
  BY TxInit DEF TxIInv
<1>2. ASSUME backend = "rx"
      PROVE  RxTypes /\ Newer /\ call.at = "recv" /\ InTurn /\ \E m \in 0..RxSlots : Filled(m)
  <2>1. rx = P!OpenRx /\ frames = 0 /\ last = 0 /\ call.at = "recv" /\ RxSlots \in Nat \ {0}
    BY <1>2, LinkAssumption DEF LinkInit, NoCall
  <2>2. 0 \in RxPlace /\ 0 \in 0..RxSlots /\ 0 \in Int
    BY <2>1 DEF RxPlace
  <2>3. rx.slot = [i \in RxPlace |-> 0] /\ rx.current = 0 /\ rx.head = 0 /\ RxTypes
    <3>1. rx = [slot |-> [i \in RxPlace |-> 0], current |-> 0, head |-> 0, ready |-> FALSE]
      BY <2>1 DEF P!OpenRx, RxPlace
    <3>2. [i \in RxPlace |-> 0] \in [RxPlace -> Int]
      BY <2>2
    <3> DEFINE s == [i \in RxPlace |-> 0]
    <3> HIDE DEF s
    <3>3. rx \in [slot : [RxPlace -> Int], current : RxPlace, head : RxPlace, ready : BOOLEAN]
      BY <2>2, <3>1, <3>2 DEF s
    <3> QED
      BY <2>1, <3>1, <3>3 DEF RxTypes
  <2>4. \A k \in RxPlace : RxAt(k) \in RxPlace /\ ~(k < 0)
    BY <2>1, <2>3, RxAhead DEF RxPlace
  <2>5. RxAt(0) = 0
    BY <2>1, <2>2, <2>3, RxAhead
  <2>6. Filled(0) /\ InTurn /\ Newer
    BY <2>2, <2>3, <2>4, <2>5 DEF Filled, InTurn, Newer
  <2> QED
    BY <2>1, <2>2, <2>3, <2>6
<1> QED
  BY <1>1, <1>2 DEF RxIInv

\* The program takes the oldest frame.
LEMMA RxTaken ==
  ASSUME RxTypes, Newer, InTurn, NEW m \in 0..RxSlots, Filled(m), rx.slot[rx.current] > 0,
         rx' = [rx EXCEPT !.slot[rx.current] = 0, !.current = P!Next(rx.current, RxSlots)],
         last' = rx.slot[rx.current], frames' = frames
  PROVE  RxTypes' /\ Newer' /\ InTurn' /\ (\E n \in 0..RxSlots : Filled(n))'
<1> DEFINE N == RxSlots
           c == rx.current
           a(k) == RxAt(k)
           s == [rx.slot EXCEPT ![c] = 0]
           d == P!Next(c, N)
<1>0. /\ N \in Nat \ {0} /\ c \in RxPlace /\ c \in 0..(N - 1) /\ rx.slot \in [RxPlace -> Int]
      /\ frames \in Nat /\ last \in 0..frames
  BY RxAhead DEF RxTypes, RxPlace
<1>1. d \in RxPlace /\ \A k \in RxPlace : P!Ahead(d, k, N) = a(k + 1)
  BY <1>0, AheadNext DEF RxAt, RxPlace
<1>2. a(0) = c /\ a(N) = c
  <2>1. 0 \in 0..(N - 1)
    BY <1>0
  <2> QED
    BY <1>0, <2>1, AheadNext DEF RxAt
<1>3. s \in [RxPlace -> Int] /\ s[c] = 0 /\ \A i \in RxPlace : i # c => s[i] = rx.slot[i]
  BY <1>0
<1>4. rx' = [rx EXCEPT !.slot = s, !.current = d]
  BY DEF RxTypes
<1>5. rx'.slot = s /\ rx'.current = d /\ rx'.head = rx.head
      /\ rx' \in [slot : [RxPlace -> Int], current : RxPlace, head : RxPlace, ready : BOOLEAN]
  <2> HIDE DEF s, d
  <2> QED
    BY <1>1, <1>3, <1>4 DEF RxTypes
<1>6. \A k \in RxPlace : RxAt(k)' = a(k + 1)
  BY <1>1, <1>5 DEF RxAt
<1>7. 0 \in RxPlace /\ \A k \in RxPlace : a(k) \in RxPlace /\ (k # 0 => a(k) # c)
  <2>1. 0 \in RxPlace
    BY <1>0 DEF RxPlace
  <2> QED
    BY <1>2, <2>1, RxAhead
<1>8. m > 0 /\ m \in Nat /\ m <= N
  <2>1. rx.slot[a(0)] # 0
    BY <1>0, <1>2
  <2> QED
    BY <1>0, <1>7, <2>1 DEF Filled
<1> HIDE DEF s, d, a
<1>9. RxTypes'
  <2>1. last' \in 0..frames'
    BY <1>0 DEF Newer
  <2> QED
    BY <1>0, <1>5, <2>1 DEF RxTypes
<1>10. Newer'
  <2>1. ASSUME NEW i \in RxPlace, s[i] > 0 PROVE rx.slot[c] < s[i] /\ s[i] <= frames
    <3>1. i # c /\ s[i] = rx.slot[i]
      BY <1>3, <2>1
    <3>2. PICK k \in RxPlace : i = a(k)
      BY RxAhead DEF a
    <3>3. 0 < k
      BY <1>2, <3>1, <3>2 DEF RxPlace
    <3>4. rx.slot[a(0)] < rx.slot[a(k)]
      BY <1>2, <1>7, <2>1, <3>1, <3>2, <3>3 DEF InTurn, a
    <3> QED
      BY <1>2, <2>1, <3>1, <3>2, <3>4 DEF Newer
  <2> QED
    BY <1>5, <2>1 DEF Newer
<1>11. \A k \in RxPlace : s[a(k + 1)] = IF k + 1 < N THEN rx.slot[a(k + 1)] ELSE 0
  <2>1. ASSUME NEW k \in RxPlace PROVE s[a(k + 1)] = IF k + 1 < N THEN rx.slot[a(k + 1)] ELSE 0
    <3>1. CASE k + 1 < N
      <4>1. k + 1 \in RxPlace /\ k + 1 # 0
        BY <1>0, <3>1 DEF RxPlace
      <4> QED
        BY <1>3, <1>7, <3>1, <4>1
    <3>2. CASE ~(k + 1 < N)
      <4>1. k + 1 = N
        BY <1>0, <3>2 DEF RxPlace
      <4> QED
        BY <1>2, <1>3, <3>2, <4>1
    <3> QED
      BY <3>1, <3>2
  <2> QED
    BY <2>1
<1>12. InTurn'
  <2>1. ASSUME NEW j \in RxPlace, NEW k \in RxPlace, j < k, s[a(j + 1)] > 0, s[a(k + 1)] > 0
        PROVE  s[a(j + 1)] < s[a(k + 1)]
    <3>1. k + 1 < N /\ j + 1 < N
      BY <1>0, <1>11, <2>1 DEF RxPlace
    <3>2. k + 1 \in RxPlace /\ j + 1 \in RxPlace /\ j + 1 < k + 1
      BY <1>0, <2>1, <3>1 DEF RxPlace
    <3>3. s[a(j + 1)] = rx.slot[a(j + 1)] /\ s[a(k + 1)] = rx.slot[a(k + 1)]
      BY <1>11, <3>1
    <3> QED
      BY <2>1, <3>2, <3>3 DEF InTurn, a
  <2> QED
    BY <1>5, <1>6, <2>1 DEF InTurn
<1>13. Filled(m - 1)'
  <2>1. m - 1 \in 0..RxSlots /\ m - 1 \in RxPlace /\ (m - 1) + 1 = m
    BY <1>0, <1>8 DEF RxPlace
  <2>2. RxAt(m - 1)' = a(m)
    BY <1>6, <2>1
  <2>3. ASSUME NEW k \in RxPlace PROVE s[a(k + 1)] # 0 <=> k < m - 1
    <3>1. CASE k + 1 < N
      <4>1. k + 1 \in RxPlace
        BY <1>0, <3>1 DEF RxPlace
      <4>2. rx.slot[a(k + 1)] # 0 <=> k + 1 < m
        BY <4>1 DEF Filled, a
      <4>3. k + 1 < m <=> k < m - 1
        BY <1>8 DEF RxPlace
      <4> QED
        BY <1>11, <3>1, <4>2, <4>3
    <3>2. CASE ~(k + 1 < N)
      <4>1. ~(k < m - 1)
        BY <1>0, <1>8, <3>2 DEF RxPlace
      <4> QED
        BY <1>11, <3>2, <4>1
    <3> QED
      BY <3>1, <3>2
  <2> QED
    BY <1>5, <1>6, <2>1, <2>2, <2>3 DEF Filled, a
<1> QED
  BY <1>0, <1>8, <1>9, <1>10, <1>12, <1>13

\* The kernel fills the slot at its place, or finds the ring full.
LEMMA RxArrived ==
  ASSUME RxTypes, Newer, NEW frame \in {frames + 1, -(frames + 1)},
         rx' = P!Arrive(rx, frame), frames' = frames + 1, last' = last
  PROVE  /\ RxTypes' /\ Newer'
         /\ InTurn /\ (\E m \in 0..RxSlots : Filled(m)) => InTurn' /\ (\E m \in 0..RxSlots : Filled(m))'
<1> DEFINE N == RxSlots
           h == rx.head
           a(k) == RxAt(k)
           s == [rx.slot EXCEPT ![h] = frame]
           d == P!Next(h, N)
<1>0. /\ N \in Nat \ {0} /\ h \in RxPlace /\ rx.current \in RxPlace /\ rx.slot \in [RxPlace -> Int]
      /\ frames \in Nat /\ last \in 0..frames /\ frame \in Int /\ frame # 0 /\ frames + 1 \in Nat
  BY RxAhead DEF RxTypes
<1>1. last' \in 0..frames'
  BY <1>0
<1>2. \A i \in RxPlace : rx.slot[i] > 0 => last < rx.slot[i] /\ rx.slot[i] <= frames + 1
  BY <1>0 DEF Newer
<1>3. CASE rx.slot[h] # 0
  <2>1. rx' = rx
    BY <1>3 DEF P!Arrive
  <2>2. RxTypes' /\ Newer' /\ (InTurn => InTurn')
    BY <1>0, <1>1, <1>2, <2>1 DEF RxTypes, Newer, InTurn, RxAt
  <2>3. ASSUME NEW m \in 0..RxSlots, Filled(m) PROVE Filled(m)'
    BY <2>1, <2>3 DEF Filled, RxAt
  <2> QED
    BY <2>2, <2>3
<1>4. CASE rx.slot[h] = 0
  <2>1. d \in RxPlace
    BY <1>0, AheadNext DEF RxPlace
  <2>2. s \in [RxPlace -> Int] /\ s[h] = frame /\ \A i \in RxPlace : i # h => s[i] = rx.slot[i]
    BY <1>0
  <2>3. rx' = [rx EXCEPT !.slot = s, !.head = d, !.ready = TRUE]
    BY <1>4 DEF P!Arrive, RxTypes
  <2>4. rx'.slot = s /\ rx'.current = rx.current /\ rx'.head = d
        /\ rx' \in [slot : [RxPlace -> Int], current : RxPlace, head : RxPlace, ready : BOOLEAN]
    <3> HIDE DEF s, d
    <3> QED
      BY <2>1, <2>2, <2>3 DEF RxTypes
  <2>5. \A k : RxAt(k)' = a(k)
    BY <2>4 DEF RxAt
  <2> HIDE DEF s, d, a
  <2>6. RxTypes'
    BY <1>0, <1>1, <2>4 DEF RxTypes
  <2>7. Newer'
    <3>1. ASSUME NEW i \in RxPlace, s[i] > 0 PROVE last < s[i] /\ s[i] <= frames + 1
      <4>1. CASE i = h
        BY <1>0, <2>2, <3>1, <4>1
      <4>2. CASE i # h
        BY <1>2, <2>2, <3>1, <4>2
      <4> QED
        BY <4>1, <4>2
    <3> QED
      BY <2>4, <3>1 DEF Newer
  <2>8. ASSUME InTurn, NEW m \in 0..RxSlots, Filled(m) PROVE InTurn' /\ (\E n \in 0..RxSlots : Filled(n))'
    <3>1. h = a(m) /\ \A k \in RxPlace : rx.slot[a(k)] # 0 <=> k < m
      BY <2>8 DEF Filled, a
    <3>2. 0 \in RxPlace /\ a(0) = rx.current /\ a(N) = rx.current
      <4>1. 0 \in 0..(N - 1) /\ rx.current \in 0..(N - 1)
        BY <1>0 DEF RxPlace
      <4> QED
        BY <1>0, <4>1, AheadNext DEF a, RxAt, RxPlace
    <3>3. m \in RxPlace
      <4>1. m # N
        <5>1. ASSUME m = N PROVE FALSE
          <6>1. 0 < m
            BY <1>0, <5>1
          <6>2. rx.slot[a(0)] # 0
            BY <3>1, <3>2, <6>1
          <6> QED
            BY <1>4, <3>1, <3>2, <5>1, <6>2
        <5> QED
          BY <5>1
      <4> QED
        BY <1>0, <4>1 DEF RxPlace
    <3>4. \A k \in RxPlace : a(k) \in RxPlace /\ (a(k) = h => k = m)
      BY <3>1, <3>3, RxAhead DEF a
    <3>5. ASSUME NEW k \in RxPlace PROVE s[a(k)] = IF k = m THEN frame ELSE rx.slot[a(k)]
      BY <2>2, <3>1, <3>4
    <3>6. InTurn'
      <4>1. ASSUME NEW j \in RxPlace, NEW k \in RxPlace, j < k, s[a(j)] > 0, s[a(k)] > 0
            PROVE  s[a(j)] < s[a(k)]
        <5>1. CASE k = m
          <6>1. j # m /\ s[a(j)] = rx.slot[a(j)] /\ s[a(k)] = frame
            BY <3>5, <4>1, <5>1 DEF RxPlace
          <6>2. rx.slot[a(j)] <= frames
            BY <3>4, <4>1, <6>1 DEF Newer
          <6>3. rx.slot[a(j)] \in Int
            BY <1>0, <3>4
          <6> QED
            BY <1>0, <4>1, <6>1, <6>2, <6>3
        <5>2. CASE k # m
          <6>1. s[a(k)] = rx.slot[a(k)] /\ k < m
            <7>1. s[a(k)] = rx.slot[a(k)]
              BY <3>5, <5>2
            <7> QED
              BY <3>1, <4>1, <7>1
          <6>2. j # m
            BY <3>3, <4>1, <6>1 DEF RxPlace
          <6>3. s[a(j)] = rx.slot[a(j)]
            BY <3>5, <6>2
          <6> QED
            BY <2>8, <4>1, <6>1, <6>3 DEF InTurn, a
        <5> QED
          BY <5>1, <5>2
      <4> QED
        BY <2>4, <2>5, <4>1 DEF InTurn
    <3>7. Filled(m + 1)' /\ m + 1 \in 0..RxSlots
      <4>1. m + 1 \in 0..RxSlots
        BY <1>0, <3>3 DEF RxPlace
      <4>2. d = a(m + 1)
        <5>1. rx.current \in 0..(N - 1) /\ m \in 0..(N - 1)
          BY <1>0, <3>3 DEF RxPlace
        <5>2. P!Next(P!Ahead(rx.current, m, N), N) = P!Ahead(rx.current, m + 1, N)
          BY <1>0, <5>1, AheadNext
        <5>3. h = P!Ahead(rx.current, m, N)
          BY <3>1 DEF a, RxAt
        <5> QED
          BY <5>2, <5>3 DEF a, d, RxAt
      <4>3. ASSUME NEW k \in RxPlace PROVE s[a(k)] # 0 <=> k < m + 1
        <5>1. CASE k = m
          BY <1>0, <3>3, <3>5, <5>1 DEF RxPlace
        <5>2. CASE k # m
          <6>1. k < m <=> k < m + 1
            BY <3>3, <5>2 DEF RxPlace
          <6> QED
            BY <3>1, <3>5, <5>2, <6>1
        <5> QED
          BY <5>1, <5>2
      <4> QED
        BY <2>4, <2>5, <4>1, <4>2, <4>3 DEF Filled
    <3> QED
      BY <3>6, <3>7
  <2> QED
    BY <2>6, <2>7, <2>8
<1> QED
  BY <1>3, <1>4

\* A frame with invalid bounds goes back to the kernel, and reception ends.
LEMMA RxRejected ==
  ASSUME RxTypes, Newer, rx' = [rx EXCEPT !.slot[rx.current] = 0], last' = last, frames' = frames
  PROVE  RxTypes' /\ Newer'
<1> DEFINE s == [rx.slot EXCEPT ![rx.current] = 0]
<1>1. s \in [RxPlace -> Int] /\ \A i \in RxPlace : s[i] > 0 => s[i] = rx.slot[i]
  BY DEF RxTypes
<1>2. rx' = [rx EXCEPT !.slot = s]
  BY DEF RxTypes
<1> HIDE DEF s
<1>3. RxTypes' /\ rx'.slot = s
  BY <1>1, <1>2 DEF RxTypes
<1>4. Newer'
  BY <1>1, <1>3 DEF Newer
<1> QED
  BY <1>3, <1>4

\* What recv() finds at its place, and what it does with it.
LEMMA ReceiveIs ==
  ASSUME RxTypes, Recv
  PROVE  /\ call.at = "recv" /\ frames' = frames /\ backend' = backend
         /\ \/ rx' = rx /\ last' = last /\ call' = At("recv wait")
            \/ rx' = [rx EXCEPT !.slot[rx.current] = 0] /\ last' = last /\ call' = At("failed")
            \/ /\ rx.slot[rx.current] > 0
               /\ rx' = [rx EXCEPT !.slot[rx.current] = 0, !.current = P!Next(rx.current, RxSlots)]
               /\ last' = rx.slot[rx.current] /\ call' = call
<1> DEFINE frame == rx.slot[rx.current]
           taken == [rx EXCEPT !.slot[rx.current] = 0, !.current = P!Next(rx.current, RxSlots)]
           rejected == [rx EXCEPT !.slot[rx.current] = 0]
           o == P!TryRecv(rx)
<1>1. call.at = "recv" /\ frames' = frames /\ backend' = backend /\ frame \in Int
  BY DEF Recv, RxTypes
<1>2. rx' = o.rx
  BY DEF Recv
<1>3. call' = CASE o.got = 0 -> At("recv wait") [] o.got < 0 -> At("failed") [] OTHER -> call
  BY DEF Recv
<1>4. last' = IF o.got > 0 THEN o.got ELSE last
  BY DEF Recv
<1>5. /\ frame = 0 => o.rx = rx /\ o.got = 0
      /\ frame < 0 => o.rx = rejected /\ o.got = frame
      /\ frame > 0 => o.rx = taken /\ o.got = frame
  BY <1>1 DEF P!TryRecv
<1> HIDE DEF frame, taken, rejected, o
<1>6. frame = 0 \/ frame < 0 \/ frame > 0
  BY <1>1
<1>7. CASE frame = 0
  <2>1. rx' = rx /\ last' = last
    BY <1>2, <1>4, <1>5, <1>7
  <2>2. call' = At("recv wait")
    <3>1. o.got = 0 /\ ~(o.got < 0)
      BY <1>5, <1>7
    <3> QED
      BY <1>3, <3>1, ZenonT(30)
  <2> QED
    BY <1>1, <2>1, <2>2
<1>8. CASE frame < 0
  <2>1. rx' = rejected /\ last' = last
    BY <1>1, <1>2, <1>4, <1>5, <1>8
  <2>2. call' = At("failed")
    <3>1. o.got # 0 /\ o.got < 0
      BY <1>1, <1>5, <1>8
    <3> QED
      BY <1>3, <3>1, ZenonT(30)
  <2> QED
    BY <1>1, <2>1, <2>2 DEF rejected
<1>9. CASE frame > 0
  <2>1. rx' = taken /\ last' = frame
    BY <1>1, <1>2, <1>4, <1>5, <1>9
  <2>2. call' = call
    <3>1. o.got # 0 /\ ~(o.got < 0)
      BY <1>1, <1>5, <1>9
    <3> QED
      BY <1>3, <3>1, ZenonT(30)
  <2> QED
    BY <1>1, <1>9, <2>1, <2>2 DEF taken, frame
<1> QED
  BY <1>6, <1>7, <1>8, <1>9

\* Every step keeps the receiver's invariant, also one that ends reception.
LEMMA RxStep ==
  ASSUME RxIInv, [LinkNext]_linkVars
  PROVE  RxIInv'
<1>0. backend' = backend
  BY DEF LinkNext, Give, Retry, EndBurst, Flush, ForceWake, WaitWritable, Close, Recv, WaitReadable, Arrive,
         Complete, Done, linkVars
<1> SUFFICES ASSUME backend = "rx"
             PROVE  /\ CallTypes' /\ RxTypes' /\ Newer'
                    /\ call'.at \in {"recv", "recv wait", "failed"}
                    /\ call'.at # "failed" => InTurn' /\ (\E m \in 0..RxSlots : Filled(m))'
  BY <1>0 DEF RxIInv
<1>1. /\ CallTypes /\ RxTypes /\ Newer /\ call.at \in {"recv", "recv wait", "failed"}
      /\ call.at # "failed" => InTurn /\ \E m \in 0..RxSlots : Filled(m)
  BY DEF RxIInv
<1>2. \A place \in {"recv", "recv wait", "failed"} :
         At(place) \in [at : CallPlace, sending : BOOLEAN, retried : BOOLEAN] /\ At(place).at = place
  BY <1>1, AtIs, PlacesIn
<1>3. \/ UNCHANGED linkVars \/ Recv \/ WaitReadable \/ Arrive
  BY <1>1 DEF LinkNext, Give, Retry, EndBurst, Flush, ForceWake, WaitWritable, Waiting, Close, Complete, Done
<1>4. ASSUME rx' = rx, frames' = frames, last' = last
      PROVE  /\ RxTypes' /\ Newer'
             /\ InTurn /\ (\E m \in 0..RxSlots : Filled(m)) => InTurn' /\ (\E m \in 0..RxSlots : Filled(m))'
  BY <1>1, <1>4 DEF RxTypes, Newer, InTurn, Filled, RxAt
<1>5. CASE UNCHANGED linkVars
  BY <1>1, <1>4, <1>5 DEF linkVars, CallTypes
<1>6. CASE WaitReadable
  <2>1. rx' = [rx EXCEPT !.ready = FALSE] /\ UNCHANGED <<frames, last>> /\ call' = At("recv") /\ call.at = "recv wait"
    BY <1>6 DEF WaitReadable
  <2>2. rx'.slot = rx.slot /\ rx'.current = rx.current /\ rx'.head = rx.head /\ RxTypes'
    BY <1>1, <2>1 DEF RxTypes
  <2>3. Newer' /\ InTurn' /\ (\E m \in 0..RxSlots : Filled(m))'
    BY <1>1, <2>1, <2>2 DEF Newer, InTurn, Filled, RxAt
  <2> QED
    BY <1>2, <2>1, <2>2, <2>3 DEF CallTypes
<1>7. CASE Arrive
  <2>1. PICK frame \in {frames', -frames'} : rx' = P!Arrive(rx, frame)
    BY <1>7 DEF Arrive
  <2>2. frames' = frames + 1 /\ last' = last /\ call' = call
    BY <1>7 DEF Arrive
  <2> QED
    BY <1>1, <2>1, <2>2, RxArrived DEF CallTypes
<1>8. CASE Recv
  <2>0. frames' = frames /\ call.at = "recv" /\ InTurn /\ \E m \in 0..RxSlots : Filled(m)
    BY <1>1, <1>8, ReceiveIs
  <2>1. CASE rx' = rx /\ last' = last /\ call' = At("recv wait")
    BY <1>2, <1>4, <2>0, <2>1 DEF CallTypes
  <2>2. CASE rx' = [rx EXCEPT !.slot[rx.current] = 0] /\ last' = last /\ call' = At("failed")
    BY <1>1, <1>2, <2>0, <2>2, RxRejected DEF CallTypes
  <2>3. CASE /\ rx.slot[rx.current] > 0
             /\ rx' = [rx EXCEPT !.slot[rx.current] = 0, !.current = P!Next(rx.current, RxSlots)]
             /\ last' = rx.slot[rx.current] /\ call' = call
    <3>1. PICK m \in 0..RxSlots : Filled(m)
      BY <2>0
    <3>2. RxTypes' /\ Newer' /\ InTurn' /\ (\E n \in 0..RxSlots : Filled(n))'
      BY <1>1, <2>0, <2>3, <3>1, RxTaken
    <3> QED
      BY <1>1, <2>3, <3>2 DEF CallTypes
  <2> QED
    BY <1>1, <1>8, <2>1, <2>2, <2>3, ReceiveIs
<1> QED
  BY <1>3, <1>5, <1>6, <1>7, <1>8

\* The invariant says what RxInStep does.
LEMMA FilledIsInStep ==
  ASSUME RxTypes, NEW m \in 0..RxSlots, Filled(m)
  PROVE  P!RxInStep(rx)
<1> DEFINE N == RxSlots
           c == rx.current
           filled == {i \in DOMAIN rx.slot : rx.slot[i] # 0}
           behind == (rx.head - c) % N
<1>0. N \in Nat \ {0} /\ c \in 0..(N - 1) /\ DOMAIN rx.slot = 0..(N - 1) /\ m \in 0..N
  BY RxAhead DEF RxTypes, RxPlace
<1>1. rx.head = P!Ahead(c, m, N) /\ \A k \in 0..(N - 1) : rx.slot[P!Ahead(c, k, N)] # 0 <=> k < m
  BY DEF Filled, RxAt, RxPlace
<1>2. behind = IF m = N THEN 0 ELSE m
  BY <1>0, <1>1, BehindIs
<1>3. filled = {P!Ahead(c, k, N) : k \in 0..(m - 1)}
  <2>1. ASSUME NEW i \in filled PROVE \E k \in 0..(m - 1) : i = P!Ahead(c, k, N)
    <3>1. PICK k \in 0..(N - 1) : i = P!Ahead(c, k, N)
      BY <1>0, AheadOnto
    <3>2. k < m
      BY <1>1, <3>1
    <3>3. k \in 0..(m - 1)
      BY <1>0, <3>1, <3>2
    <3> QED
      BY <3>1, <3>3
  <2>2. ASSUME NEW k \in 0..(m - 1) PROVE P!Ahead(c, k, N) \in filled
    <3>1. k \in 0..(N - 1) /\ k \in 0..N /\ k < m
      BY <1>0
    <3>2. P!Ahead(c, k, N) \in 0..(N - 1)
      BY <1>0, <3>1, AheadIs
    <3> QED
      BY <1>0, <1>1, <3>1, <3>2
  <2> QED
    BY <2>1, <2>2
<1>4. m = N => filled # {}
  <2>1. m = N => 0 \in 0..(m - 1)
    BY <1>0
  <2> QED
    BY <1>3, <2>1
<1>5. m = 0 => filled = {}
  BY <1>3
<1>6. m = IF behind = 0 /\ filled # {} THEN N ELSE behind
  <2> HIDE DEF filled, behind
  <2> QED
    BY <1>0, <1>2, <1>4, <1>5
<1> QED
  BY <1>3, <1>6 DEF P!RxInStep

\* The receiver goes around its ring in step with the kernel, of whatever size,
\* and so hands on the frames in the order they arrived, each once, until it
\* meets one with invalid bounds (afpacket.rs:191-225).
THEOREM LinkReceivesInOrder == LinkSpec => []ReceivedInOrder
<1>1. LinkInit => RxIInv
  BY RxInit
<1>2. RxIInv /\ [LinkNext]_linkVars => RxIInv'
  BY RxStep
<1>3. ASSUME RxIInv PROVE ReceivedInOrder
  <2> SUFFICES ASSUME backend = "rx"
               PROVE  /\ call.at # "failed" => P!RxInStep(rx)
                      /\ \A i \in DOMAIN rx.slot : rx.slot[i] > 0 => rx.slot[i] > last
    BY DEF ReceivedInOrder
  <2>1. RxTypes /\ Newer /\ (call.at # "failed" => \E m \in 0..RxSlots : Filled(m))
    BY <1>3 DEF RxIInv
  <2>2. call.at # "failed" => P!RxInStep(rx)
    BY <2>1, FilledIsInStep
  <2>3. ASSUME NEW i \in DOMAIN rx.slot, rx.slot[i] > 0 PROVE rx.slot[i] > last
    BY <2>1, <2>3 DEF RxTypes, Newer
  <2> QED
    BY <2>2, <2>3
<1> QED
  BY <1>1, <1>2, <1>3, PTL DEF LinkSpec
=============================================================================
