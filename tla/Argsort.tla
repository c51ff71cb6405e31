------------------------------ MODULE Argsort ------------------------------
(***************************************************************************)
(* numpy_argsort() (tga/src/other/entropy_ip/argsort.rs): the positions of *)
(* a sequence of counts in the order of the counts, ties as NumPy's        *)
(* introsort leaves them.  Positions are from 1.                           *)
(***************************************************************************)
EXTENDS Address, SequencesExt
LOCAL INSTANCE FiniteSetsExt

CONSTANT SmallQuicksort   \* 15: a longer part is split

Swapped(a, i, j) == [a EXCEPT ![i] = a[j], ![j] = a[i]]

\* The insertion sort of a[l..r] is stable.
InsertionSorted(v, a, l, r) ==
  LET before(i, j) == v[a[i]] < v[a[j]] \/ (v[a[i]] = v[a[j]] /\ i < j)
      at(k) == CHOOSE i \in l..r : Cardinality({j \in l..r : before(j, i)}) = k - l
  IN  SubSeq(a, 1, l - 1) \o [k \in 1..(r - l + 1) |-> a[at(l + k - 1)]] \o SubSeq(a, r + 1, Len(a))

-----------------------------------------------------------------------------
(* Heapsort, of the whole of h.                                            *)

RECURSIVE SiftDown(_, _, _, _, _)
SiftDown(v, h, item, i, n) ==
  LET j == IF 2 * i < n /\ v[h[2 * i]] < v[h[2 * i + 1]] THEN 2 * i + 1 ELSE 2 * i
  IN  IF j <= n /\ v[item] < v[h[j]] THEN SiftDown(v, [h EXCEPT ![i] = h[j]], item, j, n)
      ELSE [h EXCEPT ![i] = item]

Heap(v, h) ==
  FoldLeft(LAMBDA g, i : SiftDown(v, g, g[i], i, Len(h)), h, Reverse([i \in 1..(Len(h) \div 2) |-> i]))

Heapsorted(v, h) ==
  FoldLeft(LAMBDA g, n : SiftDown(v, [g EXCEPT ![n] = g[1]], g[n], 1, n - 1), Heap(v, h),
           Reverse([k \in 1..(Len(h) - 1) |-> k + 1]))

HeapsortedPart(v, a, l, r) ==
  SubSeq(a, 1, l - 1) \o Heapsorted(v, SubSeq(a, l, r)) \o SubSeq(a, r + 1, Len(a))

-----------------------------------------------------------------------------
(* Quicksort around the median of the first, middle and last.              *)

Ordered(v, a, i, j) == IF v[a[j]] < v[a[i]] THEN Swapped(a, i, j) ELSE a
MedianOfThree(v, a, l, m, r) == Ordered(v, Ordered(v, Ordered(v, a, l, m), m, r), l, m)

RECURSIVE Scan(_, _, _, _, _)
Scan(v, a, pivot, i, j) ==
  LET p == Min({k \in (i + 1)..Len(a) : v[a[k]] >= pivot})
      q == Max({k \in 1..(j - 1) : v[a[k]] <= pivot})
  IN  IF p >= q THEN [a |-> a, at |-> p] ELSE Scan(v, Swapped(a, p, q), pivot, p, q)

Partition(v, a, l, r) ==
  LET m == l + (r - l) \div 2
      scanned(b) == Scan(v, Swapped(b, m, r - 1), v[b[m]], l, r - 1)
      replaced(s) == [a |-> Swapped(s.a, s.at, r - 1), at |-> s.at]
  IN  replaced(scanned(MedianOfThree(v, a, l, m, r)))

\* The longer part waits on the stack; the depth is looked at when a part is
\* taken from it.
RECURSIVE Quicksorted(_, _, _, _, _, _)
RECURSIVE Parts(_, _, _)
Parts(v, a, stack) ==
  IF stack = <<>> THEN a
  ELSE LET top == Head(stack)
       IN  IF top.depth < 0 THEN Parts(v, HeapsortedPart(v, a, top.l, top.r), Tail(stack))
           ELSE Quicksorted(v, a, top.l, top.r, top.depth, Tail(stack))
Quicksorted(v, a, l, r, depth, stack) ==
  LET divided(p) ==
        IF p.at - l < r - p.at
        THEN Quicksorted(v, p.a, l, p.at - 1, depth - 1, <<[l |-> p.at + 1, r |-> r, depth |-> depth - 1]>> \o stack)
        ELSE Quicksorted(v, p.a, p.at + 1, r, depth - 1, <<[l |-> l, r |-> p.at - 1, depth |-> depth - 1]>> \o stack)
  IN  IF r - l <= SmallQuicksort THEN Parts(v, InsertionSorted(v, a, l, r), stack)
      ELSE divided(Partition(v, a, l, r))

FloorLog2(n) == Max({k \in 0..n : 2^k <= n})

NumpyArgsort(v) ==
  LET a == Ascending(DOMAIN v)
  IN  IF Len(v) <= 1 THEN a
      ELSE Parts(v, a, <<[l |-> 1, r |-> Len(v), depth |-> 2 * FloorLog2(Len(v))]>>)
=============================================================================
