------------------------------- MODULE Address -------------------------------
(***************************************************************************)
(* Addresses and the sets of them the generators work with                 *)
(* (tga/src/address.rs, subspace.rs, pattern.rs): an address is its        *)
(* nibbles, most significant first.  A subspace allows a set of values in  *)
(* each nibble; a pattern fixes some bits of an address.                   *)
(***************************************************************************)
EXTENDS Integers, Sequences, FiniteSets
LOCAL INSTANCE FiniteSetsExt

CONSTANTS
  Dims,        \* nibbles of an address: 32
  NibbleBits,  \* bits of a nibble: 4
  MaxIndex     \* MAX_INDEX_DOMAIN, the largest index

Dim == 0..(Dims - 1)
Nibble == 0..(2^NibbleBits - 1)
AllAddresses == [Dim -> Nibble]
Bit == 0..(Dims * NibbleBits - 1)

\* Bits are numbered from the most significant.
NibbleOf(k) == k \div NibbleBits
BitAt(a, k) == (a[NibbleOf(k)] \div 2^(NibbleBits - 1 - (k % NibbleBits))) % 2
Numeric(a) == MapThenSumSet(LAMBDA d : a[d] * 2^(NibbleBits * (Dims - 1 - d)), Dim)
FromBits(b) == [d \in Dim |-> MapThenSumSet(LAMBDA j : b[d * NibbleBits + j] * 2^(NibbleBits - 1 - j),
                                            0..(NibbleBits - 1))]
Capped(n) == Min({n, MaxIndex})

\* The members of S by their keys, which differ.
LOCAL KeyedAscending(keyed) ==
  LET RECURSIVE From(_)
      From(T) == IF T = {} THEN <<>>
                 ELSE LET least == CHOOSE p \in T : \A q \in T : p[1] <= q[1] IN <<least[2]>> \o From(T \ {least})
  IN  From(keyed)
SortedBy(S, key(_)) == KeyedAscending({<<key(x), x>> : x \in S})
Ascending(S) == SortedBy(S, LAMBDA x : x)
InOrder(S) == SortedBy(S, Numeric)

HammingDistance(a, b) == Cardinality({k \in Bit : BitAt(a, k) # BitAt(b, k)})
NibbleDistance(a, b) == Cardinality({d \in Dim : a[d] # b[d]})

\* A prefix is an address and a length.
PrefixContains(p, a) ==
  LET whole == p.len \div NibbleBits
  IN  /\ \A d \in 0..(whole - 1) : p.address[d] = a[d]
      /\ \A k \in (whole * NibbleBits)..(p.len - 1) : BitAt(p.address, k) = BitAt(a, k)

-----------------------------------------------------------------------------
(* Subspaces.                                                              *)

\* The values that agree with value in the fixed bits of a nibble, numbered
\* from its most significant.
MatchingValues(value, fixed) ==
  {v \in Nibble : \A j \in fixed :
     (v \div 2^(NibbleBits - 1 - j)) % 2 = (value \div 2^(NibbleBits - 1 - j)) % 2}

FromAddr(a) == [d \in Dim |-> {a[d]}]

FromPrefix(a, len) ==
  [d \in Dim |->
     CASE d < len \div NibbleBits -> {a[d]}
       [] d = len \div NibbleBits /\ len % NibbleBits > 0 ->
            MatchingValues(a[d], 0..((len % NibbleBits) - 1))
       [] OTHER -> Nibble]

SubspaceContains(s, a) == \A d \in Dim : a[d] \in s[d]
SubspaceIsEmpty(s) == \E d \in Dim : s[d] = {}

\* No subspace when a nibble has no common value.
Intersect(s, t) == {u \in {[d \in Dim |-> s[d] \cap t[d]]} : ~SubspaceIsEmpty(u)}

SubspaceSize(s) ==
  IF SubspaceIsEmpty(s) THEN 0
  ELSE Capped(MapThenFoldSet(LAMBDA m, n : m * n, 1, LAMBDA d : Cardinality(s[d]),
                             LAMBDA T : CHOOSE d \in T : TRUE, Dim))

\* The value of S with n smaller ones.
Nth(S, n) == CHOOSE v \in S : Cardinality({w \in S : w < v}) = n

\* The last nibble counts fastest.
SubspaceAddressAt(s, index) ==
  LET below(d) == MapThenFoldSet(LAMBDA m, n : m * n, 1, LAMBDA e : Cardinality(s[e]),
                                 LAMBDA T : CHOOSE e \in T : TRUE, {e \in Dim : e > d})
  IN  [d \in Dim |-> Nth(s[d], (index \div below(d)) % Cardinality(s[d]))]

-----------------------------------------------------------------------------
(* Patterns: the bits of mask are fixed.                                   *)

NewPattern(a) == [address |-> a, mask |-> Bit]

Matches(p, a) == \A k \in p.mask : BitAt(p.address, k) = BitAt(a, k)

MergeAddress(p, a) ==
  [p EXCEPT !.mask = {k \in @ : BitAt(p.address, k) = BitAt(a, k)}]

\* The pattern of a nonempty sequence of addresses.
RECURSIVE PatternOf(_)
PatternOf(addresses) ==
  IF Len(addresses) = 1 THEN NewPattern(addresses[1])
  ELSE MergeAddress(PatternOf(SubSeq(addresses, 1, Len(addresses) - 1)), addresses[Len(addresses)])

WildcardBits(p) == Bit \ p.mask
WholeNibble(d) == {d * NibbleBits + j : j \in 0..(NibbleBits - 1)}

\* A nibble with a free bit is free, and its bits of the address are cleared.
ExpandToNibbleBoundaries(p) ==
  LET fixed == {d \in Dim : WholeNibble(d) \subseteq p.mask}
  IN  [address |-> [d \in Dim |-> IF d \in fixed THEN p.address[d] ELSE 0],
       mask |-> UNION {WholeNibble(d) : d \in fixed}]

WildcardNibbles(p) == {d \in Dim : WholeNibble(d) \cap p.mask = {}}

PatternSize(p) == Capped(2^Cardinality(WildcardBits(p)))

\* The free bits count from the least significant.
PatternAddressAt(p, index) ==
  FromBits([k \in Bit |->
     IF k \in p.mask THEN BitAt(p.address, k)
     ELSE (index \div 2^Cardinality({j \in WildcardBits(p) : j > k})) % 2])

PatternDistance(p, a) == Cardinality({k \in p.mask : BitAt(p.address, k) # BitAt(a, k)})

IsSubsetOf(p, q) ==
  q.mask \subseteq p.mask /\ \A k \in q.mask : BitAt(p.address, k) = BitAt(q.address, k)

\* What generate_address() may return.
Generable(p) ==
  {FromBits([k \in Bit |-> IF k \in p.mask THEN BitAt(p.address, k) ELSE f[k]]) :
     f \in [WildcardBits(p) -> {0, 1}]}

ToSubspace(p) ==
  [d \in Dim |-> MatchingValues(p.address[d], {j \in 0..(NibbleBits - 1) : d * NibbleBits + j \in p.mask})]
=============================================================================
