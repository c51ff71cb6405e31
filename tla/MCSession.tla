------------------------------ MODULE MCSession ------------------------------
(* Instances of Session: addresses of Width bits, tested at Lengths.         *)
EXTENDS Session

CONSTANTS Width, Lengths

MCAddr == 0..(2^Width - 1)
Trunc(a, len) == <<len, a \div 2^(Width - len)>>
MCDepth == Cardinality(Lengths)
Sorted == CHOOSE f \in [1..MCDepth -> Lengths] :
            \A i, j \in 1..MCDepth : i < j => f[i] < f[j]
MCPrefixAt == [a \in MCAddr |-> [l \in 1..MCDepth |-> Trunc(a, Sorted[l])]]
MCPrefix == {MCPrefixAt[a][l] : a \in MCAddr, l \in 1..MCDepth}
MCNoPrefix == <<>>

NoAddresses == {}
OneAlias == {0}

\* Two batches: together more targets than max_in_flight.
TwoBatches == {<<0, 1>>, <<2, 3>>}
\* A target probed again, twice in one batch.
RepeatBatches == {<<1, 1>>, <<1>>}
OneAddress == {2}
=============================================================================
