----------------------------- MODULE MCSixTree -----------------------------
(* Three binary digits: eight addresses.                                    *)
EXTENDS SixTree

MCPosition == 1..3
MCDim      == 1..3
MCDigit    == 0..1
\* Two leaves of two seeds below a root that is steady in the first digit.
MCSeeds    == {<<0, 0, 0>>, <<0, 0, 1>>, <<0, 1, 0>>, <<0, 1, 1>>}
\* Leaves at different depths, some of which reach their parent at once.
MCDeep     == {<<0, 0, 0>>, <<1, 1, 0>>, <<1, 1, 1>>}
\* The verdict on some addresses is known.
MCVerdicts == [a \in Addr |-> IF a[1] = 1 THEN {"Inactive"} ELSE IF a[3] = 1 THEN {"Active"}
                             ELSE IF a[2] = 1 THEN {"Active", "Inactive"} ELSE {"Active", "Skipped"}]
MCTwo      == [a \in Addr |-> IF a[1] = 0 THEN {"Active", "Inactive"} ELSE {"Inactive"}]
\* The half of the leaf that is alone, and the half of the two others.
MCAlias    == {{a \in Addr : a[1] = 0 /\ a[2] = 1}, {a \in Addr : a[1] = 1}}
=============================================================================
