-------------------------- MODULE MCMediaProduction --------------------------
EXTENDS MediaProduction, TLC
CONSTANTS w1, w2
OneVideo == <<"v">>
ImageAndVideo == <<"i", "v">>
OneImage == <<"i">>
Ones == [j \in Jobs |-> 1]
OneAndTwo == [j \in Jobs |-> IF j = "v" THEN 2 ELSE 1]
\* All faults, all orders and the other plan's spending do not meet in one behaviour.
FewTroubles == faults + orders + other <= 4
Symmetry == Permutations({w1, w2})
=============================================================================
