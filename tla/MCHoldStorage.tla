---------------------------- MODULE MCHoldStorage ----------------------------
EXTENDS HoldStorage, TLC

CONSTANTS x1, x2, x3, x4, x5
ItemsMC == {x1, x2, x3, x4, x5}
FactorsMC == {2, 3}
Symmetric == Permutations(ItemsMC)
=============================================================================
