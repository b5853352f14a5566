---------------------------- MODULE MCHABootstrap ----------------------------
EXTENDS HABootstrap, TLC

CONSTANTS m1, m2, m3

TwoMembers == <<m2>>
ThreeMembers == <<m2, m3>>
OperatorSymmetry == Permutations(Operators)
=============================================================================
