--------------------------- MODULE MCDeliveryGates ---------------------------
EXTENDS DeliveryGates, TLC

CONSTANTS d1, d2, p1, p2

mc_Deliverers == {d1, d2}
mc_Publishers == {p1, p2}
mc_Symmetry == Permutations(mc_Deliverers) \cup Permutations(mc_Publishers)
=============================================================================
