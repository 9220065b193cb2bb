------------------------------ MODULE MCCANBus ------------------------------
EXTENDS CANBus, TLC
Symmetries == Permutations(Val)
=============================================================================
