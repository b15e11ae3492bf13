------------------------------- MODULE MCGroup -------------------------------
EXTENDS Group, TLC
CONSTANTS v1, v2, v3, d1, d2
MCTargets == {{}, {1}, {0, 1}}
Machines == Permutations(Vm)
Demos == Permutations(Demo)
==============================================================================
