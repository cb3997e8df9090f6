-------------------------------- MODULE MCSync --------------------------------
(* Instances of CoSync.                                                    *)
EXTENDS CoSync, TLC
CONSTANTS m1, c1
Symmetry == Permutations(Routine)
MCMutex == {m1}
MCCond == {c1}
MCWaitQueue == {m1, c1}
==============================================================================
