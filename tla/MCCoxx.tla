------------------------------ MODULE MCCoxx ------------------------------
(* Instances of Coxx.                                                      *)
EXTENDS Coxx, TLC
CONSTANTS t1, t2, t3
MCToken == {t1, t2, t3}
MCMutex == {<<x, "mutex">> : x \in MCToken \cup {Group}}
MCCond == {<<x, "cond">> : x \in MCToken \cup {Group}}
Symmetry == Permutations(Routine) \cup Permutations(MCToken)
MCWaitQueue == MCMutex \cup MCCond
==============================================================================
