---------------------------- MODULE MCContainers ----------------------------
(* Instances of CoQueue and CoTimer, the containers that the scheduler     *)
(* keeps coroutines in.  They share no state, so it is enough to use one   *)
(* while the other is as it was initialised.  The coroutines of the heap   *)
(* are interchangeable.                                                    *)
EXTENDS CoQueue, CoTimer, TLC

ContainersInit == QueueInit /\ TimerInit

UseQueue == QueueNext /\ TimerInit /\ UNCHANGED timerVars
UseTimer == TimerNext /\ QueueInit /\ UNCHANGED listVars

ContainersSpec == ContainersInit /\ [][UseQueue \/ UseTimer]_<<listVars, timerVars>>

Symmetry == Permutations(Routine)
==============================================================================
