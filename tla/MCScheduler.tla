----------------------------- MODULE MCScheduler -----------------------------
(* The scheduler with the stacks of its coroutines and no synchronisation  *)
(* objects.                                                                *)
EXTENDS CoStackPool
==============================================================================
