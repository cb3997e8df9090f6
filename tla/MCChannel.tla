----------------------------- MODULE MCChannel -----------------------------
(* Instances of CoChannel.                                                 *)
EXTENDS CoChannel
CONSTANTS sq, rq
MCWaitQueue == {sq, rq}
==============================================================================
