------------------------------ MODULE MCIocp ------------------------------
(* Instances of CoIocp.                                                    *)
EXTENDS CoIocp
==============================================================================
