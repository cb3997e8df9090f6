------------------------------- MODULE MCIo -------------------------------
(* Instances of CoIo.                                                      *)
EXTENDS CoIo
==============================================================================
