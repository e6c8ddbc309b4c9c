--------------------------- MODULE MC_ApiServer ---------------------------
(* Instance of ApiServer for TLC: the control plane and one worker.         *)
EXTENDS ApiServer
=============================================================================
