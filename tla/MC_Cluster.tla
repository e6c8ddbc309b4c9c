---------------------------- MODULE MC_Cluster ----------------------------
(* Instances of Cluster for TLC; the machines are model values.             *)
EXTENDS Cluster
=============================================================================
