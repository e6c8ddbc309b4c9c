----------------------------- MODULE MC_Secrets -----------------------------
(***************************************************************************)
(* Instance of Secrets for TLC: the two passwords whose uses the module    *)
(* follows, a user name with a default, and one key only operators set.    *)
(***************************************************************************)
EXTENDS Secrets, TLC

MCKeys == {"admin_password", "client_secret", "admin_username", "alertmanager_config"}
MCGenerated == {"admin_password", "client_secret"}
MCDefaulted == {"admin_username"}
MCNone == {}
MCKeycloakKeys == {"admin_password", "client_secret"}

\* Two terminals are alike.
Symmetry == Permutations(Procs)
=============================================================================
