---------------------------- MODULE MC_VaultInit ----------------------------
(***************************************************************************)
(* Instance of VaultInit for TLC. Two generations are what it takes for a  *)
(* stale vault-init.json to meet a newer Vault.                            *)
(***************************************************************************)
EXTENDS VaultInit
=============================================================================
