------------------------------ MODULE Secrets ------------------------------
(***************************************************************************)
(* The secrets at secret/k8s-provisioner/api-keys and who writes them:     *)
(*   storeAPISecrets    every `provision workloads` (vault.go)             *)
(*   resolveCredentials the Keycloak installer, twice                      *)
(*   `vault set`        and the operator's `vault kv patch`                *)
(* and who uses them: the Vault Secrets Operator copies them into the      *)
(* cluster, Keycloak creates its admin account from the copy and its       *)
(* Grafana client from what the installer holds.                           *)
(*                                                                         *)
(* The document is one map that every write replaces as a whole. A write   *)
(* is a read and a later write without check-and-set, so two commands at   *)
(* once interfere; a read can fail, a write can fail or lose its answer.   *)
(* Values are numbers: those a command makes up are its stamp.             *)
(***************************************************************************)
EXTENDS Integers, FiniteSets

CONSTANTS
    Procs,         \* commands that can be running at once
    Keys,          \* keys of the document
    Generated,     \* keys storeAPISecrets resolves or generates
    Defaulted,     \* keys storeAPISecrets resolves or sets to a constant
    InConfig,      \* keys config.yaml holds a value for
    KeycloakKeys,  \* keys resolveCredentials resolves
    AdminKey,      \* keycloak_admin_password
    ClientKey,     \* keycloak_grafana_client_secret
    MaxCommands    \* bound: commands started in a behaviour

ASSUME SecretsAssumption ==
    /\ MaxCommands \in Nat
    /\ Generated \subseteq Keys /\ Defaulted \subseteq Keys
    /\ Generated \cap Defaulted = {}
    /\ InConfig \subseteq Keys \ (Generated \cup Defaulted)
    /\ KeycloakKeys \subseteq Generated \cup Defaulted
    /\ AdminKey \in KeycloakKeys /\ ClientKey \in KeycloakKeys

VARIABLES
    doc,       \* doc[k]: the value of key k in Vault (0: no such key)
    synced,    \* synced[k]: the value in the cluster's Secret (0: no Secret)
    deployed,  \* the Keycloak manifests have been applied
    admin,     \* password Keycloak's admin account was created with (0: none)
    realm,     \* how far configureRealm ever came
    client,    \* secret of the Grafana client in the realm (0: none)
    stamps,    \* stamps given out
    pc,        \* pc[p]: the call command p makes next
    stamp,     \* stamp[p]: the value p makes up for whatever it must make up
    arg,       \* arg[p]: the key of a `vault set`
    buf,       \* buf[p]: the document p prepared, and the credentials it uses
    got,       \* got[p]: keys storeAPISecrets has resolved
    misread,   \* misread[p]: a read of p failed and p went on
    warned,    \* warned[p]: another error of p was only a warning
    raced      \* raced[p]: somebody else wrote the document since p began

keycloak == <<deployed, admin, realm, client>>
memory == <<stamp, arg, buf, got>>
flags == <<misread, warned, raced>>
vars == <<doc, synced, keycloak, stamps, pc, memory, flags>>

Fixed == 1    \* the value of a constant of the code or of config.yaml
Resolved == Generated \cup Defaulted
Nothing == [k \in Keys |-> 0]

Running == {"gather", "post", "read", "put", "resolve", "merge", "await", "deploy",
            "ready", "realm", "oauthResolve", "oauthMerge"}
Finished == {"stored", "set", "installed", "oauth", "failed"}

(* Each variable holds a value of the shape the code gives it.             *)
TypeOK ==
    /\ doc \in [Keys -> Nat] /\ synced \in [Keys -> Nat]
    /\ deployed \in BOOLEAN /\ admin \in Nat /\ client \in Nat
    /\ realm \in {"none", "begun", "done"}
    /\ stamps \in Nat
    /\ pc \in [Procs -> Running \cup Finished \cup {"idle"}]
    /\ stamp \in [Procs -> Nat]
    /\ arg \in [Procs -> Keys]
    /\ buf \in [Procs -> [Keys -> Nat]]
    /\ got \in [Procs -> SUBSET Keys]
    /\ misread \in [Procs -> BOOLEAN]
    /\ warned \in [Procs -> BOOLEAN]
    /\ raced \in [Procs -> BOOLEAN]

Init ==
    /\ doc = Nothing /\ synced = Nothing
    /\ deployed = FALSE /\ admin = 0 /\ realm = "none" /\ client = 0
    /\ stamps = Fixed
    /\ pc = [p \in Procs |-> "idle"]
    /\ stamp = [p \in Procs |-> 0]
    /\ arg = [p \in Procs |-> AdminKey]
    /\ buf = [p \in Procs |-> Nothing]
    /\ got = [p \in Procs |-> {}]
    /\ misread = [p \in Procs |-> FALSE]
    /\ warned = [p \in Procs |-> FALSE]
    /\ raced = [p \in Procs |-> FALSE]

Goto(p, step) == pc' = [pc EXCEPT ![p] = step]
Mark(flag, p) == flag' = [flag EXCEPT ![p] = TRUE]

\* The document becomes d by a write of p; every other command has been raced.
Write(p, d) ==
    /\ doc' = d
    /\ raced' = [q \in Procs |-> raced[q] \/ (q # p /\ pc[q] # "idle")]

-----------------------------------------------------------------------------
(* Commands come and go *)

Start(p, step, k) ==
    /\ pc[p] = "idle" /\ stamps < MaxCommands + Fixed
    /\ stamps' = stamps + 1
    /\ stamp' = [stamp EXCEPT ![p] = stamps + 1]
    /\ arg' = [arg EXCEPT ![p] = k]
    /\ Goto(p, step)
    /\ UNCHANGED <<doc, synced, keycloak, buf, got, flags>>

StartStore(p) == Start(p, "gather", AdminKey)
StartSet(p, k) == Start(p, "read", k)
StartKeycloak(p) == Start(p, "resolve", AdminKey)
StartOAuth(p) == Start(p, "oauthResolve", AdminKey)

\* The command has returned, or is killed: its memory is gone.
Leave(p) ==
    /\ pc[p] # "idle"
    /\ Goto(p, "idle")
    /\ stamp' = [stamp EXCEPT ![p] = 0]
    /\ arg' = [arg EXCEPT ![p] = AdminKey]
    /\ buf' = [buf EXCEPT ![p] = Nothing]
    /\ got' = [got EXCEPT ![p] = {}]
    /\ misread' = [misread EXCEPT ![p] = FALSE]
    /\ warned' = [warned EXCEPT ![p] = FALSE]
    /\ raced' = [raced EXCEPT ![p] = FALSE]
    /\ UNCHANGED <<doc, synced, keycloak, stamps>>

\* `vault kv patch`: the Vault CLI changes one key and leaves the others.
Patch(k) ==
    /\ stamps < MaxCommands + Fixed
    /\ stamps' = stamps + 1
    /\ doc' = [doc EXCEPT ![k] = stamps + 1]
    /\ raced' = [q \in Procs |-> raced[q] \/ pc[q] # "idle"]
    /\ UNCHANGED <<synced, keycloak, pc, memory, misread, warned>>

-----------------------------------------------------------------------------
(* The cluster *)

\* The operator refreshes a Secret (refreshAfter 30s).
Sync(k) ==
    /\ doc[k] # 0 /\ synced[k] # doc[k]
    /\ synced' = [synced EXCEPT ![k] = doc[k]]
    /\ UNCHANGED <<doc, keycloak, stamps, pc, memory, flags>>

\* Keycloak's container starts with the password of its Secret in its
\* environment; the first start creates the admin account with it.
Boot ==
    /\ deployed /\ admin = 0 /\ synced[AdminKey] # 0
    /\ admin' = synced[AdminKey]
    /\ UNCHANGED <<doc, synced, deployed, realm, client, stamps, pc, memory, flags>>

-----------------------------------------------------------------------------
(* storeAPISecrets *)

\* What the installer makes up for a key that has no value.
Fallback(p, k) == IF k \in Defaulted THEN Fixed ELSE stamp[p]

\* Mutant of StoreRead: the stored value is not looked at.
StoreGenerate(p) ==
    /\ pc[p] = "gather"
    /\ \E k \in Resolved \ got[p] :
          /\ buf' = [buf EXCEPT ![p][k] = Fallback(p, k)]
          /\ got' = [got EXCEPT ![p] = @ \cup {k}]
          /\ IF got'[p] = Resolved THEN Goto(p, "post") ELSE UNCHANGED pc
    /\ UNCHANGED <<doc, synced, keycloak, stamps, stamp, arg, flags>>

\* resolveOrGenerate, resolveOrDefaultStr: one GET for each key; a GET that
\* fails is taken for a key without a value.
StoreRead(p) ==
    /\ pc[p] = "gather"
    /\ \E k \in Resolved \ got[p] :
          /\ \/ /\ buf' = [buf EXCEPT ![p][k] = IF doc[k] # 0 THEN doc[k]
                                                ELSE Fallback(p, k)]
                /\ UNCHANGED misread
             \/ /\ buf' = [buf EXCEPT ![p][k] = Fallback(p, k)]
                /\ Mark(misread, p)
          /\ got' = [got EXCEPT ![p] = @ \cup {k}]
          /\ IF got'[p] = Resolved THEN Goto(p, "post") ELSE UNCHANGED pc
    /\ UNCHANGED <<doc, synced, keycloak, stamps, stamp, arg, warned, raced>>

\* Mutant of ApiKeys: only the resolved keys are keys of the document.
ResolvedOnly(p) == [k \in Resolved |-> buf[p][k]]

\* The document of the POST: what was resolved and what config.yaml holds.
ApiKeys(p) ==
    [k \in Keys |-> IF k \in Resolved THEN buf[p][k]
                    ELSE IF k \in InConfig THEN Fixed ELSE 0]

StorePost(p) ==
    /\ pc[p] = "post"
    /\ \/ Write(p, ApiKeys(p)) /\ Goto(p, "stored")
       \/ Write(p, ApiKeys(p)) /\ Goto(p, "failed")
       \/ Goto(p, "failed") /\ UNCHANGED <<doc, raced>>
    /\ UNCHANGED <<synced, keycloak, stamps, memory, misread, warned>>

-----------------------------------------------------------------------------
(* `vault set` *)

\* Mutant of SetRead: an unreadable document is taken for an empty one.
SetReadOrEmpty(p) ==
    /\ pc[p] = "read"
    /\ Goto(p, "put")
    /\ \/ buf' = [buf EXCEPT ![p] = doc]
       \/ buf' = [buf EXCEPT ![p] = Nothing]
    /\ UNCHANGED <<doc, synced, keycloak, stamps, stamp, arg, got, flags>>

SetRead(p) ==
    /\ pc[p] = "read"
    /\ \/ buf' = [buf EXCEPT ![p] = doc] /\ Goto(p, "put")
       \/ Goto(p, "failed") /\ UNCHANGED buf
    /\ UNCHANGED <<doc, synced, keycloak, stamps, stamp, arg, got, flags>>

SetWrite(p) ==
    LET new == [buf[p] EXCEPT ![arg[p]] = stamp[p]]
    IN /\ pc[p] = "put"
       /\ \/ Write(p, new) /\ Goto(p, "set")
          \/ Write(p, new) /\ Goto(p, "failed")
          \/ Goto(p, "failed") /\ UNCHANGED <<doc, raced>>
       /\ UNCHANGED <<synced, keycloak, stamps, memory, misread, warned>>

-----------------------------------------------------------------------------
(* The Keycloak installer *)

\* resolveCredentials: one read. Keys without a value get the stamp; when the
\* read fails, or there is no token to read with, all of them do, and nothing
\* will be written.
Resolve(p, step, write, next) ==
    LET merged == [k \in Keys |-> IF k \in KeycloakKeys /\ doc[k] = 0
                                  THEN stamp[p] ELSE doc[k]]
        made == [k \in Keys |-> IF k \in KeycloakKeys THEN stamp[p] ELSE 0]
    IN /\ pc[p] = step
       /\ \/ /\ buf' = [buf EXCEPT ![p] = merged]
             /\ Goto(p, IF merged = doc THEN next ELSE write)
             /\ UNCHANGED misread
          \/ /\ buf' = [buf EXCEPT ![p] = made]
             /\ Goto(p, next)
             /\ Mark(misread, p)
       /\ UNCHANGED <<doc, synced, keycloak, stamps, stamp, arg, got, warned, raced>>

\* Mutant of Merge: the failed write is not even a warning.
MergeSilently(p, step, next) ==
    /\ pc[p] = step
    /\ Goto(p, next)
    /\ \/ Write(p, buf[p])
       \/ UNCHANGED <<doc, raced>>
    /\ UNCHANGED <<synced, keycloak, stamps, memory, misread, warned>>

\* The merged document is written back; a failure is a warning.
Merge(p, step, next) ==
    /\ pc[p] = step
    /\ Goto(p, next)
    /\ \/ Write(p, buf[p]) /\ UNCHANGED warned
       \/ Write(p, buf[p]) /\ Mark(warned, p)
       \/ Mark(warned, p) /\ UNCHANGED <<doc, raced>>
    /\ UNCHANGED <<synced, keycloak, stamps, memory, misread>>

ResolveCredentials(p) ==
    \/ Resolve(p, "resolve", "merge", "await")
    \/ Resolve(p, "oauthResolve", "oauthMerge", "oauth")

WriteCredentials(p) == Merge(p, "merge", "await") \/ Merge(p, "oauthMerge", "oauth")

\* waitForAdminSecret: any password will do; the deadline is a warning.
WaitForAdminSecret(p) ==
    /\ pc[p] = "await"
    /\ Goto(p, "deploy")
    /\ (synced[AdminKey] # 0 /\ UNCHANGED warned) \/ Mark(warned, p)
    /\ UNCHANGED <<doc, synced, keycloak, stamps, memory, misread, raced>>

DeployKeycloak(p) ==
    /\ pc[p] = "deploy"
    /\ \/ deployed' = TRUE /\ Goto(p, "ready")
       \/ deployed' \in {deployed, TRUE} /\ Goto(p, "failed")
    /\ UNCHANGED <<doc, synced, admin, realm, client, stamps, memory, flags>>

WaitForReady(p) ==
    /\ pc[p] = "ready"
    /\ (admin # 0 /\ Goto(p, "realm")) \/ Goto(p, "failed")
    /\ UNCHANGED <<doc, synced, keycloak, stamps, memory, flags>>

\* configureRealm: log in, then create. `set -e` ends the script at a failed
\* login and at anything that exists already, except the realm itself.
ConfigureRealm(p) ==
    /\ pc[p] = "realm"
    /\ \/ /\ buf[p][AdminKey] = admin /\ realm = "none"
          /\ realm' = "done" /\ client' = buf[p][ClientKey]
          /\ Goto(p, "installed")
       \/ /\ buf[p][AdminKey] = admin /\ realm = "none"
          /\ realm' = "begun" /\ client' \in {client, buf[p][ClientKey]}
          /\ Goto(p, "failed")
       \/ Goto(p, "failed") /\ UNCHANGED <<realm, client>>
    /\ UNCHANGED <<doc, synced, deployed, admin, stamps, memory, flags>>

-----------------------------------------------------------------------------
Step(p) ==
    \/ StoreRead(p) \/ StorePost(p)
    \/ SetRead(p) \/ SetWrite(p)
    \/ ResolveCredentials(p) \/ WriteCredentials(p)
    \/ WaitForAdminSecret(p) \/ DeployKeycloak(p) \/ WaitForReady(p)
    \/ ConfigureRealm(p)

StartCommand(p) ==
    \/ StartStore(p) \/ StartKeycloak(p) \/ StartOAuth(p)
    \/ \E k \in Keys : StartSet(p, k)

Next ==
    \/ \E p \in Procs : StartCommand(p) \/ Step(p) \/ Leave(p)
    \/ \E k \in Keys : Patch(k)
    \/ \E k \in KeycloakKeys : Sync(k)
    \/ Boot

Spec == Init /\ [][Next]_vars

-----------------------------------------------------------------------------
(* Properties *)

\* A command whose reads succeeded and that nobody raced takes no password or
\* name away: storeAPISecrets writes back what it found (vault.go:432-435), and
\* resolveCredentials adds only what was missing (keycloak_credentials.go:64-91).
InstallersKeepSecrets ==
    [][\A p \in Procs, k \in Resolved :
          pc[p] \in {"post", "merge", "oauthMerge"} /\ pc'[p] # pc[p]
             /\ ~misread[p] /\ ~raced[p] /\ doc[k] # 0 => doc'[k] = doc[k]]_vars

\* `vault set` changes its own key only, when nobody raced it (cmd/vault.go:188-199).
SetKeepsOtherKeys ==
    [][\A p \in Procs, k \in Keys :
          pc[p] = "put" /\ pc'[p] # pc[p] /\ ~raced[p] /\ k # arg[p]
             => doc'[k] = doc[k]]_vars

\* An undisturbed Keycloak install without warnings leaves a Keycloak whose
\* administrator and whose Grafana client have the secrets in Vault, which is
\* where everybody else looks them up (keycloak.go:31-96).
InstalledKeycloakMatchesVault ==
    \A p \in Procs :
        pc[p] = "installed" /\ ~misread[p] /\ ~warned[p] /\ ~raced[p] =>
            /\ admin = doc[AdminKey]
            /\ client = doc[ClientKey]

-----------------------------------------------------------------------------
(* Statements of the repository that the code does not meet *)

\* README.md:1198 and 1776 tell operators to keep alertmanager_config and
\* ollama_api_key in this document only; an undisturbed run of the installer
\* whose reads succeed must then leave them there.
ReinstallKeepsOperatorKeys ==
    [][\A p \in Procs, k \in Keys :
          pc[p] = "post" /\ pc'[p] = "stored" /\ ~misread[p] /\ ~raced[p] /\ doc[k] # 0
             => doc'[k] # 0]_vars

\* vault.go:432-435: passwords are generated "on first run" and persisted so
\* that they survive; a later run nobody races does not replace them.
PasswordsSurviveReinstall ==
    [][\A p \in Procs, k \in Generated :
          pc[p] = "post" /\ pc'[p] = "stored" /\ ~raced[p] /\ doc[k] # 0
             => doc'[k] = doc[k]]_vars

=============================================================================
