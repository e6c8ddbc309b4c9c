----------------------------- MODULE VaultInit -----------------------------
(***************************************************************************)
(* Bringing up Vault: VaultInstaller.Install (internal/installer/vault.go) *)
(* and `vault unseal` (cmd/vault.go), run one at a time on the control     *)
(* plane against the Vault server of the storage node.                     *)
(*                                                                         *)
(* A Vault that is initialized holds key material that exists once: the    *)
(* answer to sys/init. Every initialization has a generation; whoever has  *)
(* the unseal keys and the root token of a generation has that number. The *)
(* node's disks hold copies (vault-init.json); either node can be rebuilt, *)
(* the server can stop and restart (sealed), any call can fail or lose its *)
(* answer, and the command can be killed.                                  *)
(***************************************************************************)
EXTENDS Integers, FiniteSets

CONSTANTS MaxGen      \* bound: initializations in a behaviour

ASSUME MaxGenAssumption == MaxGen \in Nat

VARIABLES
    up, gen, sealed,  \* the server: running, generation (0: not initialized), seal
    shares,           \* unseal keys the server has counted towards the threshold
    conf,             \* what has been configured in this generation's Vault
    gens,             \* generations there have been
    local, remote,    \* generation in vault-init.json on either node (0: no file)
    printed,          \* generations printed to the operator's terminal
    pc,               \* the call the running command makes next
    mem,              \* generation whose keys or root token the command holds
    sent,             \* unseal keys the command has sent
    fresh, warned,    \* the command initialized Vault; it printed a warning
    disturbed         \* the server restarted since the command began

server == <<up, gen, sealed, shares, conf, gens>>
files == <<local, remote, printed>>
process == <<mem, sent, fresh, warned, disturbed>>
vars == <<server, files, pc, process>>

Threshold == 3        \* SecretThreshold of sys/init

\* Mutant of KeysToSend: the last key is not sent.
TwoKeys == 2

\* Mutant of KeysToSend: every key of sys/init is sent (SecretShares).
AllKeys == 5

KeysToSend == 3       \* the loops of initialize and of `vault unseal`

Parts == {"kv", "auth", "secrets"}
InstallSteps == {"wait", "check", "init", "unseal", "mint", "save", "copy",
                 "load", "kv", "auth", "secrets"}
UnsealSteps == {"read", "send"}
Finished == {"installed", "unsealed", "failed"}

Keys == Nat \X (1..Threshold)   \* the keys that are ever sent

(* Each variable holds a value of the shape the code gives it.             *)
TypeOK ==
    /\ up \in BOOLEAN /\ sealed \in BOOLEAN
    /\ gen \in Nat /\ gens \in Nat
    /\ shares \subseteq Keys
    /\ conf \subseteq Parts
    /\ local \in Nat /\ remote \in Nat /\ printed \subseteq Nat
    /\ pc \in InstallSteps \cup UnsealSteps \cup Finished \cup {"idle"}
    /\ mem \in Nat /\ sent \in 0..KeysToSend
    /\ fresh \in BOOLEAN /\ warned \in BOOLEAN /\ disturbed \in BOOLEAN

Init ==
    /\ up = TRUE /\ gen = 0 /\ sealed = TRUE /\ shares = {} /\ conf = {} /\ gens = 0
    /\ local = 0 /\ remote = 0 /\ printed = {}
    /\ pc = "idle" /\ mem = 0 /\ sent = 0
    /\ fresh = FALSE /\ warned = FALSE /\ disturbed = FALSE

Fail == pc' = "failed"
Warn == warned' = TRUE

-----------------------------------------------------------------------------
(* The server, the nodes and the operator *)

Start(step) ==
    /\ pc = "idle"
    /\ pc' = step
    /\ mem' = 0 /\ sent' = 0 /\ fresh' = FALSE /\ warned' = FALSE
    /\ disturbed' = FALSE
    /\ UNCHANGED <<server, files>>

StartInstall == Start("wait")
StartUnseal == Start("read")

\* The command returns, or is killed: what it held in memory is gone.
Leave ==
    /\ pc # "idle"
    /\ pc' = "idle" /\ mem' = 0
    /\ UNCHANGED <<server, files, sent, fresh, warned, disturbed>>

StopServer ==
    /\ up /\ up' = FALSE
    /\ UNCHANGED <<gen, sealed, shares, conf, gens, files, pc, process>>

\* systemd restarts the server; a Vault always starts sealed.
StartServer ==
    /\ ~up /\ up' = TRUE
    /\ sealed' = TRUE /\ shares' = {} /\ disturbed' = TRUE
    /\ UNCHANGED <<gen, conf, gens, files, pc, mem, sent, fresh, warned>>

\* `vagrant destroy` and `up` of the storage node: Vault's data goes with it.
RebuildStorage ==
    /\ pc = "idle" /\ gen # 0
    /\ gen' = 0 /\ sealed' = TRUE /\ shares' = {} /\ conf' = {} /\ remote' = 0
    /\ UNCHANGED <<up, gens, local, printed, pc, process>>

\* The same for the control plane, while the storage node is kept.
RebuildControlPlane ==
    /\ pc = "idle" /\ local # 0
    /\ local' = 0
    /\ UNCHANGED <<server, remote, printed, pc, process>>

-----------------------------------------------------------------------------
(* Calls to the server *)

\* The server counts a key; at the threshold it opens, or, if a key of another
\* generation is among them, refuses (HTTP 400) and starts over.
CountKey(k) ==
    LET got == shares \cup {k}
    IN IF ~sealed THEN UNCHANGED <<sealed, shares>>
       ELSE /\ shares' = IF Cardinality(got) = Threshold THEN {} ELSE got
            /\ sealed' = ~(/\ Cardinality(got) = Threshold
                           /\ \A s \in got : s[1] = gen)

Refused(k) ==
    /\ sealed /\ Cardinality(shares \cup {k}) = Threshold
    /\ \E s \in shares \cup {k} : s[1] # gen

\* PUT sys/unseal with the command's next key. `done` is the step after the loop.
SendKey(step, done) ==
    LET k == <<mem, sent + 1>>
    IN /\ pc = step
       /\ \/ /\ up /\ gen # 0 /\ ~Refused(k)
             /\ CountKey(k)
             /\ sent' = sent + 1
             /\ pc' = IF sent + 1 = KeysToSend THEN done ELSE step
          \/ /\ (up /\ gen # 0 /\ CountKey(k)) \/ UNCHANGED <<sealed, shares>>
             /\ Fail /\ UNCHANGED sent
       /\ UNCHANGED <<up, gen, conf, gens, files, mem, fresh, warned, disturbed>>

\* Mutant of Configure: the warning is lost.
ConfigureSilently(step, next) ==
    /\ pc = step
    /\ pc' = next
    /\ \/ /\ up /\ ~sealed /\ gen # 0 /\ mem = gen
          /\ conf' = conf \cup {step}
       \/ UNCHANGED conf
    /\ UNCHANGED <<up, gen, sealed, shares, gens, files, mem, sent, fresh, warned, disturbed>>

\* One configuration call of Install: its failure is only a warning, and it
\* needs an open Vault and the root token of its generation.
Configure(step, next) ==
    /\ pc = step
    /\ pc' = next
    /\ \/ /\ up /\ ~sealed /\ gen # 0 /\ mem = gen
          /\ conf' = conf \cup {step} /\ UNCHANGED warned
       \/ /\ \/ up /\ ~sealed /\ gen # 0 /\ mem = gen /\ conf' = conf \cup {step}
             \/ UNCHANGED conf
          /\ Warn
    /\ UNCHANGED <<up, gen, sealed, shares, gens, files, mem, sent, fresh, disturbed>>

-----------------------------------------------------------------------------
(* VaultInstaller.Install *)

\* Mutant of WaitForVault: it polls without a deadline.
WaitForeverForVault ==
    /\ pc = "wait" /\ up /\ pc' = "check"
    /\ UNCHANGED <<server, files, process>>

\* waitForVault: any HTTP answer will do; the deadline ends the install.
WaitForVault ==
    /\ pc = "wait"
    /\ (up /\ pc' = "check") \/ Fail
    /\ UNCHANGED <<server, files, process>>

\* GET sys/init. An error answer is JSON too, without "initialized": not yet.
IsInitialized ==
    /\ pc = "check"
    /\ \/ up /\ pc' = IF gen = 0 THEN "init" ELSE "load"
       \/ up /\ pc' = "init"
       \/ Fail
    /\ UNCHANGED <<server, files, process>>

\* POST sys/init: the answer is the only copy of the new key material.
InitVault ==
    /\ pc = "init"
    /\ \/ /\ up /\ gen = 0 /\ gens < MaxGen
          /\ gen' = gens + 1 /\ gens' = gens + 1
          /\ sealed' = TRUE /\ shares' = {} /\ conf' = {}
          /\ \/ pc' = "unseal" /\ mem' = gens + 1 /\ fresh' = TRUE
             \/ Fail /\ UNCHANGED <<mem, fresh>>
       \/ Fail /\ UNCHANGED <<gen, gens, sealed, shares, conf, mem, fresh>>
    /\ UNCHANGED <<up, files, sent, warned, disturbed>>

UnsealNew == SendKey("unseal", "mint")

\* createProvisionerToken: on failure components will use the root token.
MintToken ==
    /\ pc = "mint"
    /\ pc' = "save"
    /\ (up /\ ~sealed /\ mem = gen /\ UNCHANGED warned) \/ Warn
    /\ UNCHANGED <<server, files, mem, sent, fresh, disturbed>>

\* Mutant of SaveLocal: a failed local write is only a warning.
SaveLocalOrWarn ==
    /\ pc = "save"
    /\ pc' = "copy"
    /\ (local' = mem /\ UNCHANGED warned) \/ (UNCHANGED local /\ Warn)
    /\ UNCHANGED <<server, remote, printed, mem, sent, fresh, disturbed>>

\* saveInitData, local copy; on failure the keys are printed and Install fails.
SaveLocal ==
    /\ pc = "save"
    /\ \/ pc' = "copy" /\ local' = mem /\ UNCHANGED printed
       \/ Fail /\ printed' = printed \cup {mem} /\ local' \in {local, mem, 0}
    /\ UNCHANGED <<server, remote, process>>

\* saveInitData, scp, mv and chmod on the storage node: failures are warnings.
CopyToStorage ==
    /\ pc = "copy"
    /\ pc' = "kv"
    /\ (remote' = mem /\ UNCHANGED warned) \/ (remote' \in {remote, mem} /\ Warn)
    /\ UNCHANGED <<server, local, printed, mem, sent, fresh, disturbed>>

\* Mutant of LoadRootToken: the local copy is pushed to the storage node first, by
\* a redirection that empties the file there when there is no local one.
PushLocalFirst ==
    /\ pc = "load"
    /\ remote' = local
    /\ \/ local # 0 /\ mem' = local /\ pc' = "kv"
       \/ local = 0 /\ Fail /\ UNCHANGED mem
    /\ UNCHANGED <<server, local, printed, sent, fresh, warned, disturbed>>

\* loadRootToken: the storage node's copy over ssh, else the local one.
LoadRootToken ==
    /\ pc = "load"
    /\ \/ remote # 0 /\ mem' = remote /\ pc' = "kv"
       \/ local # 0 /\ mem' = local /\ pc' = "kv"
       \/ local = 0 /\ Fail /\ UNCHANGED mem
    /\ UNCHANGED <<server, files, sent, fresh, warned, disturbed>>

EnableKV == Configure("kv", "auth")
ConfigureK8sAuth == Configure("auth", "secrets")
StoreSecrets == Configure("secrets", "installed")

-----------------------------------------------------------------------------
(* `vault unseal` *)

ReadKeys ==
    /\ pc = "read"
    /\ \/ local # 0 /\ mem' = local /\ pc' = "send"
       \/ Fail /\ UNCHANGED mem
    /\ UNCHANGED <<server, files, sent, fresh, warned, disturbed>>

SendKeys == SendKey("send", "unsealed")

-----------------------------------------------------------------------------
Step ==
    \/ WaitForVault \/ IsInitialized \/ InitVault \/ UnsealNew \/ MintToken
    \/ SaveLocal \/ CopyToStorage \/ LoadRootToken
    \/ EnableKV \/ ConfigureK8sAuth \/ StoreSecrets
    \/ ReadKeys \/ SendKeys

Environment ==
    \/ StartInstall \/ StartUnseal \/ Leave \/ StopServer \/ StartServer
    \/ RebuildStorage \/ RebuildControlPlane

Next == Step \/ Environment

Spec == Init /\ [][Next]_vars

\* A running command makes its next call: vaultHTTPClient has a timeout and
\* waitForVault a deadline. Nothing is assumed of the server or the operator.
FairSpec == Spec /\ WF_vars(Step)
-----------------------------------------------------------------------------
(* Properties *)

\* An install that initialized Vault and returns nil has its keys in the local
\* vault-init.json, the file `vault unseal` needs after the next restart
\* (saveInitData is the one step that is no warning, vault.go:172-182).
InstalledKeysAreSaved ==
    pc = "installed" /\ fresh => local = gen

\* An install that returns nil and printed no warning has configured the engine,
\* the auth method and the secrets in the Vault that is running, and if it
\* initialized that Vault, its keys are on the storage node too (vault.go:45-92).
QuietInstallIsComplete ==
    pc = "installed" /\ ~warned =>
        /\ conf = Parts
        /\ fresh => remote = gen

\* Unless the server restarts between two keys, `vault unseal` reports success
\* only over an open Vault, whatever keys interrupted commands left counted
\* (cmd/vault.go:224-243).
UnsealedMeansOpen ==
    [][pc = "send" /\ pc' = "unsealed" /\ ~disturbed => ~sealed']_vars

\* As long as the storage node keeps its data it keeps the keys to it: nothing
\* overwrites the remote vault-init.json of the Vault in use, not even an install
\* that finds a stale local file (vault.go:58-68, 244-272).
StorageKeepsItsKeys ==
    [][gen # 0 /\ gen' = gen /\ remote = gen => remote' = gen]_vars

\* Every command ends, even if Vault never answers: waitForVault has a deadline
\* and every call vaultHTTPClient's timeout (vault.go:19-22, 94-111).
CommandsEnd ==
    pc # "idle" ~> pc \in Finished \cup {"idle"}

-----------------------------------------------------------------------------
(* Statements of the repository that the code does not meet *)

\* vault.go:171-174: keys that "cannot be regenerated" are saved, or dumped "to
\* stdout as a last-resort capture"; so a failed install has not lost them.
FailedInstallKeepsKeys ==
    pc = "failed" /\ fresh => gen \in {local, remote} \cup printed

=============================================================================
