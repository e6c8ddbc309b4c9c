# A TLA+ model of k8s-provisioner

k8s-provisioner builds a laboratory Kubernetes cluster on Vagrant machines,
installs its workloads, keeps their passwords in a HashiCorp Vault and manages
certificate users. It is a command-line program: no command runs for long, none
holds a lock, and what one leaves behind (in the cluster, in Vault, on the disks
of the machines, in the folder they share) is what the next one starts from. Almost every step is a call
to something else that can fail, with or without having taken effect, and a
command can be killed and run again. That is where its difficulty lies, and what
these modules are about.

## Inventory

| Part (code) | State | Operations | Hard about it |
|---|---|---|---|
| user management (`internal/user`, `cmd/user.go`) | directory of each user, CSR of each user, role bindings | create (with rollback), delete, list, create-role | three stores, no transaction; leftovers of killed commands; objects found by name |
| Vault bring-up (`installer/vault.go`, `cmd/vault.go`) | server (initialized, sealed, keys counted, configured), vault-init.json on two nodes | install, unseal | key material exists once; nodes are rebuilt one by one; server restarts |
| API secrets (`installer/vault.go`, `keycloak_credentials.go`, `cmd/vault.go`) | one KV document, its copy in Kubernetes Secrets, what Keycloak was created with | storeAPISecrets, resolveCredentials, `vault set`, the operator's patch | read-modify-write without check-and-set; a failed read looks like no value; asynchronous sync |
| workload plan (`provisioner.go`) | position in the plan, what failed | InstallWorkloads | order is a list; fatal and non-fatal failures; re-runs |
| installers (`internal/installer/*`) | objects of the cluster | one Install each | shared namespaces, ConfigMaps and classes; readiness waits |
| API server patch (`keycloak_realm.go`, `keycloak_oidc.go`, `provisioner.go`) | realm, auth-config.yaml, the static pod's manifest, the tokens of the nodes | realm script, two edits, the wait, the objects after it, the refresh of calico-node | the kubelet restarts the server in its own time; a restart makes tokens worthless; a bad manifest leaves no API server |
| cluster bring-up (`provisioner.go`, `hostprep.go`, `calico.go`, `cmd/provision.go`, `Vagrantfile`) | machines, join command in the shared folder, nodes | InstallCommon, InitCluster, InitControlPlane, JoinWorker, and the subcommands that run them | machines run concurrently; steps that work only once; a file that outlives clusters |
| executor (`internal/executor`) | none | run a command, write a file, dry-run | an error does not say whether the command took effect |
| configuration (`internal/config`) | none | load, validate | components are enabled by string equality: a value nearly right is a component silently left out |
| root, status, vbox, version commands; demo application | none | read and print | sequential |

How they interact: the Vagrantfile starts `provision all` on every Kubernetes
machine; the control plane hands the workers its join command through the shared
folder; the worker called node02 starts `provision workloads` on the control plane
over ssh when it has joined, whatever the others do. That command runs the installers in the order of the plan. The Vault
installer talks to the storage node by HTTP and ssh, the secrets operator copies
the document to the cluster, the Keycloak installer reads and writes the document
and restarts the API server, after which calico-node needs a new token. `vault`
and `user` commands are run by an operator at any time.

What makes each part correct:

- users: what a command reports is true of all three stores, a delete takes only
  what belongs to its user, and every command ends;
- Vault: the keys of a Vault in use are where they can be found, success without
  a warning means complete, "unsealed" means open;
- secrets: nobody's value is lost or replaced by somebody who did not mean to,
  and Keycloak and Vault agree on what both know;
- workloads: whatever a call needs an earlier one has provided, success means
  that what was promised is there, and re-runs do not break what earlier ones made;
- API server: it can always start again, and every node ends up with a token it
  accepts;
- configuration: a component that a file asks for is installed or its file rejected;
- cluster: a worker that reports success is a node of the present cluster, with
  everything a node needs.

`PROJECT.json` lists every component with its status and every hazard of the code
at its line, with the properties about it.

## Modules

| Module | What it is |
|---|---|
| `Users`, `MC_Users`, `Users_proofs` | the user commands |
| `VaultInit`, `MC_VaultInit`, `VaultInit_proofs` | bringing up and unsealing Vault |
| `Secrets`, `MC_Secrets`, `Secrets_proofs` | the secrets document, its writers and Keycloak |
| `Calls` | a call as data: what it needs, takes away and leaves |
| `Config` | a configuration file and its environment, `Load` and `Validate` |
| `Recipes`, `Recipes_proofs` | the plan and each installer's calls, as data over `Calls`; what holds of each recipe in every configuration |
| `InstallPlan` | the abstract promise of `provision workloads` |
| `Workloads`, `MC_Workloads`, `Workloads_proofs`, `Completion_proofs` | InstallWorkloads walking the recipes; it implements `InstallPlan`. `Completion_proofs` is about what a whole run leaves |
| `ApiServer`, `MC_ApiServer`, `ApiServer_proofs` | the Keycloak step from its realm script to the refreshed calico-node |
| `Cluster`, `MC_Cluster`, `Cluster_proofs` | the `provision` commands on the machines, over `Calls` |

`Workloads` composes `Config` (what a run is started with) and `Recipes` (every
installer) with the cluster's own actions (the operator's sync, pods that start
again). `VaultInit`, `Secrets` and `ApiServer` look into installers of which
`Recipes` has the outside only.

### Conventions

- An action is a call together with the code up to the next call; `pc` names the
  next call. A call that can fail has a disjunct for each outcome: it worked; it
  failed; it failed for the caller but took effect. A kill is an action of its own.
- A time-out is a failure that may come at any time: nothing in the code depends
  on how long it took.
- Data are abstracted to identities: a key pair is its number, an initialization
  of Vault is its generation, a generated password is the stamp of the command
  that made it, a cluster is its number, a name is the sequence of its parts
  between dashes (so that prefixes and joins of names are what they are in Go).
- Operators named as mutants of a definition, beside it, are plausible mistakes
  in the code it models. No specification uses them: they show that each
  property depends on the code, because with the mutant in place of the
  definition it fails.

### Users

`disk`, `csr` and `bindings` are the three stores. `GenerateKey` ... `CleanupCsr`
are the steps of `CreateUser`; every error return after the directory exists goes
through `Abort` to `RollbackFiles` and `RollbackCsr`, the deferred `rollbackUser`.
`ListBindings` ... `DeleteUserFiles` are `DeleteUser`; `err[p]` is the list of
errors it joins. The signer (`Sign`) is not this program's; it may never sign.
`MkdirAll` failing is a refusal, as are the validations before it.

Two commands may be about the same user. `raced[p]` is history: another command on
p's user was running at some time while p was. The promises are made to commands
with `raced[p] = FALSE` (`Undisturbed`): the code has no lock, and of two commands
that meet, the last to write wins. `Exclusive` (one command for each user) is used by
the run `users_prefix` only.

### VaultInit

`gen` is the generation of the server, `local` and `remote` those of the two
copies of vault-init.json, `mem` the one whose keys or token the command holds.
`CountKey` is how Vault counts unseal keys. `RebuildStorage` and
`RebuildControlPlane` are `vagrant destroy` and `up` of one node, and happen
between commands.

### Secrets

`doc` is the document, `synced` the Secrets of the cluster, `admin` and `client`
what Keycloak was created with. `misread`, `warned` and `raced` are history: they
say which promise a run may be held to. A value 0 is a missing key. ReadSecret's
answer to a missing document is the empty one.

### Recipes and Workloads

`Config` has a file as a record of what `Load` and `Validate` distinguish: fields that
are missing or malformed, nodes, toggles, AI and Vault settings, secrets of the file and
of the environment. `StartRun` of `Workloads` picks a file, and the command ends
before its first call if `Valid` refuses it; between two runs the file may be
edited. `FeaturesOf` is what `workloadSteps` and the installers ask of it.

The cluster is a set of facts; a call needs some, takes some away and leaves some.
A group of calls has a policy: its error is returned by Install (`Must`), printed
with the rest of the group skipped (`May`), or ignored (`Try`). `kubectl apply`
of an object without a label that an earlier apply had set takes the label away:
this is why `VsoResources` drops `Injected`. Grafana, Loki and Tempo each replace the
ConfigMap with the data sources as a whole, which is why Loki's group drops what only
Tempo's leaves. A recipe depends on the features and, where the code asks the cluster
first, on the facts.
A workload whose manifest claims storage needs the StorageClass the claim names, and a
manifest with Istio's objects in it needs their CRDs. `CallFails` makes a call fail that
cannot succeed (its wait times out), and up to `MaxFaults` others. `SyncSecrets`,
`StartKeycloakPod`, `StartGrafanaPod`, `PullModel` and `RestartAPIServer` are what the cluster
does by itself, at any time or never.

The edits of the API server's manifest do not restart it: they leave `Edited`, and
`RestartAPIServer` makes calico-node's token worthless some time later, or while the code
waits (`WaitForAPIServer`). An error of an edit is returned at once, so that nobody waits for
the restart an earlier edit has caused; a wait that was too short (its failure) goes unseen.
In both cases calico-node may be refreshed by the old server, and its token dies with a run that
returns nil: `NodesGetFreshToken` excludes runs whose calls `hostAlias`, `authFlag` or
`apiServerWait` failed. `StartRun` waits until the kubelet has noticed what an earlier run
did to the manifest; this is the part of `Prompt` of `ApiServer` that says so, and rests on
the minutes a run takes to get to Keycloak.

### ApiServer

`manifest` is how often each of the two edits is in kube-apiserver.yaml, `running` the
same of the manifest the server was started with; `epoch` counts its restarts, and
`token[n]` is the epoch node n's calico-node got its token in. The kubelet is two
actions, `StopServer` when the manifest is another than the one that runs, and
`StartServer` if the server would accept what it finds (`Startable`).
`TruncateAuthConfig` and `WriteAuthConfig` are the two halves of `os.WriteFile`.
`patched`, `warned`, `cut` and `refreshed` are what a run knows or has reported; `cut`
is a run whose patch was ended by an error between an edit and the wait.
The sleep of `apiServerRestartWait` is the only place where the code trusts in
time: with `Prompt`, it is long enough for the kubelet to notice, and so are the
minutes before a next run gets to this step. Everything proved about the patch rests on it:
without it, RefreshedNodesHaveTokens fails.

### Cluster

`host[n]` is what `InstallCommon` has done to machine n, one call after the other.
Downloads need the resolver, in `InstallCommon` and after it: kubeadm's images, Calico's
manifest, the fallback's sshpass and the workloads; what is on the machine already is not
fetched again (`CanFetch`). `goal[n]` is the command: the provisioners of Vagrant (`up`), or one of `all`
(`init` is the same on the control plane), `common`, and `controlplane` or `worker`
(`role`), which do not run `InstallCommon` and do not look whether it was run.
`OpenJoinFile` and `PrintJoinCommand` are the two halves of the shell's
`kubeadm token create ... > join-command.sh`. `Join` is kubeadm join, which
refuses a machine it ran on, a bad token and a wrong cluster. `InstallWorkloads`
follows when `Starter`, the worker the Vagrantfile names, has joined, and after
`provision controlplane`. A worker that was
destroyed is no node any more: `Destroy` takes the Node object with it, so the
stale Node object that Kubernetes would keep under the same name is not modelled.

## Checks

Runs of `PROJECT.json`; each configuration is `MC_<Module>_<run>.cfg`.

| Run | Shows |
|---|---|
| `users_safe` | two commands on one user, with every failure and kill: `CreatedUserIsGranted`, `CreatedKubeconfigIsUsable`, `DeletedUserHasNoAccess`, `DeletedUserHasNoCredential`, `FailedCreateLeavesNoCredential`, `DeleteOnlyOwnBindings`, and that every command ends (`CommandsTerminate`) |
| `vault_safe` | `InstalledKeysAreSaved`, `QuietInstallIsComplete`, `UnsealedMeansOpen`, `StorageKeepsItsKeys`, and that every command ends (`CommandsEnd`) |
| `secrets_safe` | `InstalledKeycloakMatchesVault`, `InstallersKeepSecrets`, `SetKeepsOtherKeys` |
| `workloads_plan` | `DependencyOrder`, `QuietRunIsComplete`, `SuccessMeansEssentials`, `GrafanaKeepsItsSources`, `NodesGetFreshToken`, `AskedIsTried`, and the refinement `PlanSpec` |
| `apiserver_patch` | `ServerCanStart`, `QuietPatchIsInForce`, `RefreshedNodesHaveTokens`, `RestartsAreBounded`, that a run ends (`RunEnds`) and that a stopped server comes back (`ServerReturns`) |
| `cluster_safe` | `JoinCommandIsCurrent`, `DownloadsHaveDNS`, `NodesArePrepared`, `JoinedOrBlank`, and that every command ends (`ProvisionEnds`) |

The `TypeOK` of each module is checked with its safety run.

### Where the code does not do what it says

Each of these runs has one property, which states what a comment, a document or a
test says, and TLC finds a behaviour of the code that violates it.

| Run | Property | The code |
|---|---|---|
| `users_prefix` | `DeleteOnlyOwnBindings` | deleting `dev` takes the bindings of `dev-1` |
| `vault_lost` | `FailedInstallKeepsKeys` | an unseal call that fails after sys/init loses the keys |
| `secrets_dropped` | `ReinstallKeepsOperatorKeys` | a re-run drops the keys operators were told to keep in Vault |
| `secrets_replaced` | `PasswordsSurviveReinstall` | a failed read replaces a stored password |
| `workloads_injection` | `KeycloakKeepsItsSidecar` | a re-run takes the injection label away; a Keycloak pod started then has no sidecar |
| `cluster_early` | `WorkloadsMeetAllNodes` | node02 starts the workloads while node01 is still being prepared |

The models show more of this kind, which have no run of their own; the properties
above are stated so that they hold in spite of them:

- a create that fails at its second binding leaves the first one, without a warning
  (`user.go:161`), and the rollback of a repeated create removes the files of
  the earlier one (`user.go:182`);
- a repeated create with `--groups` keeps the binding it finds and reports success,
  and the groups are not bound (`rbac.go:57`);
- after a rebuilt control plane the install succeeds without restoring the local
  vault-init.json that `vault unseal` reads (`vault.go:255`);
- a restart of Vault between two keys makes `vault unseal` report success over a
  sealed Vault (`cmd/vault.go:243`);
- of two `vault set` at once one is lost (`cmd/vault.go:197`);
- a worker that runs the join command while the control plane's shell has emptied the
  file reports success and has not joined (`provisioner.go:430`); `JoinedOrBlank` allows
  exactly that;
- `provision controlplane` installs the workloads before any worker can have joined
  (`provisioner.go:410`);
- InstallCommon cannot be repeated once its keyrings are there, because gpg does not
  overwrite them (`hostprep.go:114`);
- the realm script, which keycloak_realm.go means to be repeatable, stops at the first
  client scope that exists, so a re-run never gets to a patch that had failed;
- after a `common` that was killed between the removal of the resolver and its rewriting,
  `provision controlplane` and the fallback of `provision worker` fail at their downloads,
  because neither runs `configureDNS` (`cmd/provision.go`, `hostprep.go:87`);
- an edit of the manifest that fails after the first one ends the patch without the
  wait, so that calico-node may be refreshed by a server about to stop: its nodes keep
  a dead token, and a warning is all that tells (`cut` in `ApiServer`, and in `Workloads`
  the failed `authFlag` that `NodesGetFreshToken` excludes);
- a component that is not ticked may still be installed: `logging: none` does not gate
  Loki, `service_mesh: none` not Istio, and `vault.enabled: false` not Vault; only those
  steps of the plan that ask for a toggle are in `AskedIsTried`;
- an empty MetalLB range is valid although MetalLB is fatal without one;
- the realm is configured with the password in Vault, whatever Secret the Keycloak
  container started with (`keycloak_realm.go:12`), so the login fails if the Secret
  had not been refreshed.

### Bounds, and why they are enough

- `users_safe`: two commands (what interferes, interferes in pairs), one user, two
  keys. A role named like the user, a binding of another tool and a binding of another
  user whose role is named like this one make names collide that can. Two keys suffice
  for "of an earlier create". Two users whose names extend each other are in
  `users_prefix`; the theorems are about any number of users and commands.
- `vault_safe`: three generations; two are what it takes for a stale file to meet a
  newer Vault, three for two stale files.
- `secrets_safe`: two commands at once and three stamps in all (an operator's patch
  takes one too); two generated keys, one with a default and one only operators set.
- `workloads_plan`: a run and a re-run, with one call that fails though it could
  succeed, besides all those that fail because of it, and kills at any call, and the
  file edited in between. Three files are accepted: the repository's, with
  everything but AI; AI with a local model and without mesh and identity; AI with a
  cloud model, its key from the environment, and no monitoring. They turn each feature on
  and off in at least one. These are 2.2 million states, two minutes. Four are rejected: a typo in a toggle, an enabled Vault without
  an address, a password with a quote, and no control plane.
- `apiserver_patch`: the control plane and one worker, three runs, with `Prompt`. A run
  that was killed, a run that repairs it and a run after that are the longest chain the
  code distinguishes; the realm can be removed before each.
- `cluster_safe`: one worker, two clusters after the one the committed join command
  is of, four commands among the two machines: up, a rebuild or a repetition of both,
  with any of the subcommands. Workers interact only through the file and the cluster, so
  one shows what each can meet. `cluster_early` has two, because it is about the
  other worker.

`CHECK_DEADLOCK FALSE` is in the configurations of `Secrets`, `Workloads`, `ApiServer`
and `Cluster`: when the bound of commands is used up nothing is left to do. In `Users`
and `VaultInit` commands can always be started again, and deadlock is checked.

### Fairness

Runs without a liveness property use `Spec`. The others use `FairSpec`: weak
fairness of the step of a running command and of nothing else. A step is a call
whose client gives up (`apiCtx` after 15 s, `vaultHTTPClient`'s time-out, the
deadlines of every wait loop), so a running command is never held up for good.
`ApiServer` also has weak fairness of `StopServer`, because the kubelet looks at the
manifests again and again; `ServerReturns` is about a kubelet that also starts what it
can start, and names that as its hypothesis.
Nothing else is assumed of the signer, Vault, the cluster, other machines or operators,
and the properties hold without them. That a run of `provision workloads` ends is not stated: in that model a
wait for what is not there simply fails. What the models add to the code here is that a shell command which has no time-out of its own (apt-get, kubeadm, helm)
returns.

## Proofs

`tlapm` checks these for every value of the constants; the first column is the
property of the run above of which TLC checks an instance.

| Property | Theorem | Assumes besides the constants' ASSUME | Argument |
|---|---|---|---|
| `TypeOK` of every module | `TypeCorrect` (of `Users` and of `Workloads`), `VaultTypeCorrect`, `SecretsTypeCorrect`, `ApiServerTypeCorrect`, `ClusterTypeCorrect` | | inductive |
| `DeletedUserHasNoAccess`, `DeletedUserHasNoCredential`, `FailedCreateLeavesNoCredential` | `DeleteRevokesAccess`, `DeleteRemovesCredential`, `RollbackRemovesCredential` | | see below |
| `CreatedKubeconfigIsUsable` | `KubeconfigIsUsable` | | see below |
| what is left of `CreatedUserIsGranted` and `DeleteOnlyOwnBindings` for names of every kind | `CreateGrants`, `DeleteTakesOnlyAlike` | | the name of a binding begins with its user's, see below |
| `InstalledKeysAreSaved`, `QuietInstallIsComplete` | `KeysAreSaved`, `QuietIsComplete` | | what is saved and configured at each step |
| `StorageKeepsItsKeys` | `StorageKeepsKeys` | | only `CopyToStorage` writes the file, and then the command knows the Vault in use |
| `UnsealedMeansOpen` | `UnsealOpens` | | counting, see below |
| `InstalledKeycloakMatchesVault`, `InstallersKeepSecrets`, `SetKeepsOtherKeys` | `KeycloakMatchesVault`, `InstallersKeep`, `SetKeeps` | | a command that was not raced holds what is in the document |
| `PlanSpec` | `ImplementsPlan` | | refinement, see below |
| `AskedIsTried` | `NothingIsSkipped` | | the loop, and what `Validate` accepts, see below |
| `NodesGetFreshToken` | `FreshToken` | | see below |
| `DependencyOrder` | `StepsAreInOrder` | | see *Whole runs* |
| `SuccessMeansEssentials`, `QuietRunIsComplete` | `EssentialsAreThere`, `QuietRunsComplete` | | see *Whole runs* |
| `GrafanaKeepsItsSources` | `SourcesAreKept` | | see *Whole runs* |
| `runs <= 1 => KeycloakKeepsItsSidecar` | `FirstRunKeepsSidecar` | | holds of the first run on a new cluster only: `workloads_injection` violates it in the second; see *Whole runs* |
| `ServerCanStart`, `QuietPatchIsInForce`, `RefreshedNodesHaveTokens` | `ServerStarts`, `QuietPatchHolds`, `RefreshedNodes` | `Prompt`: the kubelet notices an edit within the 20 s the code waits | see below |
| `RestartsAreBounded` | `RestartsBounded` | | a restart takes an edit, and no edit is made twice |
| `JoinCommandIsCurrent` | `JoinFileIsCurrent` | | only the control plane writes the file; from `print` to its end it is of the present cluster |
| `DownloadsHaveDNS` | `DownloadsResolve` | | see below |
| `NodesArePrepared`, `JoinedOrBlank` | `NodesAreOfTheCluster`, `WorkersJoin` | | see below |

*Users.* The promises are about the end of a command, so the invariant says at each
step what the command has already achieved: while `DeleteForUser` goes from
scope to scope, a binding of the user exists only in a scope still to be
listed, or is in the list to be deleted, or an error has been recorded. It is
needed that nobody binds the user meanwhile, and so the invariant speaks of commands
that have not been raced: no other command on their user is under way, and none has
been since they began. The code has no lock, so more cannot be promised. That the
kubeconfig is usable needs that a request carries the
key in the file from `Submit` on, however old the request it replaced. That a role
was granted needs that a binding found under the name of the new one is of this
user and role, which is not so for every set of names: users `a` and `a-b` with roles
`b-c` and `c` share the name `a-b-c-binding`. For every set of names, neither
`CreatedUserIsGranted` nor `DeleteOnlyOwnBindings` holds, and so the theorems say exactly
what the code does promise. Two names are `Alike` if one of them is the beginning of the
other, up to a dash. `CreateGrants` is about a user nobody else is called like (`Apart`); no
other name is restricted. `DeleteTakesOnlyAlike` is about any names at all: a user loses
bindings only to a delete of somebody called alike, and a foreign binding is lost only if
its name begins like a deleted user's. Both rest on `NameInv`, that a binding made for a
user has the user's name and a dash in front.

*Vault.* `Knows` says that the command that initialized the Vault holds its
generation, `Configured` that without a warning every part up to the next step is
there. They do not follow from the properties, and the properties follow from
them. For `UnsealOpens` two more parts are needed: `Few`, that fewer keys than the
threshold are counted, and `Counted`, that since the command began, if Vault
is still sealed and has not restarted, the keys the command has sent are all
counted. The third key then either opens Vault or is refused.

*Refinement.* `Workloads` maps to `InstallPlan` with: enabled places of the plan,
"running" while the command runs, the places before the present one (and the
present one once Install has returned), and the recorded failures. Each action is a
step of the plan (`InstallReturns`: Installed; a returned error: NotInstalled; the
end of the list: Finish; a kill: Killed) or leaves the mapped state alone.

*Workloads.* Types are not obvious here: recipes look at the facts, and the facts change
while a recipe is walked. That the next call is always a call of the running installer
needs that the number of calls of a recipe depends on the configuration only
(`Steady`). `NothingIsSkipped` combines the loop's invariant with `Valid`: a value that
`Validate` accepts and that is neither empty, "none" nor "disabled" is the one
`workloadSteps` looks for.

*Whole runs.* A run makes up to eighty calls over a cluster that changes under it, and the
properties relate calls of different components. `Recipes_proofs` therefore first says of
each recipe, for every configuration and every cluster, all that a run depends on:

- `PlaceFits`: it is the recipe over an empty cluster (`Fits`), but for what Grafana loads;
  its calls take away only the facts in `Drops`; and an error that is printed never skips a
  call whose own error would be returned;
- the lemmas named `...Gives`: which facts it is sure to make, by a call whose error is
  returned (`Essential`) or also by one whose error is printed (`Whatever`);
- `PlaceOrdered`: each of its calls needs only what a call before it makes, what earlier
  steps have made, storage classes among it (`Provided`, the "dependency order" of provisioner.go written down) and
  what the cluster brings about by itself; and nothing that is needed is ever taken away.

Each is put together from the parts of the recipe, with a lemma for `\o`, `If`, `Must`,
`May` and `Try`. `Volatile(i)` collects what may still be taken away from place i
on; it shrinks along the plan. The inductive invariant of a run is then short: `LeftInv` says that
every call the run is past, if it must have succeeded (nothing has failed, or its
step is fatal and its error is returned), has left what it makes, except for what is
volatile from its place on. It follows from `StepKeeps`: no step takes away what is not
volatile at its place. `DependencyOrder` and `SuccessMeansEssentials` follow from it, and so
does most of `QuietRunIsComplete`.

What is volatile when it is made needs invariants of its own. Three components replace the
ConfigMap of Grafana's data sources, and every restart replaces what Grafana has loaded: `SourcesInv`
says that once Loki's call has been made, every later call that replaces a source makes it
again (`LateIsHarmless`), and that a restart loads what the ConfigMap has. `KubeInv` says the
same of Karpor's ConfigMap, which is deleted by one call and made by the next, where an
error of the first is ignored. `OAuthInv` needs `RememberInv`: a loop past Keycloak has remembered it, so that
a run cannot end without the call that lets Grafana log in.

`FreshToken` relates the API server's restart to the refresh. `EditInv` says that while a run
is under way, an edit the kubelet has not noticed is one this run made and either has still
to wait for or will not wait for, because a call of `EditCalls` failed. `TokenInv` carries
from the Keycloak step on that the refresh follows, whatever the step returned, and that
nothing makes its token stale but a restart that `EditInv` says is not to come.

`KeycloakKeepsItsSidecar` is what `workloads_injection` refutes: a second run takes the
label off the namespace Keycloak already lives in. `FirstRunKeepsSidecar` proves that two runs
are needed for that. Its invariant, `FirstInv`, says that a first run which has deployed
Keycloak is at its place or past it, with the label and the mesh there, and that the pod has its
sidecar. It rests on two facts about the recipes: no other component makes Keycloak's Deployment
(`PlaceShuns`), and Keycloak makes it after a call that sets the label and whose error
ends Install (`PlaceLabels`). It also needs more of the running Install than `DoneInv` says of the
ones behind: for every component, fatal or not, a call whose error is returned has left
what it makes (`NowInv`). The secrets operator, whose namespace has no label, comes
earlier in the plan.

All of these were checked with TLC on the configuration of `workloads_plan` first.

*API server.* The inductive invariant has three parts: `Once` (no edit is there twice, and
the flag never without the alias), `Whole` (the file is whole whenever an edit is made,
and if it is not whole later, no edit is still to be noticed), and `Seen` (at which steps
the kubelet is known to have seen the latest edit; this part needs `Prompt`).

*Cluster.* `HostInv` says how far `InstallCommon` has come from the place of the next
call, and that a machine with the Kubernetes tools has been through all of it: this is
what `provision worker`, which looks for nothing but needs kubeadm, has in common
with `provision all`. The resolver is the hard fact, because call 4 takes it away and
call 5 gives it back, and a kill may come in between. `ResolverInv` says that a command which
runs `InstallCommon` itself has the resolver from then to its end, and so at each of its
downloads; `DownloadsResolve` says nothing of `controlplane` and `worker`, which have no such
promise. `NodeInv` ties the
nodes to the machines that exist and to the present cluster, over rebuilt machines.

Every invariant and every action property of a passing run is proved, and the refinement
too, except `CreatedUserIsGranted` and `DeleteOnlyOwnBindings`, in whose place stand the two
theorems about names above. Only model-checked: these two and the five liveness properties
`CommandsTerminate` (`Users`), `CommandsEnd` (`VaultInit`), `ProvisionEnds` (`Cluster`),
`RunEnds` and `ServerReturns` (`ApiServer`), because the prover has no fairness rules and no
ENABLED here.

## Not modelled, and why

- Manifests, Helm values, dashboards, policies: what they say is for Kubernetes.
  They are facts here.
- The dry-run path, output scrubbing and the
  commands that only print: sequential code without state.
- `user list` and `user create-role`: the first reads, the second writes an object no other
  operation here depends on.
- Readiness loops: a wait that succeeds or times out. Those whose time-out is only
  printed and on which nothing depends are left out of the recipes.
- What the poll of istiod's pods reads (`istio.go:90` compares single bytes and so always
  waits its full time): only the time it takes is wrong.
- The storage node's provisioning script, the NFS mounts, the label of node01 for AI
  workloads, and reboots of machines.
- More than one cluster, document or Vault at a time: the program has one of each.

## Plan

Order of work, most important first. All but what an item calls left is done.

1. `Users`, with proofs.
2. `VaultInit`, with proofs.
3. `Secrets`, with proofs.
4. `Recipes`, `InstallPlan`, `Workloads`, and the refinement.
5. `Cluster`, with proofs.
6. `ApiServer`, with proofs.
7. Proofs for `Workloads` and `Cluster`, with those about whole runs in `Recipes_proofs` and
   `Completion_proofs`.
8. Left: the readiness loops that look at the cluster more than once, against what they
   report.
9. `Config`; left: the IP range of MetalLB as an operator with a reference definition, and
   `user create-role`.
