----------------------------- MODULE ApiServer -----------------------------
(***************************************************************************)
(* How the API server learns to trust Keycloak, and what that does to the  *)
(* nodes: the Keycloak step of `provision workloads` from its realm script *)
(* on (keycloak.go, keycloak_realm.go, keycloak_oidc.go) and the refresh   *)
(* of calico-node after it (provisioner.go).                               *)
(*                                                                         *)
(* The installer edits the manifest of a static pod in two steps. The      *)
(* kubelet notices in its own time, stops the server and starts it again   *)
(* with what the manifest says then; every restart makes the tokens the    *)
(* nodes hold worthless. While the server is down kubectl fails. Every     *)
(* call may fail, the command may be killed at any point, and it may be    *)
(* run again.                                                              *)
(***************************************************************************)
EXTENDS Naturals

CONSTANTS
    Nodes,     \* nodes running calico-node
    Prompt,    \* the kubelet stops the old server within apiServerRestartWait
    MaxRuns    \* bound: runs in a behaviour

ASSUME ApiServerAssumption == Prompt \in BOOLEAN /\ MaxRuns \in Nat

VARIABLES
    realm,       \* what the realm script has created: "none", "empty" (the
                 \* realm only), "begun", "done"
    authConfig,  \* the file auth-config.yaml: "none", "partial", "whole"
    manifest,    \* how often each edit is in kube-apiserver.yaml
    up,          \* the API server answers
    running,     \* the manifest it was started with
    epoch,       \* times it has been restarted
    rolling,     \* nodes whose calico-node pod is still to be replaced
    token,       \* token[n]: the epoch node n's token is of
    applied,     \* objects applied after the patch
    pc,          \* the call the installer makes next
    patched,     \* the local variable of patchAPIServer
    warned,      \* something of this run was reported as failed
    cut,         \* the patch of this run ended between an edit and the wait
    refreshed,   \* this run saw calico-node rolled out
    runs         \* how many there have been

server == <<up, running, epoch>>
files == <<authConfig, manifest>>
nodes == <<rolling, token>>
memory == <<patched, warned, cut, refreshed>>
vars == <<realm, files, server, nodes, applied, pc, memory, runs>>

Edits == {"alias", "flag"}
Objects == {"roles", "gateway", "kubeconfig"}
Steps == {"realm", "ca", "auth", "alias", "flag", "settle", "poll", "roles",
          "gateway", "kubeconfig", "restart", "status"}

(* Each variable holds a value of the shape the code gives it.             *)
TypeOK ==
    /\ realm \in {"none", "empty", "begun", "done"}
    /\ authConfig \in {"none", "partial", "whole"}
    /\ manifest \in [Edits -> Nat] /\ running \in [Edits -> Nat]
    /\ up \in BOOLEAN /\ epoch \in Nat
    /\ rolling \subseteq Nodes /\ token \in [Nodes -> Nat]
    /\ applied \subseteq Objects
    /\ pc \in Steps \cup {"idle", "ended"}
    /\ patched \in BOOLEAN /\ warned \in BOOLEAN
    /\ cut \in BOOLEAN /\ refreshed \in BOOLEAN
    /\ runs \in 0..MaxRuns

Unedited == [e \in Edits |-> 0]

\* The cluster as kubeadm and Calico left it.
Init ==
    /\ realm = "none" /\ authConfig = "none"
    /\ manifest = Unedited /\ running = Unedited
    /\ up = TRUE /\ epoch = 0
    /\ rolling = {} /\ token = [n \in Nodes |-> 0]
    /\ applied = {}
    /\ pc = "idle" /\ runs = 0
    /\ patched = FALSE /\ warned = FALSE /\ cut = FALSE /\ refreshed = FALSE

\* The server still runs with a manifest that has been edited since.
Pending == up /\ running # manifest

\* The time that passes before what the installer does next is long enough.
Noticed == Prompt => ~Pending

Goto(step) == pc' = step
Warn == warned' = TRUE

-----------------------------------------------------------------------------
(* The command comes and goes *)

Forget ==
    patched' = FALSE /\ warned' = FALSE /\ cut' = FALSE /\ refreshed' = FALSE

\* A run gets to the realm script minutes after it began.
StartRun ==
    /\ pc \in {"idle", "ended"} /\ runs < MaxRuns
    /\ Noticed
    /\ runs' = runs + 1
    /\ Goto("realm") /\ Forget
    /\ UNCHANGED <<realm, files, server, nodes, applied>>

\* The command is killed.
Crash ==
    /\ pc \in Steps
    /\ Goto("idle") /\ Forget
    /\ UNCHANGED <<realm, files, server, nodes, applied, runs>>

\* The operator removes the realm so that the script can run again.
DeleteRealm ==
    /\ pc \in {"idle", "ended"}
    /\ realm' = "none"
    /\ UNCHANGED <<files, server, nodes, applied, pc, memory, runs>>

-----------------------------------------------------------------------------
(* The cluster *)

\* The kubelet has seen another manifest.
StopServer ==
    /\ Pending
    /\ up' = FALSE
    /\ UNCHANGED <<realm, files, running, epoch, nodes, applied, pc, memory, runs>>

\* A key may be in the pod's YAML once, and the server refuses to start with
\* --authentication-config=... when that file is not there or not complete.
Startable ==
    /\ \A e \in Edits : manifest[e] <= 1
    /\ manifest["flag"] > 0 => authConfig = "whole"

StartServer ==
    /\ ~up /\ Startable
    /\ up' = TRUE /\ running' = manifest /\ epoch' = epoch + 1
    /\ UNCHANGED <<realm, files, nodes, applied, pc, memory, runs>>

\* A new calico-node pod starts on n and gets a token of the server as it is.
ReplacePod(n) ==
    /\ up /\ n \in rolling
    /\ rolling' = rolling \ {n}
    /\ token' = [token EXCEPT ![n] = epoch]
    /\ UNCHANGED <<realm, files, server, applied, pc, memory, runs>>

-----------------------------------------------------------------------------
(* configureRealm *)

\* The script skips a realm that exists and stops (set -e) at a client scope
\* that does; failing, it leaves what it had created. Install returns then,
\* and the step's post function is called all the same.
ConfigureRealm ==
    /\ pc = "realm"
    /\ \/ /\ up /\ realm \in {"none", "empty"}
          /\ realm' = "done"
          /\ Goto("ca") /\ UNCHANGED warned
       \/ /\ realm' \in IF up /\ realm \in {"none", "empty"}
                        THEN {realm, "empty", "begun"} ELSE {realm}
          /\ Goto("restart") /\ Warn
    /\ UNCHANGED <<files, server, nodes, applied, patched, cut, refreshed, runs>>

-----------------------------------------------------------------------------
(* patchAPIServer *)

\* An error patchAPIServer returns is a warning; Install goes on after it.
Fail ==
    /\ Goto("gateway") /\ Warn
    /\ cut' = patched

\* Mutant of ReadLabCA: a CA that cannot be read is only warned of.
ReadLabCAOrWarn ==
    /\ pc = "ca"
    /\ \/ up /\ Goto("auth") /\ UNCHANGED <<warned, cut>>
       \/ Goto("alias") /\ Warn /\ UNCHANGED cut
    /\ UNCHANGED <<realm, files, server, nodes, applied, patched, refreshed, runs>>

ReadLabCA ==
    /\ pc = "ca"
    /\ (up /\ Goto("auth") /\ UNCHANGED <<warned, cut>>) \/ Fail
    /\ UNCHANGED <<realm, files, server, nodes, applied, patched, refreshed, runs>>

\* os.WriteFile empties the file, then writes; a kill or an error in between
\* leaves part of it.
TruncateAuthConfig ==
    /\ pc = "auth" /\ authConfig # "partial"
    /\ authConfig' = "partial"
    /\ UNCHANGED <<realm, manifest, server, nodes, applied, pc, memory, runs>>

WriteAuthConfig ==
    /\ pc = "auth"
    /\ \/ authConfig = "partial" /\ authConfig' = "whole"
          /\ Goto("alias") /\ UNCHANGED <<warned, cut>>
       \/ Fail /\ UNCHANGED authConfig
    /\ UNCHANGED <<realm, manifest, server, nodes, applied, patched, refreshed, runs>>

\* One edit with sed -i, which replaces the file or leaves it.
Edit(e, next) ==
    \/ /\ manifest' = [manifest EXCEPT ![e] = @ + 1]
       /\ patched' = TRUE
       /\ Goto(next) /\ UNCHANGED <<warned, cut>>
    \/ Fail /\ UNCHANGED <<manifest, patched>>

\* Mutant of AddHostAlias: the manifest is not searched first.
AddHostAliasAgain ==
    /\ pc = "alias"
    /\ Edit("alias", "flag")
    /\ UNCHANGED <<realm, authConfig, server, nodes, applied, refreshed, runs>>

\* Mutant of AddHostAlias: an alias that is there is taken out and added anew.
AddHostAliasAnew ==
    /\ pc = "alias"
    /\ \/ /\ manifest["alias"] > 0
          /\ manifest' = [manifest EXCEPT !["alias"] = 0]
          /\ UNCHANGED <<pc, patched, warned, cut>>
       \/ manifest["alias"] = 0 /\ Edit("alias", "flag")
    /\ UNCHANGED <<realm, authConfig, server, nodes, applied, refreshed, runs>>

\* The alias of keycloak.local, unless it is there; no ingress address is an
\* error.
AddHostAlias ==
    /\ pc = "alias"
    /\ \/ /\ manifest["alias"] > 0
          /\ Goto("flag") /\ UNCHANGED <<manifest, patched, warned, cut>>
       \/ manifest["alias"] = 0 /\ Edit("alias", "flag")
    /\ UNCHANGED <<realm, authConfig, server, nodes, applied, refreshed, runs>>

\* Mutant of AfterEdits: without an edit patchAPIServer returns at once.
AfterEditsOrReturn == IF patched' THEN "settle" ELSE "returned"

AfterEdits == IF patched' THEN "settle" ELSE "roles"

\* Mutant of AddAuthFlag: `grep -c ... || echo 0` takes the flag for present.
AddAuthFlagNever ==
    /\ pc = "flag"
    /\ UNCHANGED <<manifest, patched, warned, cut>> /\ Goto(AfterEdits)
    /\ UNCHANGED <<realm, authConfig, server, nodes, applied, refreshed, runs>>

\* The flag, unless it is there.
AddAuthFlag ==
    /\ pc = "flag"
    /\ \/ /\ manifest["flag"] > 0
          /\ UNCHANGED <<manifest, patched, warned, cut>> /\ Goto(AfterEdits)
       \/ manifest["flag"] = 0 /\ Edit("flag", "settle")
    /\ UNCHANGED <<realm, authConfig, server, nodes, applied, refreshed, runs>>

\* Mutant of Settle: the poll begins at once.
NoSettle ==
    /\ pc = "settle"
    /\ Goto("poll")
    /\ UNCHANGED <<realm, files, server, nodes, applied, memory, runs>>

\* The sleep of apiServerRestartWait is over.
Settle ==
    /\ pc = "settle" /\ Noticed
    /\ Goto("poll")
    /\ UNCHANGED <<realm, files, server, nodes, applied, memory, runs>>

\* Mutant of Poll: it has no deadline.
PollForever ==
    /\ pc = "poll" /\ up
    /\ Goto("roles")
    /\ UNCHANGED <<realm, files, server, nodes, applied, memory, runs>>

\* /healthz answers, or apiServerHealthTimeout has passed: the code goes on
\* either way and does not say which.
Poll ==
    /\ pc = "poll"
    /\ Goto("roles")
    /\ UNCHANGED <<realm, files, server, nodes, applied, memory, runs>>

\* A call to the API server whose failure is a warning.
Apply(step, object, next) ==
    /\ pc = step
    /\ Goto(next)
    /\ \/ up /\ applied' = applied \cup {object} /\ (UNCHANGED warned \/ Warn)
       \/ Warn /\ UNCHANGED applied
    /\ UNCHANGED <<realm, files, server, nodes, patched, cut, refreshed, runs>>

ApplyRoles == Apply("roles", "roles", "gateway")
CreateGateway == Apply("gateway", "gateway", "kubeconfig")
StoreKubeconfig == Apply("kubeconfig", "kubeconfig", "restart")

-----------------------------------------------------------------------------
(* refreshCalicoAfterKeycloak *)

RestartCalico ==
    /\ pc = "restart"
    /\ \/ up /\ rolling' = Nodes /\ Goto("status") /\ UNCHANGED warned
       \/ up /\ rolling' = Nodes /\ Goto("ended") /\ Warn
       \/ Goto("ended") /\ Warn /\ UNCHANGED rolling
    /\ UNCHANGED <<realm, files, server, token, applied, patched, cut, refreshed, runs>>

\* rollout status, with a time-out that is only printed.
RolloutStatus ==
    /\ pc = "status"
    /\ Goto("ended")
    /\ \/ up /\ rolling = {} /\ refreshed' = TRUE /\ UNCHANGED warned
       \/ Warn /\ UNCHANGED refreshed
    /\ UNCHANGED <<realm, files, server, nodes, applied, patched, cut, runs>>

-----------------------------------------------------------------------------
Install ==
    \/ ConfigureRealm \/ ReadLabCA \/ TruncateAuthConfig \/ WriteAuthConfig
    \/ AddHostAlias \/ AddAuthFlag \/ Settle \/ Poll
    \/ ApplyRoles \/ CreateGateway \/ StoreKubeconfig
    \/ RestartCalico \/ RolloutStatus

Next ==
    \/ StartRun \/ Crash \/ DeleteRealm \/ Install
    \/ StopServer \/ StartServer \/ \E n \in Nodes : ReplacePod(n)

Spec == Init /\ [][Next]_vars

\* The installer goes on, and the kubelet notices an edit some time.
FairSpec == Spec /\ WF_vars(Install) /\ WF_vars(StopServer)
-----------------------------------------------------------------------------
(* Properties *)

\* Whenever the kubelet has to start the server with an edited manifest, it can:
\* no edit is there twice, the alias is there if the flag is, and the file the
\* flag names is whole, whatever was killed and repeated (keycloak_oidc.go:
\* 126-163). Otherwise the cluster would have no API server any more.
ServerCanStart ==
    ~up \/ Pending =>
        /\ Startable
        /\ manifest["flag"] > 0 => manifest["alias"] > 0

\* A run in which nothing was reported as failed has done what the step is for:
\* the server answers and knows Keycloak, the roles, the gateway and the
\* kubeconfig are there, and every node has a token it accepts.
QuietPatchIsInForce ==
    pc = "ended" /\ ~warned =>
        /\ up /\ \A e \in Edits : running[e] = 1
        /\ applied = Objects
        /\ \A n \in Nodes : token[n] = epoch

\* "each node needs a fresh token" (provisioner.go:389-392): a run that saw
\* calico-node rolled out leaves every node with one, whatever else failed in it
\* or in an earlier run, unless its patch ended between an edit and the wait.
RefreshedNodesHaveTokens ==
    pc = "ended" /\ refreshed /\ ~cut => \A n \in Nodes : token[n] = epoch

\* However often the command is run, killed and repaired, the patch restarts the
\* API server at most once for each edit.
RestartsAreBounded == epoch <= 2

\* A run ends even if the server never comes back.
RunEnds == pc \in Steps ~> pc \notin Steps

\* If the kubelet starts what can be started, a stopped server comes back.
ServerReturns == WF_vars(StartServer) => (~up ~> up)
=============================================================================
