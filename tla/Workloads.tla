----------------------------- MODULE Workloads -----------------------------
(***************************************************************************)
(* `provision workloads` (InstallWorkloads, provisioner.go): it walks the  *)
(* plan of Recipes call by call over a cluster that lives on its own. Any  *)
(* call can fail, with or without having taken effect, the command can be  *)
(* killed between two calls, and it can be run again on what an earlier    *)
(* run left.                                                               *)
(***************************************************************************)
EXTENDS Recipes

CONSTANTS
    Files,        \* the files, with the environment, a run may be started with
    MaxRuns,      \* bound: runs in a behaviour
    MaxFaults     \* bound: calls that fail though what they need is there

ASSUME WorkloadsAssumption ==
    /\ \A f \in Files : FeaturesOf(Loaded(f)) \subseteq Features
    /\ MaxRuns \in Nat /\ MaxFaults \in Nat

VARIABLES
    cfg,          \* the configuration of the latest run
    facts,        \* the cluster
    pc,           \* where InstallWorkloads is; "ok", "failed": what it returned
    at,           \* the step of the plan it is at
    op,           \* the call of the installer it makes next
    keycloak,     \* the Keycloak installer has been remembered
    broken,       \* steps of this run whose Install returned an error
    failed,       \* calls of this run that failed
    runs, faults  \* how many there have been

loop == <<pc, at, op, keycloak>>
report == <<broken, failed>>
vars == <<cfg, facts, loop, report, runs, faults>>

Last == Len(WorkloadSteps)
Step == WorkloadSteps[at]
Enabled(i) == WorkloadSteps[i].requires \subseteq cfg.features
Fatal(i) == WorkloadSteps[i].fatal

Calling == {"install", "post", "oauth"}
Ended == {"idle", "ok", "failed"}

\* The calls of the function that is running.
Calls ==
    IF pc = "install" THEN Recipe(Step.name, cfg.features, facts)
    ELSE IF pc = "post" THEN PostRecipe(Step.name)
    ELSE ConfigureGrafanaOAuth(cfg.features, facts)

Current == Calls[op]

\* What a command keeps of its configuration. Load rejects the files that are not
\* valid, and the command ends before it has done anything.
Configs ==
    {[features |-> FeaturesOf(c), components |-> c.components] :
        c \in {d \in {Loaded(f) : f \in Files} : Valid(d)}}

(* Each variable holds a value of the shape the code gives it, and the next *)
(* call is one of the running function's or just past its last: skipping    *)
(* the rest of a group whose error is printed never leads further.          *)
TypeOK ==
    /\ cfg \in Configs
    /\ pc \in Calling \cup Ended \cup {"loop"}
    /\ at \in 1..(Last + 1) /\ op \in Nat \ {0}
    /\ pc \in Calling => op \in 1..(Len(Calls) + 1)
    /\ keycloak \in BOOLEAN
    /\ broken \subseteq 1..Last
    /\ runs \in 0..MaxRuns /\ faults \in 0..MaxFaults

\* A cluster as InitCluster and the joined workers leave it.
Init ==
    /\ cfg \in Configs
    /\ facts = {CniToken}
    /\ pc = "idle" /\ at = 1 /\ op = 1 /\ keycloak = FALSE
    /\ broken = {} /\ failed = {}
    /\ runs = 0 /\ faults = 0

-----------------------------------------------------------------------------
(* InstallWorkloads *)

\* The file may have been edited since the last run. By the time a run gets to the
\* API server's manifest the kubelet has noticed what an earlier one did to it.
StartRun ==
    /\ pc \in Ended /\ runs < MaxRuns
    /\ Edited \notin facts
    /\ runs' = runs + 1
    /\ cfg' \in Configs
    /\ pc' = "loop" /\ at' = 1 /\ op' = 1 /\ keycloak' = FALSE
    /\ broken' = {} /\ failed' = {}
    /\ UNCHANGED <<facts, faults>>

\* The command is killed; what it remembered is gone.
Crash ==
    /\ pc \notin Ended
    /\ pc' = "idle" /\ at' = 1 /\ op' = 1 /\ keycloak' = FALSE
    /\ broken' = {} /\ failed' = {}
    /\ UNCHANGED <<cfg, facts, runs, faults>>

SkipComponent ==
    /\ pc = "loop" /\ at <= Last /\ ~Enabled(at)
    /\ at' = at + 1
    /\ UNCHANGED <<cfg, facts, pc, op, keycloak, report, runs, faults>>

BeginComponent ==
    /\ pc = "loop" /\ at <= Last /\ Enabled(at)
    /\ pc' = "install" /\ op' = 1
    /\ UNCHANGED <<cfg, facts, at, keycloak, report, runs, faults>>

\* Install has returned, with an error or not; the loop goes on to step.post.
GotoPost ==
    /\ pc' = "post" /\ op' = 1
    /\ keycloak' = (keycloak \/ Step.name = "Keycloak")
    /\ UNCHANGED at

\* Mutant of CallSucceeds: a call that succeeds is taken for two.
CallSucceedsTwice ==
    /\ pc \in Calling /\ op <= Len(Calls)
    /\ Possible(facts, Current.call)
    /\ facts' = After(facts, Current.call)
    /\ op' = op + 2
    /\ UNCHANGED <<cfg, pc, at, keycloak, report, runs, faults>>

CallSucceeds ==
    /\ pc \in Calling /\ op <= Len(Calls)
    /\ Possible(facts, Current.call)
    /\ facts' = After(facts, Current.call)
    /\ op' = op + 1
    /\ UNCHANGED <<cfg, pc, at, keycloak, report, runs, faults>>

\* An error Install does not return: the next call it would make.
Continue(skip) ==
    /\ op' = op + 1 + skip
    /\ UNCHANGED <<pc, at, keycloak, broken>>

\* Mutant of Abort: a fatal step is only warned of.
AbortNever ==
    /\ broken' = broken \cup {at}
    /\ GotoPost

\* An error Install returns.
Abort ==
    /\ broken' = broken \cup {at}
    /\ \/ /\ Step.fatal
          /\ pc' = "failed" /\ UNCHANGED <<at, op, keycloak>>
       \/ ~Step.fatal /\ GotoPost

\* A call that cannot succeed fails, at the latest when its wait times out; any
\* other one can, before or after it took effect.
Fault(call) ==
    IF Possible(facts, call)
    THEN /\ faults < MaxFaults /\ faults' = faults + 1
         /\ facts' \in {facts, After(facts, call)}
    ELSE UNCHANGED <<faults, facts>>

\* An error of Install is returned to InstallWorkloads; refreshCalicoAfterKeycloak
\* and ConfigureGrafanaOAuth only have theirs printed.
Returned == pc = "install" /\ Current.policy = "abort"

CallFails ==
    /\ pc \in Calling /\ op <= Len(Calls)
    /\ Fault(Current.call)
    /\ failed' = IF Current.policy = "ignore" THEN failed
                 ELSE failed \cup {Current.call.name}
    /\ IF Returned THEN Abort ELSE Continue(Current.skip)
    /\ UNCHANGED <<cfg, runs>>

InstallReturns ==
    /\ pc = "install" /\ op > Len(Calls)
    /\ GotoPost
    /\ UNCHANGED <<cfg, facts, report, runs, faults>>

PostReturns ==
    /\ pc = "post" /\ op > Len(Calls)
    /\ pc' = "loop" /\ at' = at + 1
    /\ UNCHANGED <<cfg, facts, op, keycloak, report, runs, faults>>

EndOfPlan ==
    /\ pc = "loop" /\ at > Last
    /\ pc' = IF keycloak THEN "oauth" ELSE "ok"
    /\ op' = 1
    /\ UNCHANGED <<cfg, facts, at, keycloak, report, runs, faults>>

OAuthReturns ==
    /\ pc = "oauth" /\ op > Len(Calls)
    /\ pc' = "ok"
    /\ UNCHANGED <<cfg, facts, at, op, keycloak, report, runs, faults>>

InstallWorkloads ==
    \/ SkipComponent \/ BeginComponent \/ CallSucceeds \/ CallFails
    \/ InstallReturns \/ PostReturns \/ EndOfPlan \/ OAuthReturns

-----------------------------------------------------------------------------
(* The cluster *)

\* The operator makes the Secrets of a namespace from Vault.
SyncSecrets(n) ==
    /\ Secret(n) \notin facts
    /\ {Wanted(n), Crds("vso"), Deployed("vault")} \subseteq facts
    /\ facts' = facts \cup {Secret(n)}
                \cup (IF n = "monitoring" THEN {Secret("grafana-admin")} ELSE {})
    /\ UNCHANGED <<cfg, loop, report, runs, faults>>

\* Keycloak's pod is created, or created again on another node: it gets a
\* sidecar if its namespace has the label at that moment.
StartKeycloakPod ==
    /\ {Deployed("keycloak"), Secret("keycloak")} \subseteq facts
    /\ facts' = (facts \ {Sidecar}) \cup {Pod}
                \cup (IF {Injected("keycloak"), Crds("istio")} \subseteq facts
                      THEN {Sidecar} ELSE {})
    /\ UNCHANGED <<cfg, loop, report, runs, faults>>

StartGrafanaPod ==
    /\ Deployed("grafana") \in facts
    /\ facts' = After(facts, RestartGrafana(facts))
    /\ UNCHANGED <<cfg, loop, report, runs, faults>>

\* The kubelet notices what was done to the API server's manifest.
RestartAPIServer ==
    /\ Edited \in facts
    /\ facts' = facts \ Restarted(facts)
    /\ UNCHANGED <<cfg, loop, report, runs, faults>>

\* The job asks Ollama for the model; Ollama's pod needs the Secret it refers to.
PullModel ==
    /\ Model \notin facts
    /\ {Deployed("ollama"), Deployed("model-job")} \subseteq facts
    /\ Keyed \in facts => Secret("ollama") \in facts
    /\ facts' = facts \cup {Model}
    /\ UNCHANGED <<cfg, loop, report, runs, faults>>

Cluster ==
    \/ \E n \in {"keycloak", "monitoring", "ollama"} : SyncSecrets(n)
    \/ StartKeycloakPod \/ StartGrafanaPod \/ RestartAPIServer \/ PullModel

Next == StartRun \/ Crash \/ InstallWorkloads \/ Cluster

Spec == Init /\ [][Next]_vars

-----------------------------------------------------------------------------
(* Properties *)

Running == pc \in Calling \cup {"loop"}
Quiet == failed = {}
Has(name) == \E i \in 1..Last : WorkloadSteps[i].name = name /\ Enabled(i)

\* "Dependency order" (workloadSteps, provisioner.go:225-226): as long as
\* nothing has failed, whatever the next call needs, except what the cluster
\* brings about by itself, an earlier step has already provided, in every
\* configuration and whatever an earlier run left behind.
DependencyOrder ==
    pc \in Calling /\ op <= Len(Calls) /\ Quiet =>
        Current.call.needs \ Awaited \subseteq facts

\* What a component that installed without an error is there for.
Promised(name) ==
    CASE name = "MetalLB" -> {Deployed("pool")}
      [] name = "Istio" -> {Crds("istio"), Injected("default")}
      [] name = "NFSProvisioner" -> {Class("nfs-static"), Class("nfs-dynamic")}
      [] name = "Monitoring" -> {Class("nfs-storage"), Injected("monitoring"),
                                 Deployed("prometheus"), Deployed("grafana")}
      [] name = "Loki" -> {Source("prometheus"), Source("loki"), Shown("loki")}
      [] name = "Tempo" -> {Source(d) : d \in Sources} \cup {Shown(d) : d \in Sources}
      [] name = "Keycloak" -> {Injected("keycloak"), Filled, Oidc, CniToken}
      [] name = "Karpor" -> {Deployed("karpor")}
      [] OTHER -> {}

\* A run that returns nil and in which nothing failed leaves what every enabled
\* component is there for: no later step has taken away what an earlier one
\* provided (a StorageClass, a namespace's label, the data sources of Grafana,
\* calico's token), Grafana logs in through Keycloak if both are enabled, and Karpor
\* can read the cluster although its ConfigMap is deleted before it is made.
QuietRunIsComplete ==
    pc = "ok" /\ Quiet =>
        /\ \A i \in 1..Last : Enabled(i) => Promised(WorkloadSteps[i].name) \subseteq facts
        /\ Has("Keycloak") /\ Has("Monitoring") => OAuth \in facts
        /\ Has("Karpor") => Deployed("karpor-kubeconfig") \in facts

\* A run that returns nil, whatever it warned of, leaves what the fatal
\* components are there for, the data sources excepted.
SuccessMeansEssentials ==
    pc = "ok" =>
        \A i \in 1..Last : Enabled(i) /\ Fatal(i) /\ WorkloadSteps[i].name # "Loki" =>
            Promised(WorkloadSteps[i].name) \subseteq facts

\* A run that returns nil and in which nothing of Tempo's failed leaves Grafana
\* with every data source, in its ConfigMap and loaded, although Monitoring and
\* Loki have just replaced that ConfigMap with ones that know less, and although
\* Loki's may have failed (tempo.go:392-459).
GrafanaKeepsItsSources ==
    /\ pc = "ok" /\ Has("Tempo")
    /\ failed \cap {"tempo", "otelCollector", "tempoDatasource", "restartGrafana"} = {}
    => \A d \in Sources : Source(d) \in facts /\ Shown(d) \in facts

\* "A typo silently skips the component" (config.go:240-242): a run that returns
\* nil has tried every component whose toggle has a value other than none and
\* disabled, except tracing without monitoring, and logging and the mesh, which
\* decide about no component.
AskedIsTried ==
    pc = "ok" =>
        \A t \in Toggles \ {"logging", "service_mesh"} :
            cfg.components[t] \notin {"", "none", "disabled"} =>
                \E i \in 1..Last :
                    /\ t \in WorkloadSteps[i].requires
                    /\ Enabled(i) \/ (t = "tracing" /\ ~Has("Monitoring"))

\* Every run with Keycloak that returns nil and could refresh calico-node leaves
\* it with a token the API server accepts, even if an earlier run was killed
\* between the API server's restart and the refresh and although configuring
\* the realm fails in every later run (refreshCalicoAfterKeycloak,
\* provisioner.go:393-407). Not if this run edited the manifest and did not see the
\* restart through: an edit failed, or the wait was too short.
NodesGetFreshToken ==
    /\ pc = "ok" /\ Has("Keycloak")
    /\ failed \cap {"refreshCalico", "hostAlias", "authFlag", "apiServerWait"} = {}
    => CniToken \in facts

\* "Postgres' only clients are the mesh-injected Keycloak pod"
\* (keycloak_gateway.go): while Postgres accepts mTLS only, a Keycloak pod has
\* a sidecar to speak it.
KeycloakKeepsItsSidecar == {Strict, Pod} \subseteq facts => Sidecar \in facts

-----------------------------------------------------------------------------
(* Refinement *)

\* The components whose Install has returned in this run.
Tried ==
    {i \in 1..Last : /\ Enabled(i)
                     /\ i < at \/ (i = at /\ pc \in {"post", "failed"})}

Plan == INSTANCE InstallPlan WITH
    enabled <- {i \in 1..Last : Enabled(i)},
    outcome <- IF Running THEN "running" ELSE pc,
    tried <- Tried,
    broken <- broken

\* Call by call, with failures, kills and repeated runs, `provision workloads`
\* implements the plan: components in order and one at a time, an abort at a
\* fatal one only, nil only after every enabled one has been tried.
PlanSpec == Plan!Spec

=============================================================================
