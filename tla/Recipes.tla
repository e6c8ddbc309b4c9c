------------------------------ MODULE Recipes ------------------------------
(***************************************************************************)
(* What each installer of internal/installer does to the cluster, as data: *)
(* the plan of InstallWorkloads (provisioner.go) and, for each component,  *)
(* the calls of its Install in order with what they need, remove and leave *)
(* behind, and what their failure means.                                   *)
(*                                                                         *)
(* The cluster is a set of facts, pairs of a kind and a name. `kubectl     *)
(* apply` merges: it removes only what an earlier apply of the same object *)
(* set and this one no longer has, which is how a Namespace applied        *)
(* without its label loses it. A call stands for the commands that have to *)
(* succeed together. A wait whose time-out is returned is the late failure *)
(* of the call before it; one whose time-out is only printed, and on which *)
(* nothing else depends, is left out. A workload that claims storage needs *)
(* the class its claim names: without it its pods never start.             *)
(***************************************************************************)
EXTENDS Calls, Config

Deployed(x) == <<"deployed", x>>      \* a workload's manifests or chart
Namespace(n) == <<"namespace", n>>
Injected(n) == <<"injected", n>>      \* label istio-injection=enabled
Crds(g) == <<"crds", g>>
Class(n) == <<"class", n>>            \* a StorageClass
Wanted(n) == <<"wanted", n>>          \* VaultStaticSecrets of a namespace
Secret(n) == <<"secret", n>>          \* the Secrets the operator makes of them
Source(d) == <<"source", d>>          \* in the ConfigMap grafana-datasources
Shown(d) == <<"shown", d>>            \* loaded by the running Grafana
LabCA == <<"secret", "lab-ca">>
Strict == <<"mtls", "postgres">>      \* PeerAuthentication of Postgres
Pod == <<"pod", "keycloak">>
Sidecar == <<"sidecar", "keycloak">>
Realm == <<"realm", "created">>
Clients == <<"realm", "scopes">>
Filled == <<"realm", "filled">>
Alias == <<"apiserver", "alias">>
Oidc == <<"apiserver", "oidc">>
Edited == <<"apiserver", "edited">>   \* its manifest, and the kubelet has not noticed yet
CniToken == <<"calico", "token">>     \* calico-node's token is accepted
OAuth == <<"grafana", "oauth">>
Keyed == <<"ollama", "keyed">>        \* Ollama's container gets its key from the Secret
Model == <<"ollama", "model">>        \* Ollama has the model

Sources == {"prometheus", "loki", "tempo"}

\* What the cluster brings about by itself, some time after it can.
Awaited == {Secret(n) : n \in {"keycloak", "monitoring", "ollama"}}
           \cup {Pod, Sidecar, Model} \cup {Shown(d) : d \in Sources}

-----------------------------------------------------------------------------
(* Recipes *)

\* An error is returned by Install / printed, skipping the rest of the group /
\* ignored.
Must(calls) ==
    [i \in 1..Len(calls) |-> [call |-> calls[i], policy |-> "abort", skip |-> 0]]
May(calls) ==
    [i \in 1..Len(calls) |-> [call |-> calls[i], policy |-> "warn",
                              skip |-> Len(calls) - i]]
Try(calls) ==
    [i \in 1..Len(calls) |-> [call |-> calls[i], policy |-> "ignore", skip |-> 0]]

If(feature, c, recipe) == IF feature \in c THEN recipe ELSE <<>>

\* kubectl rollout restart deployment/grafana: it loads the ConfigMap as it is.
RestartGrafana(f) ==
    Replacing(Call("restartGrafana", {Deployed("grafana")},
                   {Shown(d) : d \in {e \in Sources : Source(e) \in f}}),
              {Shown(d) : d \in Sources})

\* One ConfigMap, applied as a whole.
Datasources(name, ds) ==
    Replacing(Call(name, {Namespace("monitoring")}, {Source(d) : d \in ds}),
              {Source(d) : d \in Sources})

InstallHelm == Call("helm", {}, {Deployed("helm")})

-----------------------------------------------------------------------------
(* Networking, mesh, certificates, autoscaling, storage *)

MetalLB == Must(<<
    Call("metallb", {}, {Deployed("metallb")}),
    Call("addressPool", {Deployed("metallb")}, {Deployed("pool")})>>)

Istio == Must(<<
    Call("istioctl", {}, {Crds("istio"), Namespace("istio-system")}),
    Call("labelDefault", {}, {Injected("default")})>>)

CreateIssuer == Call("issuer", {Crds("cert-manager")}, {LabCA})
CreateCertificates ==
    Call("certificates", {Crds("cert-manager"), Namespace("istio-system")},
         {Secret("lab-tls")})

InstallCertManagerMonitoring ==
    Call("certManagerMonitoring", {Namespace("monitoring"), Crds("prometheus")},
         {Deployed("cert-monitoring")})

CertManager ==
    Must(<<Call("certManager", {}, {Crds("cert-manager")}),
           CreateIssuer, CreateCertificates>>)

MetricsServer == Must(<<Call("metricsServer", {}, {Deployed("metrics-server")})>>)

VPA == Must(<<InstallHelm, Call("vpa", {Deployed("helm")}, {Deployed("vpa")})>>)
KEDA == Must(<<InstallHelm, Call("keda", {Deployed("helm")}, {Deployed("keda")})>>)

CreateStaticStorageClass ==
    Try(<<Replacing(Call("deleteNfsStorage", {}, {}), {Class("nfs-storage")})>>)
    \o Must(<<Call("nfsStatic", {}, {Class("nfs-static")})>>)

InstallDynamicProvisioner ==
    Call("nfsDynamic", {Deployed("helm")}, {Class("nfs-dynamic")})

NFSProvisioner ==
    Must(<<InstallHelm>>) \o CreateStaticStorageClass \o Must(<<InstallDynamicProvisioner>>)

-----------------------------------------------------------------------------
(* Secrets *)

\* VaultInit has the details.
VaultInstaller == Must(<<Call("vault", {}, {Deployed("vault")})>>)

\* A Namespace without labels, then the VaultStaticSecrets in it.
VsoResources(n) ==
    May(<<Replacing(Call("vsoNamespace", {}, {Namespace(n)}), {Injected(n)})>>)
    \o May(<<Call("vsoSecrets", {Crds("vso"), Namespace(n)}, {Wanted(n)})>>)

WaitForSecrets(c) ==
    Call("waitForSecrets", {Secret("keycloak"), Secret("monitoring")}
         \cup (IF "ollama_key" \in c THEN {Secret("ollama")} ELSE {}), {})

VaultSecretsOperator(c) ==
    Must(<<InstallHelm, Call("vso", {Deployed("helm")}, {Crds("vso")})>>)
    \o VsoResources("keycloak") \o VsoResources("monitoring")
    \o If("ollama_key", c, VsoResources("ollama"))
    \o May(<<WaitForSecrets(c)>>)

-----------------------------------------------------------------------------
(* Observability *)

MonitoringNamespace ==
    Call("monitoringNamespace", {}, {Namespace("monitoring"), Injected("monitoring")})
CreateNFSStorage == Call("nfsStorage", {}, {Class("nfs-storage")})
InstallPrometheusOperator ==
    Call("prometheusOperator", {Namespace("monitoring")}, {Crds("prometheus")})
InstallPrometheus ==
    Call("prometheus", {Namespace("monitoring"), Crds("prometheus"), Class("nfs-storage")},
         {Deployed("prometheus")})
CreateGrafanaSecret ==
    Call("grafanaSecret", {Namespace("monitoring")}, {Secret("grafana-admin")})
InstallGrafana == <<
    Datasources("grafanaDatasources", {"prometheus"}),
    Call("grafana", {Namespace("monitoring")}, {Deployed("grafana")})>>
InstallNodeExporter ==
    Call("nodeExporter", {Namespace("monitoring"), Crds("prometheus")}, {Deployed("node-exporter")})
InstallKubeStateMetrics ==
    Call("kubeStateMetrics", {Namespace("monitoring"), Crds("prometheus")},
         {Deployed("kube-state-metrics")})
InstallAlertmanager ==
    Call("alertmanager", {Deployed("prometheus"), Crds("prometheus")}, {Deployed("alertmanager")})
CreateMonitoringGateways ==
    Call("monitoringGateways", {Namespace("monitoring"), Crds("istio")},
         {Deployed("monitoring-gateway")})
InstallIstioMonitoring ==
    Call("istioMonitoring", {Namespace("monitoring"), Crds("prometheus")},
         {Deployed("istio-monitoring")})

\* Mutant of Monitoring: its steps are tried and warned of.
MonitoringOrWarn(c) ==
    May(<<MonitoringNamespace, CreateNFSStorage, InstallPrometheusOperator,
          InstallPrometheus, CreateGrafanaSecret>> \o InstallGrafana)

Monitoring(c) ==
    Must(<<MonitoringNamespace, CreateNFSStorage, InstallPrometheusOperator,
           InstallPrometheus, CreateGrafanaSecret>> \o InstallGrafana
         \o <<InstallNodeExporter, InstallKubeStateMetrics, InstallAlertmanager>>)
    \o May(<<InstallCertManagerMonitoring>>)
    \o If("service_mesh", c, May(<<CreateMonitoringGateways>>) \o May(<<InstallIstioMonitoring>>))

InstallLoki ==
    Call("loki", {Namespace("monitoring"), Class("nfs-dynamic")}, {Deployed("loki")})
InstallAlloy == Call("alloy", {Namespace("monitoring")}, {Deployed("alloy")})
ConfigureLokiDatasource(f) ==
    May(<<Datasources("lokiDatasource", {"prometheus", "loki"}), RestartGrafana(f)>>)

Loki(f) == Must(<<InstallLoki, InstallAlloy>>) \o ConfigureLokiDatasource(f)

InstallTempo ==
    Call("tempo", {Namespace("monitoring"), Class("nfs-dynamic")}, {Deployed("tempo")})
InstallOtelCollector ==
    Call("otelCollector", {Namespace("monitoring"), Crds("istio")}, {Deployed("otel")})

\* Mutant of ConfigureTempoDataSource: it forgets Loki's data source.
ConfigureTempoOnly(f) ==
    May(<<Datasources("tempoDatasource", {"prometheus", "tempo"}), RestartGrafana(f)>>)

\* Mutant of ConfigureTempoDataSource: Grafana is restarted first.
ConfigureTempoLate(f) ==
    May(<<RestartGrafana(f), Datasources("tempoDatasource", Sources)>>)

ConfigureTempoDataSource(f) ==
    May(<<Datasources("tempoDatasource", Sources), RestartGrafana(f)>>)
ConfigureIstioTracing ==
    Call("istioTracing", {Namespace("istio-system"), Crds("istio")}, {Deployed("tracing")})

Tempo(f) ==
    Must(<<InstallTempo, InstallOtelCollector>>)
    \o ConfigureTempoDataSource(f) \o May(<<ConfigureIstioTracing>>)

InstallKiali == Call("kiali", {Namespace("istio-system")}, {Deployed("kiali")})
ConfigureKialiIngress ==
    Call("kialiIngress", {Namespace("istio-system"), Crds("istio")}, {Deployed("kiali-gateway")})

Kiali ==
    May(<<Call("grafanaPassword", {Secret("grafana-admin")}, {})>>)
    \o Must(<<InstallKiali>>) \o May(<<ConfigureKialiIngress>>)

-----------------------------------------------------------------------------
(* Identity *)

WaitForAdminSecret == Call("waitForAdminSecret", {Secret("keycloak")}, {})
CreatePostgresMTLS == Call("postgresMTLS", {Namespace("keycloak"), Crds("istio")}, {Strict})
DeployKeycloak == <<
    Call("keycloakNamespace", {}, {Namespace("keycloak"), Injected("keycloak")}),
    Call("deployKeycloak", {Namespace("keycloak"), Class("nfs-dynamic")},
         {Deployed("keycloak")})>>

\* Keycloak is ready only when it reaches its database.
WaitForKeycloak(f) ==
    Call("waitForKeycloak", {Pod} \cup (IF Strict \in f THEN {Sidecar} ELSE {}), {})

\* The script of configureRealm stops (`set -e`) at whatever exists already,
\* except the realm itself.
ConfigureRealm == <<
    Call("createRealm", {Deployed("keycloak")}, {Realm}),
    Once(Call("createClients", {Realm}, {Clients}), {Clients}),
    Call("createUsers", {Clients}, {Filled})>>

\* Each edit of the manifest is made once; the kubelet notices it some time later
\* (RestartAPIServer of Workloads). ApiServer has the details.
EditManifest(name, edit, f) ==
    Call(name, {}, IF edit \in f THEN {edit} ELSE {edit, Edited})

\* The kubelet has noticed: the API server is another one, and the token calico-node
\* has is worthless.
Restarted(f) == IF Edited \in f THEN {Edited, CniToken} ELSE {}

\* Mutant of WaitForAPIServer: it goes on at once.
NoWaitForAPIServer(f) == Call("apiServerWait", {}, {})

\* After an edit, apiServerRestartWait and the poll of /healthz. Its failure is that
\* the kubelet takes longer.
WaitForAPIServer(f) == Replacing(Call("apiServerWait", {}, {}), Restarted(f))

\* An error is returned, and after one of an edit nobody waits; that the wait was
\* too short goes unseen.
PatchAPIServer(f) ==
    [May(<<Call("authConfig", {LabCA}, {}),
           EditManifest("hostAlias", Alias, f),
           EditManifest("authFlag", Oidc, f),
           WaitForAPIServer(f),
           Call("oidcRoles", {}, {Deployed("oidc-roles")})>>)
        EXCEPT ![4].skip = 0]

CreateGateway == Call("keycloakGateway", {Namespace("keycloak"), Crds("istio")},
                      {Deployed("keycloak-gateway")})
StoreKubeconfigInVault ==
    Call("storeKubeconfig", {LabCA, Deployed("vault")}, {Deployed("kubeconfig-oidc")})

Keycloak(c, f) ==
    Must(<<Call("resolveCredentials", {}, {})>>)
    \o May(<<WaitForAdminSecret>>)
    \o If("service_mesh", c, May(<<CreatePostgresMTLS>>))
    \o Must(DeployKeycloak \o <<WaitForKeycloak(f)>> \o ConfigureRealm)
    \o PatchAPIServer(f)
    \o If("service_mesh", c, May(<<CreateGateway>>))
    \o May(<<StoreKubeconfigInVault>>)

RefreshCalico == May(<<Call("refreshCalico", {}, {CniToken})>>)

\* Of three attempts the last counts. The patch of the Deployment, made once, starts a
\* new Grafana too.
ConfigureGrafanaOAuth(c, f) ==
    If("monitoring", c, May(<<
        Call("oauthConfig", {Secret("monitoring"), LabCA, Namespace("monitoring")}, {}),
        Call("oauthPatch", {Deployed("grafana")}, {OAuth}),
        RestartGrafana(f)>>))

-----------------------------------------------------------------------------
(* AI *)

CreateAPIKeySecret == Call("ollamaSecret", {Namespace("ollama")}, {Secret("ollama")})
CreateOllamaStorage ==
    Call("ollamaStorage", {Namespace("ollama"), Class("nfs-static")}, {Deployed("ollama-pv")})

\* With a key, the container needs the Secret it is in.
BuildDeployment(c) ==
    IF "ollama_key" \in c
    THEN Call("deployOllama", {Namespace("ollama")}, {Deployed("ollama"), Keyed})
    ELSE Replacing(Call("deployOllama", {Namespace("ollama")}, {Deployed("ollama")}), {Keyed})

\* A job is not changed by an apply: the old one goes first.
CreateModelPullJob ==
    Try(<<Replacing(Call("deleteModelJob", {}, {}), {Deployed("model-job")})>>)
    \o May(<<Once(Call("modelPull", {Namespace("ollama")}, {Deployed("model-job")}),
                  {Deployed("model-job")})>>)

Ollama(c) ==
    Must(<<Call("ollamaNamespace", {}, {Namespace("ollama")})>>)
    \o If("ollama_key", c, Must(<<CreateAPIKeySecret>>))
    \o If("local_model", c, Must(<<CreateOllamaStorage>>))
    \o Must(<<BuildDeployment(c)>>)
    \o If("local_model", c, If("named_model", c, CreateModelPullJob))

CreateKarporStorage == Call("karporStorage", {}, {Deployed("karpor-pv")})

\* The chart's empty ConfigMap goes first; kubectl create replaces nothing.
CreateKubeconfig ==
    Try(<<Replacing(Call("deleteKubeconfig", {}, {}), {Deployed("karpor-kubeconfig")})>>)
    \o May(<<Once(Call("karporKubeconfig", {Namespace("karpor")},
                       {Deployed("karpor-kubeconfig")}), {Deployed("karpor-kubeconfig")})>>)

\* A cloud model is never in the list this waits for; nor is one without a name.
WaitForOllamaModel == Call("waitForModel", {Model}, {})
EnableAI(c) == If("ai", c, If("ollama", c, May(<<WaitForOllamaModel>>)))

CreateKarporGateway ==
    Call("karporGateway", {Namespace("karpor"), Crds("istio")}, {Deployed("karpor-gateway")})

Karpor(c) ==
    Must(<<InstallHelm,
           Call("karporNamespace", {}, {Namespace("karpor")}),
           CreateKarporStorage,
           Call("karpor", {Deployed("helm"), Namespace("karpor"), Class("nfs-static")},
                {Deployed("karpor")})>>)
    \o CreateKubeconfig
    \o If("service_mesh", c, May(<<CreateKarporGateway>>))
    \o EnableAI(c)

-----------------------------------------------------------------------------
(* The plan *)

\* The recipe of a component in a configuration with features c, over a cluster with facts f.
Recipe(name, c, f) ==
    CASE name = "MetalLB" -> MetalLB
      [] name = "Istio" -> Istio
      [] name = "CertManager" -> CertManager
      [] name = "MetricsServer" -> MetricsServer
      [] name = "VPA" -> VPA
      [] name = "KEDA" -> KEDA
      [] name = "NFSProvisioner" -> NFSProvisioner
      [] name = "VaultInstaller" -> VaultInstaller
      [] name = "VaultSecretsOperator" -> VaultSecretsOperator(c)
      [] name = "Monitoring" -> Monitoring(c)
      [] name = "Loki" -> Loki(f)
      [] name = "Tempo" -> Tempo(f)
      [] name = "Kiali" -> Kiali
      [] name = "Keycloak" -> Keycloak(c, f)
      [] name = "Ollama" -> Ollama(c)
      [] name = "Karpor" -> Karpor(c)

PostRecipe(name) == IF name = "Keycloak" THEN RefreshCalico ELSE <<>>

Component(name, requires, fatal) ==
    [name |-> name, requires |-> requires, fatal |-> fatal]

\* Mutant of WorkloadSteps: the storage classes come after those that claim storage.
StorageLast == <<
    Component("MetalLB", {}, TRUE), Component("Istio", {}, TRUE),
    Component("CertManager", {}, FALSE), Component("MetricsServer", {}, TRUE),
    Component("VPA", {"vpa"}, FALSE), Component("KEDA", {"keda"}, FALSE),
    Component("VaultInstaller", {}, FALSE), Component("VaultSecretsOperator", {}, FALSE),
    Component("Monitoring", {"monitoring"}, TRUE), Component("Loki", {"monitoring"}, TRUE),
    Component("Tempo", {"monitoring", "tracing"}, FALSE),
    Component("Kiali", {"monitoring"}, FALSE), Component("Keycloak", {"keycloak"}, FALSE),
    Component("Ollama", {"karpor", "ai", "ollama"}, TRUE),
    Component("Karpor", {"karpor"}, TRUE), Component("NFSProvisioner", {}, TRUE)>>

\* The sequence of workloadSteps: its order is all that keeps a component from
\* starting before what it needs.
WorkloadSteps == <<
    Component("MetalLB", {}, TRUE),
    Component("Istio", {}, TRUE),
    Component("CertManager", {}, FALSE),
    Component("MetricsServer", {}, TRUE),
    Component("VPA", {"vpa"}, FALSE),
    Component("KEDA", {"keda"}, FALSE),
    Component("NFSProvisioner", {}, TRUE),
    Component("VaultInstaller", {}, FALSE),
    Component("VaultSecretsOperator", {}, FALSE),
    Component("Monitoring", {"monitoring"}, TRUE),
    Component("Loki", {"monitoring"}, TRUE),
    Component("Tempo", {"monitoring", "tracing"}, FALSE),
    Component("Kiali", {"monitoring"}, FALSE),
    Component("Keycloak", {"keycloak"}, FALSE),
    Component("Ollama", {"karpor", "ai", "ollama"}, TRUE),
    Component("Karpor", {"karpor"}, TRUE)>>
=============================================================================
