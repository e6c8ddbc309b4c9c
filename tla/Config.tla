------------------------------- MODULE Config -------------------------------
(***************************************************************************)
(* config.yaml and the environment, and what Load makes of them before a   *)
(* command starts (internal/config/config.go, cmd/root.go).                *)
(*                                                                         *)
(* A file is a record: the fields Validate requires and those it parses    *)
(* that are empty or malformed; the nodes in order, each with its role and *)
(* address; the Vault settings; the component toggles; the AI settings;    *)
(* and the secrets of the file and of the environment. "" is an empty      *)
(* field.                                                                  *)
(***************************************************************************)
EXTENDS Sequences, Naturals

\* The value at which each toggle is looked for, by string equality.
On == [service_mesh |-> "istio", monitoring |-> "prometheus-stack",
       logging |-> "loki", tracing |-> "otel-tempo", karpor |-> "enabled",
       keycloak |-> "enabled", vpa |-> "enabled", keda |-> "enabled"]
Toggles == DOMAIN On

\* Mutant of Allowed: any text is a value.
AllowedAny(t, v) == TRUE

\* enumChecks; the empty value means "not set".
Allowed(t, v) ==
    \/ v \in {"", "none", On[t]}
    \/ t \in {"karpor", "keycloak", "vpa", "keda"} /\ v = "disabled"

Roles == {"storage", "controlplane", "worker"}

\* The first node with a role; an empty address if there is none.
AddressOf(nodes, role) ==
    IF \E i \in DOMAIN nodes : nodes[i].role = role
    THEN nodes[CHOOSE i \in DOMAIN nodes :
                  /\ nodes[i].role = role
                  /\ \A j \in 1..(i - 1) : nodes[j].role # role].ip
    ELSE ""

\* vault.addr, or else the storage node's address.
VaultAddress(c) ==
    IF c.vault.addr # "" THEN c.vault.addr ELSE AddressOf(c.nodes, "storage")

Supplied(ours, environment) == IF environment # "" THEN environment ELSE ours

\* applyEnvSecrets: a variable that is set wins over the file. Then the control
\* plane's address is taken from its node, unless the file has one.
Loaded(f) ==
    [f EXCEPT
        !.secrets = [k \in DOMAIN f.secrets |-> Supplied(f.secrets[k], f.env[k])],
        !.controlplane = IF f.controlplane # "" THEN f.controlplane
                         ELSE AddressOf(f.nodes, "controlplane")]

\* validateNodes, hasControlPlaneNode
ValidNodes(nodes) ==
    /\ nodes # <<>>
    /\ \A i \in DOMAIN nodes : nodes[i].role \in Roles /\ nodes[i].ip # "malformed"
    /\ \E i \in DOMAIN nodes : nodes[i].role = "controlplane"

Valid(c) ==
    /\ c.missing = {}          \* cluster, versions, interface, NFS path
    /\ c.malformed = {}        \* CIDRs, MetalLB's range
    /\ c.controlplane \notin {"", "malformed"}
    /\ c.vault.enabled => VaultAddress(c) # ""
    /\ c.secrets["ssh_password"] # "quoted"
    /\ ValidNodes(c.nodes)
    /\ \A t \in Toggles : Allowed(t, c.components[t])

\* What workloadSteps and the installers ask of a configuration.
FeaturesOf(c) ==
    {t \in Toggles : c.components[t] = On[t]}
    \cup (IF c.ai.enabled THEN {"ai"} ELSE {})
    \cup (IF c.ai.backend = "ollama" THEN {"ollama"} ELSE {})
    \cup (IF c.ai.model # "cloud" THEN {"local_model"} ELSE {})
    \cup (IF c.ai.model # "" THEN {"named_model"} ELSE {})
    \cup (IF c.secrets["ollama_key"] # "" THEN {"ollama_key"} ELSE {})

Features ==
    Toggles \cup {"ai", "ollama", "local_model", "named_model", "ollama_key"}
=============================================================================
