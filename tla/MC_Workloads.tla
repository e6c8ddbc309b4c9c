--------------------------- MODULE MC_Workloads ---------------------------
(* Workloads on the files that differ in what is installed.                 *)
EXTENDS Workloads, TLC

LabNodes == <<[role |-> "storage", ip |-> "20"], [role |-> "controlplane", ip |-> "10"],
              [role |-> "worker", ip |-> "11"], [role |-> "worker", ip |-> "12"]>>

NoSecrets == [k \in {"ssh_password", "ollama_key"} |-> ""]

\* The repository's config.yaml: the platform with everything but AI.
Platform ==
    [missing |-> {}, malformed |-> {}, controlplane |-> "", nodes |-> LabNodes,
     vault |-> [enabled |-> TRUE, addr |-> ""],
     components |-> [On EXCEPT !.karpor = "none"],
     ai |-> [enabled |-> FALSE, backend |-> "ollama", model |-> "local"],
     secrets |-> NoSecrets, env |-> NoSecrets]

With(toggles) == [Platform EXCEPT !.components = toggles @@ @]

\* No mesh and no identity, and the model in the cluster.
LocalModel ==
    [With([karpor |-> "enabled", service_mesh |-> "none", keycloak |-> "disabled",
           tracing |-> "none", vpa |-> "none", keda |-> ""]) EXCEPT !.ai.enabled = TRUE]

\* The model in the cloud, with a key of the environment; tracing has no effect.
CloudModel ==
    [With([karpor |-> "enabled", monitoring |-> "none", keycloak |-> "none",
           vpa |-> "", keda |-> "none"])
        EXCEPT !.ai = [enabled |-> TRUE, backend |-> "ollama", model |-> "cloud"],
               !.env["ollama_key"] = "key"]

\* Identity alone.
Identity == With([monitoring |-> "none", vpa |-> "none", keda |-> "none"])

\* A typo, an enabled Vault without an address, a password that would end the
\* shell's quotes, and no control plane: Load rejects them.
Typo == With([monitoring |-> "prometheus_stack"])
NoVault == [Platform EXCEPT !.nodes = SubSeq(LabNodes, 2, 4)]
Quoted == [Platform EXCEPT !.env["ssh_password"] = "quoted"]
Headless == [Platform EXCEPT !.nodes = <<LabNodes[1], LabNodes[3]>>, !.controlplane = "10"]

AllFiles ==
    {Platform, LocalModel, CloudModel, Typo, NoVault, Quoted, Headless}
IdentityOnly == {Identity}
=============================================================================
