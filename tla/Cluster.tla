------------------------------ MODULE Cluster ------------------------------
(***************************************************************************)
(* The `provision` commands on every Kubernetes machine                    *)
(* (cmd/provision.go, internal/provisioner, the Vagrantfile): `all` runs   *)
(* InstallCommon, then InitCluster on the control plane and JoinWorker on  *)
(* a worker; `common`, `controlplane` and `worker` run one of these. The   *)
(* machines meet in two places: port 6443 of the control plane, and        *)
(* /vagrant/join-command.sh in the shared folder, which survives the       *)
(* machines. One worker starts the workloads when it has joined.           *)
(*                                                                         *)
(* Any call can fail, a command can be killed and run again, a machine can *)
(* be destroyed and built again. Every cluster has a number.               *)
(***************************************************************************)
EXTENDS Calls, Integers

CONSTANTS
    ControlPlane,
    Workers,
    Starter,       \* the worker whose Vagrant provisioners start the workloads
    Commands,      \* what operators run by hand on a machine that is up
    Committed,     \* the repository's own vagrant/join-command.sh is there
    MaxRuns,       \* bound: commands
    MaxClusters    \* bound: clusters that kubeadm init makes

ASSUME ClusterAssumption ==
    /\ ControlPlane \notin Workers /\ Starter \in Workers
    /\ Commands \subseteq {"up", "all", "common", "role"}
    /\ Committed \in BOOLEAN
    /\ MaxRuns \in Nat /\ MaxClusters \in Nat

VARIABLES
    host,       \* host[n]: what InstallCommon has done to the machine
    file,       \* join-command.sh: Absent, Blank, or the cluster it is for
    cluster,    \* the control plane's cluster (NoCluster: kubeadm init never ran)
    last,       \* the latest cluster there has been
    expired,    \* the token in the file has expired
    nodes,      \* the machines that are nodes of the cluster
    kubelet,    \* kubelet[n]: the cluster a worker's kubelet was bootstrapped for
    goal,       \* goal[n]: the command: "up" (the provisioners of Vagrant, with
                \* `provision all`), "all", "common", "role" (`controlplane`,
                \* `worker`: no InstallCommon)
    pc,         \* pc[n]: the call n's command makes next
    at,         \* at[n]: the call of InstallCommon it is at
    blank,      \* blank[n]: the join command n's latest run executed was blank
    runs

api == <<cluster, last, expired, nodes>>
machine == <<host, kubelet>>
command == <<goal, pc, at, blank>>
vars == <<machine, file, api, command, runs>>

Machines == {ControlPlane} \cup Workers

Absent == 0
Blank == 1
NoCluster == 0
Earlier == 2      \* the cluster the committed file is for

-----------------------------------------------------------------------------
(* InstallCommon *)

DisableSwap == <<Call("swap", {}, {"noswap"})>>
LoadKernelModules == <<Call("modules", {}, {"modules"})>>
ConfigureSysctl == <<Call("sysctl", {"modules"}, {"sysctl"})>>

\* Mutant of ConfigureDNS: the old file is removed last.
ConfigureDNSLate == <<
    Call("resolv", {}, {"resolver", "locked"}),
    Replacing(Call("unlink", {}, {}), {"resolver", "locked"})>>

ConfigureDNS == <<
    Replacing(Call("unlink", {}, {}), {"resolver", "locked"}),
    Once(Call("resolv", {}, {"resolver"}), {"locked"}),
    Call("lock", {"resolver"}, {"locked"}),
    Call("nohook", {}, {"nohook"})>>

InstallDependencies == <<Call("apt", {"resolver"}, {"curl"})>>

\* gpg --dearmor -o does not overwrite the keyring of an earlier run.
InstallCRIO == <<
    Once(Call("crioKey", {"resolver", "curl"}, {"crioKey"}), {"crioKey"}),
    Call("crio", {"resolver", "crioKey"}, {"crio"})>>
InstallKubernetesTools == <<
    Once(Call("k8sKey", {"resolver", "curl"}, {"k8sKey"}), {"k8sKey"}),
    Call("tools", {"resolver", "k8sKey"}, {"tools"})>>

InstallCommon ==
    DisableSwap \o LoadKernelModules \o ConfigureSysctl \o ConfigureDNS
    \o InstallDependencies \o InstallCRIO \o InstallKubernetesTools

HostFacts == {"noswap", "modules", "sysctl", "resolver", "locked", "nohook", "curl",
              "crioKey", "crio", "k8sKey", "tools", "images", "kubeconfig", "sshpass"}

\* What is on the machine already, x, needs no download.
CanFetch(n, x) == {"resolver", x} \cap host[n] # {}

InitSteps == {"config", "init", "await", "kubectl", "calico", "ready", "token",
              "print", "chmod"}
JoinSteps == {"wait", "look", "bash", "sshpass", "ssh"}
Ended == {"down", "ok", "failed"}

(* Each variable holds a value of the shape the code gives it.             *)
TypeOK ==
    /\ host \in [Machines -> SUBSET HostFacts]
    /\ file \in Nat /\ cluster \in Nat /\ last \in Nat
    /\ expired \in BOOLEAN
    /\ nodes \subseteq Machines
    /\ kubelet \in [Machines -> Nat]
    /\ goal \in [Machines -> {"up", "all", "common", "role"}]
    /\ pc \in [Machines -> {"prep", "workloads"} \cup InitSteps \cup JoinSteps \cup Ended]
    /\ at \in [Machines -> 1..(Len(InstallCommon) + 1)]
    /\ blank \in [Machines -> BOOLEAN]
    /\ runs \in 0..MaxRuns

Init ==
    /\ host = [n \in Machines |-> {}]
    /\ file = IF Committed THEN Earlier ELSE Absent
    /\ cluster = NoCluster /\ last = Earlier /\ expired = Committed
    /\ nodes = {} /\ kubelet = [n \in Machines |-> NoCluster]
    /\ pc = [n \in Machines |-> "down"] /\ goal = [n \in Machines |-> "up"]
    /\ at = [n \in Machines |-> 1]
    /\ blank = [n \in Machines |-> FALSE]
    /\ runs = 0

Goto(n, step) == pc' = [pc EXCEPT ![n] = step]
Fail(n) == Goto(n, "failed")

FirstOfRole(n) == IF n = ControlPlane THEN "config" ELSE "wait"

\* What follows when InitCluster or JoinWorker has returned nil: InitControlPlane
\* goes on to the workloads, and so does Vagrant on the last worker.
AfterRole(n) ==
    IF (n = ControlPlane /\ goal[n] = "role") \/ (n = Starter /\ goal[n] = "up")
    THEN "workloads" ELSE "ok"

-----------------------------------------------------------------------------
(* The operator and Vagrant *)

Run(n, g) ==
    /\ runs < MaxRuns /\ runs' = runs + 1
    /\ goal' = [goal EXCEPT ![n] = g]
    /\ Goto(n, IF g = "role" THEN FirstOfRole(n) ELSE "prep")
    /\ at' = [at EXCEPT ![n] = 1]
    /\ blank' = [blank EXCEPT ![n] = FALSE]

\* A new machine, which resolves names as its DHCP server says.
Up(n) ==
    /\ pc[n] = "down"
    /\ Run(n, "up")
    /\ host' = [host EXCEPT ![n] = {"resolver"}]
    /\ UNCHANGED <<kubelet, file, api>>

\* A command is run by hand, or Vagrant's provisioners again.
Again(n) ==
    /\ pc[n] \in {"ok", "failed"}
    /\ \E g \in Commands : Run(n, g)
    /\ UNCHANGED <<machine, file, api>>

\* The command is killed.
Kill(n) ==
    /\ pc[n] \notin Ended
    /\ Fail(n)
    /\ UNCHANGED <<machine, file, api, at, blank, goal, runs>>

\* vagrant destroy, of one machine; the shared folder stays.
Destroy(n) ==
    /\ pc[n] \in {"ok", "failed"}
    /\ Goto(n, "down")
    /\ host' = [host EXCEPT ![n] = {}]
    /\ kubelet' = [kubelet EXCEPT ![n] = NoCluster]
    /\ blank' = [blank EXCEPT ![n] = FALSE]
    /\ IF n = ControlPlane THEN cluster' = NoCluster /\ nodes' = {}
       ELSE nodes' = nodes \ {n} /\ UNCHANGED cluster
    /\ UNCHANGED <<file, last, expired, at, goal, runs>>

\* A join token is good for 24 hours.
Expire ==
    /\ ~expired /\ expired' = TRUE
    /\ UNCHANGED <<machine, file, cluster, last, nodes, command, runs>>

-----------------------------------------------------------------------------
(* The steps of provision all *)

Current(n) == InstallCommon[at[n]]

\* Mutant of Prepare: a call whose error was printed may be counted twice.
PrepareTwice(n) ==
    /\ pc[n] = "prep" /\ at[n] <= Len(InstallCommon)
    /\ \E calls \in 1..2 : at' = [at EXCEPT ![n] = @ + calls]
    /\ host' \in {host, [host EXCEPT ![n] = After(@, Current(n))]}
    /\ UNCHANGED <<kubelet, file, api, pc, blank, goal, runs>>

\* Mutant of Prepare: an error is only printed.
PrepareOrWarn(n) ==
    /\ pc[n] = "prep" /\ at[n] <= Len(InstallCommon)
    /\ at' = [at EXCEPT ![n] = @ + 1]
    /\ host' \in {host, [host EXCEPT ![n] = After(@, Current(n))]}
    /\ UNCHANGED <<kubelet, file, api, pc, blank, goal, runs>>

\* A call of InstallCommon; its first error ends the command.
Prepare(n) ==
    /\ pc[n] = "prep" /\ at[n] <= Len(InstallCommon)
    /\ \/ /\ Possible(host[n], Current(n))
          /\ host' = [host EXCEPT ![n] = After(@, Current(n))]
          /\ at' = [at EXCEPT ![n] = @ + 1]
          /\ UNCHANGED pc
       \/ /\ \/ UNCHANGED host
             \/ /\ Possible(host[n], Current(n))
                /\ host' = [host EXCEPT ![n] = After(@, Current(n))]
          /\ Fail(n) /\ UNCHANGED at
    /\ UNCHANGED <<kubelet, file, api, blank, goal, runs>>

\* `provision common` ends here; the others go on by the node's role, which
\* provisionAllCmd looks up in config.yaml by the machine's name.
Prepared(n) ==
    /\ pc[n] = "prep" /\ at[n] > Len(InstallCommon)
    /\ \/ Goto(n, IF goal[n] = "common" THEN "ok" ELSE FirstOfRole(n))
       \/ goal[n] # "common" /\ Fail(n)
    /\ UNCHANGED <<machine, file, api, at, blank, goal, runs>>

(* InitCluster, on the control plane *)

\* A call of InitCluster that leaves nothing here that matters.
InitCall(step, next) ==
    /\ pc[ControlPlane] = step
    /\ Goto(ControlPlane, next) \/ Fail(ControlPlane)
    /\ UNCHANGED <<machine, file, api, at, blank, goal, runs>>

WriteKubeadmConfig == InitCall("config", "init")

\* kubeadm init, if it is there, and the control plane's images can be pulled or
\* were by an earlier one: its preflight refuses a machine it ran on before; the
\* API server answers before the command returns.
KubeadmInit ==
    LET pulled == [host EXCEPT ![ControlPlane] = @ \cup {"images"}]
        works == "tools" \in host[ControlPlane] /\ CanFetch(ControlPlane, "images")
    IN /\ pc[ControlPlane] = "init"
       /\ \/ /\ works /\ cluster = NoCluster /\ last < Earlier + MaxClusters
             /\ host' = pulled
             /\ cluster' = last + 1 /\ last' = last + 1
             /\ nodes' = {ControlPlane}
             /\ Goto(ControlPlane, "await")
          \/ /\ host' = host \/ (works /\ host' = pulled)
             /\ Fail(ControlPlane) /\ UNCHANGED <<cluster, last, nodes>>
       /\ UNCHANGED <<kubelet, file, expired, at, blank, goal, runs>>

KubeadmReturns == InitCall("await", "kubectl")

\* With the taint and CoreDNS, whose errors are ignored or warned of.
ConfigureKubectl ==
    /\ pc[ControlPlane] = "kubectl"
    /\ \/ /\ host' = [host EXCEPT ![ControlPlane] = @ \cup {"kubeconfig"}]
          /\ Goto(ControlPlane, "calico")
       \/ Fail(ControlPlane) /\ UNCHANGED host
    /\ UNCHANGED <<kubelet, file, api, at, blank, goal, runs>>

\* kubectl create -f with the URL of the operator's manifest; the wait for the
\* pods only warns.
InstallCalico ==
    /\ pc[ControlPlane] = "calico"
    /\ ("resolver" \in host[ControlPlane] /\ Goto(ControlPlane, "ready")) \/ Fail(ControlPlane)
    /\ UNCHANGED <<machine, file, api, at, blank, goal, runs>>

WaitForNode == InitCall("ready", "token")

\* Mutant of OpenJoinFile: a join command that exists is kept.
KeepJoinFile ==
    /\ pc[ControlPlane] = "token"
    /\ IF file = Absent THEN file' = Blank /\ Goto(ControlPlane, "print")
       ELSE Goto(ControlPlane, "chmod") /\ UNCHANGED file
    /\ UNCHANGED <<machine, api, at, blank, goal, runs>>

\* The shell empties the file before it starts kubeadm.
OpenJoinFile ==
    /\ pc[ControlPlane] = "token"
    /\ \/ file' = Blank /\ Goto(ControlPlane, "print")
       \/ Fail(ControlPlane) /\ UNCHANGED file
    /\ UNCHANGED <<machine, api, at, blank, goal, runs>>

PrintJoinCommand ==
    /\ pc[ControlPlane] = "print"
    /\ \/ file' = cluster /\ expired' = FALSE /\ Goto(ControlPlane, "chmod")
       \/ Fail(ControlPlane) /\ UNCHANGED <<file, expired>>
    /\ UNCHANGED <<machine, cluster, last, nodes, at, blank, goal, runs>>

Chmod == InitCall("chmod", AfterRole(ControlPlane))

(* JoinWorker, on a worker *)

\* Mutant of WaitForAPIServer: it has no deadline.
WaitForeverForAPI(n) ==
    /\ pc[n] = "wait" /\ cluster # NoCluster /\ Goto(n, "look")
    /\ UNCHANGED <<machine, file, api, at, blank, goal, runs>>

\* waitForAPIServer: port 6443 is open, or the deadline has passed.
WaitForAPIServer(n) ==
    /\ pc[n] = "wait"
    /\ (cluster # NoCluster /\ Goto(n, "look")) \/ Fail(n)
    /\ UNCHANGED <<machine, file, api, at, blank, goal, runs>>

LookForFile(n) ==
    /\ pc[n] = "look"
    /\ Goto(n, IF file # Absent THEN "bash" ELSE "sshpass")
    /\ UNCHANGED <<machine, file, api, at, blank, goal, runs>>

\* kubeadm join of cluster c, with a good token or not; its preflight refuses a
\* machine it ran on before. A failed one may have bootstrapped the kubelet.
Join(n, c, good) ==
    LET bootstrapped == [kubelet EXCEPT ![n] = c]
        works == /\ "tools" \in host[n] /\ good
                 /\ cluster # NoCluster /\ c = cluster /\ kubelet[n] = NoCluster
    IN /\ \/ works /\ nodes' = nodes \cup {n} /\ kubelet' = bootstrapped
                   /\ Goto(n, AfterRole(n))
          \/ works /\ nodes' = nodes \cup {n} /\ kubelet' = bootstrapped /\ Fail(n)
          \/ Fail(n) /\ UNCHANGED <<nodes, kubelet>>
       /\ UNCHANGED blank

\* Mutant of UseFile: the join command's error is only printed.
UseFileOrWarn(n) ==
    /\ pc[n] = "bash"
    /\ Goto(n, AfterRole(n))
    /\ IF file = cluster /\ kubelet[n] = NoCluster /\ ~expired
       THEN nodes' = nodes \cup {n} /\ kubelet' = [kubelet EXCEPT ![n] = file]
       ELSE UNCHANGED <<nodes, kubelet>>
    /\ blank' = [blank EXCEPT ![n] = file = Blank]
    /\ UNCHANGED <<host, file, cluster, last, expired, at, goal, runs>>

\* bash runs what is in the file by now; a blank script succeeds.
UseFile(n) ==
    /\ pc[n] = "bash"
    /\ IF file = Blank
       THEN /\ Goto(n, AfterRole(n)) /\ blank' = [blank EXCEPT ![n] = TRUE]
            /\ UNCHANGED <<nodes, kubelet>>
       ELSE Join(n, file, ~expired)
    /\ UNCHANGED <<host, file, cluster, last, expired, at, goal, runs>>

\* The fallback's apt-get, then a fresh join command over ssh.
InstallSshpass(n) ==
    LET installed == [host EXCEPT ![n] = @ \cup {"sshpass"}]
    IN /\ pc[n] = "sshpass"
       /\ \/ CanFetch(n, "sshpass") /\ host' = installed /\ Goto(n, "ssh")
          \/ (host' = host \/ (CanFetch(n, "sshpass") /\ host' = installed)) /\ Fail(n)
       /\ UNCHANGED <<kubelet, file, api, at, blank, goal, runs>>

JoinOverSSH(n) ==
    /\ pc[n] = "ssh"
    /\ Join(n, cluster, TRUE)
    /\ UNCHANGED <<host, file, cluster, last, expired, at, goal, runs>>

(* The workloads *)

\* `provision workloads`, on the control plane or over ssh from the last worker;
\* without kubectl's configuration nothing of it works, and without a resolver
\* not the downloads of MetalLB and Istio, which are fatal.
InstallWorkloads(n) ==
    /\ pc[n] = "workloads"
    /\ \/ {"kubeconfig", "resolver"} \subseteq host[ControlPlane] /\ Goto(n, "ok")
       \/ Fail(n)
    /\ UNCHANGED <<machine, file, api, at, blank, goal, runs>>

-----------------------------------------------------------------------------
InitCluster ==
    \/ WriteKubeadmConfig \/ KubeadmInit \/ KubeadmReturns \/ ConfigureKubectl
    \/ InstallCalico \/ WaitForNode \/ OpenJoinFile \/ PrintJoinCommand \/ Chmod

JoinWorker(n) ==
    WaitForAPIServer(n) \/ LookForFile(n) \/ UseFile(n) \/ InstallSshpass(n) \/ JoinOverSSH(n)

Step(n) ==
    \/ Prepare(n) \/ Prepared(n) \/ InstallWorkloads(n)
    \/ n = ControlPlane /\ InitCluster
    \/ n # ControlPlane /\ JoinWorker(n)

Next ==
    \/ \E n \in Machines : Step(n) \/ Up(n) \/ Again(n) \/ Kill(n) \/ Destroy(n)
    \/ Expire

Spec == Init /\ [][Next]_vars

\* A command makes its next call: every wait has a deadline and every program it
\* starts comes back. Machines and operators owe nothing.
FairSpec == Spec /\ \A n \in Machines : WF_vars(Step(n))
-----------------------------------------------------------------------------
(* Properties *)

\* When InitCluster has returned nil, the shared join command is the one of the
\* cluster that control plane has, whatever file an earlier cluster, or the
\* repository, had left in the shared folder (provisioner.go:209-215).
JoinCommandIsCurrent ==
    pc[ControlPlane] \in {"ok", "workloads"} /\ goal[ControlPlane] # "common"
        => file = cluster

\* A worker whose command returns nil has just become a node of the control
\* plane's cluster, unless the join command it ran was blank (provisioner.go:417-447).
JoinedOrBlank ==
    [][\A n \in Workers :
          pc[n] \in JoinSteps /\ pc'[n] \in {"ok", "workloads"} =>
              blank'[n] \/ (n \in nodes' /\ kubelet'[n] = cluster)]_vars

\* The calls that download: those of InstallCommon, kubeadm init, Calico's manifest
\* and the fallback's apt-get.
Downloads(n) ==
    \/ pc[n] = "prep" /\ at[n] <= Len(InstallCommon) /\ Current(n).name # "lock"
          /\ "resolver" \in Current(n).needs
    \/ pc[n] \in {"init", "calico", "sshpass"}

\* A command that runs InstallCommon itself (`all`, `common`, and Vagrant's) has a
\* resolver at every download it makes from there to its end, though configureDNS
\* removes the machine's own and an earlier command may have been killed at any
\* point of it (hostprep.go:83-98). `controlplane` and `worker`, which skip
\* InstallCommon, have no such promise: after such a kill their downloads fail.
DownloadsHaveDNS ==
    \A n \in Machines : Downloads(n) /\ goal[n] # "role" => "resolver" \in host[n]

\* A machine is a node only with swap off, the kernel's settings, a container
\* runtime and the Kubernetes tools, although `provision worker` looks for none of
\* them, and a cluster has no nodes but those that joined it since it was made.
NodesArePrepared ==
    \A n \in nodes : /\ {"noswap", "sysctl", "crio", "tools"} \subseteq host[n]
                     /\ n # ControlPlane => kubelet[n] = cluster

\* Every command ends.
ProvisionEnds == \A n \in Machines : pc[n] \notin Ended ~> pc[n] \in Ended

-----------------------------------------------------------------------------
(* A statement of the repository that the code does not meet *)

\* "At this point all nodes are in the cluster so DaemonSets spread correctly"
\* (Vagrantfile:249-250, and provisioner.go:318-319 of InstallWorkloads): when the
\* workloads have been installed, every worker that is up is a node.
WorkloadsMeetAllNodes ==
    [][\A n \in Machines :
          pc[n] = "workloads" /\ pc'[n] = "ok" =>
              {w \in Workers : pc[w] # "down"} \subseteq nodes]_vars
=============================================================================
