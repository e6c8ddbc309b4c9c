--------------------------- MODULE Cluster_proofs ---------------------------
(***************************************************************************)
(* The provision commands, for any number of workers, machines rebuilt and *)
(* runs: what a prepared machine has, what a node is, and the shared join  *)
(* command.                                                                *)
(***************************************************************************)
EXTENDS Cluster, TLAPS

LEMMA ControlPlaneIsNoWorker ==
    ControlPlane \in Machines /\ \A n \in Workers : n \in Machines /\ n # ControlPlane
BY ClusterAssumption DEF Machines

-----------------------------------------------------------------------------
(* The calls of InstallCommon *)

LEMMA CommonIs ==
    /\ Len(InstallCommon) = 12
    /\ InstallCommon[1] = Call("swap", {}, {"noswap"})
    /\ InstallCommon[2] = Call("modules", {}, {"modules"})
    /\ InstallCommon[3] = Call("sysctl", {"modules"}, {"sysctl"})
    /\ InstallCommon[4] = Replacing(Call("unlink", {}, {}), {"resolver", "locked"})
    /\ InstallCommon[5] = Once(Call("resolv", {}, {"resolver"}), {"locked"})
    /\ InstallCommon[6] = Call("lock", {"resolver"}, {"locked"})
    /\ InstallCommon[7] = Call("nohook", {}, {"nohook"})
    /\ InstallCommon[8] = Call("apt", {"resolver"}, {"curl"})
    /\ InstallCommon[9] = Once(Call("crioKey", {"resolver", "curl"}, {"crioKey"}), {"crioKey"})
    /\ InstallCommon[10] = Call("crio", {"resolver", "crioKey"}, {"crio"})
    /\ InstallCommon[11] = Once(Call("k8sKey", {"resolver", "curl"}, {"k8sKey"}), {"k8sKey"})
    /\ InstallCommon[12] = Call("tools", {"resolver", "k8sKey"}, {"tools"})
  BY DEF InstallCommon, DisableSwap, LoadKernelModules, ConfigureSysctl, ConfigureDNS,
         InstallDependencies, InstallCRIO, InstallKubernetesTools

LEMMA Places ==
    \A i \in 1..Len(InstallCommon) : i \in {1, 2, 3, 4, 5, 6, 7, 8, 9, 10, 11, 12}
  BY CommonIs

\* What the place of a call says about it.
LEMMA CommonFacts ==
    ASSUME NEW i \in 1..Len(InstallCommon)
    PROVE  /\ InstallCommon[i].makes \subseteq HostFacts
           /\ InstallCommon[i].drops \subseteq {"resolver", "locked"}
           /\ i # 4 => InstallCommon[i].drops = {}
           /\ i = 1 => "noswap" \in InstallCommon[i].makes
           /\ i = 3 => "sysctl" \in InstallCommon[i].makes
           /\ i = 5 => "resolver" \in InstallCommon[i].makes
           /\ i = 10 => "crio" \in InstallCommon[i].makes
           /\ "tools" \in InstallCommon[i].makes => i = 12
           /\ "resolver" \in InstallCommon[i].needs
                 => i \in {6, 8, 9, 10, 11, 12}
<1>1. i \in {1, 2, 3, 4, 5, 6, 7, 8, 9, 10, 11, 12}
  BY Places
<1>2. QED  BY <1>1, CommonIs DEF HostFacts, Call, Replacing, Once

\* A machine after a call.
LEMMA AfterCommon ==
    ASSUME NEW h, NEW i \in 1..Len(InstallCommon)
    PROVE  LET next == After(h, InstallCommon[i])
           IN /\ h \subseteq HostFacts => next \subseteq HostFacts
              /\ \A x \in {"noswap", "sysctl", "crio", "tools"} : x \in h => x \in next
              /\ "resolver" \in h /\ i # 4 => "resolver" \in next
              /\ i = 1 => "noswap" \in next
              /\ i = 3 => "sysctl" \in next
              /\ i = 5 => "resolver" \in next
              /\ i = 10 => "crio" \in next
              /\ "tools" \in next => "tools" \in h \/ i = 12
<1>1. After(h, InstallCommon[i]) = (h \ InstallCommon[i].drops) \cup InstallCommon[i].makes
  BY DEF After
<1>2. QED  BY <1>1, CommonFacts

-----------------------------------------------------------------------------
(* Types *)

PcValues == {"prep", "workloads"} \cup InitSteps \cup JoinSteps \cup Ended
Goals == {"up", "all", "common", "role"}

LEMMA TypeInit == Init => TypeOK
<1> SUFFICES ASSUME Init PROVE TypeOK
  OBVIOUS
<1>1. 1 \in 1..(Len(InstallCommon) + 1)
  BY CommonIs
<1>2. QED  BY <1>1, ClusterAssumption DEF Init, TypeOK, Ended, Absent, NoCluster, Earlier

\* The step a command goes to is one there is.
LEMMA Targets ==
    ASSUME NEW n \in Machines
    PROVE  /\ FirstOfRole(n) \in {"config", "wait"}
           /\ AfterRole(n) \in {"ok", "workloads"}
  BY DEF FirstOfRole, AfterRole

LEMMA TypeStep == TypeOK /\ [Next]_vars => TypeOK'
<1> SUFFICES ASSUME TypeOK, [Next]_vars PROVE TypeOK'
  OBVIOUS
<1> USE ControlPlaneIsNoWorker
<1>1. ASSUME NEW n \in Machines, NEW g \in Goals, Run(n, g), UNCHANGED <<kubelet, file, api>>,
             host' \in [Machines -> SUBSET HostFacts]
      PROVE  TypeOK'
  <2>1. 1 \in 1..(Len(InstallCommon) + 1)
    BY CommonIs
  <2>2. runs' \in 0..MaxRuns
    BY <1>1, ClusterAssumption DEF Run, TypeOK
  <2>3. pc' \in [Machines -> PcValues]
    BY <1>1, Targets DEF Run, Goto, TypeOK, PcValues, InitSteps, JoinSteps
  <2>4. QED  BY <1>1, <2>1, <2>2, <2>3 DEF Run, TypeOK, api, PcValues, Goals
<1>2. ASSUME NEW n \in Machines, Up(n) PROVE TypeOK'
  BY <1>1, <1>2 DEF Up, Goals, TypeOK, HostFacts
<1>3. ASSUME NEW n \in Machines, Again(n) PROVE TypeOK'
  <2>1. PICK g \in Commands : Run(n, g)
    BY <1>3 DEF Again
  <2>2. QED  BY <1>1, <1>3, <2>1, ClusterAssumption DEF Again, Goals, TypeOK, machine
<1>4. ASSUME NEW n \in Machines, Kill(n) PROVE TypeOK'
  BY <1>4 DEF Kill, Fail, Goto, TypeOK, machine, api, Ended
<1>5. ASSUME NEW n \in Machines, Destroy(n) PROVE TypeOK'
  BY <1>5 DEF Destroy, Goto, TypeOK, Ended, NoCluster
<1>6. ASSUME NEW n \in Machines, Prepare(n) PROVE TypeOK'
  <2>1. at[n] \in 1..Len(InstallCommon) /\ at[n] + 1 \in 1..(Len(InstallCommon) + 1)
    BY <1>6, CommonIs DEF Prepare, TypeOK
  <2>2. host[n] \subseteq HostFacts
    BY DEF TypeOK
  <2>3. After(host[n], Current(n)) \subseteq HostFacts
    BY <2>1, <2>2, AfterCommon DEF Current
  <2>4. host' \in [Machines -> SUBSET HostFacts]
    BY <1>6, <2>3 DEF Prepare, TypeOK
  <2>5. at' \in [Machines -> 1..(Len(InstallCommon) + 1)]
    BY <1>6, <2>1 DEF Prepare, TypeOK
  <2>6. pc' \in [Machines -> PcValues]
    BY <1>6 DEF Prepare, Fail, Goto, TypeOK, PcValues, Ended
  <2>7. QED  BY <1>6, <2>4, <2>5, <2>6 DEF Prepare, TypeOK, PcValues, api
<1>7. ASSUME NEW n \in Machines, Prepared(n) PROVE TypeOK'
  <2>1. pc' \in [Machines -> PcValues]
    BY <1>7, Targets DEF Prepared, Fail, Goto, TypeOK, PcValues, InitSteps, JoinSteps, Ended
  <2>2. QED  BY <1>7, <2>1 DEF Prepared, TypeOK, PcValues, machine, api
<1>8. ASSUME NEW n \in Machines, InstallWorkloads(n) PROVE TypeOK'
  BY <1>8 DEF InstallWorkloads, Fail, Goto, TypeOK, machine, api, Ended
<1>9. ASSUME InitCluster PROVE TypeOK'
  <2>1. ASSUME NEW step, NEW next \in PcValues, InitCall(step, next) PROVE TypeOK'
    BY <2>1 DEF InitCall, Fail, Goto, TypeOK, machine, api, PcValues, Ended
  <2>2. CASE WriteKubeadmConfig
    <3>1. "init" \in PcValues
      BY DEF PcValues, InitSteps
    <3>2. InitCall("config", "init")
      BY <2>2 DEF WriteKubeadmConfig
    <3>3. QED  BY <2>1, <3>1, <3>2
  <2>3. CASE KubeadmReturns
    <3>1. "kubectl" \in PcValues
      BY DEF PcValues, InitSteps
    <3>2. InitCall("await", "kubectl")
      BY <2>3 DEF KubeadmReturns
    <3>3. QED  BY <2>1, <3>1, <3>2
  <2>4. CASE InstallCalico
    BY <2>4 DEF InstallCalico, Fail, Goto, TypeOK, machine, api, InitSteps, Ended
  <2>5. CASE WaitForNode
    <3>1. "token" \in PcValues
      BY DEF PcValues, InitSteps
    <3>2. InitCall("ready", "token")
      BY <2>5 DEF WaitForNode
    <3>3. QED  BY <2>1, <3>1, <3>2
  <2>6. CASE Chmod
    <3>1. AfterRole(ControlPlane) \in PcValues
      BY Targets DEF PcValues, Ended
    <3>2. InitCall("chmod", AfterRole(ControlPlane))
      BY <2>6 DEF Chmod
    <3>3. QED  BY <2>1, <3>1, <3>2
  <2>7. CASE ConfigureKubectl
    <3>1. pc' \in [Machines -> PcValues]
      BY <2>7 DEF ConfigureKubectl, Fail, Goto, TypeOK, PcValues, InitSteps, Ended
    <3>2. host[ControlPlane] \cup {"kubeconfig"} \subseteq HostFacts
      BY DEF TypeOK, HostFacts
    <3>3. host' \in [Machines -> SUBSET HostFacts]
      BY <2>7, <3>2 DEF ConfigureKubectl, TypeOK
    <3>4. QED  BY <2>7, <3>1, <3>3 DEF ConfigureKubectl, TypeOK, PcValues, api
  <2>8. CASE KubeadmInit
    <3>1. pc' \in [Machines -> PcValues]
      BY <2>8 DEF KubeadmInit, Fail, Goto, TypeOK, PcValues, InitSteps, Ended
    <3>2. cluster' \in Nat /\ last' \in Nat
      BY <2>8 DEF KubeadmInit, TypeOK
    <3>3. nodes' \subseteq Machines
      BY <2>8 DEF KubeadmInit, TypeOK
    <3>4. host' \in [Machines -> SUBSET HostFacts]
      <4>1. host[ControlPlane] \cup {"images"} \subseteq HostFacts
        BY DEF TypeOK, HostFacts
      <4>2. QED  BY <2>8, <4>1 DEF KubeadmInit, TypeOK
    <3>5. QED  BY <2>8, <3>1, <3>2, <3>3, <3>4 DEF KubeadmInit, TypeOK, PcValues
  <2>9. CASE OpenJoinFile
    <3>1. pc' \in [Machines -> PcValues]
      BY <2>9 DEF OpenJoinFile, Fail, Goto, TypeOK, PcValues, InitSteps, Ended
    <3>2. file' \in Nat
      BY <2>9 DEF OpenJoinFile, TypeOK, Blank
    <3>3. QED  BY <2>9, <3>1, <3>2 DEF OpenJoinFile, TypeOK, PcValues, machine, api
  <2>10. CASE PrintJoinCommand
    <3>1. pc' \in [Machines -> PcValues]
      BY <2>10 DEF PrintJoinCommand, Fail, Goto, TypeOK, PcValues, InitSteps, Ended
    <3>2. file' \in Nat
      BY <2>10 DEF PrintJoinCommand, TypeOK
    <3>3. expired' \in BOOLEAN
      BY <2>10, Zenon DEF PrintJoinCommand, TypeOK
    <3>4. QED  BY <2>10, <3>1, <3>2, <3>3 DEF PrintJoinCommand, TypeOK, PcValues, machine
  <2>11. QED
    BY <1>9, <2>2, <2>3, <2>4, <2>5, <2>6, <2>7, <2>8, <2>9, <2>10 DEF InitCluster
<1>10. ASSUME NEW n \in Workers, JoinWorker(n) PROVE TypeOK'
  <2>1. ASSUME NEW c \in Nat, NEW good, Join(n, c, good),
               UNCHANGED <<host, file, cluster, last, expired, at, goal, runs>>
        PROVE  TypeOK'
    BY <2>1, Targets DEF Join, Fail, Goto, TypeOK, Ended
  <2>2. CASE WaitForAPIServer(n)
    BY <2>2 DEF WaitForAPIServer, Fail, Goto, TypeOK, machine, api, JoinSteps, Ended
  <2>3. CASE LookForFile(n)
    BY <2>3 DEF LookForFile, Goto, TypeOK, machine, api, JoinSteps
  <2>4. CASE UseFile(n)
    <3>1. CASE file = Blank
      BY <2>4, <3>1, Targets DEF UseFile, Goto, TypeOK, Ended
    <3>2. CASE file # Blank
      BY <2>1, <2>4, <3>2 DEF UseFile, TypeOK
    <3>3. QED  BY <3>1, <3>2
  <2>5. CASE InstallSshpass(n)
    <3>1. host[n] \cup {"sshpass"} \subseteq HostFacts
      BY DEF TypeOK, HostFacts
    <3>2. host' \in [Machines -> SUBSET HostFacts]
      BY <2>5, <3>1 DEF InstallSshpass, TypeOK
    <3>3. QED  BY <2>5, <3>2 DEF InstallSshpass, Fail, Goto, TypeOK, api, JoinSteps, Ended
  <2>6. CASE JoinOverSSH(n)
    BY <2>1, <2>6 DEF JoinOverSSH, TypeOK
  <2>7. QED  BY <1>10, <2>2, <2>3, <2>4, <2>5, <2>6 DEF JoinWorker
<1>11. CASE Expire
  BY <1>11 DEF Expire, TypeOK, machine, command
<1>12. CASE UNCHANGED vars
  BY <1>12 DEF TypeOK, vars, machine, api, command
<1>13. QED
  <2>1. ASSUME NEW n \in Machines, Step(n) PROVE TypeOK'
    BY <2>1, <1>6, <1>7, <1>8, <1>9, <1>10 DEF Step, Machines
  <2>2. QED  BY <2>1, <1>2, <1>3, <1>4, <1>5, <1>11, <1>12 DEF Next

\* Every reachable state of the provision commands is well typed.
THEOREM ClusterTypeCorrect == Spec => []TypeOK
  BY TypeInit, TypeStep, PTL DEF Spec

-----------------------------------------------------------------------------
(* The shared join command *)

\* The control plane is past writing the file only with the file its cluster's;
\* the steps of InitCluster are the control plane's alone.
FileInv ==
    /\ pc[ControlPlane] = "chmod" => file = cluster
    /\ JoinCommandIsCurrent
    /\ \A n \in Workers : pc[n] \notin InitSteps

LEMMA FileInit == Init => FileInv
  BY ControlPlaneIsNoWorker DEF Init, FileInv, JoinCommandIsCurrent, InitSteps

\* A machine moves, and neither the file nor the cluster changes.
LEMMA OneMoves ==
    ASSUME TypeOK, FileInv, NEW n \in Machines, NEW s,
           n = ControlPlane /\ s \in {"chmod", "ok", "workloads"} =>
              file = cluster \/ (s = "ok" /\ goal'[n] = "common"),
           n # ControlPlane => s \notin InitSteps,
           n # ControlPlane => goal'[ControlPlane] = goal[ControlPlane],
           pc' = [pc EXCEPT ![n] = s], file' = file, cluster' = cluster
    PROVE  FileInv'
<1>1. CASE n = ControlPlane
  BY <1>1, ControlPlaneIsNoWorker DEF TypeOK, FileInv, JoinCommandIsCurrent
<1>2. CASE n # ControlPlane
  BY <1>2, ControlPlaneIsNoWorker DEF TypeOK, FileInv, JoinCommandIsCurrent
<1>3. QED  BY <1>1, <1>2

\* A step of a worker moves it alone, and out of InitCluster's way.
LEMMA WorkerMoves ==
    ASSUME NEW n \in Workers, JoinWorker(n)
    PROVE  \E s \in {"workloads"} \cup JoinSteps \cup Ended :
              /\ pc' = [pc EXCEPT ![n] = s]
              /\ file' = file /\ cluster' = cluster /\ goal' = goal
<1> USE ControlPlaneIsNoWorker
<1>1. CASE WaitForAPIServer(n)
  BY <1>1 DEF WaitForAPIServer, Goto, Fail, JoinSteps, Ended, api
<1>2. CASE LookForFile(n)
  BY <1>2 DEF LookForFile, Goto, JoinSteps, Ended, api
<1>3. CASE UseFile(n)
  <2>1. CASE file = Blank
    BY <1>3, <2>1, Targets DEF UseFile, Goto, Ended
  <2>2. CASE file # Blank
    BY <1>3, <2>2, Targets DEF UseFile, Join, Goto, Fail, Ended
  <2>3. QED  BY <2>1, <2>2
<1>4. CASE InstallSshpass(n)
  BY <1>4 DEF InstallSshpass, Goto, Fail, JoinSteps, Ended, api
<1>5. CASE JoinOverSSH(n)
  BY <1>5, Targets DEF JoinOverSSH, Join, Goto, Fail, JoinSteps, Ended
<1>6. QED  BY <1>1, <1>2, <1>3, <1>4, <1>5 DEF JoinWorker

LEMMA FileStep == TypeOK /\ FileInv /\ [Next]_vars => FileInv'
<1> SUFFICES ASSUME TypeOK, FileInv, [Next]_vars PROVE FileInv'
  OBVIOUS
<1> USE ControlPlaneIsNoWorker
<1>1. ASSUME NEW n \in Machines, Prepare(n) PROVE FileInv'
  <2>1. CASE pc' = pc
    BY <1>1, <2>1 DEF FileInv, JoinCommandIsCurrent, Prepare, api
  <2>2. CASE Fail(n)
    <3>1. /\ pc' = [pc EXCEPT ![n] = "failed"]
          /\ file' = file /\ cluster' = cluster /\ goal' = goal
      BY <1>1, <2>2 DEF Prepare, Fail, Goto, api
    <3>2. "failed" \notin InitSteps
      BY DEF InitSteps
    <3>3. QED  BY <3>1, <3>2, OneMoves
  <2>3. QED  BY <1>1, <2>1, <2>2 DEF Prepare
<1>2. ASSUME NEW n \in Machines, Prepared(n) PROVE FileInv'
  <2> DEFINE next == IF goal[n] = "common" THEN "ok" ELSE FirstOfRole(n)
  <2>1. PICK s \in {next, "failed"} : pc' = [pc EXCEPT ![n] = s]
    BY <1>2 DEF Prepared, Fail, Goto
  <2>2. file' = file /\ cluster' = cluster /\ goal' = goal
    BY <1>2 DEF Prepared, api
  <2>3. s \in {"chmod", "ok", "workloads"} => s = "ok" /\ goal'[n] = "common"
    BY <2>2, Targets
  <2>4. n # ControlPlane => s \notin InitSteps
    BY DEF FirstOfRole, InitSteps
  <2>5. QED  BY <2>1, <2>2, <2>3, <2>4, OneMoves
<1>3. ASSUME NEW n \in Machines, NEW g, Run(n, g), UNCHANGED <<file, api>> PROVE FileInv'
  <2> DEFINE s == IF g = "role" THEN FirstOfRole(n) ELSE "prep"
  <2>1. pc' = [pc EXCEPT ![n] = s] /\ goal' = [goal EXCEPT ![n] = g]
    BY <1>3 DEF Run, Goto
  <2>2. file' = file /\ cluster' = cluster
    BY <1>3 DEF api
  <2>3. s \notin {"chmod", "ok", "workloads"}
    BY Targets
  <2>4. n # ControlPlane => s \notin InitSteps
    BY DEF FirstOfRole, InitSteps
  <2>5. n # ControlPlane => goal'[ControlPlane] = goal[ControlPlane]
    BY <2>1 DEF TypeOK
  <2> HIDE DEF s
  <2>6. QED  BY <2>1, <2>2, <2>3, <2>4, <2>5, OneMoves
<1>4. ASSUME NEW n \in Machines, Up(n) \/ Again(n) PROVE FileInv'
  <2>1. CASE Up(n)
    BY <1>3, <2>1 DEF Up
  <2>2. CASE Again(n)
    BY <1>3, <2>2 DEF Again
  <2>3. QED  BY <1>4, <2>1, <2>2
<1>5. ASSUME NEW n \in Machines, Kill(n) PROVE FileInv'
  <2>1. /\ pc' = [pc EXCEPT ![n] = "failed"]
        /\ file' = file /\ cluster' = cluster /\ goal' = goal
    BY <1>5 DEF Kill, Fail, Goto, api
  <2>2. "failed" \notin InitSteps
    BY DEF InitSteps
  <2>3. QED  BY <2>1, <2>2, OneMoves
<1>6. ASSUME NEW n \in Machines, Destroy(n) PROVE FileInv'
  <2>1. pc' = [pc EXCEPT ![n] = "down"] /\ file' = file /\ goal' = goal
    BY <1>6 DEF Destroy, Goto
  <2>2. "down" \notin InitSteps
    BY DEF InitSteps
  <2>3. CASE n = ControlPlane
    BY <2>1, <2>3 DEF FileInv, JoinCommandIsCurrent, TypeOK
  <2>4. CASE n # ControlPlane
    <3>1. cluster' = cluster
      BY <1>6, <2>4 DEF Destroy
    <3>2. QED  BY <2>1, <2>2, <2>4, <3>1, OneMoves
  <2>5. QED  BY <2>3, <2>4
<1>7. ASSUME InitCluster PROVE FileInv'
  <2>1. ASSUME NEW s, pc' = [pc EXCEPT ![ControlPlane] = s],
               s \notin {"chmod", "ok", "workloads"}
        PROVE  FileInv'
    BY <2>1 DEF FileInv, JoinCommandIsCurrent, TypeOK
  <2>2. ASSUME NEW step, NEW next, InitCall(step, next), next \notin {"chmod", "ok", "workloads"}
        PROVE  FileInv'
    BY <2>1, <2>2 DEF InitCall, Fail, Goto
  <2>3. CASE WriteKubeadmConfig
    BY <2>2, <2>3 DEF WriteKubeadmConfig
  <2>4. CASE KubeadmReturns
    BY <2>2, <2>4 DEF KubeadmReturns
  <2>5. CASE InstallCalico
    BY <2>1, <2>5 DEF InstallCalico, Fail, Goto
  <2>6. CASE WaitForNode
    BY <2>2, <2>6 DEF WaitForNode
  <2>7. CASE ConfigureKubectl
    BY <2>1, <2>7 DEF ConfigureKubectl, Fail, Goto
  <2>8. CASE KubeadmInit
    BY <2>1, <2>8 DEF KubeadmInit, Fail, Goto
  <2>9. CASE OpenJoinFile
    BY <2>1, <2>9 DEF OpenJoinFile, Fail, Goto
  <2>10. CASE PrintJoinCommand
    <3>1. CASE file' = cluster /\ Goto(ControlPlane, "chmod")
      BY <2>10, <3>1 DEF PrintJoinCommand, Goto, FileInv, JoinCommandIsCurrent, TypeOK
    <3>2. CASE Fail(ControlPlane)
      BY <2>1, <3>2 DEF Fail, Goto
    <3>3. QED  BY <2>10, <3>1, <3>2 DEF PrintJoinCommand
  <2>11. CASE Chmod
    <3>1. file = cluster /\ file' = file /\ cluster' = cluster
      BY <2>11 DEF FileInv, Chmod, InitCall, api
    <3>2. CASE Goto(ControlPlane, AfterRole(ControlPlane))
      BY <3>1, <3>2 DEF Goto, FileInv, JoinCommandIsCurrent, TypeOK
    <3>3. CASE Fail(ControlPlane)
      BY <2>1, <3>3 DEF Fail, Goto
    <3>4. QED  BY <2>11, <3>2, <3>3 DEF Chmod, InitCall
  <2>12. QED
    BY <1>7, <2>3, <2>4, <2>5, <2>6, <2>7, <2>8, <2>9, <2>10, <2>11 DEF InitCluster
<1>8. ASSUME NEW n \in Workers, JoinWorker(n) PROVE FileInv'
  <2>1. PICK s \in {"workloads"} \cup JoinSteps \cup Ended :
           pc' = [pc EXCEPT ![n] = s] /\ file' = file /\ cluster' = cluster /\ goal' = goal
    BY <1>8, WorkerMoves
  <2>2. s \notin InitSteps
    BY DEF JoinSteps, Ended, InitSteps
  <2>3. QED  BY <2>1, <2>2, OneMoves
<1>9. ASSUME NEW n \in Machines, InstallWorkloads(n) PROVE FileInv'
  <2>1. /\ pc[n] = "workloads"
        /\ file' = file /\ cluster' = cluster /\ goal' = goal
    BY <1>9 DEF InstallWorkloads, api
  <2>2. PICK s \in {"ok", "failed"} : pc' = [pc EXCEPT ![n] = s]
    BY <1>9 DEF InstallWorkloads, Fail, Goto
  <2>3. n = ControlPlane /\ s = "ok" => file = cluster \/ goal'[n] = "common"
    BY <2>1 DEF FileInv, JoinCommandIsCurrent
  <2>4. s \notin InitSteps
    BY DEF InitSteps
  <2>5. QED  BY <2>1, <2>2, <2>3, <2>4, OneMoves
<1>10. CASE Expire \/ UNCHANGED vars
  BY <1>10 DEF FileInv, JoinCommandIsCurrent, Expire, vars, api, command
<1>11. QED
  <2>1. ASSUME NEW n \in Machines, Step(n) PROVE FileInv'
    BY <2>1, <1>1, <1>2, <1>7, <1>8, <1>9 DEF Step, Machines
  <2>2. QED  BY <2>1, <1>4, <1>5, <1>6, <1>10 DEF Next

\* A control plane whose InitCluster returned nil has left its own cluster's join
\* command in the shared folder.
THEOREM JoinFileIsCurrent == Spec => []JoinCommandIsCurrent
<1>1. FileInv => JoinCommandIsCurrent
  BY DEF FileInv
<1>2. QED  BY <1>1, TypeInit, TypeStep, FileInit, FileStep, PTL DEF Spec

-----------------------------------------------------------------------------
(* What a machine has *)

\* What InstallCommon has got past is on the machine; a machine with the tools has
\* been through all of it.
HostInv ==
    \A n \in Machines :
        /\ pc[n] = "prep" => /\ at[n] > 1 => "noswap" \in host[n]
                             /\ at[n] > 3 => "sysctl" \in host[n]
                             /\ at[n] > 5 => "resolver" \in host[n]
                             /\ at[n] > 10 => "crio" \in host[n]
        /\ "tools" \in host[n] => {"noswap", "sysctl", "crio"} \subseteq host[n]

LEMMA HostInit == Init => HostInv
  BY DEF Init, HostInv

\* No machine changes, and none is in InstallCommon but where it was or at its start.
LEMMA HostsKeep ==
    ASSUME HostInv, host' = host,
           \A n \in Machines : pc'[n] = "prep" =>
              at'[n] = 1 \/ (pc[n] = "prep" /\ at'[n] = at[n])
    PROVE  HostInv'
<1> SUFFICES ASSUME NEW n \in Machines
             PROVE  /\ pc'[n] = "prep" => /\ at'[n] > 1 => "noswap" \in host[n]
                                          /\ at'[n] > 3 => "sysctl" \in host[n]
                                          /\ at'[n] > 5 => "resolver" \in host[n]
                                          /\ at'[n] > 10 => "crio" \in host[n]
                    /\ "tools" \in host[n] => {"noswap", "sysctl", "crio"} \subseteq host[n]
  BY DEF HostInv
<1>1. CASE at'[n] = 1
  BY <1>1 DEF HostInv
<1>2. CASE at'[n] # 1
  BY <1>2 DEF HostInv
<1>3. QED  BY <1>1, <1>2

\* A machine moves to a step that is not in InstallCommon, and none changes.
LEMMA HostsKeepOn ==
    ASSUME TypeOK, HostInv, host' = host, at' = at, NEW n \in Machines, NEW s,
           s # "prep", pc' = [pc EXCEPT ![n] = s]
    PROVE  HostInv'
  BY HostsKeep DEF TypeOK

\* A machine outside InstallCommon, or just gone from it, gets something more.
LEMMA HostsGain ==
    ASSUME TypeOK, HostInv, at' = at, NEW n \in Machines, NEW s, s # "prep", NEW x,
           x # "tools", pc' = [pc EXCEPT ![n] = s],
           host' = [host EXCEPT ![n] = @ \cup {x}]
    PROVE  HostInv'
<1>1. pc'[n] = s /\ host'[n] = host[n] \cup {x}
  BY DEF TypeOK
<1>2. \A m \in Machines \ {n} : host'[m] = host[m] /\ at'[m] = at[m] /\ pc'[m] = pc[m]
  BY DEF TypeOK
<1>3. QED  BY <1>1, <1>2 DEF HostInv

LEMMA HostStep == TypeOK /\ HostInv /\ [Next]_vars => HostInv'
<1> SUFFICES ASSUME TypeOK, HostInv, [Next]_vars PROVE HostInv'
  OBVIOUS
<1> USE ControlPlaneIsNoWorker
<1>1. ASSUME NEW n \in Machines, Up(n) PROVE HostInv'
  <2>1. /\ host' = [host EXCEPT ![n] = {"resolver"}]
        /\ at' = [at EXCEPT ![n] = 1]
        /\ pc' = [pc EXCEPT ![n] = "prep"]
    BY <1>1 DEF Up, Run, Goto
  <2>2. QED  BY <2>1 DEF HostInv, TypeOK
<1>2. ASSUME NEW n \in Machines, Again(n) PROVE HostInv'
  <2>1. PICK g \in Commands : Run(n, g)
    BY <1>2 DEF Again
  <2>2. host' = host
    BY <1>2 DEF Again, machine
  <2>3. at' = [at EXCEPT ![n] = 1] /\ \A m \in Machines \ {n} : pc'[m] = pc[m]
    BY <2>1 DEF Run, Goto, TypeOK
  <2>4. QED  BY <2>2, <2>3, HostsKeep DEF TypeOK
<1>3. ASSUME NEW n \in Machines, Kill(n) PROVE HostInv'
  BY <1>3, HostsKeepOn DEF Kill, Fail, Goto, machine
<1>4. ASSUME NEW n \in Machines, Destroy(n) PROVE HostInv'
  <2>1. /\ host' = [host EXCEPT ![n] = {}] /\ at' = at
        /\ pc' = [pc EXCEPT ![n] = "down"]
    BY <1>4 DEF Destroy, Goto
  <2>2. QED  BY <2>1 DEF HostInv, TypeOK
<1>5. ASSUME NEW n \in Machines, Prepare(n) PROVE HostInv'
  <2> DEFINE next == After(host[n], Current(n))
  <2>1. at[n] \in 1..Len(InstallCommon)
    BY <1>5, CommonIs DEF Prepare, TypeOK
  <2>2. /\ \A x \in {"noswap", "sysctl", "crio", "tools"} : x \in host[n] => x \in next
        /\ "resolver" \in host[n] /\ at[n] # 4 => "resolver" \in next
        /\ at[n] = 1 => "noswap" \in next
        /\ at[n] = 3 => "sysctl" \in next
        /\ at[n] = 5 => "resolver" \in next
        /\ at[n] = 10 => "crio" \in next
        /\ "tools" \in next => "tools" \in host[n] \/ at[n] = 12
    BY <2>1, AfterCommon DEF Current
  <2>3. pc[n] = "prep"
    BY <1>5 DEF Prepare
  <2>4. /\ at[n] > 1 => "noswap" \in host[n]
        /\ at[n] > 3 => "sysctl" \in host[n]
        /\ at[n] > 5 => "resolver" \in host[n]
        /\ at[n] > 10 => "crio" \in host[n]
        /\ "tools" \in host[n] => {"noswap", "sysctl", "crio"} \subseteq host[n]
    BY <2>3 DEF HostInv
  <2> HIDE DEF next
  <2>5. "tools" \in next => {"noswap", "sysctl", "crio"} \subseteq next
    BY <2>2, <2>4
  <2>6. CASE host' = [host EXCEPT ![n] = next] /\ at' = [at EXCEPT ![n] = @ + 1] /\ pc' = pc
    <3>1. at[n] \in Nat
      BY <2>1
    <3>2. /\ at[n] + 1 > 1 => "noswap" \in next
          /\ at[n] + 1 > 3 => "sysctl" \in next
          /\ at[n] + 1 > 5 => "resolver" \in next
          /\ at[n] + 1 > 10 => "crio" \in next
      <4>1. at[n] > 0
        BY <2>1
      <4>2. QED  BY <2>2, <2>4, <3>1, <4>1
    <3>3. host'[n] = next /\ at'[n] = at[n] + 1
      BY <2>6 DEF TypeOK
    <3>4. \A m \in Machines \ {n} : host'[m] = host[m] /\ at'[m] = at[m] /\ pc'[m] = pc[m]
      BY <2>6 DEF TypeOK
    <3>5. SUFFICES ASSUME NEW m \in Machines
                   PROVE  /\ pc'[m] = "prep" => /\ at'[m] > 1 => "noswap" \in host'[m]
                                                /\ at'[m] > 3 => "sysctl" \in host'[m]
                                                /\ at'[m] > 5 => "resolver" \in host'[m]
                                                /\ at'[m] > 10 => "crio" \in host'[m]
                          /\ "tools" \in host'[m] =>
                                {"noswap", "sysctl", "crio"} \subseteq host'[m]
      BY DEF HostInv
    <3>6. CASE m = n
      BY <2>5, <3>2, <3>3, <3>6
    <3>7. CASE m # n
      BY <3>4, <3>7 DEF HostInv
    <3>8. QED  BY <3>6, <3>7
  <2>7. CASE host' = [host EXCEPT ![n] = next] /\ at' = at /\ Fail(n)
    <3>1. host'[n] = next /\ pc'[n] = "failed"
      BY <2>7 DEF TypeOK, Fail, Goto
    <3>2. \A m \in Machines \ {n} : host'[m] = host[m] /\ at'[m] = at[m] /\ pc'[m] = pc[m]
      BY <2>7 DEF TypeOK, Fail, Goto
    <3>3. QED  BY <2>5, <3>1, <3>2 DEF HostInv
  <2>8. CASE host' = host /\ at' = at /\ Fail(n)
    BY <2>8, HostsKeepOn DEF Fail, Goto
  <2>9. QED  BY <1>5, <2>6, <2>7, <2>8 DEF Prepare, next
<1>6. ASSUME NEW n \in Machines, Prepared(n) PROVE HostInv'
  <2>1. (IF goal[n] = "common" THEN "ok" ELSE FirstOfRole(n)) # "prep"
    BY Targets
  <2>2. QED  BY <1>6, <2>1, HostsKeepOn DEF Prepared, Fail, Goto, machine
<1>7. ASSUME NEW n \in Machines, InstallWorkloads(n) PROVE HostInv'
  BY <1>7, HostsKeepOn DEF InstallWorkloads, Fail, Goto, machine
<1>8. ASSUME InitCluster PROVE HostInv'
  <2>1. ASSUME NEW step, NEW next, next # "prep", InitCall(step, next) PROVE HostInv'
    BY <2>1, HostsKeepOn DEF InitCall, Fail, Goto, machine
  <2>2. CASE WriteKubeadmConfig
    BY <2>1, <2>2 DEF WriteKubeadmConfig
  <2>3. CASE KubeadmReturns
    BY <2>1, <2>3 DEF KubeadmReturns
  <2>4. CASE InstallCalico
    BY <2>4, HostsKeepOn DEF InstallCalico, Fail, Goto, machine
  <2>5. CASE WaitForNode
    BY <2>1, <2>5 DEF WaitForNode
  <2>6. CASE Chmod
    BY <2>1, <2>6, Targets DEF Chmod
  <2>7. CASE ConfigureKubectl
    BY <2>7, HostsKeepOn, HostsGain DEF ConfigureKubectl, Fail, Goto
  <2>8. CASE KubeadmInit
    BY <2>8, HostsKeepOn, HostsGain DEF KubeadmInit, Fail, Goto
  <2>9. CASE OpenJoinFile
    BY <2>9, HostsKeepOn DEF OpenJoinFile, Fail, Goto, machine
  <2>10. CASE PrintJoinCommand
    BY <2>10, HostsKeepOn DEF PrintJoinCommand, Fail, Goto, machine
  <2>11. QED
    BY <1>8, <2>2, <2>3, <2>4, <2>5, <2>6, <2>7, <2>8, <2>9, <2>10 DEF InitCluster
<1>9. ASSUME NEW n \in Workers, JoinWorker(n) PROVE HostInv'
  <2>1. PICK s \in {"workloads"} \cup JoinSteps \cup Ended : pc' = [pc EXCEPT ![n] = s]
    BY <1>9, WorkerMoves
  <2>2. s # "prep"
    BY DEF JoinSteps, Ended
  <2>3. at' = at
    BY <1>9 DEF JoinWorker, WaitForAPIServer, LookForFile, UseFile, InstallSshpass,
                JoinOverSSH
  <2>4. host' = host \/ host' = [host EXCEPT ![n] = @ \cup {"sshpass"}]
    BY <1>9 DEF JoinWorker, WaitForAPIServer, LookForFile, UseFile, InstallSshpass,
                JoinOverSSH, machine
  <2>5. QED  BY <2>1, <2>2, <2>3, <2>4, HostsKeepOn, HostsGain
<1>10. CASE Expire \/ UNCHANGED vars
  BY <1>10 DEF HostInv, Expire, vars, machine, command
<1>11. QED
  <2>1. ASSUME NEW n \in Machines, Step(n) PROVE HostInv'
    BY <2>1, <1>5, <1>6, <1>7, <1>8, <1>9 DEF Step, Machines
  <2>2. QED  BY <2>1, <1>1, <1>2, <1>3, <1>4, <1>10 DEF Next

\* A command that went through InstallCommon has a resolver from then on.
ResolverInv ==
    \A n \in Machines :
        pc[n] \in InitSteps \cup JoinSteps /\ goal[n] # "role" => "resolver" \in host[n]

\* A step of a machine's role changes no goal, comes from a step of the role, and
\* takes nothing from a machine.
LEMMA RoleSteps ==
    ASSUME TypeOK, NEW n \in Machines,
           (n = ControlPlane /\ InitCluster) \/ (n \in Workers /\ JoinWorker(n))
    PROVE  /\ pc[n] \in InitSteps \cup JoinSteps
           /\ \E s : pc' = [pc EXCEPT ![n] = s]
           /\ goal' = goal /\ \A m \in Machines : host[m] \subseteq host'[m]
<1> USE ControlPlaneIsNoWorker
<1>1. CASE n = ControlPlane /\ InitCluster
  BY <1>1
  DEF InitCluster, WriteKubeadmConfig, KubeadmInit, KubeadmReturns, ConfigureKubectl,
      InstallCalico, WaitForNode, OpenJoinFile, PrintJoinCommand, Chmod, InitCall, Fail,
      Goto, InitSteps, TypeOK, machine
<1>2. CASE n \in Workers /\ JoinWorker(n)
  <2>1. \E s : pc' = [pc EXCEPT ![n] = s]
    BY <1>2, WorkerMoves
  <2>2. QED
    BY <1>2, <2>1
    DEF JoinWorker, WaitForAPIServer, LookForFile, UseFile, InstallSshpass, JoinOverSSH,
        JoinSteps, TypeOK, machine
<1>3. QED  BY <1>1, <1>2

LEMMA ResolverStep == TypeOK /\ HostInv /\ ResolverInv /\ [Next]_vars => ResolverInv'
<1> SUFFICES ASSUME TypeOK, HostInv, ResolverInv, [Next]_vars PROVE ResolverInv'
  OBVIOUS
<1> USE ControlPlaneIsNoWorker
<1>1. ASSUME NEW n \in Machines, NEW s, pc' = [pc EXCEPT ![n] = s],
             s \in InitSteps \cup JoinSteps /\ goal'[n] # "role" => "resolver" \in host'[n],
             \A m \in Machines \ {n} : goal'[m] = goal[m] /\ host[m] \subseteq host'[m]
      PROVE  ResolverInv'
  BY <1>1 DEF ResolverInv, TypeOK
<1>2. ASSUME NEW n \in Machines, Up(n) \/ Again(n) PROVE ResolverInv'
  <2>1. PICK g \in Goals : Run(n, g)
    BY <1>2, ClusterAssumption DEF Up, Again, Goals
  <2>2. \A m \in Machines \ {n} : goal'[m] = goal[m] /\ host[m] \subseteq host'[m]
    BY <1>2, <2>1 DEF Up, Again, Run, TypeOK, machine
  <2>3. goal'[n] = g
    BY <2>1 DEF Run, TypeOK
  <2>4. CASE g = "role"
    <3>1. pc' = [pc EXCEPT ![n] = FirstOfRole(n)]
      BY <2>1, <2>4 DEF Run, Goto
    <3>2. QED  BY <1>1, <2>2, <2>3, <2>4, <3>1
  <2>5. CASE g # "role"
    <3>1. pc' = [pc EXCEPT ![n] = "prep"]
      BY <2>1, <2>5 DEF Run, Goto
    <3>2. "prep" \notin InitSteps \cup JoinSteps
      BY DEF InitSteps, JoinSteps
    <3>3. QED  BY <1>1, <2>2, <3>1, <3>2
  <2>6. QED  BY <2>4, <2>5
<1>3. ASSUME NEW n \in Machines, Kill(n) \/ Destroy(n) \/ InstallWorkloads(n)
      PROVE  ResolverInv'
  <2>1. PICK s \in Ended : pc' = [pc EXCEPT ![n] = s]
    BY <1>3 DEF Kill, Destroy, InstallWorkloads, Fail, Goto, Ended
  <2>2. s \notin InitSteps \cup JoinSteps
    BY DEF InitSteps, JoinSteps, Ended
  <2>3. \A m \in Machines \ {n} : goal'[m] = goal[m] /\ host[m] \subseteq host'[m]
    BY <1>3 DEF Kill, Destroy, InstallWorkloads, TypeOK, machine
  <2>4. QED  BY <1>1, <2>1, <2>2, <2>3
<1>4. ASSUME NEW n \in Machines, Prepare(n) PROVE ResolverInv'
  <2>1. \A m \in Machines \ {n} : goal'[m] = goal[m] /\ host[m] \subseteq host'[m]
    BY <1>4 DEF Prepare, TypeOK
  <2>2. PICK s \in {"prep", "failed"} : pc' = [pc EXCEPT ![n] = s]
    BY <1>4 DEF Prepare, Fail, Goto, TypeOK
  <2>3. s \notin InitSteps \cup JoinSteps
    BY DEF InitSteps, JoinSteps
  <2>4. QED  BY <1>1, <2>1, <2>2, <2>3
<1>5. ASSUME NEW n \in Machines, Prepared(n) PROVE ResolverInv'
  <2>1. "resolver" \in host[n]
    <3>1. at[n] > 12 /\ at[n] \in Nat /\ pc[n] = "prep"
      BY <1>5, CommonIs DEF Prepared, TypeOK
    <3>2. at[n] > 5
      BY <3>1
    <3>3. QED  BY <3>1, <3>2 DEF HostInv
  <2>2. \E s : pc' = [pc EXCEPT ![n] = s]
    BY <1>5 DEF Prepared, Fail, Goto
  <2>3. host' = host /\ goal' = goal
    BY <1>5 DEF Prepared, machine
  <2>4. QED  BY <1>1, <2>1, <2>2, <2>3
<1>6. ASSUME NEW n \in Machines,
             (n = ControlPlane /\ InitCluster) \/ (n \in Workers /\ JoinWorker(n))
      PROVE  ResolverInv'
  <2>1. /\ pc[n] \in InitSteps \cup JoinSteps
        /\ goal' = goal /\ \A m \in Machines : host[m] \subseteq host'[m]
    BY <1>6, RoleSteps
  <2>2. PICK s : pc' = [pc EXCEPT ![n] = s]
    BY <1>6, RoleSteps
  <2>3. goal[n] # "role" => "resolver" \in host'[n]
    BY <2>1 DEF ResolverInv
  <2>4. QED  BY <1>1, <2>1, <2>2, <2>3
<1>7. CASE Expire \/ UNCHANGED vars
  BY <1>7 DEF ResolverInv, Expire, vars, machine, command
<1>8. QED
  <2>1. ASSUME NEW n \in Machines, Step(n) PROVE ResolverInv'
    BY <2>1, <1>3, <1>4, <1>5, <1>6 DEF Step, Machines
  <2>2. QED  BY <2>1, <1>2, <1>3, <1>7 DEF Next

\* A command that runs InstallCommon makes no download without a resolver, from
\* there to its end, however often runs were killed between the removal of the
\* resolver's file and its rewriting (hostprep.go:83-98).
THEOREM DownloadsResolve == Spec => []DownloadsHaveDNS
<1>1. TypeOK /\ HostInv /\ ResolverInv => DownloadsHaveDNS
  <2> SUFFICES ASSUME TypeOK, HostInv, ResolverInv, NEW n \in Machines, Downloads(n),
                      goal[n] # "role"
               PROVE  "resolver" \in host[n]
    BY DEF DownloadsHaveDNS
  <2>1. CASE pc[n] \in {"init", "calico", "sshpass"}
    BY <2>1 DEF ResolverInv, InitSteps, JoinSteps
  <2>2. CASE /\ pc[n] = "prep" /\ at[n] <= Len(InstallCommon)
             /\ Current(n).name # "lock" /\ "resolver" \in Current(n).needs
    <3>1. at[n] \in 1..Len(InstallCommon)
      BY <2>2, CommonIs DEF TypeOK
    <3>2. at[n] \in {6, 8, 9, 10, 11, 12}
      BY <2>2, <3>1, CommonFacts DEF Current
    <3>3. at[n] # 6
      BY <2>2, CommonIs DEF Current, Call
    <3>4. QED  BY <2>2, <3>2, <3>3 DEF HostInv
  <2>3. QED  BY <2>1, <2>2 DEF Downloads
<1>2. Init => ResolverInv
  BY DEF Init, ResolverInv, InitSteps, JoinSteps
<1>3. QED
  BY <1>1, <1>2, TypeInit, TypeStep, HostInit, HostStep, ResolverStep, PTL DEF Spec

-----------------------------------------------------------------------------
(* What a node is *)

\* A node is a machine that is there and has the Kubernetes tools; a worker among
\* them has a kubelet of this cluster.
NodeInv ==
    \A n \in nodes : /\ pc[n] # "down" /\ "tools" \in host[n]
                     /\ n # ControlPlane => kubelet[n] = cluster

LEMMA NodeInit == Init => NodeInv
  BY DEF Init, NodeInv

\* One machine, which is there, moves on and loses no tools.
LEMMA NodesKeep ==
    ASSUME TypeOK, NodeInv, NEW n \in Machines, NEW s, s # "down",
           pc' = [pc EXCEPT ![n] = s],
           \A m \in nodes : "tools" \in host[m] => "tools" \in host'[m],
           nodes' = nodes, kubelet' = kubelet, cluster' = cluster
    PROVE  NodeInv'
  BY DEF NodeInv, TypeOK

LEMMA NodeStep == TypeOK /\ NodeInv /\ [Next]_vars => NodeInv'
<1> SUFFICES ASSUME TypeOK, NodeInv, [Next]_vars PROVE NodeInv'
  OBVIOUS
<1> USE ControlPlaneIsNoWorker
<1>1. ASSUME NEW n \in Machines, Up(n) PROVE NodeInv'
  <2>1. n \notin nodes
    BY <1>1 DEF Up, NodeInv
  <2>2. /\ host' = [host EXCEPT ![n] = {"resolver"}] /\ pc' = [pc EXCEPT ![n] = "prep"]
        /\ nodes' = nodes /\ kubelet' = kubelet /\ cluster' = cluster
    BY <1>1 DEF Up, Run, Goto, api
  <2>3. QED  BY <2>1, <2>2 DEF NodeInv, TypeOK
<1>2. ASSUME NEW n \in Machines, Again(n) PROVE NodeInv'
  <2>1. PICK g \in Commands : Run(n, g)
    BY <1>2 DEF Again
  <2> DEFINE s == IF g = "role" THEN FirstOfRole(n) ELSE "prep"
  <2>2. s # "down"
    BY Targets
  <2>3. /\ pc' = [pc EXCEPT ![n] = s] /\ host' = host
        /\ nodes' = nodes /\ kubelet' = kubelet /\ cluster' = cluster
    BY <1>2, <2>1 DEF Again, Run, Goto, machine, api
  <2> HIDE DEF s
  <2>4. QED  BY <2>2, <2>3, NodesKeep
<1>3. ASSUME NEW n \in Machines, Kill(n) PROVE NodeInv'
  BY <1>3, NodesKeep DEF Kill, Fail, Goto, machine, api
<1>4. ASSUME NEW n \in Machines, Destroy(n) PROVE NodeInv'
  <2>1. CASE n = ControlPlane
    BY <1>4, <2>1 DEF Destroy, NodeInv
  <2>2. CASE n # ControlPlane
    <3>1. /\ nodes' = nodes \ {n} /\ cluster' = cluster
          /\ \A m \in Machines \ {n} :
                host'[m] = host[m] /\ kubelet'[m] = kubelet[m] /\ pc'[m] = pc[m]
      BY <1>4, <2>2 DEF Destroy, Goto, TypeOK
    <3>2. QED  BY <3>1 DEF NodeInv, TypeOK
  <2>3. QED  BY <2>1, <2>2
<1>5. ASSUME NEW n \in Machines, Prepare(n) PROVE NodeInv'
  <2>1. at[n] \in 1..Len(InstallCommon)
    BY <1>5, CommonIs DEF Prepare, TypeOK
  <2>2. "tools" \in host[n] => "tools" \in After(host[n], Current(n))
    BY <2>1, AfterCommon DEF Current
  <2>3. \A m \in nodes : "tools" \in host[m] => "tools" \in host'[m]
    BY <1>5, <2>2 DEF Prepare, TypeOK
  <2>4. nodes' = nodes /\ kubelet' = kubelet /\ cluster' = cluster
    BY <1>5 DEF Prepare, api
  <2>5. CASE Fail(n)
    BY <2>3, <2>4, <2>5, NodesKeep DEF Fail, Goto
  <2>6. CASE pc' = pc
    BY <2>3, <2>4, <2>6 DEF NodeInv
  <2>7. QED  BY <1>5, <2>5, <2>6 DEF Prepare
<1>6. ASSUME NEW n \in Machines, Prepared(n) PROVE NodeInv'
  <2>1. (IF goal[n] = "common" THEN "ok" ELSE FirstOfRole(n)) # "down"
    BY Targets
  <2>2. QED  BY <1>6, <2>1, NodesKeep DEF Prepared, Fail, Goto, machine, api
<1>7. ASSUME NEW n \in Machines, InstallWorkloads(n) PROVE NodeInv'
  BY <1>7, NodesKeep DEF InstallWorkloads, Fail, Goto, machine, api
<1>8. ASSUME InitCluster PROVE NodeInv'
  <2>1. ASSUME NEW step, NEW next, next # "down", InitCall(step, next) PROVE NodeInv'
    BY <2>1, NodesKeep DEF InitCall, Fail, Goto, machine, api
  <2>2. CASE WriteKubeadmConfig
    BY <2>1, <2>2 DEF WriteKubeadmConfig
  <2>3. CASE KubeadmReturns
    BY <2>1, <2>3 DEF KubeadmReturns
  <2>4. CASE InstallCalico
    BY <2>4, NodesKeep DEF InstallCalico, Fail, Goto, machine, api
  <2>5. CASE WaitForNode
    BY <2>1, <2>5 DEF WaitForNode
  <2>6. CASE Chmod
    BY <2>1, <2>6, Targets DEF Chmod
  <2>7. CASE ConfigureKubectl
    <3>1. \A m \in nodes : "tools" \in host[m] => "tools" \in host'[m]
      BY <2>7 DEF ConfigureKubectl, TypeOK
    <3>2. QED  BY <2>7, <3>1, NodesKeep DEF ConfigureKubectl, Fail, Goto, api
  <2>8. CASE KubeadmInit
    <3>1. \A m \in Machines : "tools" \in host[m] => "tools" \in host'[m]
      BY <2>8 DEF KubeadmInit, TypeOK
    <3>2. CASE /\ "tools" \in host[ControlPlane] /\ nodes' = {ControlPlane}
               /\ Goto(ControlPlane, "await")
      BY <2>8, <3>1, <3>2 DEF KubeadmInit, Goto, NodeInv, TypeOK
    <3>3. CASE Fail(ControlPlane) /\ UNCHANGED <<cluster, last, nodes>>
      <4>1. \A m \in nodes : "tools" \in host[m] => "tools" \in host'[m]
        BY <3>1 DEF TypeOK
      <4>2. QED  BY <2>8, <3>3, <4>1, NodesKeep DEF KubeadmInit, Fail, Goto
    <3>4. QED  BY <2>8, <3>2, <3>3 DEF KubeadmInit
  <2>9. CASE OpenJoinFile
    BY <2>9, NodesKeep DEF OpenJoinFile, Fail, Goto, machine, api
  <2>10. CASE PrintJoinCommand
    BY <2>10, NodesKeep DEF PrintJoinCommand, Fail, Goto, machine
  <2>11. QED
    BY <1>8, <2>2, <2>3, <2>4, <2>5, <2>6, <2>7, <2>8, <2>9, <2>10 DEF InitCluster
<1>9. ASSUME NEW n \in Workers, JoinWorker(n) PROVE NodeInv'
  <2>1. ASSUME NEW c, NEW good, Join(n, c, good), host' = host, cluster' = cluster,
               pc[n] # "down"
        PROVE  NodeInv'
    <3>1. CASE nodes' = nodes /\ kubelet' = kubelet /\ Fail(n)
      BY <2>1, <3>1, NodesKeep DEF Fail, Goto
    <3>2. CASE /\ "tools" \in host[n] /\ c = cluster
               /\ nodes' = nodes \cup {n} /\ kubelet' = [kubelet EXCEPT ![n] = c]
               /\ \E s \in {"ok", "workloads", "failed"} : pc' = [pc EXCEPT ![n] = s]
      <4>1. kubelet'[n] = cluster /\ pc'[n] # "down"
        BY <3>2 DEF TypeOK
      <4>2. \A m \in Machines \ {n} : kubelet'[m] = kubelet[m] /\ pc'[m] = pc[m]
        BY <3>2 DEF TypeOK
      <4>3. QED  BY <2>1, <3>2, <4>1, <4>2 DEF NodeInv, TypeOK
    <3>3. QED  BY <2>1, <3>1, <3>2, Targets DEF Join, Fail, Goto
  <2>2. CASE UseFile(n)
    <3>1. CASE file = Blank
      BY <2>2, <3>1, Targets, NodesKeep DEF UseFile, Goto
    <3>2. CASE file # Blank
      BY <2>1, <2>2, <3>2 DEF UseFile
    <3>3. QED  BY <3>1, <3>2
  <2>3. CASE JoinOverSSH(n)
    BY <2>1, <2>3 DEF JoinOverSSH
  <2>4. CASE WaitForAPIServer(n)
    BY <2>4, NodesKeep DEF WaitForAPIServer, Fail, Goto, machine, api
  <2>5. CASE LookForFile(n)
    BY <2>5, NodesKeep DEF LookForFile, Goto, machine, api
  <2>6. CASE InstallSshpass(n)
    <3>1. \A m \in nodes : "tools" \in host[m] => "tools" \in host'[m]
      BY <2>6 DEF InstallSshpass, TypeOK
    <3>2. QED  BY <2>6, <3>1, NodesKeep DEF InstallSshpass, Fail, Goto, api
  <2>7. QED  BY <1>9, <2>2, <2>3, <2>4, <2>5, <2>6 DEF JoinWorker
<1>10. CASE Expire \/ UNCHANGED vars
  BY <1>10 DEF NodeInv, Expire, vars, machine, command, api
<1>11. QED
  <2>1. ASSUME NEW n \in Machines, Step(n) PROVE NodeInv'
    BY <2>1, <1>5, <1>6, <1>7, <1>8, <1>9 DEF Step, Machines
  <2>2. QED  BY <2>1, <1>1, <1>2, <1>3, <1>4, <1>10 DEF Next

\* Every node has all that InstallCommon gives it, although the commands that join
\* look for none of it, and a worker that is a node joined the cluster there is
\* (provisioner.go:410-447).
THEOREM NodesAreOfTheCluster == Spec => []NodesArePrepared
<1>1. TypeOK /\ HostInv /\ NodeInv => NodesArePrepared
  BY DEF TypeOK, HostInv, NodeInv, NodesArePrepared
<1>2. QED
  BY <1>1, TypeInit, TypeStep, HostInit, HostStep, NodeInit, NodeStep, PTL DEF Spec

\* A worker's command that returns nil made it a node of the control plane's
\* cluster, but for the blank join command (provisioner.go:417-447).
THEOREM WorkersJoin == Spec => JoinedOrBlank
<1>1. TypeOK /\ [Next]_vars =>
        [\A n \in Workers :
            pc[n] \in JoinSteps /\ pc'[n] \in {"ok", "workloads"} =>
               blank'[n] \/ (n \in nodes' /\ kubelet'[n] = cluster)]_vars
  <2> SUFFICES ASSUME TypeOK, Next, NEW n \in Workers,
                      pc[n] \in JoinSteps, pc'[n] \in {"ok", "workloads"}
               PROVE  blank'[n] \/ (n \in nodes' /\ kubelet'[n] = cluster)
    OBVIOUS
  <2> USE ControlPlaneIsNoWorker
  <2>1. pc[n] \notin {"prep", "workloads"} \cup Ended
    BY DEF JoinSteps, Ended
  <2>2. ASSUME NEW m \in Machines, m # n,
               Step(m) \/ Up(m) \/ Again(m) \/ Kill(m) \/ Destroy(m) \/ Expire
        PROVE  FALSE
    <3>1. pc'[n] = pc[n]
      <4>1. ASSUME NEW s, pc' = [pc EXCEPT ![m] = s] PROVE pc'[n] = pc[n]
        BY <2>2, <4>1 DEF TypeOK
      <4>2. CASE Up(m) \/ Again(m) \/ Kill(m) \/ Destroy(m)
        BY <4>1, <4>2 DEF Up, Again, Run, Kill, Fail, Destroy, Goto
      <4>3. CASE Prepare(m) \/ Prepared(m) \/ InstallWorkloads(m)
        BY <4>1, <4>3 DEF Prepare, Prepared, InstallWorkloads, Fail, Goto
      <4>4. CASE m = ControlPlane /\ InitCluster
        BY <4>1, <4>4 DEF InitCluster, WriteKubeadmConfig, KubeadmInit, KubeadmReturns,
              ConfigureKubectl, InstallCalico, WaitForNode, OpenJoinFile,
              PrintJoinCommand, Chmod, InitCall, Fail, Goto
      <4>5. CASE m \in Workers /\ JoinWorker(m)
        BY <4>1, <4>5, WorkerMoves
      <4>6. CASE Expire
        BY <4>6 DEF Expire, command
      <4>7. QED  BY <2>2, <4>2, <4>3, <4>4, <4>5, <4>6 DEF Step, Machines
    <3>2. QED  BY <2>1, <3>1 DEF Ended
  <2>3. ~(Up(n) \/ Again(n) \/ Destroy(n) \/ Prepare(n) \/ Prepared(n) \/ InstallWorkloads(n))
    BY <2>1 DEF Up, Again, Destroy, Prepare, Prepared, InstallWorkloads, Ended
  <2>4. ~Kill(n)
    BY DEF Kill, Fail, Goto, TypeOK
  <2>5. ~Expire
    BY <2>1 DEF Expire, command, Ended
  <2>6. JoinWorker(n)
    BY <2>2, <2>3, <2>4, <2>5 DEF Next, Step
  <2>7. ASSUME NEW c, NEW good, Join(n, c, good)
        PROVE  n \in nodes' /\ kubelet'[n] = cluster
    <3>1. ~Fail(n)
      BY DEF Fail, Goto, TypeOK
    <3>2. QED  BY <2>7, <3>1 DEF Join, TypeOK
  <2>8. CASE UseFile(n)
    <3>1. CASE file = Blank
      BY <2>8, <3>1 DEF UseFile, TypeOK
    <3>2. CASE file # Blank
      BY <2>7, <2>8, <3>2 DEF UseFile
    <3>3. QED  BY <3>1, <3>2
  <2>9. CASE JoinOverSSH(n)
    BY <2>7, <2>9 DEF JoinOverSSH
  <2>10. ~(WaitForAPIServer(n) \/ LookForFile(n) \/ InstallSshpass(n))
    BY DEF WaitForAPIServer, LookForFile, InstallSshpass, Fail, Goto, TypeOK
  <2>11. QED  BY <2>6, <2>8, <2>9, <2>10 DEF JoinWorker
<1>2. QED  BY <1>1, TypeInit, TypeStep, PTL DEF Spec, JoinedOrBlank

=============================================================================
