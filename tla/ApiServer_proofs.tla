-------------------------- MODULE ApiServer_proofs --------------------------
(***************************************************************************)
(* Proofs about the API server patch and the refresh of calico-node, for   *)
(* any set of nodes and any number of runs.                                *)
(***************************************************************************)
EXTENDS ApiServer, TLAPS

USE DEF Edits, server, files, nodes, memory, Goto, Warn

\* TypeOK in two parts: the Booleans, and the rest.
Booleans ==
    /\ up \in BOOLEAN /\ patched \in BOOLEAN /\ warned \in BOOLEAN
    /\ cut \in BOOLEAN /\ refreshed \in BOOLEAN

Shapes ==
    /\ realm \in {"none", "empty", "begun", "done"}
    /\ authConfig \in {"none", "partial", "whole"}
    /\ manifest \in [Edits -> Nat] /\ running \in [Edits -> Nat]
    /\ epoch \in Nat
    /\ rolling \subseteq Nodes /\ token \in [Nodes -> Nat]
    /\ applied \subseteq Objects
    /\ pc \in Steps \cup {"idle", "ended"}
    /\ runs \in 0..MaxRuns

LEMMA TypeParts == TypeOK <=> Booleans /\ Shapes
BY DEF TypeOK, Booleans, Shapes

-----------------------------------------------------------------------------
(* The inductive invariant *)

Early == {"realm", "ca", "auth", "alias"}
Late == {"roles", "gateway", "kubeconfig", "restart", "status", "ended"}

\* Each edit is made at most once, the flag after the alias.
Once ==
    /\ manifest["alias"] <= 1 /\ manifest["flag"] <= 1
    /\ manifest["flag"] > 0 => manifest["alias"] > 0
    /\ pc = "flag" => manifest["alias"] = 1

\* Where the kubelet is known to have seen the latest edit.
Seen ==
    /\ pc \in Early => ~patched
    /\ pc \in Early \cup {"flag", "settle", "poll"} => ~cut
    /\ pc \in Early \cup {"poll"} => ~Pending
    /\ pc = "flag" /\ ~patched => ~Pending
    /\ pc \in Late /\ ~cut => ~Pending

\* The file is written while the server answers, and is whole when an edit is
\* made; if it is not whole later, no edit is to come.
Whole ==
    /\ pc \in {"ca", "auth"} => up
    /\ pc \in {"alias", "flag"} => authConfig = "whole"
    /\ manifest["flag"] > 0 /\ authConfig # "whole" => up /\ ~Pending

\* A restart takes up at least one edit.
Counted ==
    /\ running["alias"] <= manifest["alias"] /\ running["flag"] <= manifest["flag"]
    /\ epoch <= running["alias"] + running["flag"]
    /\ ~up => running # manifest

\* What a run that reported no failure has done so far.
Quiet ==
    /\ cut => warned
    /\ pc \in {"settle", "poll"} \cup Late /\ ~warned =>
          manifest["alias"] = 1 /\ manifest["flag"] = 1
    /\ pc \in {"gateway", "kubeconfig", "restart", "status", "ended"} /\ ~warned =>
          "roles" \in applied
    /\ pc \in {"kubeconfig", "restart", "status", "ended"} /\ ~warned =>
          "gateway" \in applied
    /\ pc \in {"restart", "status", "ended"} /\ ~warned => "kubeconfig" \in applied

\* A node has a token of the present server or a pod still to be replaced.
Fresh ==
    /\ pc \in Steps => ~refreshed
    /\ pc = "status" /\ ~cut =>
          up /\ \A n \in Nodes : n \in rolling \/ token[n] = epoch
    /\ pc = "ended" /\ ~warned => refreshed
    /\ pc = "ended" /\ refreshed /\ ~cut =>
          up /\ \A n \in Nodes : token[n] = epoch

\* What holds whenever the kubelet acts, and what needs it to be prompt.
Base == TypeOK /\ Once /\ Counted
IInv == Base /\ Seen /\ Whole /\ Quiet /\ Fresh

-----------------------------------------------------------------------------
(* The invariant is inductive *)

LEMMA InitInv == Init => IInv
<1> SUFFICES ASSUME Init PROVE IInv
  OBVIOUS
<1>1. Booleans
  BY DEF Init, Booleans
<1>2. Shapes
  BY ApiServerAssumption DEF Init, Shapes, Unedited
<1>3. Once /\ Counted
  BY DEF Init, Once, Counted, Unedited
<1>4. Seen /\ Whole /\ Quiet /\ Fresh
  BY DEF Init, Unedited, Seen, Whole, Quiet, Fresh, Early, Late, Steps
<1>5. QED
  BY <1>1, <1>2, <1>3, <1>4, TypeParts DEF IInv, Base

LEMMA BooleansStep == Base /\ [Next]_vars => Booleans'
<1> SUFFICES ASSUME Base, [Next]_vars PROVE Booleans'
  OBVIOUS
<1> USE TypeParts DEF Base, Booleans
<1>1. CASE StartRun
  BY <1>1 DEF StartRun, Forget
<1>2. CASE Crash
  BY <1>2 DEF Crash, Forget
<1>3. CASE DeleteRealm
  BY <1>3 DEF DeleteRealm
<1>4. CASE StopServer
  BY <1>4 DEF StopServer
<1>5. CASE StartServer
  BY <1>5 DEF StartServer
<1>6. CASE ConfigureRealm
  BY <1>6 DEF ConfigureRealm
<1>7. CASE ReadLabCA
  BY <1>7 DEF ReadLabCA, Fail
<1>8. CASE TruncateAuthConfig
  BY <1>8 DEF TruncateAuthConfig
<1>9. CASE WriteAuthConfig
  BY <1>9 DEF WriteAuthConfig, Fail
<1>10. CASE AddHostAlias
  BY <1>10 DEF AddHostAlias, Edit, Fail
<1>11. CASE AddAuthFlag
  BY <1>11 DEF AddAuthFlag, Edit, Fail, AfterEdits
<1>12. CASE Settle
  BY <1>12 DEF Settle
<1>13. CASE Poll
  BY <1>13 DEF Poll
<1>14. CASE ApplyRoles
  BY <1>14 DEF ApplyRoles, Apply
<1>15. CASE CreateGateway
  BY <1>15 DEF CreateGateway, Apply
<1>16. CASE StoreKubeconfig
  BY <1>16 DEF StoreKubeconfig, Apply
<1>17. CASE RestartCalico
  BY <1>17 DEF RestartCalico
<1>18. CASE RolloutStatus
  BY <1>18 DEF RolloutStatus
<1>19. ASSUME NEW n \in Nodes, ReplacePod(n) PROVE Booleans'
  BY <1>19 DEF ReplacePod
<1>20. CASE UNCHANGED vars
  BY <1>20 DEF vars
<1>21. QED
  BY <1>1, <1>2, <1>3, <1>4, <1>5, <1>6, <1>7, <1>8, <1>9, <1>10, <1>11, <1>12, <1>13, <1>14, <1>15, <1>16, <1>17, <1>18, <1>19, <1>20 DEF Next, Install

LEMMA ShapesStep == Base /\ [Next]_vars => Shapes'
<1> SUFFICES ASSUME Base, [Next]_vars PROVE Shapes'
  OBVIOUS
<1> USE TypeParts DEF Base, Booleans, Shapes, Steps, Objects
<1>1. CASE StartRun
  <2>1. runs' \in 0..MaxRuns
    BY <1>1, ApiServerAssumption DEF StartRun
  <2>2. QED
    BY <1>1, <2>1 DEF StartRun, Forget
<1>2. CASE Crash
  BY <1>2 DEF Crash, Forget
<1>3. CASE DeleteRealm
  BY <1>3 DEF DeleteRealm
<1>4. CASE StopServer
  BY <1>4 DEF StopServer
<1>5. CASE StartServer
  BY <1>5 DEF StartServer
<1>6. CASE ConfigureRealm
  BY <1>6 DEF ConfigureRealm
<1>7. CASE ReadLabCA
  BY <1>7 DEF ReadLabCA, Fail
<1>8. CASE TruncateAuthConfig
  BY <1>8 DEF TruncateAuthConfig
<1>9. CASE WriteAuthConfig
  BY <1>9 DEF WriteAuthConfig, Fail
<1>10. CASE AddHostAlias
  BY <1>10 DEF AddHostAlias, Edit, Fail
<1>11. CASE AddAuthFlag
  BY <1>11 DEF AddAuthFlag, Edit, Fail, AfterEdits
<1>12. CASE Settle
  BY <1>12 DEF Settle
<1>13. CASE Poll
  BY <1>13 DEF Poll
<1>14. CASE ApplyRoles
  BY <1>14 DEF ApplyRoles, Apply
<1>15. CASE CreateGateway
  BY <1>15 DEF CreateGateway, Apply
<1>16. CASE StoreKubeconfig
  BY <1>16 DEF StoreKubeconfig, Apply
<1>17. CASE RestartCalico
  BY <1>17 DEF RestartCalico
<1>18. CASE RolloutStatus
  BY <1>18 DEF RolloutStatus
<1>19. ASSUME NEW n \in Nodes, ReplacePod(n) PROVE Shapes'
  BY <1>19 DEF ReplacePod
<1>20. CASE UNCHANGED vars
  BY <1>20 DEF vars
<1>21. QED
  BY <1>1, <1>2, <1>3, <1>4, <1>5, <1>6, <1>7, <1>8, <1>9, <1>10, <1>11, <1>12, <1>13, <1>14, <1>15, <1>16, <1>17, <1>18, <1>19, <1>20 DEF Next, Install

LEMMA OnceStep == Base /\ [Next]_vars => Once'
<1> SUFFICES ASSUME Base, [Next]_vars PROVE Once'
  OBVIOUS
<1> USE TypeParts DEF Base, Booleans, Shapes, Once
<1>1. CASE StartRun
  BY <1>1 DEF StartRun, Forget
<1>2. CASE Crash
  BY <1>2 DEF Crash, Forget
<1>3. CASE DeleteRealm
  BY <1>3 DEF DeleteRealm
<1>4. CASE StopServer
  BY <1>4 DEF StopServer
<1>5. CASE StartServer
  BY <1>5 DEF StartServer
<1>6. CASE ConfigureRealm
  BY <1>6 DEF ConfigureRealm
<1>7. CASE ReadLabCA
  BY <1>7 DEF ReadLabCA, Fail
<1>8. CASE TruncateAuthConfig
  BY <1>8 DEF TruncateAuthConfig
<1>9. CASE WriteAuthConfig
  BY <1>9 DEF WriteAuthConfig, Fail
<1>10. CASE AddHostAlias
  BY <1>10 DEF AddHostAlias, Edit, Fail
<1>11. CASE AddAuthFlag
  BY <1>11 DEF AddAuthFlag, Edit, Fail, AfterEdits
<1>12. CASE Settle
  BY <1>12 DEF Settle
<1>13. CASE Poll
  BY <1>13 DEF Poll
<1>14. CASE ApplyRoles
  BY <1>14 DEF ApplyRoles, Apply
<1>15. CASE CreateGateway
  BY <1>15 DEF CreateGateway, Apply
<1>16. CASE StoreKubeconfig
  BY <1>16 DEF StoreKubeconfig, Apply
<1>17. CASE RestartCalico
  BY <1>17 DEF RestartCalico
<1>18. CASE RolloutStatus
  BY <1>18 DEF RolloutStatus
<1>19. ASSUME NEW n \in Nodes, ReplacePod(n) PROVE Once'
  BY <1>19 DEF ReplacePod
<1>20. CASE UNCHANGED vars
  BY <1>20 DEF vars
<1>21. QED
  BY <1>1, <1>2, <1>3, <1>4, <1>5, <1>6, <1>7, <1>8, <1>9, <1>10, <1>11, <1>12, <1>13, <1>14, <1>15, <1>16, <1>17, <1>18, <1>19, <1>20 DEF Next, Install

LEMMA CountedStep == Base /\ [Next]_vars => Counted'
<1> SUFFICES ASSUME Base, [Next]_vars PROVE Counted'
  OBVIOUS
<1> USE TypeParts DEF Base, Booleans, Shapes, Once, Counted, Pending
<1>1. CASE StartRun
  BY <1>1 DEF StartRun, Forget
<1>2. CASE Crash
  BY <1>2 DEF Crash, Forget
<1>3. CASE DeleteRealm
  BY <1>3 DEF DeleteRealm
<1>4. CASE StopServer
  BY <1>4 DEF StopServer
<1>5. CASE StartServer
  BY <1>5 DEF StartServer
<1>6. CASE ConfigureRealm
  BY <1>6 DEF ConfigureRealm
<1>7. CASE ReadLabCA
  BY <1>7 DEF ReadLabCA, Fail
<1>8. CASE TruncateAuthConfig
  BY <1>8 DEF TruncateAuthConfig
<1>9. CASE WriteAuthConfig
  BY <1>9 DEF WriteAuthConfig, Fail
<1>10. CASE AddHostAlias
  BY <1>10 DEF AddHostAlias, Edit, Fail
<1>11. CASE AddAuthFlag
  BY <1>11 DEF AddAuthFlag, Edit, Fail, AfterEdits
<1>12. CASE Settle
  BY <1>12 DEF Settle
<1>13. CASE Poll
  BY <1>13 DEF Poll
<1>14. CASE ApplyRoles
  BY <1>14 DEF ApplyRoles, Apply
<1>15. CASE CreateGateway
  BY <1>15 DEF CreateGateway, Apply
<1>16. CASE StoreKubeconfig
  BY <1>16 DEF StoreKubeconfig, Apply
<1>17. CASE RestartCalico
  BY <1>17 DEF RestartCalico
<1>18. CASE RolloutStatus
  BY <1>18 DEF RolloutStatus
<1>19. ASSUME NEW n \in Nodes, ReplacePod(n) PROVE Counted'
  BY <1>19 DEF ReplacePod
<1>20. CASE UNCHANGED vars
  BY <1>20 DEF vars
<1>21. QED
  BY <1>1, <1>2, <1>3, <1>4, <1>5, <1>6, <1>7, <1>8, <1>9, <1>10, <1>11, <1>12, <1>13, <1>14, <1>15, <1>16, <1>17, <1>18, <1>19, <1>20 DEF Next, Install

LEMMA SeenStep == Prompt /\ IInv /\ [Next]_vars => Seen'
<1> SUFFICES ASSUME Prompt, IInv, [Next]_vars PROVE Seen'
  OBVIOUS
<1> USE TypeParts DEF IInv, Base, Booleans, Shapes, Seen, Early, Late, Pending
<1>1. CASE StartRun
  BY <1>1 DEF StartRun, Noticed, Forget
<1>2. CASE Crash
  BY <1>2 DEF Crash, Forget
<1>3. CASE DeleteRealm
  BY <1>3 DEF DeleteRealm
<1>4. CASE StopServer
  BY <1>4 DEF StopServer
<1>5. CASE StartServer
  BY <1>5 DEF StartServer
<1>6. CASE ConfigureRealm
  BY <1>6 DEF ConfigureRealm
<1>7. CASE ReadLabCA
  BY <1>7 DEF ReadLabCA, Fail
<1>8. CASE TruncateAuthConfig
  BY <1>8 DEF TruncateAuthConfig
<1>9. CASE WriteAuthConfig
  BY <1>9 DEF WriteAuthConfig, Fail
<1>10. CASE AddHostAlias
  BY <1>10 DEF AddHostAlias, Edit, Fail
<1>11. CASE AddAuthFlag
  BY <1>11 DEF AddAuthFlag, Edit, Fail, AfterEdits
<1>12. CASE Settle
  BY <1>12 DEF Settle, Noticed
<1>13. CASE Poll
  BY <1>13 DEF Poll
<1>14. CASE ApplyRoles
  BY <1>14 DEF ApplyRoles, Apply
<1>15. CASE CreateGateway
  BY <1>15 DEF CreateGateway, Apply
<1>16. CASE StoreKubeconfig
  BY <1>16 DEF StoreKubeconfig, Apply
<1>17. CASE RestartCalico
  BY <1>17 DEF RestartCalico
<1>18. CASE RolloutStatus
  BY <1>18 DEF RolloutStatus
<1>19. ASSUME NEW n \in Nodes, ReplacePod(n) PROVE Seen'
  BY <1>19 DEF ReplacePod
<1>20. CASE UNCHANGED vars
  BY <1>20 DEF vars
<1>21. QED
  BY <1>1, <1>2, <1>3, <1>4, <1>5, <1>6, <1>7, <1>8, <1>9, <1>10, <1>11, <1>12, <1>13, <1>14, <1>15, <1>16, <1>17, <1>18, <1>19, <1>20 DEF Next, Install

LEMMA WholeStep == IInv /\ [Next]_vars => Whole'
<1> SUFFICES ASSUME IInv, [Next]_vars PROVE Whole'
  OBVIOUS
<1> USE TypeParts DEF IInv, Base, Booleans, Shapes, Once, Seen, Whole, Early, Late, Pending
<1>1. CASE StartRun
  BY <1>1 DEF StartRun, Forget
<1>2. CASE Crash
  BY <1>2 DEF Crash, Forget
<1>3. CASE DeleteRealm
  BY <1>3 DEF DeleteRealm
<1>4. CASE StopServer
  BY <1>4 DEF StopServer
<1>5. CASE StartServer
  BY <1>5 DEF StartServer
<1>6. CASE ConfigureRealm
  BY <1>6 DEF ConfigureRealm
<1>7. CASE ReadLabCA
  BY <1>7 DEF ReadLabCA, Fail
<1>8. CASE TruncateAuthConfig
  BY <1>8 DEF TruncateAuthConfig
<1>9. CASE WriteAuthConfig
  BY <1>9 DEF WriteAuthConfig, Fail
<1>10. CASE AddHostAlias
  BY <1>10 DEF AddHostAlias, Edit, Fail
<1>11. CASE AddAuthFlag
  BY <1>11 DEF AddAuthFlag, Edit, Fail, AfterEdits
<1>12. CASE Settle
  BY <1>12 DEF Settle
<1>13. CASE Poll
  BY <1>13 DEF Poll
<1>14. CASE ApplyRoles
  BY <1>14 DEF ApplyRoles, Apply
<1>15. CASE CreateGateway
  BY <1>15 DEF CreateGateway, Apply
<1>16. CASE StoreKubeconfig
  BY <1>16 DEF StoreKubeconfig, Apply
<1>17. CASE RestartCalico
  BY <1>17 DEF RestartCalico
<1>18. CASE RolloutStatus
  BY <1>18 DEF RolloutStatus
<1>19. ASSUME NEW n \in Nodes, ReplacePod(n) PROVE Whole'
  BY <1>19 DEF ReplacePod
<1>20. CASE UNCHANGED vars
  BY <1>20 DEF vars
<1>21. QED
  BY <1>1, <1>2, <1>3, <1>4, <1>5, <1>6, <1>7, <1>8, <1>9, <1>10, <1>11, <1>12, <1>13, <1>14, <1>15, <1>16, <1>17, <1>18, <1>19, <1>20 DEF Next, Install

LEMMA QuietStep == IInv /\ [Next]_vars => Quiet'
<1> SUFFICES ASSUME IInv, [Next]_vars PROVE Quiet'
  OBVIOUS
<1> USE TypeParts DEF IInv, Base, Booleans, Shapes, Once, Seen, Quiet, Early, Late
<1>1. CASE StartRun
  BY <1>1 DEF StartRun, Forget
<1>2. CASE Crash
  BY <1>2 DEF Crash, Forget
<1>3. CASE DeleteRealm
  BY <1>3 DEF DeleteRealm
<1>4. CASE StopServer
  BY <1>4 DEF StopServer
<1>5. CASE StartServer
  BY <1>5 DEF StartServer
<1>6. CASE ConfigureRealm
  BY <1>6 DEF ConfigureRealm
<1>7. CASE ReadLabCA
  BY <1>7 DEF ReadLabCA, Fail
<1>8. CASE TruncateAuthConfig
  BY <1>8 DEF TruncateAuthConfig
<1>9. CASE WriteAuthConfig
  BY <1>9 DEF WriteAuthConfig, Fail
<1>10. CASE AddHostAlias
  BY <1>10 DEF AddHostAlias, Edit, Fail
<1>11. CASE AddAuthFlag
  BY <1>11 DEF AddAuthFlag, Edit, Fail, AfterEdits
<1>12. CASE Settle
  BY <1>12 DEF Settle
<1>13. CASE Poll
  BY <1>13 DEF Poll
<1>14. CASE ApplyRoles
  BY <1>14 DEF ApplyRoles, Apply
<1>15. CASE CreateGateway
  BY <1>15 DEF CreateGateway, Apply
<1>16. CASE StoreKubeconfig
  BY <1>16 DEF StoreKubeconfig, Apply
<1>17. CASE RestartCalico
  BY <1>17 DEF RestartCalico
<1>18. CASE RolloutStatus
  BY <1>18 DEF RolloutStatus
<1>19. ASSUME NEW n \in Nodes, ReplacePod(n) PROVE Quiet'
  BY <1>19 DEF ReplacePod
<1>20. CASE UNCHANGED vars
  BY <1>20 DEF vars
<1>21. QED
  BY <1>1, <1>2, <1>3, <1>4, <1>5, <1>6, <1>7, <1>8, <1>9, <1>10, <1>11, <1>12, <1>13, <1>14, <1>15, <1>16, <1>17, <1>18, <1>19, <1>20 DEF Next, Install

LEMMA FreshStep == IInv /\ [Next]_vars => Fresh'
<1> SUFFICES ASSUME IInv, [Next]_vars PROVE Fresh'
  OBVIOUS
<1> USE TypeParts DEF IInv, Base, Booleans, Shapes, Seen, Quiet, Fresh, Early, Late, Steps, Pending
<1>1. CASE StartRun
  BY <1>1 DEF StartRun, Forget
<1>2. CASE Crash
  BY <1>2 DEF Crash, Forget
<1>3. CASE DeleteRealm
  BY <1>3 DEF DeleteRealm
<1>4. CASE StopServer
  BY <1>4 DEF StopServer
<1>5. CASE StartServer
  BY <1>5 DEF StartServer
<1>6. CASE ConfigureRealm
  BY <1>6 DEF ConfigureRealm
<1>7. CASE ReadLabCA
  BY <1>7 DEF ReadLabCA, Fail
<1>8. CASE TruncateAuthConfig
  BY <1>8 DEF TruncateAuthConfig
<1>9. CASE WriteAuthConfig
  BY <1>9 DEF WriteAuthConfig, Fail
<1>10. CASE AddHostAlias
  BY <1>10 DEF AddHostAlias, Edit, Fail
<1>11. CASE AddAuthFlag
  BY <1>11 DEF AddAuthFlag, Edit, Fail, AfterEdits
<1>12. CASE Settle
  BY <1>12 DEF Settle
<1>13. CASE Poll
  BY <1>13 DEF Poll
<1>14. CASE ApplyRoles
  BY <1>14 DEF ApplyRoles, Apply
<1>15. CASE CreateGateway
  BY <1>15 DEF CreateGateway, Apply
<1>16. CASE StoreKubeconfig
  BY <1>16 DEF StoreKubeconfig, Apply
<1>17. CASE RestartCalico
  BY <1>17 DEF RestartCalico
<1>18. CASE RolloutStatus
  BY <1>18 DEF RolloutStatus
<1>19. ASSUME NEW n \in Nodes, ReplacePod(n) PROVE Fresh'
  BY <1>19 DEF ReplacePod
<1>20. CASE UNCHANGED vars
  BY <1>20 DEF vars
<1>21. QED
  BY <1>1, <1>2, <1>3, <1>4, <1>5, <1>6, <1>7, <1>8, <1>9, <1>10, <1>11, <1>12, <1>13, <1>14, <1>15, <1>16, <1>17, <1>18, <1>19, <1>20 DEF Next, Install

LEMMA BaseStep == Base /\ [Next]_vars => Base'
BY BooleansStep, ShapesStep, OnceStep, CountedStep, TypeParts DEF Base, TypeOK, Booleans, Shapes

LEMMA StepInv == Prompt /\ IInv /\ [Next]_vars => IInv'
BY BaseStep, SeenStep, WholeStep, QuietStep, FreshStep DEF IInv

LEMMA AlwaysBase == Spec => []Base
<1>1. Init => Base
  BY InitInv DEF IInv
<1>2. QED
  BY <1>1, BaseStep, PTL DEF Spec

LEMMA AlwaysInv == ASSUME Prompt PROVE Spec => []IInv
<1>1. IInv /\ [Next]_vars => IInv'
  BY StepInv
<1>2. QED
  BY <1>1, InitInv, PTL DEF Spec

-----------------------------------------------------------------------------
(* The theorems *)

\* Every variable keeps its shape, and the counters their bounds.
THEOREM ApiServerTypeCorrect == Spec => []TypeOK
<1>1. Base => TypeOK
  BY DEF Base
<1>2. QED
  BY <1>1, AlwaysBase, PTL

\* The patch restarts the API server at most once for each edit, however slow
\* the kubelet is and however often the command is killed and run again.
THEOREM RestartsBounded == Spec => []RestartsAreBounded
<1>1. Base => RestartsAreBounded
  BY TypeParts DEF Base, Shapes, Once, Counted, RestartsAreBounded
<1>2. QED
  BY <1>1, AlwaysBase, PTL

\* With a kubelet that notices in time, a stopped API server can be started.
THEOREM ServerStarts == ASSUME Prompt PROVE Spec => []ServerCanStart
<1>1. IInv => ServerCanStart
  BY TypeParts DEF IInv, Base, Shapes, Booleans, Once, Whole, ServerCanStart, Startable
<1>2. QED
  BY <1>1, AlwaysInv, PTL

\* A run that reports no failure leaves the patch in force and every node with
\* a token the server accepts.
THEOREM QuietPatchHolds == ASSUME Prompt PROVE Spec => []QuietPatchIsInForce
<1>1. IInv => QuietPatchIsInForce
  <2> SUFFICES ASSUME IInv, pc = "ended", ~warned
               PROVE  /\ up /\ \A e \in Edits : running[e] = 1
                      /\ applied = Objects
                      /\ \A n \in Nodes : token[n] = epoch
    BY DEF QuietPatchIsInForce
  <2>1. ~cut /\ refreshed
    BY TypeParts DEF IInv, Base, Booleans, Quiet, Fresh
  <2>2. up /\ \A n \in Nodes : token[n] = epoch
    BY <2>1 DEF IInv, Fresh
  <2>3. running = manifest
    BY <2>1, <2>2 DEF IInv, Seen, Late, Pending
  <2>4. manifest["alias"] = 1 /\ manifest["flag"] = 1
    BY DEF IInv, Quiet, Late
  <2>5. applied = Objects
    BY TypeParts DEF IInv, Base, Shapes, Quiet, Objects
  <2>6. QED
    BY <2>2, <2>3, <2>4, <2>5
<1>2. QED
  BY <1>1, AlwaysInv, PTL

\* A run that saw calico-node rolled out leaves no node with a dead token, unless
\* its patch ended between an edit and the wait.
THEOREM RefreshedNodes == ASSUME Prompt PROVE Spec => []RefreshedNodesHaveTokens
<1>1. IInv => RefreshedNodesHaveTokens
  BY DEF IInv, Fresh, RefreshedNodesHaveTokens
<1>2. QED
  BY <1>1, AlwaysInv, PTL
=============================================================================
