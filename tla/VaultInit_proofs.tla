-------------------------- MODULE VaultInit_proofs --------------------------
(***************************************************************************)
(* Proofs about VaultInstaller.Install and `vault unseal`, for every number*)
(* of initializations.                                                     *)
(***************************************************************************)
EXTENDS VaultInit, FiniteSetTheorems, TLAPS

USE DEF KeysToSend

\* Keys are sent in loops that end: while one runs, keys are left to send.
Sending ==
    /\ pc \in {"wait", "check", "init", "read"} => sent = 0
    /\ pc \in {"unseal", "send"} => sent < KeysToSend

\* TypeOK in two parts: the Booleans, and the rest.
Booleans ==
    /\ up \in BOOLEAN /\ sealed \in BOOLEAN
    /\ fresh \in BOOLEAN /\ warned \in BOOLEAN /\ disturbed \in BOOLEAN

Others ==
    /\ gen \in Nat /\ gens \in Nat /\ shares \subseteq Keys /\ conf \subseteq Parts
    /\ local \in Nat /\ remote \in Nat /\ printed \subseteq Nat
    /\ pc \in InstallSteps \cup UnsealSteps \cup Finished \cup {"idle"}
    /\ mem \in Nat /\ sent \in 0..KeysToSend

TypeInv == Booleans /\ Others /\ Sending

\* What Install knows at each of its steps.
Knows ==
    /\ pc \in {"wait", "check", "init", "load"} => ~fresh
    /\ pc \in {"unseal", "mint", "save", "copy"} => fresh /\ mem = gen
    /\ pc \in {"copy", "kv", "auth", "secrets", "installed"} /\ fresh => local = gen
    /\ pc \in {"kv", "auth", "secrets", "installed"} /\ fresh => warned \/ remote = gen

\* What Install has configured before each of its steps, unless it warned.
Configured ==
    /\ pc = "auth" => warned \/ {"kv"} \subseteq conf
    /\ pc = "secrets" => warned \/ {"kv", "auth"} \subseteq conf
    /\ pc = "installed" => warned \/ Parts \subseteq conf

Inv == TypeInv /\ Knows /\ Configured

-----------------------------------------------------------------------------
(* The shapes of the values                                                *)
LEMMA InitInv == Init => Inv
<1> SUFFICES ASSUME Init PROVE Inv
  OBVIOUS
<1>1. Booleans /\ Others
  <2>1. Booleans
    BY DEF Init, Booleans
  <2> QED
    BY <2>1 DEF Init, Others
<1>2. Sending /\ Knows /\ Configured
  BY DEF Init, Sending, Knows, Configured
<1> QED
  BY <1>1, <1>2 DEF Inv, TypeInv

LEMMA CountKeyType ==
    ASSUME TypeInv, NEW k \in Keys, CountKey(k)
    PROVE  sealed' \in BOOLEAN /\ shares' \in SUBSET Keys
BY DEF TypeInv, Booleans, Others, CountKey

LEMMA SendKeyInv ==
    ASSUME Inv, NEW step, NEW done, SendKey(step, done),
           \/ step = "unseal" /\ done = "mint"
           \/ step = "send" /\ done = "unsealed"
    PROVE  Inv'
<1> DEFINE k == <<mem, sent + 1>>
<1>1. k \in Keys /\ sent \in 0..2
  BY DEF Inv, TypeInv, Booleans, Others, Sending, SendKey, Threshold, Keys
<1>2. sealed' \in BOOLEAN /\ shares' \in SUBSET Keys
  <2>1. CountKey(k) \/ UNCHANGED <<sealed, shares>>
    BY DEF SendKey
  <2> QED
    BY <1>1, <2>1, CountKeyType DEF Inv, TypeInv, Booleans, Others
<1>3. /\ UNCHANGED <<up, gen, conf, gens, files, mem, fresh, warned, disturbed>>
      /\ pc = step
      /\ \/ sent' = sent + 1 /\ pc' = IF sent + 1 = KeysToSend THEN done ELSE step
         \/ sent' = sent /\ pc' = "failed"
  BY DEF SendKey, Fail
<1> HIDE DEF k
<1>4. Booleans'
  BY <1>2, <1>3 DEF Inv, TypeInv, Booleans
<1>6. Others'
  BY <1>1, <1>2, <1>3 DEF Inv, TypeInv, Others, InstallSteps, UnsealSteps, Finished, files
<1>5. Sending' /\ Knows' /\ Configured'
  BY <1>1, <1>3 DEF Inv, TypeInv, Booleans, Others, Sending, Knows, Configured, files
<1> QED
  BY <1>4, <1>5, <1>6 DEF Inv, TypeInv

LEMMA ConfigureInv ==
    ASSUME Inv, NEW step, NEW next, Configure(step, next),
           \/ step = "kv" /\ next = "auth"
           \/ step = "auth" /\ next = "secrets"
           \/ step = "secrets" /\ next = "installed"
    PROVE  Inv'
<1>1. /\ UNCHANGED <<up, gen, sealed, shares, gens, files, mem, sent, fresh, disturbed>>
      /\ pc = step /\ pc' = next
      /\ \/ conf' = conf \cup {step} /\ warned' = warned
         \/ conf' \in {conf, conf \cup {step}} /\ warned' = TRUE
  BY DEF Configure, Warn
<1>2. Booleans'
  BY <1>1 DEF Inv, TypeInv, Booleans
<1>5. Others'
  BY <1>1 DEF Inv, TypeInv, Others, InstallSteps, UnsealSteps, Finished, files, Parts
<1>3. Sending' /\ Knows'
  BY <1>1 DEF Inv, TypeInv, Booleans, Others, Sending, Knows, files
<1>4. Configured'
  BY <1>1 DEF Inv, Configured, Parts
<1> QED
  BY <1>2, <1>3, <1>4, <1>5 DEF Inv, TypeInv

(* The invariant is inductive.                                             *)
LEMMA StepInv == Inv /\ [Next]_vars => Inv'
<1> SUFFICES ASSUME Inv, [Next]_vars PROVE Inv'
  OBVIOUS
<1> USE DEF server, files, process, Fail, Warn
<1>1. CASE StartInstall
  <2>1. Booleans'
    BY <1>1 DEF StartInstall, Start, Inv, TypeInv, Booleans
  <2>2. Others'
    BY <1>1, <2>1 DEF StartInstall, Start, Inv, TypeInv, Others, Booleans,
                InstallSteps, UnsealSteps, Finished
  <2>3. Sending' /\ Knows' /\ Configured'
    BY <1>1 DEF StartInstall, Start, Inv, TypeInv, Sending, Knows, Configured
  <2> QED
    BY <2>1, <2>2, <2>3 DEF Inv, TypeInv
<1>2. CASE StartUnseal
  <2>1. Booleans'
    BY <1>2 DEF StartUnseal, Start, Inv, TypeInv, Booleans
  <2>2. Others'
    BY <1>2, <2>1 DEF StartUnseal, Start, Inv, TypeInv, Others, Booleans,
                InstallSteps, UnsealSteps, Finished
  <2>3. Sending' /\ Knows' /\ Configured'
    BY <1>2 DEF StartUnseal, Start, Inv, TypeInv, Sending, Knows, Configured
  <2> QED
    BY <2>1, <2>2, <2>3 DEF Inv, TypeInv
<1>3. CASE Leave
  <2>1. Booleans'
    BY <1>3 DEF Leave, Inv, TypeInv, Booleans
  <2>2. Others'
    BY <1>3, <2>1 DEF Leave, Inv, TypeInv, Others, Booleans,
                InstallSteps, UnsealSteps, Finished
  <2>3. Sending' /\ Knows' /\ Configured'
    BY <1>3 DEF Leave, Inv, TypeInv, Sending, Knows, Configured
  <2> QED
    BY <2>1, <2>2, <2>3 DEF Inv, TypeInv
<1>4. CASE StopServer
  <2>1. Booleans'
    BY <1>4 DEF StopServer, Inv, TypeInv, Booleans
  <2>2. Others'
    BY <1>4, <2>1 DEF StopServer, Inv, TypeInv, Others, Booleans,
                InstallSteps, UnsealSteps, Finished
  <2>3. Sending' /\ Knows' /\ Configured'
    BY <1>4 DEF StopServer, Inv, TypeInv, Sending, Knows, Configured
  <2> QED
    BY <2>1, <2>2, <2>3 DEF Inv, TypeInv
<1>5. CASE StartServer
  <2>1. Booleans'
    BY <1>5 DEF StartServer, Inv, TypeInv, Booleans
  <2>2. Others'
    BY <1>5, <2>1 DEF StartServer, Inv, TypeInv, Others, Booleans,
                InstallSteps, UnsealSteps, Finished
  <2>3. Sending' /\ Knows' /\ Configured'
    BY <1>5 DEF StartServer, Inv, TypeInv, Sending, Knows, Configured
  <2> QED
    BY <2>1, <2>2, <2>3 DEF Inv, TypeInv
<1>6. CASE RebuildStorage
  <2>1. Booleans'
    BY <1>6 DEF RebuildStorage, Inv, TypeInv, Booleans
  <2>2. Others'
    BY <1>6, <2>1 DEF RebuildStorage, Inv, TypeInv, Others, Booleans,
                InstallSteps, UnsealSteps, Finished
  <2>3. Sending' /\ Knows' /\ Configured'
    BY <1>6 DEF RebuildStorage, Inv, TypeInv, Sending, Knows, Configured
  <2> QED
    BY <2>1, <2>2, <2>3 DEF Inv, TypeInv
<1>7. CASE RebuildControlPlane
  <2>1. Booleans'
    BY <1>7 DEF RebuildControlPlane, Inv, TypeInv, Booleans
  <2>2. Others'
    BY <1>7, <2>1 DEF RebuildControlPlane, Inv, TypeInv, Others, Booleans,
                InstallSteps, UnsealSteps, Finished
  <2>3. Sending' /\ Knows' /\ Configured'
    BY <1>7 DEF RebuildControlPlane, Inv, TypeInv, Sending, Knows, Configured
  <2> QED
    BY <2>1, <2>2, <2>3 DEF Inv, TypeInv
<1>8. CASE WaitForVault
  <2>1. Booleans'
    BY <1>8 DEF WaitForVault, Inv, TypeInv, Booleans
  <2>2. Others'
    BY <1>8, <2>1 DEF WaitForVault, Inv, TypeInv, Others, Booleans,
                InstallSteps, UnsealSteps, Finished
  <2>3. Sending' /\ Knows' /\ Configured'
    BY <1>8 DEF WaitForVault, Inv, TypeInv, Sending, Knows, Configured
  <2> QED
    BY <2>1, <2>2, <2>3 DEF Inv, TypeInv
<1>9. CASE IsInitialized
  <2>1. Booleans'
    BY <1>9 DEF IsInitialized, Inv, TypeInv, Booleans
  <2>2. Others'
    BY <1>9, <2>1 DEF IsInitialized, Inv, TypeInv, Others, Booleans,
                InstallSteps, UnsealSteps, Finished
  <2>3. Sending' /\ Knows' /\ Configured'
    BY <1>9 DEF IsInitialized, Inv, TypeInv, Sending, Knows, Configured
  <2> QED
    BY <2>1, <2>2, <2>3 DEF Inv, TypeInv
<1>10. CASE InitVault
  <2>1. Booleans'
    BY <1>10 DEF InitVault, Inv, TypeInv, Booleans
  <2>2. Others'
    BY <1>10, <2>1 DEF InitVault, Inv, TypeInv, Others, Booleans,
                InstallSteps, UnsealSteps, Finished
  <2>3. Sending' /\ Knows' /\ Configured'
    BY <1>10 DEF InitVault, Inv, TypeInv, Sending, Knows, Configured
  <2> QED
    BY <2>1, <2>2, <2>3 DEF Inv, TypeInv
<1>11. CASE MintToken
  <2>1. Booleans'
    BY <1>11 DEF MintToken, Inv, TypeInv, Booleans
  <2>2. Others'
    BY <1>11, <2>1 DEF MintToken, Inv, TypeInv, Others, Booleans,
                InstallSteps, UnsealSteps, Finished
  <2>3. Sending' /\ Knows' /\ Configured'
    BY <1>11 DEF MintToken, Inv, TypeInv, Sending, Knows, Configured
  <2> QED
    BY <2>1, <2>2, <2>3 DEF Inv, TypeInv
<1>12. CASE SaveLocal
  <2>1. Booleans'
    BY <1>12 DEF SaveLocal, Inv, TypeInv, Booleans
  <2>2. Others'
    <3>1. printed \subseteq Nat /\ local \in Nat /\ mem \in Nat
      BY DEF Inv, TypeInv, Others
    <3>2. printed' \in {printed, printed \cup {mem}} /\ local' \in {local, mem, 0}
      BY <1>12 DEF SaveLocal
    <3>3. printed' \subseteq Nat /\ local' \in Nat
      BY <3>1, <3>2
    <3>4. /\ pc' \in {"copy", "failed"}
          /\ UNCHANGED <<gen, gens, shares, conf, remote, mem, sent>>
      BY <1>12 DEF SaveLocal
    <3> QED
      BY <3>3, <3>4 DEF Inv, TypeInv, Others, InstallSteps, Finished
  <2>3. Sending' /\ Knows' /\ Configured'
    BY <1>12 DEF SaveLocal, Inv, TypeInv, Sending, Knows, Configured
  <2> QED
    BY <2>1, <2>2, <2>3 DEF Inv, TypeInv
<1>13. CASE CopyToStorage
  <2>1. Booleans'
    BY <1>13 DEF CopyToStorage, Inv, TypeInv, Booleans
  <2>2. Others'
    BY <1>13, <2>1 DEF CopyToStorage, Inv, TypeInv, Others, Booleans,
                InstallSteps, UnsealSteps, Finished
  <2>3. Sending' /\ Knows' /\ Configured'
    BY <1>13 DEF CopyToStorage, Inv, TypeInv, Sending, Knows, Configured
  <2> QED
    BY <2>1, <2>2, <2>3 DEF Inv, TypeInv
<1>14. CASE LoadRootToken
  <2>1. Booleans'
    BY <1>14 DEF LoadRootToken, Inv, TypeInv, Booleans
  <2>2. Others'
    BY <1>14, <2>1 DEF LoadRootToken, Inv, TypeInv, Others, Booleans,
                InstallSteps, UnsealSteps, Finished
  <2>3. Sending' /\ Knows' /\ Configured'
    BY <1>14 DEF LoadRootToken, Inv, TypeInv, Sending, Knows, Configured
  <2> QED
    BY <2>1, <2>2, <2>3 DEF Inv, TypeInv
<1>15. CASE ReadKeys
  <2>1. Booleans'
    BY <1>15 DEF ReadKeys, Inv, TypeInv, Booleans
  <2>2. Others'
    BY <1>15, <2>1 DEF ReadKeys, Inv, TypeInv, Others, Booleans,
                InstallSteps, UnsealSteps, Finished
  <2>3. Sending' /\ Knows' /\ Configured'
    BY <1>15 DEF ReadKeys, Inv, TypeInv, Sending, Knows, Configured
  <2> QED
    BY <2>1, <2>2, <2>3 DEF Inv, TypeInv
<1>16. CASE UnsealNew \/ SendKeys
  BY <1>16, SendKeyInv DEF UnsealNew, SendKeys
<1>17. CASE EnableKV \/ ConfigureK8sAuth \/ StoreSecrets
  BY <1>17, ConfigureInv DEF EnableKV, ConfigureK8sAuth, StoreSecrets
<1>18. CASE UNCHANGED vars
  <2>1. Booleans'
    BY <1>18 DEF vars, Inv, TypeInv, Booleans
  <2>2. Others' /\ Sending' /\ Knows' /\ Configured'
    BY <1>18 DEF vars, Inv, TypeInv, Others, Sending, Knows, Configured
  <2> QED
    BY <2>1, <2>2 DEF Inv, TypeInv
<1> QED
  BY <1>1, <1>2, <1>3, <1>4, <1>5, <1>6, <1>7, <1>8, <1>9, <1>10, <1>11, <1>12, <1>13, <1>14, <1>15, <1>16, <1>17, <1>18
  DEF Next, Step, Environment

LEMMA InvHolds == Spec => []Inv
BY InitInv, StepInv, PTL DEF Spec

(* Every variable keeps the shape the code gives it.                       *)
THEOREM VaultTypeCorrect == Spec => []TypeOK
<1>1. Inv => TypeOK
  BY DEF Inv, TypeInv, Booleans, Others, TypeOK
<1> QED
  BY <1>1, InvHolds, PTL

(* An install that initialized Vault and returned nil has left the keys of *)
(* that Vault in the local vault-init.json.                                *)
THEOREM KeysAreSaved == Spec => []InstalledKeysAreSaved
<1>1. Inv => InstalledKeysAreSaved
  BY DEF Inv, Knows, InstalledKeysAreSaved
<1> QED
  BY <1>1, InvHolds, PTL

(* An install without a warning has configured the Vault that runs, and a  *)
(* fresh one has its keys on the storage node.                             *)
THEOREM QuietIsComplete == Spec => []QuietInstallIsComplete
<1>1. Inv => QuietInstallIsComplete
  BY DEF Inv, TypeInv, Booleans, Others, Knows, Configured, QuietInstallIsComplete
<1> QED
  BY <1>1, InvHolds, PTL

(* Nothing overwrites the storage node's copy of the keys in use.          *)
THEOREM StorageKeepsKeys == Spec => StorageKeepsItsKeys
<1>1. Inv /\ [Next]_vars => (gen # 0 /\ gen' = gen /\ remote = gen => remote' = gen)
  <2> SUFFICES ASSUME Inv, [Next]_vars, gen # 0, gen' = gen, remote = gen, remote' # remote
               PROVE  FALSE
    OBVIOUS
  <2>1. RebuildStorage \/ CopyToStorage
    BY DEF Next, Step, Environment, vars, server, files, process, StartInstall,
           StartUnseal, Start, Leave, StopServer, StartServer, RebuildControlPlane,
           WaitForVault, IsInitialized, InitVault, UnsealNew, SendKeys, SendKey,
           MintToken, SaveLocal, LoadRootToken, ReadKeys, EnableKV,
           ConfigureK8sAuth, StoreSecrets, Configure
  <2> QED
    BY <2>1 DEF RebuildStorage, CopyToStorage, Inv, Knows
<1>2. Inv /\ [Next]_vars
        => [gen # 0 /\ gen' = gen /\ remote = gen => remote' = gen]_vars
  BY <1>1
<1> QED
  BY <1>2, InvHolds, PTL DEF Spec, StorageKeepsItsKeys

-----------------------------------------------------------------------------
(* What the server has counted of a `vault unseal` *)

\* Fewer keys are counted than open the Vault.
Few == IsFiniteSet(shares) /\ Cardinality(shares) < Threshold

\* Every key an undisturbed `vault unseal` sent to a closed Vault is counted.
Counted ==
    pc = "send" /\ ~disturbed /\ sealed => \A i \in 1..sent : <<mem, i>> \in shares

OpenInv == Inv /\ Few /\ Counted

(* Counting a key that is not refused opens the Vault or is remembered.    *)
LEMMA CountKeyCounts ==
    ASSUME Few, NEW k, CountKey(k)
    PROVE  /\ Few'
           /\ sealed /\ ~Refused(k) /\ sealed' => shares' = shares \cup {k}
           /\ ~sealed => ~sealed'
<1> DEFINE got == shares \cup {k}
<1>1. IsFiniteSet(got) /\ Cardinality(got) \in Nat /\ Cardinality(got) <= Threshold
  <2>1. Cardinality(shares) \in Nat
    BY FS_CardinalityType DEF Few
  <2>2. IsFiniteSet(got) /\ (Cardinality(got) = Cardinality(shares)
                             \/ Cardinality(got) = Cardinality(shares) + 1)
    BY FS_AddElement DEF Few
  <2> QED
    BY <2>1, <2>2 DEF Few, Threshold
<1>2. CASE ~sealed
  BY <1>2 DEF CountKey, Few
<1>3. CASE sealed
  <2>1. /\ shares' = IF Cardinality(got) = Threshold THEN {} ELSE got
        /\ sealed' = ~(/\ Cardinality(got) = Threshold
                       /\ \A s \in got : s[1] = gen)
    BY <1>3 DEF CountKey
  <2>2. Few'
    <3>1. CASE Cardinality(got) = Threshold
      BY <2>1, <3>1, FS_EmptySet DEF Few, Threshold
    <3>2. CASE Cardinality(got) # Threshold
      BY <1>1, <2>1, <3>2 DEF Few, Threshold
    <3> QED
      BY <3>1, <3>2
  <2>3. ASSUME ~Refused(k), sealed' PROVE shares' = got
    BY <1>3, <2>1, <2>3 DEF Refused
  <2> QED
    BY <1>3, <2>2, <2>3
<1> QED
  BY <1>2, <1>3

LEMMA OpenInit == Init => OpenInv
<1>1. Init => Few
  BY FS_EmptySet DEF Init, Few, Threshold
<1>2. Init => Counted
  BY DEF Init, Counted
<1> QED
  BY <1>1, <1>2, InitInv DEF OpenInv

LEMMA FewStep == OpenInv /\ [Next]_vars => Few'
<1> SUFFICES ASSUME OpenInv, [Next]_vars PROVE Few'
  OBVIOUS
<1>1. CASE UnsealNew \/ SendKeys
  <2>1. \/ CountKey(<<mem, sent + 1>>)
        \/ UNCHANGED shares
    BY <1>1 DEF UnsealNew, SendKeys, SendKey
  <2> QED
    BY <2>1, CountKeyCounts DEF OpenInv, Few
<1>2. CASE ~(UnsealNew \/ SendKeys)
  <2>1. shares' = {} \/ shares' = shares
    BY <1>2 DEF Next, Step, Environment, vars, server, files, process, StartInstall,
           StartUnseal, Start, Leave, StopServer, StartServer, RebuildStorage,
           RebuildControlPlane, WaitForVault, IsInitialized, InitVault, MintToken,
           SaveLocal, CopyToStorage, LoadRootToken, ReadKeys, EnableKV,
           ConfigureK8sAuth, StoreSecrets, Configure
  <2> QED
    BY <2>1, FS_EmptySet DEF OpenInv, Few, Threshold
<1> QED
  BY <1>1, <1>2

LEMMA CountedStep == OpenInv /\ [Next]_vars => Counted'
<1> SUFFICES ASSUME OpenInv, [Next]_vars, pc' = "send", ~disturbed', sealed'
             PROVE  \A i \in 1..sent' : <<mem', i>> \in shares'
  BY DEF Counted
<1>1. CASE ReadKeys
  <2>1. sent' = 0
    BY <1>1 DEF ReadKeys, OpenInv, Inv, TypeInv, Sending
  <2> QED
    BY <2>1
<1>2. CASE SendKeys
  <2> DEFINE k == <<mem, sent + 1>>
  <2>1. /\ pc = "send" /\ mem' = mem /\ ~disturbed
        /\ ~Refused(k) /\ CountKey(k) /\ sent' = sent + 1
    BY <1>2 DEF SendKeys, SendKey, Fail
  <2>2. sealed /\ shares' = shares \cup {k}
    BY <2>1, CountKeyCounts DEF OpenInv
  <2>3. \A i \in 1..sent : <<mem, i>> \in shares
    BY <2>1, <2>2 DEF OpenInv, Counted
  <2>4. sent \in Nat
    BY DEF OpenInv, Inv, TypeInv, Others
  <2>5. \A i \in 1..sent + 1 : i \in 1..sent \/ i = sent + 1
    BY <2>4
  <2> QED
    BY <2>1, <2>2, <2>3, <2>5
<1>3. CASE StopServer \/ UNCHANGED vars
  BY <1>3 DEF StopServer, vars, server, files, process, OpenInv, Counted
<1> QED
  <2>1. ReadKeys \/ SendKeys \/ StopServer \/ UNCHANGED vars
    BY DEF Next, Step, Environment, StartInstall, StartUnseal, Start, Leave,
           StartServer, RebuildStorage, RebuildControlPlane, WaitForVault,
           IsInitialized, InitVault, UnsealNew, SendKey, Fail, MintToken, SaveLocal,
           CopyToStorage, LoadRootToken, EnableKV, ConfigureK8sAuth, StoreSecrets,
           Configure, process
  <2> QED
    BY <1>1, <1>2, <1>3, <2>1

(* Two counted keys and the third: nothing else can have been counted.     *)
LEMMA ThirdKeyOpens ==
    ASSUME Few, NEW m, <<m, 1>> \in shares, <<m, 2>> \in shares,
           sealed, CountKey(<<m, 3>>), ~Refused(<<m, 3>>)
    PROVE  ~sealed'
<1> DEFINE two == {<<m, 1>>} \cup {<<m, 2>>}
           got == shares \cup {<<m, 3>>}
<1>1. IsFiniteSet(two) /\ Cardinality(two) = 2
  <2>1. IsFiniteSet({<<m, 1>>}) /\ Cardinality({<<m, 1>>}) = 1
    BY FS_Singleton
  <2>2. <<m, 2>> \notin {<<m, 1>>}
    OBVIOUS
  <2>3. IsFiniteSet(two) /\ Cardinality(two) = 1 + 1
    BY <2>1, <2>2, FS_AddElement
  <2> HIDE DEF two
  <2> QED
    BY <2>3
<1>2. shares = two
  <2>1. two \in SUBSET shares
    OBVIOUS
  <2>2. Cardinality(two) <= Cardinality(shares)
        /\ (Cardinality(shares) = Cardinality(two) => shares = two)
    BY <2>1, FS_Subset DEF Few
  <2>3. Cardinality(shares) \in Nat
    BY FS_CardinalityType DEF Few
  <2> HIDE DEF two
  <2> QED
    BY <1>1, <2>2, <2>3 DEF Few, Threshold
<1>3. Cardinality(got) = 3
  <2>1. <<m, 3>> \notin two
    OBVIOUS
  <2> HIDE DEF two
  <2>2. Cardinality(two \cup {<<m, 3>>}) = Cardinality(two) + 1
    BY <1>1, <2>1, FS_AddElement
  <2> QED
    BY <1>1, <1>2, <2>2
<1>4. \A s \in got : s[1] = gen
  BY <1>3 DEF Refused, Threshold
<1> QED
  BY <1>3, <1>4 DEF CountKey, Threshold

(* A `vault unseal` that no restart disturbed reports success only over an *)
(* open Vault, whatever earlier commands left counted.                     *)
THEOREM UnsealOpens == Spec => UnsealedMeansOpen
<1>1. OpenInv /\ [Next]_vars => OpenInv'
  BY StepInv, FewStep, CountedStep DEF OpenInv
<1>2. Spec => []OpenInv
  BY <1>1, OpenInit, PTL DEF Spec
<1>3. OpenInv /\ [Next]_vars => [pc = "send" /\ pc' = "unsealed" /\ ~disturbed => ~sealed']_vars
  <2> SUFFICES ASSUME OpenInv, [Next]_vars, pc = "send", pc' = "unsealed", ~disturbed
               PROVE  ~sealed'
    OBVIOUS
  <2>1. SendKeys
    BY DEF Next, Step, Environment, vars, StartInstall, StartUnseal, Start, Leave,
           StopServer, StartServer, RebuildStorage, RebuildControlPlane,
           WaitForVault, IsInitialized, InitVault, UnsealNew, SendKey, MintToken,
           SaveLocal, CopyToStorage, LoadRootToken, ReadKeys, EnableKV,
           ConfigureK8sAuth, StoreSecrets, Configure
  <2>2. sent \in 0..2
    BY DEF OpenInv, Inv, TypeInv, Sending, Others
  <2>3. /\ sent + 1 = 3 /\ CountKey(<<mem, sent + 1>>)
        /\ ~Refused(<<mem, sent + 1>>)
    BY <2>1, <2>2 DEF SendKeys, SendKey, Fail
  <2>4. sent = 2
    BY <2>2, <2>3
  <2>5. CASE ~sealed
    BY <2>3, <2>5, CountKeyCounts DEF OpenInv
  <2>6. CASE sealed
    <3>1. <<mem, 1>> \in shares /\ <<mem, 2>> \in shares
      BY <2>4, <2>6 DEF OpenInv, Counted
    <3> QED
      BY <2>3, <2>6, <3>1, ThirdKeyOpens DEF OpenInv
  <2> QED
    BY <2>5, <2>6
<1> QED
  BY <1>2, <1>3, PTL DEF Spec, UnsealedMeansOpen
=============================================================================
