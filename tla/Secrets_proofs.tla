--------------------------- MODULE Secrets_proofs ---------------------------
(***************************************************************************)
(* Proofs about the writers of the api-keys document, for every set of     *)
(* keys and every number of concurrent commands.                           *)
(***************************************************************************)
EXTENDS Secrets, TLAPS

Steps == Running \cup Finished \cup {"idle"}

\* TypeOK in two parts: the Booleans, and the rest.
Booleans ==
    /\ deployed \in BOOLEAN
    /\ misread \in [Procs -> BOOLEAN]
    /\ warned \in [Procs -> BOOLEAN]
    /\ raced \in [Procs -> BOOLEAN]

Values ==
    /\ doc \in [Keys -> Nat] /\ synced \in [Keys -> Nat]
    /\ admin \in Nat /\ client \in Nat
    /\ realm \in {"none", "begun", "done"}
    /\ stamps \in Nat

Locals ==
    /\ pc \in [Procs -> Steps]
    /\ stamp \in [Procs -> Nat]
    /\ arg \in [Procs -> Keys]
    /\ buf \in [Procs -> [Keys -> Nat]]
    /\ got \in [Procs -> SUBSET Keys]

\* Nobody wrote since q began, and every read of q was answered.
Clean(q) == ~raced[q] /\ ~misread[q]

\* What a command that nobody raced knows of the document.
Knows(q) ==
    /\ pc[q] = "idle" => got[q] = {}
    /\ pc[q] \in {"gather", "post"} => got[q] \subseteq Resolved
    /\ pc[q] = "gather" /\ Clean(q) =>
          \A k \in got[q] : doc[k] # 0 => buf[q][k] = doc[k]
    /\ pc[q] = "post" /\ Clean(q) =>
          \A k \in Resolved : doc[k] # 0 => buf[q][k] = doc[k]
    /\ pc[q] = "put" /\ ~raced[q] => buf[q] = doc
    /\ pc[q] \in {"merge", "oauthMerge"} /\ ~raced[q] =>
          \A k \in Keys : doc[k] # 0 => buf[q][k] = doc[k]
    /\ pc[q] \in {"await", "deploy", "ready", "realm", "installed"}
          /\ Clean(q) /\ ~warned[q] => \A k \in KeycloakKeys : buf[q][k] = doc[k]

\* What a Keycloak install knows of Keycloak.
Built(q) ==
    /\ pc[q] \in {"realm", "installed"} => admin # 0
    /\ pc[q] = "installed" =>
          /\ realm = "done"
          /\ admin = buf[q][AdminKey] /\ client = buf[q][ClientKey]

TypeInv == Booleans /\ Values /\ Locals

Inv == TypeInv /\ \A q \in Procs : Knows(q) /\ Built(q)

-----------------------------------------------------------------------------
(* Types *)

LEMMA InitInv == Init => Inv
<1> SUFFICES ASSUME Init PROVE Inv
  OBVIOUS
<1> USE SecretsAssumption
<1>1. Booleans
  BY DEF Init, Booleans
<1>2. Values
  BY DEF Init, Values, Nothing, Fixed
<1>3. Locals
  <2>1. Nothing \in [Keys -> Nat] /\ AdminKey \in Keys
    BY DEF Nothing
  <2> QED
    BY <2>1 DEF Init, Locals, Steps
<1>4. \A q \in Procs : Knows(q) /\ Built(q)
  BY DEF Init, Knows, Built
<1> QED
  BY <1>1, <1>2, <1>3, <1>4 DEF Inv, TypeInv

(* What is written to the document is a document.                          *)
LEMMA WriteTypes ==
    ASSUME TypeInv, NEW p \in Procs, NEW d \in [Keys -> Nat], Write(p, d)
    PROVE  doc' \in [Keys -> Nat] /\ raced' \in [Procs -> BOOLEAN]
BY DEF TypeInv, Booleans, Write

LEMMA BufTypes ==
    ASSUME TypeInv, NEW p \in Procs
    PROVE  /\ buf[p] \in [Keys -> Nat] /\ arg[p] \in Keys /\ stamp[p] \in Nat
           /\ got[p] \in SUBSET Keys
           /\ \A k \in Keys, n \in Nat : [buf[p] EXCEPT ![k] = n] \in [Keys -> Nat]
           /\ \A d \in [Keys -> Nat] : [buf EXCEPT ![p] = d] \in [Procs -> [Keys -> Nat]]
BY DEF TypeInv, Locals

LEMMA StartTypes ==
    ASSUME TypeInv, NEW p \in Procs, NEW step \in Steps, NEW k \in Keys, Start(p, step, k)
    PROVE  TypeInv'
<1>1. Booleans'
  BY DEF Start, TypeInv, Booleans, keycloak, flags
<1>2. Values'
  BY DEF Start, TypeInv, Values, keycloak
<1>3. Locals'
  BY DEF Start, Goto, TypeInv, Values, Locals
<1> QED
  BY <1>1, <1>2, <1>3 DEF TypeInv

LEMMA LeaveTypes ==
    ASSUME TypeInv, NEW p \in Procs, Leave(p)
    PROVE  TypeInv'
<1>1. Booleans'
  BY DEF Leave, TypeInv, Booleans, keycloak
<1>2. Values'
  BY DEF Leave, TypeInv, Values, keycloak
<1>3. Locals'
  <2>1. Nothing \in [Keys -> Nat] /\ AdminKey \in Keys /\ "idle" \in Steps
    BY SecretsAssumption DEF Nothing, Steps
  <2> QED
    BY <2>1 DEF Leave, Goto, TypeInv, Locals
<1> QED
  BY <1>1, <1>2, <1>3 DEF TypeInv

LEMMA PatchTypes ==
    ASSUME TypeInv, NEW k \in Keys, Patch(k)
    PROVE  TypeInv'
<1>1. Booleans'
  BY DEF Patch, TypeInv, Booleans, keycloak
<1>2. Values'
  BY DEF Patch, TypeInv, Values, keycloak
<1>3. Locals'
  BY DEF Patch, TypeInv, Locals, memory
<1> QED
  BY <1>1, <1>2, <1>3 DEF TypeInv

LEMMA ClusterTypes ==
    ASSUME TypeInv, Boot \/ \E k \in KeycloakKeys : Sync(k)
    PROVE  TypeInv'
<1>0. KeycloakKeys \subseteq Keys /\ AdminKey \in Keys
  BY SecretsAssumption
<1>1. Booleans'
  BY DEF Boot, Sync, TypeInv, Booleans, keycloak, flags
<1>2. Values'
  BY <1>0 DEF Boot, Sync, TypeInv, Values, keycloak
<1>3. Locals'
  BY DEF Boot, Sync, TypeInv, Locals, memory
<1> QED
  BY <1>1, <1>2, <1>3 DEF TypeInv

LEMMA StoreReadTypes ==
    ASSUME TypeInv, NEW p \in Procs, StoreRead(p)
    PROVE  TypeInv'
<1>1. PICK k \in Resolved \ got[p] :
        /\ \/ /\ buf' = [buf EXCEPT ![p][k] = IF doc[k] # 0 THEN doc[k]
                                              ELSE Fallback(p, k)]
              /\ misread' = misread
           \/ /\ buf' = [buf EXCEPT ![p][k] = Fallback(p, k)]
              /\ misread' = [misread EXCEPT ![p] = TRUE]
        /\ got' = [got EXCEPT ![p] = @ \cup {k}]
        /\ IF got'[p] = Resolved THEN Goto(p, "post") ELSE UNCHANGED pc
  BY DEF StoreRead, Mark
<1>2. k \in Keys
  BY SecretsAssumption DEF Resolved
<1>3. Booleans'
  BY <1>1 DEF StoreRead, TypeInv, Booleans, keycloak
<1>4. Values'
  BY DEF StoreRead, TypeInv, Values, keycloak
<1>5. Locals'
  <2>1. doc[k] \in Nat /\ Fallback(p, k) \in Nat
    BY <1>2, BufTypes DEF Fallback, Fixed, TypeInv, Values
  <2>2. \E n \in Nat : buf' = [buf EXCEPT ![p] = [buf[p] EXCEPT ![k] = n]]
    BY <1>1, <2>1
  <2>3. buf' \in [Procs -> [Keys -> Nat]]
    BY <1>2, <2>2, BufTypes
  <2>4. got' \in [Procs -> SUBSET Keys]
    BY <1>1, <1>2 DEF TypeInv, Locals
  <2>5. pc' \in [Procs -> Steps]
    <3>1. "post" \in Steps
      BY DEF Steps, Running
    <3> QED
      BY <1>1, <3>1 DEF Goto, TypeInv, Locals
  <2> QED
    BY <2>3, <2>4, <2>5 DEF StoreRead, TypeInv, Locals
<1> QED
  BY <1>3, <1>4, <1>5 DEF TypeInv

(* A command's one write, its failure, and the step it goes on with.       *)
LEMMA WriterTypes ==
    ASSUME TypeInv, NEW p \in Procs, NEW d \in [Keys -> Nat],
           Write(p, d) \/ UNCHANGED <<doc, raced>>,
           NEW step \in Steps, Goto(p, step),
           warned' = warned \/ Mark(warned, p),
           UNCHANGED <<synced, keycloak, stamps, memory, misread>>
    PROVE  TypeInv'
<1>1. doc' \in [Keys -> Nat] /\ raced' \in [Procs -> BOOLEAN]
  BY WriteTypes DEF TypeInv, Values, Booleans
<1>2. Booleans'
  BY <1>1 DEF TypeInv, Booleans, Mark, keycloak
<1>3. Values'
  BY <1>1 DEF TypeInv, Values, keycloak
<1>4. Locals'
  BY DEF TypeInv, Locals, Goto, memory
<1> QED
  BY <1>2, <1>3, <1>4 DEF TypeInv

(* A step that only prepares what the command holds.                       *)
LEMMA PrepareTypes ==
    ASSUME TypeInv, NEW p \in Procs, NEW d \in [Keys -> Nat],
           buf' = [buf EXCEPT ![p] = d] \/ buf' = buf,
           NEW step \in Steps, Goto(p, step),
           misread' = misread \/ Mark(misread, p),
           UNCHANGED <<doc, synced, keycloak, stamps, stamp, arg, got, warned, raced>>
    PROVE  TypeInv'
<1>1. Booleans'
  BY DEF TypeInv, Booleans, Mark, keycloak
<1>2. Values'
  BY DEF TypeInv, Values, keycloak
<1>3. Locals'
  BY BufTypes DEF TypeInv, Locals, Goto
<1> QED
  BY <1>1, <1>2, <1>3 DEF TypeInv
LEMMA KeycloakTypes ==
    ASSUME TypeInv, NEW p \in Procs,
           WaitForAdminSecret(p) \/ DeployKeycloak(p) \/ WaitForReady(p) \/ ConfigureRealm(p)
    PROVE  TypeInv'
<1>1. Booleans'
  <2>1. deployed' \in BOOLEAN
    BY DEF WaitForAdminSecret, DeployKeycloak, WaitForReady, ConfigureRealm, keycloak,
           TypeInv, Booleans
  <2>2. warned' = warned \/ Mark(warned, p)
    BY DEF WaitForAdminSecret, DeployKeycloak, WaitForReady, ConfigureRealm, flags
  <2>3. misread' = misread /\ raced' = raced
    BY DEF WaitForAdminSecret, DeployKeycloak, WaitForReady, ConfigureRealm, flags
  <2> QED
    BY <2>1, <2>2, <2>3 DEF TypeInv, Booleans, Mark
<1>2. Values'
  <2>1. buf[p][ClientKey] \in Nat
    BY BufTypes, SecretsAssumption
  <2> QED
    BY <2>1 DEF WaitForAdminSecret, DeployKeycloak, WaitForReady, ConfigureRealm,
                keycloak, TypeInv, Values
<1>3. Locals'
  <2>1. PICK step \in Steps : Goto(p, step)
    BY DEF WaitForAdminSecret, DeployKeycloak, WaitForReady, ConfigureRealm, Steps,
           Running, Finished
  <2>2. UNCHANGED memory
    BY DEF WaitForAdminSecret, DeployKeycloak, WaitForReady, ConfigureRealm
  <2> QED
    BY <2>1, <2>2 DEF TypeInv, Locals, Goto, memory
<1> QED
  BY <1>1, <1>2, <1>3 DEF TypeInv

(* The documents the commands prepare are documents.                       *)
LEMMA Documents ==
    ASSUME TypeInv, NEW p \in Procs
    PROVE  /\ ApiKeys(p) \in [Keys -> Nat]
           /\ [buf[p] EXCEPT ![arg[p]] = stamp[p]] \in [Keys -> Nat]
           /\ [k \in Keys |-> IF k \in KeycloakKeys /\ doc[k] = 0
                              THEN stamp[p] ELSE doc[k]] \in [Keys -> Nat]
           /\ [k \in Keys |-> IF k \in KeycloakKeys THEN stamp[p] ELSE 0] \in [Keys -> Nat]
<1>1. \A k \in Keys : buf[p][k] \in Nat /\ doc[k] \in Nat
  BY BufTypes DEF TypeInv, Values
<1>2. ApiKeys(p) \in [Keys -> Nat]
  BY <1>1 DEF ApiKeys, Fixed
<1>3. stamp[p] \in Nat
  BY BufTypes
<1> QED
  BY <1>1, <1>2, <1>3, BufTypes

LEMMA TypeStep == TypeInv /\ [Next]_vars => TypeInv'
<1> SUFFICES ASSUME TypeInv, [Next]_vars PROVE TypeInv'
  OBVIOUS
<1>1. ASSUME NEW p \in Procs, StartCommand(p) PROVE TypeInv'
  <2>1. \E step \in Steps, k \in Keys : Start(p, step, k)
    BY <1>1, SecretsAssumption DEF StartCommand, StartStore, StartSet, StartKeycloak,
       StartOAuth, Steps, Running
  <2> QED
    BY <2>1, StartTypes
<1>2. ASSUME NEW p \in Procs, StorePost(p) PROVE TypeInv'
  <2>1. PICK step \in Steps : Goto(p, step)
    BY <1>2 DEF StorePost, Steps, Finished
  <2>2. Write(p, ApiKeys(p)) \/ UNCHANGED <<doc, raced>>
    BY <1>2 DEF StorePost
  <2> QED
    BY <1>2, <2>1, <2>2, WriterTypes, Documents DEF StorePost
<1>3. ASSUME NEW p \in Procs, SetRead(p) PROVE TypeInv'
  <2>1. PICK step \in Steps : Goto(p, step)
    BY <1>3 DEF SetRead, Steps, Running, Finished
  <2>2. doc \in [Keys -> Nat] /\ (buf' = [buf EXCEPT ![p] = doc] \/ buf' = buf)
    BY <1>3 DEF SetRead, TypeInv, Values
  <2> QED
    BY <1>3, <2>1, <2>2, PrepareTypes DEF SetRead, flags
<1>4. ASSUME NEW p \in Procs, SetWrite(p) PROVE TypeInv'
  <2>1. PICK step \in Steps : Goto(p, step)
    BY <1>4 DEF SetWrite, Steps, Finished
  <2>2. Write(p, [buf[p] EXCEPT ![arg[p]] = stamp[p]]) \/ UNCHANGED <<doc, raced>>
    BY <1>4 DEF SetWrite
  <2> QED
    BY <1>4, <2>1, <2>2, WriterTypes, Documents DEF SetWrite
<1>5. ASSUME NEW p \in Procs, ResolveCredentials(p) PROVE TypeInv'
  <2>1. PICK step, write, next :
          /\ Resolve(p, step, write, next)
          /\ write \in Steps /\ next \in Steps
    BY <1>5 DEF ResolveCredentials, Steps, Running, Finished
  <2> DEFINE merged == [k \in Keys |-> IF k \in KeycloakKeys /\ doc[k] = 0
                                      THEN stamp[p] ELSE doc[k]]
             made == [k \in Keys |-> IF k \in KeycloakKeys THEN stamp[p] ELSE 0]
  <2>2. merged \in [Keys -> Nat] /\ made \in [Keys -> Nat]
    BY Documents
  <2>3. \/ buf' = [buf EXCEPT ![p] = merged]
        \/ buf' = [buf EXCEPT ![p] = made]
    BY <2>1 DEF Resolve
  <2>4. Goto(p, write) \/ Goto(p, next)
    BY <2>1 DEF Resolve
  <2>5. /\ misread' = misread \/ Mark(misread, p)
        /\ UNCHANGED <<doc, synced, keycloak, stamps, stamp, arg, got, warned, raced>>
    BY <2>1 DEF Resolve
  <2> HIDE DEF merged, made
  <2> QED
    BY <2>1, <2>2, <2>3, <2>4, <2>5, PrepareTypes
<1>6. ASSUME NEW p \in Procs, WriteCredentials(p) PROVE TypeInv'
  <2>1. PICK step, next : Merge(p, step, next) /\ next \in Steps
    BY <1>6 DEF WriteCredentials, Steps, Running, Finished
  <2>2. /\ Write(p, buf[p]) \/ UNCHANGED <<doc, raced>>
        /\ warned' = warned \/ Mark(warned, p)
        /\ Goto(p, next)
        /\ UNCHANGED <<synced, keycloak, stamps, memory, misread>>
    BY <2>1 DEF Merge
  <2> QED
    BY <2>1, <2>2, WriterTypes, BufTypes
<1>7. CASE UNCHANGED vars
  BY <1>7 DEF vars, keycloak, memory, flags, TypeInv, Booleans, Values, Locals
<1> QED
  BY <1>1, <1>2, <1>3, <1>4, <1>5, <1>6, <1>7, LeaveTypes, PatchTypes, ClusterTypes,
     StoreReadTypes, KeycloakTypes DEF Next, Step

-----------------------------------------------------------------------------
(* What commands know *)

(* A command keeps what it knows while its locals stay and nobody writes   *)
(* the document without racing it.                                         *)
LEMMA KnowsKept ==
    ASSUME NEW q, Knows(q),
           pc'[q] = pc[q], buf'[q] = buf[q], got'[q] = got[q],
           misread'[q] = misread[q], warned'[q] = warned[q],
           (doc' = doc /\ raced'[q] = raced[q]) \/ raced'[q] \/ pc[q] = "idle"
    PROVE  Knows(q)'
BY DEF Knows, Clean

LEMMA BuiltKept ==
    ASSUME NEW q, Built(q), pc'[q] = pc[q], buf'[q] = buf[q],
           admin' = admin \/ admin = 0,
           realm' = realm \/ realm = "none",
           client' = client \/ realm = "none"
    PROVE  Built(q)'
BY DEF Built

\* A step of p leaves the locals of the other commands alone.
OwnOnly(p) ==
    \A q \in Procs \ {p} :
        /\ pc'[q] = pc[q] /\ buf'[q] = buf[q] /\ got'[q] = got[q]
        /\ misread'[q] = misread[q] /\ warned'[q] = warned[q]
        /\ (doc' = doc /\ raced'[q] = raced[q]) \/ raced'[q] \/ pc[q] = "idle"

(* Every step of a command is one that the others cannot notice but by the *)
(* race it is to them.                                                     *)
LEMMA CommandsAreOwn ==
    ASSUME TypeInv, NEW p \in Procs, Step(p) \/ StartCommand(p) \/ Leave(p)
    PROVE  OwnOnly(p)
<1> USE DEF TypeInv, Booleans, Locals, OwnOnly, Goto, Mark, memory, flags
<1>1. CASE StartCommand(p)
  BY <1>1 DEF StartCommand, StartStore, StartSet, StartKeycloak, StartOAuth, Start
<1>2. CASE Leave(p)
  BY <1>2 DEF Leave
<1>3. CASE StoreRead(p)
  BY <1>3 DEF StoreRead
<1>4. CASE StorePost(p)
  BY <1>4 DEF StorePost, Write
<1>5. CASE SetRead(p)
  BY <1>5 DEF SetRead
<1>6. CASE SetWrite(p)
  BY <1>6 DEF SetWrite, Write
<1>7. CASE ResolveCredentials(p)
  BY <1>7 DEF ResolveCredentials, Resolve
<1>8. CASE WriteCredentials(p)
  BY <1>8 DEF WriteCredentials, Merge, Write
<1>9. CASE WaitForAdminSecret(p) \/ DeployKeycloak(p) \/ WaitForReady(p) \/ ConfigureRealm(p)
  BY <1>9 DEF WaitForAdminSecret, DeployKeycloak, WaitForReady, ConfigureRealm
<1> QED
  BY <1>1, <1>2, <1>3, <1>4, <1>5, <1>6, <1>7, <1>8, <1>9 DEF Step

(* The step itself leaves its command knowing what it should.              *)
LEMMA StoreKnows ==
    ASSUME Inv, NEW p \in Procs, StoreRead(p) \/ StorePost(p)
    PROVE  Knows(p)' /\ Built(p)'
<1>1. CASE StoreRead(p)
  <2>1. PICK k \in Resolved \ got[p] :
          /\ \/ /\ buf' = [buf EXCEPT ![p][k] = IF doc[k] # 0 THEN doc[k]
                                                ELSE Fallback(p, k)]
                /\ misread' = misread
             \/ /\ buf' = [buf EXCEPT ![p][k] = Fallback(p, k)]
                /\ misread' = [misread EXCEPT ![p] = TRUE]
          /\ got' = [got EXCEPT ![p] = @ \cup {k}]
          /\ IF got'[p] = Resolved THEN Goto(p, "post") ELSE UNCHANGED pc
    BY <1>1 DEF StoreRead, Mark
  <2>2. k \in Keys /\ got[p] \subseteq Keys /\ Resolved \subseteq Keys
    BY SecretsAssumption, BufTypes DEF Resolved, Inv
  <2>3. pc[p] = "gather" /\ doc' = doc /\ raced' = raced
    BY <1>1 DEF StoreRead
  <2>4. /\ got'[p] = got[p] \cup {k} /\ got'[p] \subseteq Resolved
        /\ pc'[p] = IF got'[p] = Resolved THEN "post" ELSE "gather"
    BY <2>1, <2>3 DEF Goto, Inv, TypeInv, Locals, Knows
  <2>5. \A j \in Keys \ {k} : buf'[p][j] = buf[p][j]
    BY <2>1, <2>2 DEF Inv, TypeInv, Locals
  <2>6. ~misread'[p] => ~misread[p] /\ (doc[k] # 0 => buf'[p][k] = doc[k])
    BY <2>1, <2>2 DEF Inv, TypeInv, Locals, Booleans
  <2>7. ~raced'[p] /\ ~misread'[p] => \A j \in got'[p] : doc'[j] # 0 => buf'[p][j] = doc'[j]
    <3> SUFFICES ASSUME ~raced'[p], ~misread'[p], NEW j \in got'[p], doc[j] # 0
                 PROVE  buf'[p][j] = doc[j]
      BY <2>3
    <3>1. CASE j = k
      BY <2>6, <3>1
    <3>2. CASE j # k
      BY <2>2, <2>3, <2>4, <2>5, <2>6, <3>2 DEF Inv, Knows, Clean
    <3> QED
      BY <3>1, <3>2
  <2>8. Knows(p)'
    BY <2>4, <2>7 DEF Knows, Clean
  <2>9. Built(p)'
    BY <2>4 DEF Built
  <2> QED
    BY <2>8, <2>9
<1>2. CASE StorePost(p)
  BY <1>2 DEF StorePost, Goto, Inv, TypeInv, Locals, Knows, Built
<1> QED
  BY <1>1, <1>2

LEMMA SetKnows ==
    ASSUME Inv, NEW p \in Procs, SetRead(p) \/ SetWrite(p)
    PROVE  Knows(p)' /\ Built(p)'
BY DEF SetRead, SetWrite, Goto, Inv, TypeInv, Locals, Knows, Built, Clean

LEMMA ResolveKnows ==
    ASSUME Inv, NEW p \in Procs, ResolveCredentials(p)
    PROVE  Knows(p)' /\ Built(p)'
<1>1. PICK step, write, next :
        /\ Resolve(p, step, write, next)
        /\ \/ write = "merge" /\ next = "await"
           \/ write = "oauthMerge" /\ next = "oauth"
  BY DEF ResolveCredentials
<1> DEFINE merged == [k \in Keys |-> IF k \in KeycloakKeys /\ doc[k] = 0
                                    THEN stamp[p] ELSE doc[k]]
           made == [k \in Keys |-> IF k \in KeycloakKeys THEN stamp[p] ELSE 0]
<1>2. /\ doc' = doc /\ raced' = raced
      /\ \/ /\ buf' = [buf EXCEPT ![p] = merged]
            /\ Goto(p, IF merged = doc THEN next ELSE write)
         \/ /\ buf' = [buf EXCEPT ![p] = made]
            /\ Goto(p, next) /\ Mark(misread, p)
  BY <1>1 DEF Resolve
<1>3. \A k \in Keys : doc[k] # 0 => merged[k] = doc[k]
  OBVIOUS
<1> HIDE DEF merged, made
<1>4. /\ doc' = doc
      /\ \/ buf'[p] = merged /\ pc'[p] = IF merged = doc THEN next ELSE write
         \/ pc'[p] = next /\ misread'[p]
  BY <1>2 DEF Goto, Mark, Inv, TypeInv, Locals, Booleans
<1>5. KeycloakKeys \subseteq Keys
  BY SecretsAssumption DEF Resolved
<1>6. Knows(p)'
  BY <1>1, <1>3, <1>4, <1>5 DEF Knows, Clean
<1>7. Built(p)'
  BY <1>1, <1>4 DEF Built
<1> QED
  BY <1>6, <1>7

LEMMA MergeKnows ==
    ASSUME Inv, NEW p \in Procs, WriteCredentials(p)
    PROVE  Knows(p)' /\ Built(p)'
<1>1. /\ pc'[p] \in {"await", "oauth"}
      /\ buf'[p] = buf[p]
      /\ doc' = buf[p] \/ warned'[p]
  BY DEF WriteCredentials, Merge, Write, Goto, Mark, memory, Inv, TypeInv, Locals, Booleans
<1> QED
  BY <1>1 DEF Knows, Built, Clean

LEMMA KeycloakKnows ==
    ASSUME Inv, NEW p \in Procs,
           WaitForAdminSecret(p) \/ DeployKeycloak(p) \/ WaitForReady(p) \/ ConfigureRealm(p)
    PROVE  Knows(p)' /\ Built(p)'
<1>1. /\ pc[p] \in {"await", "deploy", "ready", "realm"}
      /\ pc'[p] \in {"deploy", "ready", "realm", "installed", "failed"}
      /\ buf'[p] = buf[p] /\ doc' = doc
      /\ raced'[p] = raced[p] /\ misread'[p] = misread[p]
      /\ warned'[p] = warned[p] \/ warned'[p]
  BY DEF WaitForAdminSecret, DeployKeycloak, WaitForReady, ConfigureRealm, Goto, Mark,
         memory, flags, Inv, TypeInv, Locals, Booleans
<1>2. Knows(p)'
  BY <1>1 DEF Knows, Clean, Inv
<1>3. Built(p)'
  <2>1. CASE WaitForReady(p)
    BY <2>1 DEF WaitForReady, Goto, Built, keycloak, Inv, TypeInv, Locals
  <2>2. CASE ConfigureRealm(p)
    <3>1. \/ /\ pc'[p] = "installed" /\ realm' = "done" /\ admin' = admin
             /\ client' = buf[p][ClientKey] /\ buf[p][AdminKey] = admin
          \/ pc'[p] = "failed"
      BY <2>2 DEF ConfigureRealm, Goto, Inv, TypeInv, Locals
    <3>2. admin # 0
      BY <2>2 DEF ConfigureRealm, Inv, Built
    <3> QED
      BY <1>1, <3>1, <3>2 DEF Built
  <2>3. CASE WaitForAdminSecret(p) \/ DeployKeycloak(p)
    BY <2>3 DEF WaitForAdminSecret, DeployKeycloak, Goto, Built, Inv, TypeInv, Locals
  <2> QED
    BY <2>1, <2>2, <2>3
<1> QED
  BY <1>2, <1>3

LEMMA IdleKnows ==
    ASSUME Inv, NEW p \in Procs, StartCommand(p) \/ Leave(p)
    PROVE  Knows(p)' /\ Built(p)'
<1>1. CASE Leave(p)
  BY <1>1 DEF Leave, Goto, Inv, TypeInv, Locals, Knows, Built
<1>2. CASE StartCommand(p)
  <2>1. pc'[p] \in {"gather", "read", "resolve", "oauthResolve"} /\ got'[p] = got[p]
        /\ buf'[p] = buf[p]
    BY <1>2 DEF StartCommand, StartStore, StartSet, StartKeycloak, StartOAuth, Start,
       Goto, Inv, TypeInv, Locals
  <2>2. got[p] = {}
    BY <1>2 DEF Inv, Knows, StartCommand, StartStore, StartSet, StartKeycloak,
       StartOAuth, Start
  <2> QED
    BY <2>1, <2>2 DEF Knows, Built
<1> QED
  BY <1>1, <1>2

(* The invariant is inductive.                                             *)
LEMMA StepInv == Inv /\ [Next]_vars => Inv'
<1> SUFFICES ASSUME Inv, [Next]_vars PROVE Inv'
  OBVIOUS
<1>1. TypeInv'
  BY TypeStep DEF Inv
<1>2. ASSUME NEW q \in Procs PROVE Knows(q)' /\ Built(q)'
  <2>1. ASSUME NEW p \in Procs, Step(p) \/ StartCommand(p) \/ Leave(p)
        PROVE  Knows(q)' /\ Built(q)'
    <3>1. CASE q = p
      BY <2>1, <3>1, StoreKnows, SetKnows, ResolveKnows, MergeKnows, KeycloakKnows,
         IdleKnows DEF Step
    <3>2. CASE q # p
      <4>1. OwnOnly(p)
        BY <2>1, CommandsAreOwn DEF Inv
      <4>2. Knows(q)'
        BY <3>2, <4>1, KnowsKept DEF OwnOnly, Inv
      <4>3. /\ admin' = admin
            /\ realm' = realm \/ realm = "none"
            /\ client' = client \/ realm = "none"
        BY <2>1 DEF Step, StartCommand, StartStore, StartSet, StartKeycloak, StartOAuth,
           Start, Leave, StoreRead, StorePost, SetRead, SetWrite, ResolveCredentials,
           Resolve, WriteCredentials, Merge, WaitForAdminSecret, DeployKeycloak,
           WaitForReady, ConfigureRealm, keycloak
      <4>4. Built(q)'
        BY <3>2, <4>1, <4>3, BuiltKept DEF OwnOnly, Inv
      <4> QED
        BY <4>2, <4>4
    <3> QED
      BY <3>1, <3>2
  <2>2. ASSUME NEW k \in Keys, Patch(k) PROVE Knows(q)' /\ Built(q)'
    <3>1. /\ UNCHANGED <<pc, buf, got, misread, warned, admin, realm, client>>
          /\ raced'[q] \/ pc[q] = "idle"
      BY <2>2 DEF Patch, memory, keycloak
    <3> QED
      BY <3>1, KnowsKept, BuiltKept DEF Inv
  <2>3. CASE Boot \/ \E k \in KeycloakKeys : Sync(k)
    <3>1. /\ UNCHANGED <<pc, buf, got, misread, warned, doc, raced, realm, client>>
          /\ admin' = admin \/ admin = 0
      BY <2>3 DEF Boot, Sync, memory, keycloak, flags
    <3> QED
      BY <3>1, KnowsKept, BuiltKept DEF Inv
  <2>4. CASE UNCHANGED vars
    BY <2>4, KnowsKept, BuiltKept DEF vars, memory, keycloak, flags, Inv
  <2> QED
    BY <2>1, <2>2, <2>3, <2>4 DEF Next
<1> QED
  BY <1>1, <1>2 DEF Inv

LEMMA InvHolds == Spec => []Inv
BY InitInv, StepInv, PTL DEF Spec

(* Every variable keeps the shape the code gives it.                       *)
THEOREM SecretsTypeCorrect == Spec => []TypeOK
<1>1. Inv => TypeOK
  BY DEF Inv, TypeInv, Booleans, Values, Locals, Steps, TypeOK
<1> QED
  BY <1>1, InvHolds, PTL

(* An undisturbed Keycloak install without warnings leaves a Keycloak      *)
(* whose administrator and Grafana client have the secrets in Vault.       *)
THEOREM KeycloakMatchesVault == Spec => []InstalledKeycloakMatchesVault
<1>1. Inv => InstalledKeycloakMatchesVault
  BY SecretsAssumption DEF Inv, Knows, Built, Clean, InstalledKeycloakMatchesVault
<1> QED
  BY <1>1, InvHolds, PTL

(* Only the one command that writes changes the document in its step.      *)
LEMMA WritesAreOwn ==
    ASSUME Inv, [Next]_vars, NEW p \in Procs, pc'[p] # pc[p]
    PROVE  Step(p) \/ StartCommand(p) \/ Leave(p)
<1>1. ASSUME NEW q \in Procs, q # p, Step(q) \/ StartCommand(q) \/ Leave(q)
      PROVE  FALSE
  BY <1>1, CommandsAreOwn DEF OwnOnly, Inv
<1>2. ~(\E k \in Keys : Patch(k)) /\ ~(\E k \in KeycloakKeys : Sync(k)) /\ ~Boot
      /\ ~UNCHANGED vars
  BY DEF Patch, Sync, Boot, vars
<1> QED
  BY <1>1, <1>2 DEF Next

(* No undisturbed installer whose reads succeeded takes a resolved secret  *)
(* away or replaces it.                                                    *)
THEOREM InstallersKeep == Spec => InstallersKeepSecrets
<1>1. ASSUME Inv, [Next]_vars, NEW p \in Procs, NEW k \in Resolved,
             pc[p] \in {"post", "merge", "oauthMerge"}, pc'[p] # pc[p],
             ~misread[p], ~raced[p], doc[k] # 0
      PROVE  doc'[k] = doc[k]
  <2>1. k \in Keys
    BY SecretsAssumption DEF Resolved
  <2>2. StorePost(p) \/ WriteCredentials(p) \/ Leave(p)
    BY <1>1, WritesAreOwn DEF Step, StoreRead, SetRead, SetWrite, ResolveCredentials,
       Resolve, WaitForAdminSecret, DeployKeycloak, WaitForReady, ConfigureRealm,
       StartCommand, StartStore, StartSet, StartKeycloak, StartOAuth, Start
  <2>3. buf[p][k] = doc[k]
    BY <1>1, <2>1 DEF Inv, Knows, Clean
  <2>4. CASE StorePost(p)
    <3>1. doc' = ApiKeys(p) \/ doc' = doc
      BY <2>4 DEF StorePost, Write
    <3> QED
      BY <1>1, <2>1, <2>3, <3>1 DEF ApiKeys
  <2>5. CASE WriteCredentials(p)
    BY <2>3, <2>5 DEF WriteCredentials, Merge, Write
  <2>6. CASE Leave(p)
    BY <2>6 DEF Leave
  <2> QED
    BY <2>2, <2>4, <2>5, <2>6
<1>2. Inv /\ [Next]_vars =>
        [\A p \in Procs, k \in Resolved :
            pc[p] \in {"post", "merge", "oauthMerge"} /\ pc'[p] # pc[p]
               /\ ~misread[p] /\ ~raced[p] /\ doc[k] # 0 => doc'[k] = doc[k]]_vars
  BY <1>1
<1> QED
  BY <1>2, InvHolds, PTL DEF Spec, InstallersKeepSecrets

(* An unraced `vault set` changes its own key only.                        *)
THEOREM SetKeeps == Spec => SetKeepsOtherKeys
<1>1. ASSUME Inv, [Next]_vars, NEW p \in Procs, NEW k \in Keys,
             pc[p] = "put", pc'[p] # pc[p], ~raced[p], k # arg[p]
      PROVE  doc'[k] = doc[k]
  <2>1. SetWrite(p) \/ Leave(p)
    BY <1>1, WritesAreOwn DEF Step, StoreRead, StorePost, SetRead, ResolveCredentials,
       Resolve, WriteCredentials, Merge, WaitForAdminSecret, DeployKeycloak,
       WaitForReady, ConfigureRealm, StartCommand, StartStore, StartSet, StartKeycloak,
       StartOAuth, Start
  <2>2. buf[p] = doc
    BY <1>1 DEF Inv, Knows
  <2>3. doc' = doc \/ doc' = [buf[p] EXCEPT ![arg[p]] = stamp[p]]
    BY <2>1 DEF SetWrite, Write, Leave
  <2> QED
    BY <1>1, <2>2, <2>3 DEF Inv, TypeInv, Values
<1>2. Inv /\ [Next]_vars =>
        [\A p \in Procs, k \in Keys :
            pc[p] = "put" /\ pc'[p] # pc[p] /\ ~raced[p] /\ k # arg[p]
               => doc'[k] = doc[k]]_vars
  BY <1>1
<1> QED
  BY <1>2, InvHolds, PTL DEF Spec, SetKeepsOtherKeys
=============================================================================
