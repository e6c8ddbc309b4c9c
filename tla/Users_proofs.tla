---------------------------- MODULE Users_proofs ----------------------------
(***************************************************************************)
(* Proofs about the `user` commands, for every set of users, roles,        *)
(* namespaces, flag combinations and concurrent commands.                  *)
(***************************************************************************)
EXTENDS Users, SequenceTheorems, TLAPS

(* A binding CreateUser makes is named with its user's prefix: what makes  *)
(* the deletion by name prefix complete.                                   *)
LEMMA BindingNameHasPrefix ==
    ASSUME NEW u \in Users, NEW r \in Roles
    PROVE  /\ BindingName(u, r) \in Seq(Parts)
           /\ HasUserPrefix(BindingName(u, r), u)
<1>1. u \in Seq(Parts) /\ r \in Seq(Parts) /\ r # <<>>
  BY ConstantsAssumption
<1> DEFINE w == u \o r
<1>2. w \in Seq(Parts) /\ Len(w) = Len(u) + Len(r)
  BY <1>1
<1>3. Len(u) \in Nat /\ Len(r) \in Nat /\ Len(r) > 0
  BY <1>1
<1>4. \A i \in 1..Len(u) : w[i] = u[i]
  BY <1>1
<1> HIDE DEF w
<1> DEFINE n == Append(w, Suffix)
<1>5. n \in Seq(Parts) /\ Len(n) = Len(w) + 1 /\ \A i \in 1..Len(w) : n[i] = w[i]
  <2>1. Suffix \in Parts
    BY ConstantsAssumption
  <2> QED
    BY <1>2, <2>1, AppendProperties
<1> HIDE DEF n
<1> DEFINE h == SubSeq(n, 1, Len(u))
<1>6. h \in Seq(Parts) /\ Len(h) = Len(u) /\ \A i \in 1..Len(u) : h[i] = n[i]
  BY <1>2, <1>3, <1>5
<1> HIDE DEF h
<1>7. h = u
  BY <1>1, <1>2, <1>3, <1>4, <1>5, <1>6
<1> QED
  BY <1>2, <1>3, <1>5, <1>7 DEF HasUserPrefix, BindingName, h, n, w

-----------------------------------------------------------------------------
(* Types *)

\* A running command has a user, and a running create its flags.
JobOK ==
    \A p \in Procs :
        /\ pc[p] # "idle" => user[p] \in Users
        /\ pc[p] \in CreateSteps => cfg[p] \in Configs

TypeInv == TypeOK /\ JobOK

(* What the Create call of a running command adds is a binding named with  *)
(* its user's prefix.                                                      *)
LEMMA BoundType ==
    ASSUME TypeInv, NEW p \in Procs, pc[p] \in CreateSteps,
           NEW s \in Scopes, NEW r \in Roles
    PROVE  /\ NewBinding(p, s, r) \in Binding
           /\ NewBinding(p, s, r).user = user[p]
           /\ HasUserPrefix(NewBinding(p, s, r).name, user[p])
           /\ NewBinding(p, s, r).name = BindingName(user[p], r)
           /\ NewBinding(p, s, r).scope = s /\ NewBinding(p, s, r).role = r
           /\ Bound(p, s, r) \in SUBSET Binding
           /\ bindings \subseteq Bound(p, s, r)
           /\ \A b \in Bound(p, s, r) : b \in bindings \/ b = NewBinding(p, s, r)
<1>1. user[p] \in Users /\ cfg[p] \in Configs
  BY DEF TypeInv, JobOK, CreateSteps, TypeOK
<1>2. cfg[p].groups \in SUBSET Groups
  BY <1>1, ConstantsAssumption DEF Config
<1>3. /\ BindingName(user[p], r) \in Seq(Parts)
      /\ HasUserPrefix(BindingName(user[p], r), user[p])
  BY <1>1, BindingNameHasPrefix
<1>4. /\ NewBinding(p, s, r) \in Binding
      /\ NewBinding(p, s, r).user = user[p]
      /\ NewBinding(p, s, r).name = BindingName(user[p], r)
      /\ NewBinding(p, s, r).scope = s /\ NewBinding(p, s, r).role = r
  BY <1>1, <1>2, <1>3 DEF NewBinding, Binding, Subjects
<1> QED
  BY <1>3, <1>4 DEF Bound, TypeInv, TypeOK

(* A command changes a file or a request of its user and nothing else of it. *)
LEMMA RecordTypes ==
    /\ Empty \in Artifacts /\ NoCsr \in Request
    /\ \A d \in Artifacts : d.key \in Nat /\ d.cert \in Nat
    /\ \A d \in Artifacts, k \in Nat : [d EXCEPT !.key = k] \in Artifacts
    /\ \A d \in Artifacts, k \in Nat : [d EXCEPT !.cert = k] \in Artifacts
    /\ \A d \in Artifacts, k, c \in Nat :
          [d EXCEPT !.kcKey = k, !.kcCert = c] \in Artifacts
    /\ \A d \in Artifacts :
          [Empty EXCEPT !.kcKey = d.kcKey, !.kcCert = d.kcCert] \in Artifacts
    /\ \A r \in Request : r.key \in Nat
    /\ \A k \in Nat : [key |-> k, state |-> "pending"] \in Request
    /\ \A r \in Request : /\ WithApproval(r) \in Request
                           /\ [r EXCEPT !.state = "issued"] \in Request
BY DEF Empty, NoCsr, Artifacts, Request, WithApproval

(* Every step keeps the types.                                             *)
LEMMA TypeStep == TypeInv /\ [Next]_vars => TypeInv'
<1> SUFFICES ASSUME TypeInv, [Next]_vars PROVE TypeInv'
  OBVIOUS
<1> USE DEF TypeInv, TypeOK, JobOK, job, cluster, scan, vars, Goto, Flag, Abort,
            CreateSteps, DeleteSteps, Subjects
<1>1. ASSUME NEW p \in Procs, NEW u \in Users, StartDelete(p, u) PROVE TypeInv'
  BY <1>1 DEF StartDelete, Meet
<1>2. ASSUME NEW p \in Procs, NEW u \in Users, NEW c \in Configs,
             StartCreate(p, u, c) PROVE TypeInv'
  BY <1>2 DEF StartCreate, Meet
<1>3. ASSUME NEW p \in Procs, Exit(p) PROVE TypeInv'
  BY <1>3 DEF Exit
<1>4. ASSUME NEW u \in Users, Sign(u) PROVE TypeInv'
  BY <1>4, RecordTypes DEF Sign
<1>5. ASSUME NEW p \in Procs, GenerateKey(p) PROVE TypeInv'
  <2>1. user[p] \in Users /\ disk[user[p]] \in Artifacts /\ keys + 1 \in Nat
    BY <1>5 DEF GenerateKey
  <2>2. [disk[user[p]] EXCEPT !.key = keys + 1] \in Artifacts
    BY <2>1, RecordTypes
  <2>3. disk' \in [Users -> Artifacts]
    BY <1>5, <2>1, <2>2 DEF GenerateKey
  <2> QED
    BY <1>5, <2>1, <2>3 DEF GenerateKey
<1>6. ASSUME NEW p \in Procs, Submit(p) PROVE TypeInv'
  <2>1. user[p] \in Users /\ csr[user[p]] \in Request /\ key[p] \in Nat
    BY <1>6 DEF Submit
  <2>2. [key |-> key[p], state |-> "pending"] \in Request /\ NoCsr \in Request
    BY <2>1, RecordTypes
  <2>3. csr' \in [Users -> Request]
    BY <1>6, <2>1, <2>2 DEF Submit
  <2> QED
    BY <1>6, <2>1, <2>3 DEF Submit
<1>7. ASSUME NEW p \in Procs, Approve(p) PROVE TypeInv'
  <2>1. user[p] \in Users /\ csr[user[p]] \in Request
    BY <1>7 DEF Approve
  <2>2. WithApproval(csr[user[p]]) \in Request
    BY <2>1, RecordTypes
  <2>3. csr' \in [Users -> Request]
    BY <1>7, <2>1, <2>2 DEF Approve
  <2> QED
    BY <1>7, <2>1, <2>3 DEF Approve
<1>8. ASSUME NEW p \in Procs, WaitForCertificate(p) PROVE TypeInv'
  <2>1. /\ user[p] \in Users /\ disk[user[p]] \in Artifacts
        /\ csr[user[p]].key \in Nat
    BY <1>8, RecordTypes DEF WaitForCertificate
  <2>2. [disk[user[p]] EXCEPT !.cert = csr[user[p]].key] \in Artifacts
    BY <2>1, RecordTypes
  <2>3. disk' \in [Users -> Artifacts]
    BY <1>8, <2>1, <2>2 DEF WaitForCertificate
  <2> QED
    BY <1>8, <2>1, <2>3 DEF WaitForCertificate
<1>9. ASSUME NEW p \in Procs, WriteKubeconfig(p) PROVE TypeInv'
  <2> DEFINE d == disk[user[p]]
  <2>1. user[p] \in Users /\ d \in Artifacts /\ d.key \in Nat /\ d.cert \in Nat
    BY <1>9, RecordTypes DEF WriteKubeconfig
  <2>2. [d EXCEPT !.kcKey = d.key, !.kcCert = d.cert] \in Artifacts
    BY <2>1, RecordTypes
  <2>3. disk' \in [Users -> Artifacts]
    BY <1>9, <2>1, <2>2 DEF WriteKubeconfig
  <2> QED
    BY <1>9, <2>1, <2>3 DEF WriteKubeconfig
<1>10. ASSUME NEW p \in Procs, BindClusterRole(p) PROVE TypeInv'
  <2>1. cfg[p] \in Configs /\ cfg[p].cluster \in Roles \cup {None}
    BY <1>10, ConstantsAssumption DEF BindClusterRole, Bind, Config
  <2>2. cfg[p].cluster # None => Bound(p, Cluster, cfg[p].cluster) \in SUBSET Binding
    <3>1. pc[p] \in CreateSteps /\ Cluster \in Scopes
      BY <1>10 DEF BindClusterRole, Bind, Scopes
    <3> QED
      BY <2>1, <3>1, BoundType
  <2> QED
    BY <1>10, <2>1, <2>2 DEF BindClusterRole, Bind
<1>11. ASSUME NEW p \in Procs, BindRole(p) PROVE TypeInv'
  <2>1. /\ cfg[p] \in Configs /\ cfg[p].role \in Roles \cup {None}
        /\ cfg[p].ns \in Scopes
    BY <1>11, ConstantsAssumption DEF BindRole, Bind, Config, Scopes
  <2>2. cfg[p].role # None => Bound(p, cfg[p].ns, cfg[p].role) \in SUBSET Binding
    BY <1>11, <2>1, BoundType DEF BindRole, Bind
  <2> QED
    BY <1>11, <2>1, <2>2 DEF BindRole, Bind
<1>12. ASSUME NEW p \in Procs, CleanupCsr(p) \/ RollbackCsr(p) \/ DeleteUserCsr(p)
       PROVE TypeInv'
  <2>1. user[p] \in Users
    BY <1>12 DEF CleanupCsr, RollbackCsr, DeleteUserCsr
  <2>2. csr' \in [Users -> Request]
    BY <1>12, <2>1, RecordTypes
    DEF CleanupCsr, RollbackCsr, DeleteUserCsr, DeleteCsr
  <2> QED
    BY <1>12, <2>1, <2>2 DEF CleanupCsr, RollbackCsr, DeleteUserCsr, DeleteCsr
<1>13. ASSUME NEW p \in Procs, RollbackFiles(p) \/ DeleteUserFiles(p)
       PROVE TypeInv'
  <2> DEFINE d == disk[user[p]]
  <2>1. user[p] \in Users /\ d \in Artifacts
    BY <1>13 DEF RollbackFiles, DeleteUserFiles
  <2>2. /\ [Empty EXCEPT !.kcKey = d.kcKey, !.kcCert = d.kcCert] \in Artifacts
        /\ Empty \in Artifacts
    BY <2>1, RecordTypes
  <2>3. disk' \in [Users -> Artifacts]
    BY <1>13, <2>1, <2>2 DEF RollbackFiles, DeleteUserFiles, RemoveFiles
  <2> QED
    BY <1>13, <2>1, <2>3 DEF RollbackFiles, DeleteUserFiles, RemoveFiles
<1>14. ASSUME NEW p \in Procs, ListBindings(p) PROVE TypeInv'
  <2>1. PICK s \in NextScopes(p) :
           /\ left' = [left EXCEPT ![p] = @ \ {s}]
           /\ \/ todo' = [todo EXCEPT ![p] = Matching(s, user[p])]
              \/ UNCHANGED todo
    BY <1>14 DEF ListBindings
  <2>2. Matching(s, user[p]) \in SUBSET Binding
    BY DEF Matching
  <2>3. left' \in [Procs -> SUBSET Scopes] /\ todo' \in [Procs -> SUBSET Binding]
    BY <2>1, <2>2
  <2>4. pc' \in {pc, [pc EXCEPT ![p] = "unbind"]} /\ err' \in [Procs -> BOOLEAN]
    BY <1>14 DEF ListBindings
  <2> QED
    BY <1>14, <2>3, <2>4 DEF ListBindings
<1>15. ASSUME NEW p \in Procs, ListNamespacesFails(p) PROVE TypeInv'
  BY <1>15 DEF ListNamespacesFails
<1>16. ASSUME NEW p \in Procs, Unbind(p) PROVE TypeInv'
  BY <1>16 DEF Unbind
<1>17. ASSUME NEW p \in Procs, ScopeDone(p) \/ BindingsDone(p) PROVE TypeInv'
  BY <1>17 DEF ScopeDone, BindingsDone
<1>18. CASE UNCHANGED vars
  BY <1>18
<1> QED
  BY <1>1, <1>2, <1>3, <1>4, <1>5, <1>6, <1>7, <1>8, <1>9, <1>10, <1>11, <1>12,
     <1>13, <1>14, <1>15, <1>16, <1>17, <1>18
  DEF Next, Step, Return, Crash

LEMMA InitTypes == Init => TypeInv
<1> SUFFICES ASSUME Init PROVE TypeInv
  OBVIOUS
<1>1. Foreign \subseteq Binding
  BY ConstantsAssumption DEF Binding, Subjects
<1>2. TypeOK
  BY <1>1, RecordTypes DEF Init, TypeOK, Subjects
<1>3. JobOK
  BY DEF Init, JobOK, CreateSteps
<1> QED
  BY <1>2, <1>3 DEF TypeInv

(* The variables always have the types TypeOK gives them.                  *)
THEOREM TypeCorrect == Spec => []TypeOK
<1>1. TypeInv => TypeOK
  BY DEF TypeInv
<1> QED
  BY <1>1, InitTypes, TypeStep, PTL DEF Spec

-----------------------------------------------------------------------------
(* What a step of one command can touch *)

(* A step of p leaves the other commands, the other users' files and       *)
(* requests alone, and what it binds it binds to its own user.             *)
LEMMA StepFootprint ==
    ASSUME TypeInv, NEW p \in Procs, Step(p)
    PROVE  /\ pc[p] # "idle" /\ pc'[p] # "idle"
           /\ user' = user /\ cfg' = cfg /\ raced' = raced
           /\ \A q \in Procs : q # p => /\ pc'[q] = pc[q] /\ left'[q] = left[q]
                                        /\ todo'[q] = todo[q] /\ err'[q] = err[q]
                                        /\ key'[q] = key[q]
           /\ \A v \in Users : v # user[p] => disk'[v] = disk[v] /\ csr'[v] = csr[v]
           /\ \A b \in bindings' : \/ b \in bindings
                                   \/ /\ b.user = user[p] /\ b.role \in Roles
                                      /\ b.name = BindingName(b.user, b.role)
                                      /\ HasUserPrefix(b.name, b.user)
<1> DEFINE Others == \A q \in Procs : q # p => /\ pc'[q] = pc[q] /\ left'[q] = left[q]
                                               /\ todo'[q] = todo[q] /\ err'[q] = err[q]
                                               /\ key'[q] = key[q]
           Elsewhere == \A v \in Users : v # user[p] => /\ disk'[v] = disk[v]
                                                        /\ csr'[v] = csr[v]
           OwnBindings == \A b \in bindings' : \/ b \in bindings
                                               \/ /\ b.user = user[p] /\ b.role \in Roles
                                                  /\ b.name = BindingName(b.user, b.role)
                                                  /\ HasUserPrefix(b.name, b.user)
           Goal == /\ pc[p] # "idle" /\ pc'[p] # "idle"
                   /\ user' = user /\ cfg' = cfg /\ raced' = raced
                   /\ Others /\ Elsewhere /\ OwnBindings
<1> USE DEF TypeInv, TypeOK, job, cluster, scan, Goto, Flag, Abort
<1>1. CASE GenerateKey(p) \/ Submit(p) \/ Approve(p) \/ WaitForCertificate(p)
           \/ WriteKubeconfig(p)
  BY <1>1 DEF GenerateKey, Submit, Approve, WaitForCertificate, WriteKubeconfig
<1>2. ASSUME NEW step \in {"crb", "rb"}, NEW s \in Scopes,
             NEW r \in Roles \cup {None}, NEW next \in {"rb", "tidy"},
             Bind(p, step, s, r, next)
      PROVE  Goal
  <2>1. r # None => \A b \in Bound(p, s, r) :
                       b \in bindings \/ (/\ b.user = user[p] /\ b.role \in Roles
                                          /\ b.name = BindingName(b.user, b.role)
                                          /\ HasUserPrefix(b.name, b.user))
    BY <1>2, BoundType DEF Bind, CreateSteps
  <2> QED
    BY <1>2, <2>1 DEF Bind
<1>3. CASE BindClusterRole(p) \/ BindRole(p)
  <2>1. /\ cfg[p] \in Configs /\ cfg[p].cluster \in Roles \cup {None}
        /\ cfg[p].role \in Roles \cup {None} /\ cfg[p].ns \in Scopes
    BY <1>3, ConstantsAssumption
    DEF BindClusterRole, BindRole, Bind, Config, Scopes, JobOK, CreateSteps
  <2> QED
    BY <1>2, <1>3, <2>1 DEF BindClusterRole, BindRole, Scopes
<1>4. CASE CleanupCsr(p) \/ RollbackCsr(p) \/ DeleteUserCsr(p)
  BY <1>4 DEF CleanupCsr, RollbackCsr, DeleteUserCsr, DeleteCsr
<1>5. CASE RollbackFiles(p) \/ DeleteUserFiles(p)
  BY <1>5 DEF RollbackFiles, DeleteUserFiles, RemoveFiles
<1>6. CASE ListBindings(p)
  BY <1>6 DEF ListBindings
<1>7. CASE ListNamespacesFails(p) \/ Unbind(p) \/ ScopeDone(p) \/ BindingsDone(p)
  BY <1>7 DEF ListNamespacesFails, Unbind, ScopeDone, BindingsDone
<1> QED
  BY <1>1, <1>3, <1>4, <1>5, <1>6, <1>7 DEF Step

-----------------------------------------------------------------------------
(* What a command that ends well has achieved *)

\* Of two commands on one user each knows of the other.
RivalsRaced ==
    \A p, q \in Procs :
        p # q /\ pc[p] # "idle" /\ pc[q] # "idle" /\ user[p] = user[q] => raced[p]

\* A binding of a user is found by the prefix of its name.
NamesOK == \A b \in bindings : b.user \in Users => HasUserPrefix(b.name, b.user)

NoBinding(p) == \A b \in bindings : b.user # user[p]

\* A command without an error so far has done what its finished calls are for:
\* a binding of the user still there is in a scope not yet listed or among the
\* listed ones, and what has been removed stays removed.
Progress(p) ==
    /\ pc[p] = "list" /\ ~err[p] => todo[p] = {}
    /\ pc[p] \in {"list", "unbind"} /\ ~err[p] =>
          \A b \in bindings : b.user = user[p] => b.scope \in left[p] \/ b \in todo[p]
    /\ pc[p] \in {"delCsr", "delFiles", "deleted"} /\ ~err[p] => NoBinding(p)
    /\ pc[p] \in {"delFiles", "deleted"} /\ ~err[p] => csr[user[p]] = NoCsr
    /\ pc[p] = "deleted" => ~err[p] /\ disk[user[p]] = Empty
    /\ pc[p] \in {"undoCsr", "failed"} /\ ~err[p] => disk[user[p]] = Empty
    /\ pc[p] = "failed" /\ ~err[p] => csr[user[p]] = NoCsr

IInv == TypeInv /\ RivalsRaced /\ NamesOK /\ \A p \in Procs : raced[p] \/ Progress(p)

(* A step of another command does not undo the progress of q, unless it is *)
(* on the same user.                                                       *)
LEMMA ProgressOfOthers ==
    ASSUME IInv, NEW p \in Procs, Step(p), NEW q \in Procs, q # p, ~raced[q]
    PROVE  Progress(q)'
<1>1. /\ pc[p] # "idle" /\ pc'[q] = pc[q] /\ left'[q] = left[q]
      /\ todo'[q] = todo[q] /\ err'[q] = err[q] /\ user' = user
  BY StepFootprint DEF IInv
<1>2. CASE pc[q] = "idle"
  BY <1>1, <1>2 DEF Progress
<1>3. CASE pc[q] # "idle"
  <2>1. user[q] \in Users /\ user[p] # user[q]
    BY <1>1, <1>3 DEF IInv, TypeInv, JobOK, RivalsRaced
  <2>2. disk'[user[q]] = disk[user[q]] /\ csr'[user[q]] = csr[user[q]]
    BY <2>1, StepFootprint DEF IInv
  <2>3. \A b \in bindings' : b.user = user[q] => b \in bindings
    BY <2>1, StepFootprint DEF IInv
  <2> QED
    BY <1>1, <2>2, <2>3 DEF IInv, Progress, NoBinding
<1> QED
  BY <1>2, <1>3

(* A step of p itself keeps its progress.                                  *)
LEMMA ProgressOfOwn ==
    ASSUME IInv, NEW p \in Procs, Step(p), ~raced[p]
    PROVE  Progress(p)'
<1>1. user[p] \in Users /\ user' = user /\ Progress(p)
  BY StepFootprint DEF IInv, TypeInv, JobOK
<1> USE DEF IInv, TypeInv, TypeOK, job, cluster, scan, Goto, Flag, Abort, NoBinding
<1>2. CASE GenerateKey(p) \/ Submit(p) \/ Approve(p) \/ WaitForCertificate(p)
           \/ WriteKubeconfig(p)
  BY <1>1, <1>2
  DEF Progress, GenerateKey, Submit, Approve, WaitForCertificate, WriteKubeconfig
<1>3. CASE BindClusterRole(p) \/ BindRole(p)
  BY <1>1, <1>3 DEF Progress, BindClusterRole, BindRole, Bind
<1>4. CASE CleanupCsr(p) \/ RollbackCsr(p) \/ DeleteUserCsr(p)
  BY <1>1, <1>4 DEF Progress, CleanupCsr, RollbackCsr, DeleteUserCsr, DeleteCsr
<1>5. CASE RollbackFiles(p) \/ DeleteUserFiles(p)
  BY <1>1, <1>5 DEF Progress, RollbackFiles, DeleteUserFiles, RemoveFiles
<1>6. CASE ListBindings(p)
  <2>1. PICK s \in NextScopes(p) :
           /\ left' = [left EXCEPT ![p] = @ \ {s}]
           /\ \/ /\ todo' = [todo EXCEPT ![p] = Matching(s, user[p])]
                 /\ pc' = [pc EXCEPT ![p] = "unbind"] /\ err' = err
              \/ err'[p] = TRUE /\ pc' = pc
    BY <1>6 DEF ListBindings
  <2>2. \A b \in bindings : b.user = user[p] /\ b.scope = s =>
                               b \in Matching(s, user[p])
    BY <1>1 DEF Matching, NamesOK
  <2> QED
    BY <1>1, <1>6, <2>1, <2>2 DEF Progress, ListBindings
<1>7. CASE ListNamespacesFails(p)
  BY <1>1, <1>7 DEF Progress, ListNamespacesFails
<1>8. CASE Unbind(p)
  BY <1>1, <1>8 DEF Progress, Unbind
<1>9. CASE ScopeDone(p) \/ BindingsDone(p)
  BY <1>1, <1>9 DEF Progress, ScopeDone, BindingsDone
<1> QED
  BY <1>2, <1>3, <1>4, <1>5, <1>6, <1>7, <1>8, <1>9 DEF Step

(* A new command knows of the ones on its user, and they of it.            *)
LEMMA StartMeets ==
    ASSUME TypeInv, RivalsRaced, NEW p \in Procs, NEW u \in Users,
           StartDelete(p, u) \/ \E c \in Configs : StartCreate(p, u, c)
    PROVE  /\ RivalsRaced'
           /\ pc[p] = "idle"
           /\ \A q \in Procs : q # p => /\ pc'[q] = pc[q] /\ user'[q] = user[q]
                                        /\ ~raced'[q] => ~raced[q]
<1> USE DEF TypeInv, TypeOK, Goto
<1>1. pc[p] = "idle" /\ Meet(p, u) /\ user' = [user EXCEPT ![p] = u]
  BY DEF StartDelete, StartCreate
<1>2. \A q \in Procs : q # p => pc'[q] = pc[q] /\ user'[q] = user[q]
  BY <1>1 DEF StartDelete, StartCreate
<1>3. \A q \in Procs : q # p => raced'[q] = (raced[q] \/ q \in Rivals(u))
  BY <1>1 DEF Meet
<1>4. raced'[p] = (Rivals(u) # {})
  BY <1>1 DEF Meet
<1>5. ASSUME NEW q \in Procs, NEW r \in Procs, q # r, pc'[q] # "idle", pc'[r] # "idle",
             user'[q] = user'[r]
      PROVE  raced'[q]
  <2>1. CASE q = p
    <3>1. r \in Rivals(u)
      BY <1>1, <1>2, <1>5, <2>1 DEF Rivals
    <3> QED
      BY <1>4, <2>1, <3>1
  <2>2. CASE r = p
    <3>1. q \in Rivals(u)
      BY <1>1, <1>2, <1>5, <2>2 DEF Rivals
    <3> QED
      BY <1>3, <1>5, <2>2, <3>1
  <2>3. CASE q # p /\ r # p
    <3>1. raced[q]
      BY <1>2, <1>5, <2>3 DEF RivalsRaced
    <3> QED
      BY <1>3, <2>3, <3>1
  <2> QED
    BY <2>1, <2>2, <2>3
<1> QED
  BY <1>1, <1>2, <1>3, <1>5 DEF RivalsRaced

(* The invariant is inductive.                                             *)
LEMMA InvStep == IInv /\ [Next]_vars => IInv'
<1> SUFFICES ASSUME IInv, [Next]_vars PROVE IInv'
  OBVIOUS
<1>0. TypeInv'
  BY TypeStep DEF IInv
<1>1. ASSUME NEW p \in Procs, Step(p) PROVE IInv'
  <2>1. ASSUME NEW q \in Procs PROVE raced'[q] \/ Progress(q)'
    BY <1>1, ProgressOfOthers, ProgressOfOwn, StepFootprint DEF IInv
  <2>2. RivalsRaced'
    BY <1>1, StepFootprint DEF IInv, RivalsRaced
  <2>3. NamesOK'
    BY <1>1, StepFootprint DEF IInv, NamesOK
  <2> QED
    BY <1>0, <2>1, <2>2, <2>3 DEF IInv
<1>2. ASSUME NEW p \in Procs, NEW u \in Users,
             StartDelete(p, u) \/ \E c \in Configs : StartCreate(p, u, c)
      PROVE  IInv'
  <2> USE DEF StartDelete, StartCreate, cluster, scan, Goto, IInv, TypeInv, TypeOK
  <2>1. RivalsRaced'
    BY <1>2, StartMeets
  <2>2. NamesOK'
    BY <1>2 DEF NamesOK
  <2>3. ASSUME NEW q \in Procs PROVE raced'[q] \/ Progress(q)'
    <3>1. CASE q = p
      <4>1. \A b \in bindings : b.scope \in Scopes
        BY DEF Binding
      <4> QED
        BY <1>2, <3>1, <4>1 DEF Progress
    <3>2. CASE q # p
      <4>1. ~raced'[q] => Progress(q)
        BY <1>2, <3>2, StartMeets
      <4>2. Progress(q) => Progress(q)'
        BY <1>2, <3>2 DEF Progress, NoBinding
      <4> QED
        BY <4>1, <4>2
    <3> QED
      BY <3>1, <3>2
  <2> QED
    BY <1>0, <2>1, <2>2, <2>3
<1>3. ASSUME NEW p \in Procs, Return(p) \/ Crash(p) PROVE IInv'
  <2> USE DEF Return, Crash, Exit, Goto, IInv, TypeInv, TypeOK
  <2>1. RivalsRaced'
    BY <1>3 DEF RivalsRaced
  <2>2. NamesOK'
    BY <1>3 DEF NamesOK
  <2>3. ASSUME NEW q \in Procs PROVE raced'[q] \/ Progress(q)'
    <3>1. CASE q = p
      BY <1>3, <3>1 DEF Progress, NoBinding
    <3>2. CASE q # p
      <4>1. raced'[q] = raced[q]
        BY <1>3, <3>2
      <4>2. Progress(q) => Progress(q)'
        BY <1>3, <3>2 DEF Progress, NoBinding
      <4> QED
        BY <4>1, <4>2
    <3> QED
      BY <3>1, <3>2
  <2> QED
    BY <1>0, <2>1, <2>2, <2>3
<1>4. ASSUME NEW u \in Users, Sign(u) PROVE IInv'
  <2> USE DEF Sign, job, scan, IInv, TypeInv, TypeOK
  <2>1. RivalsRaced' /\ NamesOK'
    BY <1>4 DEF RivalsRaced, NamesOK
  <2>2. ASSUME NEW q \in Procs PROVE raced'[q] \/ Progress(q)'
    <3>1. raced' = raced
      BY <1>4
    <3>2. Progress(q) => Progress(q)'
      BY <1>4 DEF Progress, NoBinding, NoCsr
    <3> QED
      BY <3>1, <3>2
  <2> QED
    BY <1>0, <2>1, <2>2
<1>5. CASE UNCHANGED vars
  BY <1>0, <1>5 DEF vars, job, scan, IInv, RivalsRaced, NamesOK, Progress, NoBinding
<1> QED
  BY <1>1, <1>2, <1>3, <1>4, <1>5 DEF Next

LEMMA InvHolds == Spec => []IInv
<1>1. Init => IInv
  <2> SUFFICES ASSUME Init PROVE IInv
    OBVIOUS
  <2>1. TypeInv
    BY InitTypes
  <2>2. NamesOK
    BY ConstantsAssumption DEF Init, NamesOK
  <2> QED
    BY <2>1, <2>2 DEF IInv, Init, RivalsRaced, Progress
<1>2. IInv /\ [Next]_vars => IInv'
  BY InvStep
<1> QED
  BY <1>1, <1>2, PTL DEF Spec

(* A DeleteUser that reports success leaves no binding of the user.        *)
THEOREM DeleteRevokesAccess == Spec => []DeletedUserHasNoAccess
<1>1. IInv => DeletedUserHasNoAccess
  BY DEF IInv, Progress, Undisturbed, DeletedUserHasNoAccess, NoBinding
<1> QED
  BY <1>1, InvHolds, PTL

(* A DeleteUser that reports success leaves no request and no file.        *)
THEOREM DeleteRemovesCredential == Spec => []DeletedUserHasNoCredential
<1>1. IInv => DeletedUserHasNoCredential
  BY DEF IInv, Progress, Undisturbed, DeletedUserHasNoCredential
<1> QED
  BY <1>1, InvHolds, PTL

(* A rollback that warned of nothing leaves no file and no request.        *)
THEOREM RollbackRemovesCredential == Spec => []FailedCreateLeavesNoCredential
<1>1. IInv => FailedCreateLeavesNoCredential
  BY DEF IInv, Progress, Undisturbed, FailedCreateLeavesNoCredential
<1> QED
  BY <1>1, InvHolds, PTL

-----------------------------------------------------------------------------
(* Keys and certificates *)

\* The key on disk, the request, the certificate and the kubeconfig of a running
\* create are its own from the moment it has written them.
OwnKey(p) ==
    /\ pc[p] \in {"submit", "approve", "wait", "kubeconfig"} =>
          disk[user[p]].key = key[p]
    /\ pc[p] \in {"approve", "wait"} => csr[user[p]].key = key[p]
    /\ pc[p] = "kubeconfig" => disk[user[p]].cert = key[p]
    /\ pc[p] \in {"crb", "rb", "tidy", "created"} =>
          disk[user[p]].kcKey = key[p] /\ disk[user[p]].kcCert = key[p]

KeyInv == IInv /\ \A p \in Procs : raced[p] \/ OwnKey(p)

(* What each operation on a record of files or a request leaves in it.     *)
LEMMA RecordFields ==
    /\ Empty.key = 0 /\ Empty.kcKey = 0 /\ Empty.kcCert = 0
    /\ \A d \in Artifacts, k, c \in Nat :
          /\ [d EXCEPT !.key = k].key = k
          /\ [d EXCEPT !.key = k].kcKey = d.kcKey
          /\ [d EXCEPT !.key = k].kcCert = d.kcCert
          /\ [d EXCEPT !.cert = k].cert = k
          /\ [d EXCEPT !.cert = k].key = d.key
          /\ [d EXCEPT !.cert = k].kcKey = d.kcKey
          /\ [d EXCEPT !.cert = k].kcCert = d.kcCert
          /\ [d EXCEPT !.kcKey = k, !.kcCert = c].kcKey = k
          /\ [d EXCEPT !.kcKey = k, !.kcCert = c].kcCert = c
          /\ [Empty EXCEPT !.kcKey = k, !.kcCert = c].kcKey = k
          /\ [Empty EXCEPT !.kcKey = k, !.kcCert = c].kcCert = c
    /\ \A r \in Request : /\ WithApproval(r).key = r.key
                          /\ [r EXCEPT !.state = "issued"].key = r.key
BY DEF Empty, Artifacts, Request, WithApproval

(* A step keeps the command's own key, request, certificate and kubeconfig *)
(* in agreement.                                                           *)
LEMMA OwnKeyStep ==
    ASSUME KeyInv, NEW p \in Procs, Step(p), ~raced[p]
    PROVE  OwnKey(p)'
<1> DEFINE u == user[p]
<1>1. /\ u \in Users /\ user' = user /\ OwnKey(p) /\ key[p] \in Nat
      /\ disk[u] \in Artifacts /\ csr[u] \in Request
      /\ disk[u].key \in Nat /\ disk[u].cert \in Nat /\ csr[u].key \in Nat
  BY StepFootprint
  DEF KeyInv, IInv, TypeInv, TypeOK, JobOK, Artifacts, Request
<1> USE DEF KeyInv, IInv, TypeInv, TypeOK, job, cluster, scan, Goto, Flag, Abort
<1>4. CASE GenerateKey(p)
  <2>1. keys + 1 \in Nat
    OBVIOUS
  <2>2. \/ disk'[u] = [disk[u] EXCEPT !.key = keys + 1]
        \/ disk'[u] = disk[u] /\ pc'[p] = "undoFiles"
    BY <1>1, <1>4 DEF GenerateKey
  <2>3. LET d == [disk[u] EXCEPT !.key = keys + 1]
        IN d.key = keys + 1 /\ d.kcKey = disk[u].kcKey /\ d.kcCert = disk[u].kcCert
    BY <1>1, <2>1, RecordFields
  <2> QED
    BY <1>1, <1>4, <2>1, <2>2, <2>3 DEF GenerateKey, OwnKey
<1>5. CASE Submit(p)
  BY <1>1, <1>5 DEF Submit, OwnKey
<1>6. CASE Approve(p)
  <2>1. WithApproval(csr[u]).key = csr[u].key
    BY <1>1, RecordFields
  <2> QED
    BY <1>1, <1>6, <2>1 DEF Approve, OwnKey
<1>7. CASE WaitForCertificate(p)
  <2>1. \/ disk'[u] = [disk[u] EXCEPT !.cert = csr[u].key]
        \/ disk'[u] = disk[u] /\ pc'[p] = "undoFiles"
    BY <1>1, <1>7 DEF WaitForCertificate
  <2>2. LET d == [disk[u] EXCEPT !.cert = csr[u].key]
        IN /\ d.cert = csr[u].key /\ d.key = disk[u].key
           /\ d.kcKey = disk[u].kcKey /\ d.kcCert = disk[u].kcCert
    BY <1>1, RecordFields
  <2> QED
    BY <1>1, <1>7, <2>1, <2>2 DEF WaitForCertificate, OwnKey
<1>8. CASE WriteKubeconfig(p)
  <2>1. \/ disk'[u] = [disk[u] EXCEPT !.kcKey = disk[u].key, !.kcCert = disk[u].cert]
        \/ disk'[u] = disk[u]
    BY <1>1, <1>8 DEF WriteKubeconfig
  <2>2. LET d == [disk[u] EXCEPT !.kcKey = disk[u].key, !.kcCert = disk[u].cert]
        IN d.kcKey = disk[u].key /\ d.kcCert = disk[u].cert
    BY <1>1, RecordFields
  <2> QED
    BY <1>1, <1>8, <2>1, <2>2 DEF WriteKubeconfig, OwnKey
<1>9. CASE BindClusterRole(p) \/ BindRole(p)
  BY <1>1, <1>9 DEF BindClusterRole, BindRole, Bind, OwnKey
<1>10. CASE CleanupCsr(p) \/ RollbackCsr(p) \/ DeleteUserCsr(p)
  BY <1>1, <1>10 DEF CleanupCsr, RollbackCsr, DeleteUserCsr, DeleteCsr, OwnKey
<1>11. CASE RollbackFiles(p) \/ DeleteUserFiles(p)
  BY <1>1, <1>11 DEF RollbackFiles, DeleteUserFiles, RemoveFiles, OwnKey
<1>12. CASE ListBindings(p) \/ ListNamespacesFails(p) \/ Unbind(p)
            \/ ScopeDone(p) \/ BindingsDone(p)
  BY <1>1, <1>12
  DEF ListBindings, ListNamespacesFails, Unbind, ScopeDone, BindingsDone, OwnKey
<1> QED
  BY <1>4, <1>5, <1>6, <1>7, <1>8, <1>9, <1>10, <1>11, <1>12 DEF Step

(* The kubeconfig of a CreateUser that reports success has its own key and *)
(* a certificate for it.                                                   *)
THEOREM KubeconfigIsUsable == Spec => []CreatedKubeconfigIsUsable
<1>1. IInv /\ Init => KeyInv
  BY DEF Init, KeyInv, OwnKey
<1>2. KeyInv /\ IInv' /\ [Next]_vars => KeyInv'
  <2> SUFFICES ASSUME KeyInv, IInv', [Next]_vars PROVE KeyInv'
    OBVIOUS
  <2> USE DEF KeyInv
  <2>1. ASSUME NEW p \in Procs, Step(p) PROVE KeyInv'
    <3>1. ASSUME NEW q \in Procs, q # p, ~raced[q] PROVE OwnKey(q)'
      <4>1. /\ pc[p] # "idle" /\ pc'[q] = pc[q] /\ key'[q] = key[q] /\ user' = user
        BY <2>1, <3>1, StepFootprint DEF IInv
      <4>2. CASE pc[q] # "idle"
        <5>1. user[q] \in Users /\ user[p] # user[q]
          BY <3>1, <4>1, <4>2 DEF IInv, TypeInv, JobOK, RivalsRaced
        <5>2. disk'[user[q]] = disk[user[q]] /\ csr'[user[q]] = csr[user[q]]
          BY <2>1, <5>1, StepFootprint DEF IInv
        <5> QED
          BY <3>1, <4>1, <5>2 DEF OwnKey
      <4> QED
        BY <4>1, <4>2 DEF OwnKey
    <3>2. raced' = raced
      BY <2>1, StepFootprint DEF IInv
    <3> QED
      BY <2>1, <3>1, <3>2, OwnKeyStep
  <2>2. ASSUME NEW p \in Procs, NEW u \in Users,
               StartDelete(p, u) \/ \E c \in Configs : StartCreate(p, u, c)
        PROVE  KeyInv'
    <3>1. ASSUME NEW q \in Procs PROVE raced'[q] \/ OwnKey(q)'
      <4>1. CASE q = p
        BY <2>2, <4>1 DEF StartDelete, StartCreate, Goto, OwnKey, IInv, TypeInv, TypeOK
      <4>2. CASE q # p
        <5>1. ~raced'[q] => OwnKey(q)
          BY <2>2, <4>2, StartMeets DEF IInv
        <5>2. OwnKey(q) => OwnKey(q)'
          BY <2>2, <4>2 DEF StartDelete, StartCreate, cluster, Goto, OwnKey,
                            IInv, TypeInv, TypeOK
        <5> QED
          BY <5>1, <5>2
      <4> QED
        BY <4>1, <4>2
    <3> QED
      BY <3>1
  <2>3. ASSUME NEW p \in Procs, Return(p) \/ Crash(p) PROVE KeyInv'
    <3>1. ASSUME NEW q \in Procs PROVE raced'[q] \/ OwnKey(q)'
      <4> USE DEF Return, Crash, Exit, Goto, IInv, TypeInv, TypeOK
      <4>1. CASE q = p
        BY <2>3, <4>1 DEF OwnKey
      <4>2. CASE q # p
        <5>1. raced'[q] = raced[q]
          BY <2>3, <4>2
        <5>2. OwnKey(q) => OwnKey(q)'
          BY <2>3, <4>2 DEF OwnKey
        <5> QED
          BY <5>1, <5>2
      <4> QED
        BY <4>1, <4>2
    <3> QED
      BY <3>1
  <2>4. ASSUME NEW u \in Users, Sign(u) PROVE KeyInv'
    <3>1. [csr[u] EXCEPT !.state = "issued"].key = csr[u].key
      BY RecordFields DEF IInv, TypeInv, TypeOK
    <3>2. ASSUME NEW q \in Procs, OwnKey(q) PROVE OwnKey(q)'
      BY <2>4, <3>1, <3>2 DEF Sign, job, OwnKey, IInv, TypeInv, TypeOK
    <3>3. raced' = raced
      BY <2>4 DEF Sign, job
    <3> QED
      BY <3>2, <3>3
  <2>5. CASE UNCHANGED vars
    BY <2>5 DEF vars, job, OwnKey
  <2> QED
    BY <2>1, <2>2, <2>3, <2>4, <2>5 DEF Next
<1>3. KeyInv => CreatedKubeconfigIsUsable
  BY DEF KeyInv, OwnKey, CreatedKubeconfigIsUsable, Undisturbed
<1> QED
  BY <1>1, <1>2, <1>3, InvHolds, PTL DEF Spec

-----------------------------------------------------------------------------
(* Whose bindings a deletion can take *)

\* One of two names is the other or extends it at a dash, so that a binding's
\* name can begin with both.
Alike(u, v) == u = v \/ HasUserPrefix(u, v) \/ HasUserPrefix(v, u)

\* What a deletion has listed is named with the prefix of the user it deletes.
ListedOK ==
    \A p \in Procs : pc[p] = "unbind" =>
        \A b \in todo[p] : HasUserPrefix(b.name, user[p])

NameInv == TypeInv /\ NamesOK /\ ListedOK

(* Two users with whom one name begins have names that are alike.          *)
LEMMA PrefixesAreComparable ==
    ASSUME NEW n \in Seq(Parts), NEW u \in Users, NEW v \in Users,
           HasUserPrefix(n, u), HasUserPrefix(n, v)
    PROVE  Alike(u, v)
<1>1. ASSUME NEW x \in Seq(Parts), NEW y \in Seq(Parts), Len(x) <= Len(y),
             HasUserPrefix(n, x), HasUserPrefix(n, y)
      PROVE  x = y \/ HasUserPrefix(y, x)
  <2>1. /\ Len(x) \in Nat /\ Len(y) \in Nat /\ Len(n) \in Nat
        /\ Len(x) < Len(n) /\ Len(y) < Len(n)
    BY <1>1 DEF HasUserPrefix
  <2>2. \A i \in 1..Len(x) : x[i] = SubSeq(n, 1, Len(x))[i]
    BY <1>1 DEF HasUserPrefix
  <2>3. \A i \in 1..Len(y) : y[i] = SubSeq(n, 1, Len(y))[i]
    BY <1>1 DEF HasUserPrefix
  <2>4. \A i \in 1..Len(x) : SubSeq(n, 1, Len(x))[i] = n[i]
    BY <2>1
  <2>5. \A i \in 1..Len(y) : SubSeq(n, 1, Len(y))[i] = n[i]
    BY <2>1
  <2>6. \A i \in 1..Len(x) : x[i] = y[i]
    BY <1>1, <2>1, <2>2, <2>3, <2>4, <2>5
  <2>7. CASE Len(x) = Len(y)
    BY <1>1, <2>6, <2>7, SeqEqual
  <2>8. CASE Len(x) < Len(y)
    <3> DEFINE h == SubSeq(y, 1, Len(x))
    <3>1. h \in Seq(Parts) /\ Len(h) = Len(x) /\ \A i \in 1..Len(x) : h[i] = y[i]
      BY <1>1, <2>1, <2>8
    <3> HIDE DEF h
    <3>2. h = x
      BY <1>1, <2>6, <3>1, SeqEqual
    <3> QED
      BY <2>8, <3>2 DEF HasUserPrefix, h
  <2> QED
    BY <1>1, <2>1, <2>7, <2>8
<1>2. u \in Seq(Parts) /\ v \in Seq(Parts) /\ Len(u) \in Nat /\ Len(v) \in Nat
  BY ConstantsAssumption
<1>3. Len(u) <= Len(v) \/ Len(v) <= Len(u)
  BY <1>2
<1> QED
  BY <1>1, <1>2, <1>3 DEF Alike

LEMMA NameStep == NameInv /\ [Next]_vars => NameInv'
<1> SUFFICES ASSUME NameInv, [Next]_vars PROVE NameInv'
  OBVIOUS
<1>0. TypeInv'
  BY TypeStep DEF NameInv
<1> USE DEF NameInv
<1>1. ASSUME NEW p \in Procs, Step(p) PROVE NameInv'
  <2>1. NamesOK'
    BY <1>1, StepFootprint DEF NamesOK
  <2>2. ASSUME NEW q \in Procs, pc'[q] = "unbind", NEW b \in todo'[q]
        PROVE  HasUserPrefix(b.name, user'[q])
    <3>1. CASE q # p
      BY <1>1, <2>2, <3>1, StepFootprint DEF ListedOK
    <3>2. CASE q = p /\ (Unbind(p) \/ ListNamespacesFails(p))
      BY <2>2, <3>2
      DEF Unbind, ListNamespacesFails, ListedOK, job, TypeInv, TypeOK
    <3>3. CASE q = p /\ ListBindings(p)
      <4>1. PICK s \in NextScopes(p) : todo' = [todo EXCEPT ![p] = Matching(s, user[p])]
        BY <2>2, <3>3 DEF ListBindings, TypeInv, TypeOK, Flag, Goto
      <4> QED
        BY <2>2, <3>3, <4>1 DEF ListBindings, Matching, job, TypeInv, TypeOK
    <3>4. CASE q = p /\ ~(Unbind(p) \/ ListNamespacesFails(p) \/ ListBindings(p))
      BY <1>1, <2>2, <3>4
      DEF Step, GenerateKey, Submit, Approve, WaitForCertificate, WriteKubeconfig,
          BindClusterRole, BindRole, Bind, CleanupCsr, RollbackFiles, RollbackCsr,
          ScopeDone, BindingsDone, DeleteUserCsr, DeleteUserFiles, DeleteCsr,
          RemoveFiles, Goto, Abort, TypeInv, TypeOK
    <3> QED
      BY <3>1, <3>2, <3>3, <3>4
  <2> QED
    BY <1>0, <2>1, <2>2 DEF ListedOK
<1>2. ASSUME NEW p \in Procs, NEW u \in Users,
             StartDelete(p, u) \/ \E c \in Configs : StartCreate(p, u, c)
      PROVE  NameInv'
  BY <1>0, <1>2 DEF StartDelete, StartCreate, cluster, scan, Goto,
                    TypeInv, TypeOK, NamesOK, ListedOK
<1>3. ASSUME NEW p \in Procs, Return(p) \/ Crash(p) PROVE NameInv'
  BY <1>0, <1>3 DEF Return, Crash, Exit, Goto, TypeInv, TypeOK, NamesOK,
                    ListedOK
<1>4. ASSUME NEW u \in Users, Sign(u) PROVE NameInv'
  BY <1>0, <1>4 DEF Sign, job, scan, NamesOK, ListedOK
<1>5. CASE UNCHANGED vars
  BY <1>0, <1>5 DEF vars, job, scan, NamesOK, ListedOK
<1> QED
  BY <1>1, <1>2, <1>3, <1>4, <1>5 DEF Next

(* What disappears, an Unbind for a user takes whose name it begins with.   *)
LEMMA TakenByName ==
    ASSUME NameInv, Next, NEW c \in bindings \ bindings'
    PROVE  \E p \in Procs : /\ pc[p] = "unbind" /\ user[p] \in Users
                            /\ HasUserPrefix(c.name, user[p])
                            /\ c.user # None => Alike(user[p], c.user)
<1>1. c \in Binding
  BY DEF NameInv, TypeInv, TypeOK
<1>2. PICK p \in Procs : Unbind(p)
  BY DEF Next, Step, StartDelete, StartCreate, Return, Crash, Exit, Sign,
     GenerateKey, Submit, Approve, WaitForCertificate, WriteKubeconfig,
     BindClusterRole, BindRole, Bind, Bound, CleanupCsr, RollbackFiles,
     RollbackCsr, ListBindings, ListNamespacesFails, ScopeDone, BindingsDone,
     DeleteUserCsr, DeleteUserFiles, DeleteCsr, RemoveFiles, cluster
<1>3. PICK b \in todo[p] : c.name = b.name
  BY <1>2 DEF Unbind
<1>4. pc[p] = "unbind" /\ user[p] \in Users /\ HasUserPrefix(c.name, user[p])
  BY <1>2, <1>3 DEF Unbind, NameInv, ListedOK, TypeInv, JobOK
<1>5. ASSUME c.user # None PROVE Alike(user[p], c.user)
  <2>1. c.user \in Users /\ c.name \in Seq(Parts)
    BY <1>1, <1>5 DEF Binding, Subjects
  <2>2. HasUserPrefix(c.name, c.user)
    BY <2>1 DEF NameInv, NamesOK
  <2> QED
    BY <1>4, <2>1, <2>2, PrefixesAreComparable
<1> QED
  BY <1>4, <1>5

LEMMA NameHolds == Spec => []NameInv
<1>1. Init => NameInv
  BY InitTypes, ConstantsAssumption DEF Init, NameInv, NamesOK, ListedOK
<1> QED
  BY <1>1, NameStep, PTL DEF Spec

(* Whatever the users are called and however commands interleave, a binding *)
(* disappears only by a DeleteUser of a user with whose name and a dash the *)
(* binding's own name begins; if it is a user's, of that user or of one     *)
(* whose name is like that user's: no other command of the tool can take it. *)
THEOREM DeleteTakesOnlyAlike ==
    Spec => [][\A b \in bindings \ bindings' :
                 \E p \in Procs : /\ pc[p] = "unbind"
                                  /\ HasUserPrefix(b.name, user[p])
                                  /\ b.user # None => Alike(user[p], b.user)]_vars
<1>1. NameInv /\ [Next]_vars =>
         [\A b \in bindings \ bindings' :
             \E p \in Procs : /\ pc[p] = "unbind"
                              /\ HasUserPrefix(b.name, user[p])
                              /\ b.user # None => Alike(user[p], b.user)]_vars
  BY TakenByName
<1> QED
  BY <1>1, NameHolds, PTL DEF Spec

-----------------------------------------------------------------------------
(* What a create that ends well has bound *)

\* A binding is another tool's, or named after its user and role.
NamedOK ==
    \A b \in bindings : \/ b \in Foreign
                        \/ /\ b.user \in Users /\ b.role \in Roles
                           /\ b.name = BindingName(b.user, b.role)

\* No other user is called like u.
Apart(u) == \A v \in Users : Alike(u, v) => v = u

\* Under the name asked for there is a binding in scope s, and it is of the user
\* of p and role r unless another tool brought it.
HasBinding(p, s, r) ==
    \E b \in bindings : /\ b.scope = s /\ b.name = BindingName(user[p], r)
                        /\ b \in Foreign \/ (b.user = user[p] /\ b.role = r)

\* A running create has the bindings it has made or found.
Granted(p) ==
    /\ pc[p] \in {"rb", "tidy", "created"} /\ cfg[p].cluster # None =>
          HasBinding(p, Cluster, cfg[p].cluster)
    /\ pc[p] \in {"tidy", "created"} /\ cfg[p].role # None =>
          HasBinding(p, cfg[p].ns, cfg[p].role)

GrantInv ==
    /\ NameInv /\ RivalsRaced /\ NamedOK
    /\ \A p \in Procs : ~raced[p] /\ Apart(user[p]) => Granted(p)

(* Of a user nobody else is called like, the name of a binding tells the   *)
(* role, and whose it is.                                                  *)
LEMMA NamesAreUnique ==
    ASSUME NEW u \in Users, NEW v \in Users, NEW r \in Roles, NEW t \in Roles,
           Apart(u), BindingName(u, r) = BindingName(v, t)
    PROVE  u = v /\ r = t
<1>1. u = v
  BY BindingNameHasPrefix, PrefixesAreComparable DEF Apart
<1>2. u \in Seq(Parts) /\ r \in Seq(Parts) /\ t \in Seq(Parts) /\ Suffix \in Parts
  BY ConstantsAssumption
<1>3. ASSUME NEW x \in Seq(Parts), NEW n, n = Append(u \o x, Suffix)
      PROVE  /\ Len(n) = Len(u) + Len(x) + 1
             /\ \A i \in 1..Len(x) : n[Len(u) + i] = x[i]
  <2> DEFINE w == u \o x
  <2>1. /\ w \in Seq(Parts) /\ Len(w) = Len(u) + Len(x)
        /\ Len(u) \in Nat /\ Len(x) \in Nat
        /\ \A i \in 1..Len(x) : w[Len(u) + i] = x[i]
    BY <1>2
  <2> HIDE DEF w
  <2>2. Len(Append(w, Suffix)) = Len(w) + 1 /\ \A i \in 1..Len(w) : Append(w, Suffix)[i] = w[i]
    BY <1>2, <2>1, AppendProperties
  <2>3. \A i \in 1..Len(x) : Len(u) + i \in 1..Len(w)
    BY <2>1
  <2> QED
    BY <1>3, <2>1, <2>2, <2>3 DEF w
<1>4. Append(u \o r, Suffix) = Append(u \o t, Suffix)
  BY <1>1 DEF BindingName
<1>5. Len(r) = Len(t)
  <2>1. Len(u) + Len(r) + 1 = Len(u) + Len(t) + 1
    BY <1>2, <1>3, <1>4
  <2>2. Len(u) \in Nat /\ Len(r) \in Nat /\ Len(t) \in Nat
    BY <1>2
  <2> QED
    BY <2>1, <2>2
<1>6. \A i \in 1..Len(r) : r[i] = t[i]
  <2> DEFINE n == Append(u \o r, Suffix)
  <2>1. \A i \in 1..Len(r) : n[Len(u) + i] = r[i]
    BY <1>2, <1>3
  <2>2. \A i \in 1..Len(t) : n[Len(u) + i] = t[i]
    BY <1>2, <1>3, <1>4
  <2> HIDE DEF n
  <2> QED
    BY <1>5, <2>1, <2>2
<1> QED
  BY <1>1, <1>2, <1>5, <1>6, SeqEqual

(* What a Create call leaves, also when it "already exists".               *)
LEMMA BoundGrants ==
    ASSUME TypeInv, NamedOK, NEW p \in Procs, pc[p] \in CreateSteps, Apart(user[p]),
           NEW s \in Scopes, NEW r \in Roles
    PROVE  \E b \in Bound(p, s, r) :
               /\ b.scope = s /\ b.name = BindingName(user[p], r)
               /\ b \in Foreign \/ (b.user = user[p] /\ b.role = r)
<1>1. user[p] \in Users
  BY DEF TypeInv, JobOK, CreateSteps
<1>2. CASE Exists(s, BindingName(user[p], r))
  <2>1. PICK b \in bindings : b.scope = s /\ b.name = BindingName(user[p], r)
    BY <1>2 DEF Exists
  <2>2. b \in Foreign \/ (b.user = user[p] /\ b.role = r)
    BY <1>1, <2>1, NamesAreUnique DEF NamedOK
  <2> QED
    BY <1>2, <2>1, <2>2 DEF Bound
<1>3. CASE ~Exists(s, BindingName(user[p], r))
  BY <1>3, BoundType DEF Bound
<1> QED
  BY <1>2, <1>3

(* No other command takes what a create has bound that nobody races, when  *)
(* nobody else is called like its user.                                    *)
LEMMA GrantsStay ==
    ASSUME NameInv, RivalsRaced, Next, NEW p \in Procs, ~raced[p], Apart(user[p]),
           pc[p] \in {"rb", "tidy", "created"}, NEW r \in Roles,
           NEW b \in bindings, b.name = BindingName(user[p], r)
    PROVE  b \in bindings'
<1> SUFFICES ASSUME b \notin bindings' PROVE FALSE
  OBVIOUS
<1>1. PICK q \in Procs : /\ pc[q] = "unbind" /\ user[q] \in Users
                         /\ HasUserPrefix(b.name, user[q])
  BY TakenByName
<1>2. user[p] \in Users
  BY DEF NameInv, TypeInv, JobOK, CreateSteps
<1>3. Alike(user[p], user[q])
  BY <1>1, <1>2, BindingNameHasPrefix, PrefixesAreComparable
<1>4. user[q] = user[p]
  BY <1>1, <1>3 DEF Apart
<1> QED
  BY <1>1, <1>4 DEF RivalsRaced

(* A binding the create has made or found is still there after any step.   *)
LEMMA HeldStays ==
    ASSUME NameInv, RivalsRaced, Next, NEW p \in Procs, ~raced[p], Apart(user[p]),
           pc[p] \in {"rb", "tidy", "created"}, user'[p] = user[p],
           NEW s, NEW r \in Roles, HasBinding(p, s, r)
    PROVE  HasBinding(p, s, r)'
<1>1. PICK b \in bindings :
          /\ b.scope = s /\ b.name = BindingName(user[p], r)
          /\ b \in Foreign \/ (b.user = user[p] /\ b.role = r)
  BY DEF HasBinding
<1>2. b \in bindings'
  BY <1>1, GrantsStay
<1> QED
  BY <1>1, <1>2 DEF HasBinding

LEMMA GrantOwnStep ==
    ASSUME GrantInv, NEW p \in Procs, Step(p), ~raced[p], Apart(user[p])
    PROVE  Granted(p)'
<1>1. Next
  BY DEF Next
<1>2. Granted(p) /\ user' = user /\ cfg' = cfg
  BY StepFootprint DEF GrantInv, NameInv
<1> USE DEF GrantInv, NameInv, TypeInv, TypeOK, job, cluster, Goto, Abort
<1>3. CASE BindClusterRole(p)
  <2>1. CASE pc'[p] = "rb" /\ cfg[p].cluster # None
    <3>1. /\ cfg[p].cluster \in Roles /\ pc[p] \in CreateSteps
          /\ bindings' = Bound(p, Cluster, cfg[p].cluster)
      BY <1>3, <2>1, ConstantsAssumption
      DEF BindClusterRole, Bind, JobOK, CreateSteps, Config
    <3>2. HasBinding(p, Cluster, cfg[p].cluster)'
      <4>1. Cluster \in Scopes
        BY DEF Scopes
      <4> QED
        BY <1>2, <3>1, <4>1, BoundGrants DEF HasBinding
    <3> QED
      BY <1>2, <2>1, <3>2 DEF Granted
  <2>2. CASE ~(pc'[p] = "rb" /\ cfg[p].cluster # None)
    BY <1>2, <1>3, <2>2 DEF BindClusterRole, Bind, Granted
  <2> QED
    BY <2>1, <2>2
<1>4. CASE BindRole(p)
  <2>1. CASE pc'[p] = "tidy"
    <3>1. /\ pc[p] = "rb" /\ pc[p] \in CreateSteps /\ cfg[p].ns \in Scopes
          /\ cfg[p].role \in Roles \cup {None}
          /\ bindings' = IF cfg[p].role = None THEN bindings
                         ELSE Bound(p, cfg[p].ns, cfg[p].role)
      BY <1>4, <2>1, ConstantsAssumption
      DEF BindRole, Bind, JobOK, CreateSteps, Config, Scopes
    <3>2. cfg[p].role # None => HasBinding(p, cfg[p].ns, cfg[p].role)'
      BY <1>2, <3>1, BoundGrants DEF HasBinding
    <3>3. cfg[p].cluster # None => HasBinding(p, Cluster, cfg[p].cluster)'
      BY <1>1, <1>2, <3>1, HeldStays, ConstantsAssumption
      DEF Granted, JobOK, CreateSteps, Config
    <3> QED
      BY <1>2, <2>1, <3>2, <3>3 DEF Granted
  <2>2. CASE pc'[p] # "tidy"
    BY <1>2, <1>4, <2>2 DEF BindRole, Bind, Granted
  <2> QED
    BY <2>1, <2>2
<1>5. CASE CleanupCsr(p)
  <2>1. pc[p] = "tidy" /\ pc'[p] = "created" /\ bindings' = bindings
    BY <1>5 DEF CleanupCsr, DeleteCsr
  <2> QED
    BY <1>2, <2>1 DEF Granted, HasBinding
<1>6. CASE ~(BindClusterRole(p) \/ BindRole(p) \/ CleanupCsr(p))
  <2>1. pc'[p] \notin {"rb", "tidy", "created"}
    BY <1>6
    DEF Step, GenerateKey, Submit, Approve, WaitForCertificate, WriteKubeconfig,
        RollbackFiles, RollbackCsr, ListBindings, ListNamespacesFails, Unbind,
        ScopeDone, BindingsDone, DeleteUserCsr, DeleteUserFiles, DeleteCsr, RemoveFiles
  <2> QED
    BY <2>1 DEF Granted
<1> QED
  BY <1>3, <1>4, <1>5, <1>6

LEMMA GrantStep == GrantInv /\ IInv' /\ [Next]_vars => GrantInv'
<1> SUFFICES ASSUME GrantInv, IInv', [Next]_vars PROVE GrantInv'
  OBVIOUS
<1>0. NameInv' /\ RivalsRaced'
  BY NameStep DEF GrantInv, IInv
<1> USE DEF GrantInv
<1>1. ASSUME NEW p \in Procs, Step(p) PROVE GrantInv'
  <2>1. raced' = raced /\ user' = user /\ cfg' = cfg /\ pc[p] # "idle"
    BY <1>1, StepFootprint DEF NameInv
  <2>2. NamedOK'
    <3>1. user[p] \in Users
      BY <2>1 DEF NameInv, TypeInv, JobOK
    <3> QED
      BY <1>1, <3>1, StepFootprint DEF NameInv, NamedOK
  <2>3. ASSUME NEW q \in Procs, q # p, ~raced[q], Apart(user[q]) PROVE Granted(q)'
    <3>1. pc'[q] = pc[q] /\ Granted(q) /\ Next
      BY <1>1, <2>3, StepFootprint DEF NameInv, Next
    <3>2. CASE pc[q] \in {"rb", "tidy", "created"}
      <4>1. cfg[q].cluster \in Roles \cup {None} /\ cfg[q].role \in Roles \cup {None}
        BY <3>2, ConstantsAssumption DEF NameInv, TypeInv, JobOK, CreateSteps, Config
      <4> QED
        BY <2>1, <2>3, <3>1, <3>2, <4>1, HeldStays DEF Granted
    <3> QED
      BY <3>1, <3>2 DEF Granted
  <2> QED
    BY <1>0, <1>1, <2>1, <2>2, <2>3, GrantOwnStep
<1>2. ASSUME NEW p \in Procs, NEW u \in Users,
             StartDelete(p, u) \/ \E c \in Configs : StartCreate(p, u, c)
      PROVE  GrantInv'
  <2> USE DEF StartDelete, StartCreate, cluster, Goto, NameInv, TypeInv, TypeOK
  <2>1. NamedOK'
    BY <1>2 DEF NamedOK
  <2>2. ASSUME NEW q \in Procs PROVE ~raced'[q] /\ Apart(user'[q]) => Granted(q)'
    <3>1. CASE q = p
      BY <1>2, <3>1 DEF Granted
    <3>2. CASE q # p
      <4>1. ~raced'[q] => ~raced[q]
        BY <1>2, <3>2, StartMeets
      <4>2. /\ pc'[q] = pc[q] /\ user'[q] = user[q] /\ cfg'[q] = cfg[q]
            /\ bindings' = bindings
        BY <1>2, <3>2
      <4> QED
        BY <4>1, <4>2 DEF Granted, HasBinding
    <3> QED
      BY <3>1, <3>2
  <2> QED
    BY <1>0, <2>1, <2>2
<1>3. ASSUME NEW p \in Procs, Return(p) \/ Crash(p) PROVE GrantInv'
  <2> USE DEF Return, Crash, Exit, Goto, NameInv, TypeInv, TypeOK
  <2>1. NamedOK'
    BY <1>3 DEF NamedOK
  <2>2. ASSUME NEW q \in Procs PROVE ~raced'[q] /\ Apart(user'[q]) => Granted(q)'
    <3>1. CASE q = p
      BY <1>3, <3>1 DEF Granted
    <3>2. CASE q # p
      <4>1. raced'[q] = raced[q]
        BY <1>3, <3>2
      <4>2. /\ pc'[q] = pc[q] /\ user'[q] = user[q] /\ cfg'[q] = cfg[q]
            /\ bindings' = bindings
        BY <1>3, <3>2
      <4> QED
        BY <4>1, <4>2 DEF Granted, HasBinding
    <3> QED
      BY <3>1, <3>2
  <2> QED
    BY <1>0, <2>1, <2>2
<1>4. ASSUME UNCHANGED <<bindings, pc, job>> PROVE GrantInv'
  BY <1>0, <1>4 DEF job, NamedOK, Granted, HasBinding
<1>5. ASSUME NEW u \in Users, Sign(u) PROVE GrantInv'
  BY <1>4, <1>5 DEF Sign
<1>6. CASE UNCHANGED vars
  BY <1>4, <1>6 DEF vars
<1> QED
  BY <1>1, <1>2, <1>3, <1>5, <1>6 DEF Next

(* Of a user nobody else is called like, a CreateUser nobody raced that     *)
(* reports success leaves, for each role asked for, a binding under the name *)
(* it has made or found; and that one binds this user to that role unless   *)
(* another tool had put it there: other users' bindings and other users'    *)
(* deletions do not matter, whatever those are called.                      *)
THEOREM CreateGrants ==
    Spec => [](\A p \in Procs : Undisturbed(p, "created") /\ Apart(user[p]) =>
                  /\ cfg[p].cluster # None => HasBinding(p, Cluster, cfg[p].cluster)
                  /\ cfg[p].role # None => HasBinding(p, cfg[p].ns, cfg[p].role))
<1> DEFINE Grants ==
        \A p \in Procs : Undisturbed(p, "created") /\ Apart(user[p]) =>
            /\ cfg[p].cluster # None => HasBinding(p, Cluster, cfg[p].cluster)
            /\ cfg[p].role # None => HasBinding(p, cfg[p].ns, cfg[p].role)
<1>1. NameInv /\ IInv /\ Init => GrantInv
  BY DEF Init, IInv, GrantInv, NamedOK, Granted
<1>2. GrantInv => Grants
  BY DEF GrantInv, Granted, Undisturbed
<1> HIDE DEF Grants
<1>3. Spec => []Grants
  BY <1>1, <1>2, GrantStep, NameHolds, InvHolds, PTL DEF Spec
<1> QED
  BY <1>3 DEF Grants
=============================================================================
