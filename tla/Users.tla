------------------------------- MODULE Users -------------------------------
(***************************************************************************)
(* The `user` commands (internal/user, cmd/user.go): client-certificate    *)
(* users of a cluster, kept in three places that no transaction spans:     *)
(*   disk      the artifact directory of each user (store.go)              *)
(*   csr       the CertificateSigningRequest "<user>-csr" of each user     *)
(*   bindings  the ClusterRoleBindings and RoleBindings of the cluster     *)
(* Several commands may run at once (Procs), every API call may fail, with *)
(* or without having taken effect (apiCtx gives up after 15 s), every file *)
(* operation may fail, and a command may be killed between any two calls.  *)
(*                                                                         *)
(* A name is the sequence of its parts between dashes: "dev-1" is          *)
(* <<"dev","1">>, so that formatting "<user>-<role>-binding" is            *)
(* concatenation and strings.HasPrefix(name, user+"-") is a strict prefix. *)
(***************************************************************************)
EXTENDS Integers, Sequences

CONSTANTS
    Parts,        \* the parts between dashes that names are made of
    Suffix,       \* the part "binding" every binding's name ends with
    Procs,        \* command invocations that can be running
    Users,        \* user names, sequences of name parts
    Roles,        \* role names, sequences of name parts
    Groups,       \* groups a certificate and a binding may name
    Namespaces,   \* the namespaces of the cluster
    Configs,      \* the flag combinations `user create` is run with
    Foreign,      \* bindings other tools put in the cluster
    Exclusive,    \* TRUE when operators never run two commands on one user
    MaxKeys,      \* bound: keys generated in a behaviour
    Cluster,      \* the scope of ClusterRoleBindings
    None          \* no role, no user: a flag not given, a binding of no user

Scopes == Namespaces \cup {Cluster}
Subjects == Users \cup {None}
Config == [groups : SUBSET Groups, cluster : Roles \cup {None},
           role : Roles \cup {None}, ns : Namespaces]

ASSUME ConstantsAssumption ==
    /\ Exclusive \in BOOLEAN
    /\ MaxKeys \in Nat
    /\ Suffix \in Parts
    /\ None \notin Users /\ None \notin Roles
    /\ Cluster \notin Namespaces
    /\ Configs \subseteq Config
    /\ \A n \in Users \cup Roles : n \in Seq(Parts) /\ n # <<>>
    /\ Foreign \subseteq [scope : Scopes, name : Seq(Parts), role : Roles,
                          user : {None}, groups : SUBSET Groups]

VARIABLES
    disk,      \* disk[u]: ids of the key, of the key the certificate is for,
               \* and the pair a kubeconfig embeds (0: no such file)
    csr,       \* csr[u]: key of the request in the cluster (0: none) and progress
    bindings,  \* the role bindings of the cluster
    keys,      \* keys generated so far; a key's id is its number
    pc,        \* pc[p]: the call command p makes next
    user,      \* user[p]: the user p was started for
    cfg,       \* cfg[p]: the flags of a `user create`
    raced,     \* raced[p]: another command on p's user ran while p did (history)
    key,       \* key[p]: the key p generated (in memory)
    left,      \* left[p]: scopes DeleteForUser has not listed yet
    todo,      \* todo[p]: listed bindings DeleteForUser has not deleted yet
    err        \* err[p]: p met an error it reports (or warns of) at its end

cluster == <<csr, bindings>>
job == <<user, cfg, raced>>
scan == <<left, todo>>
vars == <<disk, csr, bindings, keys, pc, job, key, scan, err>>

Artifacts == [key : Nat, cert : Nat, kcKey : Nat, kcCert : Nat]
Request == [key : Nat, state : {"none", "pending", "approved", "issued"}]

Empty == [key |-> 0, cert |-> 0, kcKey |-> 0, kcCert |-> 0]
NoCsr == [key |-> 0, state |-> "none"]

CreateSteps == {"key", "submit", "approve", "wait", "kubeconfig", "crb", "rb",
                "tidy", "undoFiles", "undoCsr", "created", "failed", "rejected"}
DeleteSteps == {"list", "unbind", "delCsr", "delFiles", "deleted", "partial"}
Finished == {"created", "failed", "rejected", "deleted", "partial"}

Binding == [scope : Scopes, name : Seq(Parts), role : Roles,
            user : Subjects, groups : SUBSET Groups]

(* Each variable holds a value of the shape the code gives it.             *)
TypeOK ==
    /\ disk \in [Users -> Artifacts]
    /\ csr \in [Users -> Request]
    /\ bindings \subseteq Binding
    /\ keys \in Nat
    /\ pc \in [Procs -> CreateSteps \cup DeleteSteps \cup {"idle"}]
    /\ user \in [Procs -> Subjects]
    /\ cfg \in [Procs -> Configs \cup {None}]
    /\ raced \in [Procs -> BOOLEAN]
    /\ key \in [Procs -> Nat]
    /\ left \in [Procs -> SUBSET Scopes]
    /\ todo \in [Procs -> SUBSET Binding]
    /\ err \in [Procs -> BOOLEAN]

-----------------------------------------------------------------------------
(* Names and bindings *)

BindingName(u, r) == Append(u \o r, Suffix)

\* Mutant of HasUserPrefix: strings.Contains instead of HasPrefix.
HasUserPart(name, u) ==
    \E i \in 1..Len(name) : /\ i + Len(u) <= Len(name)
                            /\ SubSeq(name, i, i + Len(u) - 1) = u

\* strings.HasPrefix(name, u + "-")
HasUserPrefix(name, u) == Len(u) < Len(name) /\ SubSeq(name, 1, Len(u)) = u

Matching(s, u) == {b \in bindings : b.scope = s /\ HasUserPrefix(b.name, u)}

NewBinding(p, s, r) ==
    [scope |-> s, name |-> BindingName(user[p], r), role |-> r,
     user |-> user[p], groups |-> cfg[p].groups]

Exists(s, n) == \E b \in bindings : b.scope = s /\ b.name = n

\* The bindings after a Create call: what exists already stays as it is.
Bound(p, s, r) ==
    IF Exists(s, BindingName(user[p], r)) THEN bindings
    ELSE bindings \cup {NewBinding(p, s, r)}

Goto(p, step) == pc' = [pc EXCEPT ![p] = step]
Flag(p) == err' = [err EXCEPT ![p] = TRUE]

Init ==
    /\ disk = [u \in Users |-> Empty]
    /\ csr = [u \in Users |-> NoCsr]
    /\ bindings = Foreign
    /\ keys = 0
    /\ pc = [p \in Procs |-> "idle"]
    /\ user = [p \in Procs |-> None]
    /\ cfg = [p \in Procs |-> None]
    /\ raced = [p \in Procs |-> FALSE]
    /\ key = [p \in Procs |-> 0]
    /\ left = [p \in Procs |-> {}]
    /\ todo = [p \in Procs |-> {}]
    /\ err = [p \in Procs |-> FALSE]

-----------------------------------------------------------------------------
(* The operator *)

\* The commands on user u; one that has returned counts until its terminal is
\* used again.
Rivals(u) == {q \in Procs : pc[q] # "idle" /\ user[q] = u}

\* A command on u comes to those there are.
Meet(p, u) ==
    /\ Exclusive => Rivals(u) = {}
    /\ raced' = [q \in Procs |-> IF q = p THEN Rivals(u) # {}
                                ELSE raced[q] \/ q \in Rivals(u)]

\* `user create u` with flags c. Refused by validateUsername or validateGroups,
\* or by a failing MkdirAll, it returns before the rollback is deferred.
StartCreate(p, u, c) ==
    /\ pc[p] = "idle" /\ Meet(p, u) /\ keys < MaxKeys
    /\ user' = [user EXCEPT ![p] = u]
    /\ cfg' = [cfg EXCEPT ![p] = c]
    /\ err' = [err EXCEPT ![p] = FALSE]
    /\ Goto(p, "key") \/ Goto(p, "rejected")
    /\ UNCHANGED <<disk, cluster, keys, key, scan>>

\* `user delete u`
StartDelete(p, u) ==
    /\ pc[p] = "idle" /\ Meet(p, u)
    /\ user' = [user EXCEPT ![p] = u]
    /\ left' = [left EXCEPT ![p] = Scopes]
    /\ todo' = [todo EXCEPT ![p] = {}]
    /\ err' = [err EXCEPT ![p] = FALSE]
    /\ Goto(p, "list")
    /\ UNCHANGED <<disk, cluster, keys, cfg, key>>

\* The process is gone and its memory with it.
Exit(p) ==
    /\ Goto(p, "idle")
    /\ user' = [user EXCEPT ![p] = None]
    /\ cfg' = [cfg EXCEPT ![p] = None]
    /\ raced' = [raced EXCEPT ![p] = FALSE]
    /\ key' = [key EXCEPT ![p] = 0]
    /\ left' = [left EXCEPT ![p] = {}]
    /\ todo' = [todo EXCEPT ![p] = {}]
    /\ err' = [err EXCEPT ![p] = FALSE]
    /\ UNCHANGED <<disk, csr, bindings, keys>>

\* The command has returned; its terminal is free for the next one.
Return(p) == pc[p] \in Finished /\ Exit(p)

\* The process is killed: no deferred rollback runs.
Crash(p) == pc[p] \notin Finished \cup {"idle"} /\ Exit(p)

-----------------------------------------------------------------------------
(* CreateUser *)

\* An error return after MkdirAll: the deferred rollbackUser takes over.
Abort(p, step) ==
    /\ pc[p] = step
    /\ Goto(p, "undoFiles")

\* GenerateKey, the key file (overwriting an earlier one), CreateCSR.
GenerateKey(p) ==
    /\ pc[p] = "key"
    /\ keys' = keys + 1
    /\ key' = [key EXCEPT ![p] = keys + 1]
    /\ \/ /\ disk' = [disk EXCEPT ![user[p]].key = keys + 1]
          /\ Goto(p, "submit")
       \/ Abort(p, "key") /\ UNCHANGED disk
    /\ UNCHANGED <<cluster, job, scan, err>>

\* Mutant of Submit: an existing request is kept, as existing bindings are.
SubmitUnlessPresent(p) ==
    LET u == user[p]
        new == [key |-> key[p], state |-> "pending"]
    IN /\ pc[p] = "submit"
       /\ \/ /\ csr' = IF csr[u] = NoCsr THEN [csr EXCEPT ![u] = new] ELSE csr
             /\ Goto(p, "approve")
          \/ UNCHANGED csr /\ Abort(p, "submit")
       /\ UNCHANGED <<disk, bindings, keys, job, key, scan, err>>

\* Delete the old request, ignoring the result, and create the new one.
Submit(p) ==
    LET u == user[p]
        new == [key |-> key[p], state |-> "pending"]
    IN /\ pc[p] = "submit"
       /\ \/ csr' = [csr EXCEPT ![u] = new] /\ Goto(p, "approve")
          \/ /\ \E left_behind \in {csr[u], NoCsr, new} :
                   csr' = [csr EXCEPT ![u] = left_behind]
             /\ Abort(p, "submit")
       /\ UNCHANGED <<disk, bindings, keys, job, key, scan, err>>

\* Mutant of WithApproval: the condition appended is not Approved.
WithDenial(r) ==
    IF r.state = "pending" THEN [r EXCEPT !.state = "denied"] ELSE r

WithApproval(r) ==
    IF r.state = "pending" THEN [r EXCEPT !.state = "approved"] ELSE r

\* Get the request by name, append the Approved condition, UpdateApproval.
Approve(p) ==
    LET u == user[p]
        Approved == /\ csr[u].state # "none"
                    /\ csr' = [csr EXCEPT ![u] = WithApproval(@)]
    IN /\ pc[p] = "approve"
       /\ \/ Approved /\ Goto(p, "wait")
          \/ (Approved \/ UNCHANGED csr) /\ Abort(p, "approve")
       /\ UNCHANGED <<disk, bindings, keys, job, key, scan, err>>

\* The cluster's signer issues the certificate of an approved request.
Sign(u) ==
    /\ csr[u].state = "approved"
    /\ csr' = [csr EXCEPT ![u].state = "issued"]
    /\ UNCHANGED <<disk, bindings, keys, pc, job, key, scan, err>>

\* Mutant of WaitForCertificate: it polls without a deadline.
WaitForever(p) ==
    /\ pc[p] = "wait" /\ csr[user[p]].state = "issued"
    /\ disk' = [disk EXCEPT ![user[p]].cert = csr[user[p]].key]
    /\ Goto(p, "kubeconfig")
    /\ UNCHANGED <<cluster, keys, job, key, scan, err>>

\* A poll of WaitForCertificate that finds the certificate; it is saved.
\* A Get error, the 30 s deadline and a failed write all end in the rollback.
WaitForCertificate(p) ==
    LET u == user[p]
    IN /\ pc[p] = "wait"
       /\ \/ /\ csr[u].state = "issued"
             /\ disk' = [disk EXCEPT ![u].cert = csr[u].key]
             /\ Goto(p, "kubeconfig")
          \/ Abort(p, "wait") /\ UNCHANGED disk
       /\ UNCHANGED <<cluster, keys, job, key, scan, err>>

\* The kubeconfig embeds the key and the certificate read back from disk.
WriteKubeconfig(p) ==
    LET u == user[p]
    IN /\ pc[p] = "kubeconfig"
       /\ \/ /\ disk[u].key # 0 /\ disk[u].cert # 0
             /\ disk' = [disk EXCEPT ![u].kcKey = disk[u].key,
                                     ![u].kcCert = disk[u].cert]
             /\ Goto(p, "crb")
          \/ Abort(p, "kubeconfig") /\ UNCHANGED disk
       /\ UNCHANGED <<cluster, keys, job, key, scan, err>>

\* Mutant of Bind: every error is taken for "already exists".
BindIgnoringErrors(p, step, s, r, next) ==
    /\ pc[p] = step
    /\ bindings' \in {bindings, IF r = None THEN bindings ELSE Bound(p, s, r)}
    /\ Goto(p, next)
    /\ UNCHANGED <<disk, csr, keys, job, key, scan, err>>

\* One Create call of applyRBAC. "already exists" counts as success.
Bind(p, step, s, r, next) ==
    /\ pc[p] = step
    /\ \/ /\ bindings' = IF r = None THEN bindings ELSE Bound(p, s, r)
          /\ Goto(p, next)
       \/ /\ r # None
          /\ bindings' \in {bindings, Bound(p, s, r)}
          /\ Abort(p, step)
    /\ UNCHANGED <<disk, csr, keys, job, key, scan, err>>

BindClusterRole(p) == Bind(p, "crb", Cluster, cfg[p].cluster, "rb")
BindRole(p) == Bind(p, "rb", cfg[p].ns, cfg[p].role, "tidy")

\* certs.Delete: NotFound is success; a lost answer is an error.
DeleteCsr(p, next) ==
    LET gone == [csr EXCEPT ![user[p]] = NoCsr]
    IN /\ Goto(p, next)
       /\ \/ csr' = gone /\ UNCHANGED err
          \/ csr' \in {csr, gone} /\ Flag(p)
       /\ UNCHANGED <<disk, bindings, keys, job, key, scan>>

\* store.Remove: a failing RemoveAll may have removed some of the files.
RemoveFiles(p, next) ==
    LET old == disk[user[p]]
        kubeconfigOnly == [Empty EXCEPT !.kcKey = old.kcKey, !.kcCert = old.kcCert]
    IN /\ Goto(p, next)
       /\ \/ disk' = [disk EXCEPT ![user[p]] = Empty] /\ UNCHANGED err
          \/ /\ \E remains \in {Empty, kubeconfigOnly, old} :
                   disk' = [disk EXCEPT ![user[p]] = remains]
             /\ Flag(p)
       /\ UNCHANGED <<cluster, keys, job, key, scan>>

CleanupCsr(p) == pc[p] = "tidy" /\ DeleteCsr(p, "created")

\* Mutant of RollbackFiles: the rollback forgets the request in the cluster.
RollbackFilesOnly(p) == pc[p] = "undoFiles" /\ RemoveFiles(p, "failed")

RollbackFiles(p) == pc[p] = "undoFiles" /\ RemoveFiles(p, "undoCsr")
RollbackCsr(p) == pc[p] = "undoCsr" /\ DeleteCsr(p, "failed")

-----------------------------------------------------------------------------
(* DeleteUser *)

\* The scopes that may be listed next: the cluster first, then namespaces.
NextScopes(p) == IF Cluster \in left[p] THEN {Cluster} ELSE left[p]

\* List the bindings of one scope and pick those named "<user>-...".
ListBindings(p) ==
    /\ pc[p] = "list"
    /\ \E s \in NextScopes(p) :
          /\ left' = [left EXCEPT ![p] = @ \ {s}]
          /\ \/ /\ todo' = [todo EXCEPT ![p] = Matching(s, user[p])]
                /\ Goto(p, "unbind") /\ UNCHANGED err
             \/ Flag(p) /\ UNCHANGED <<todo, pc>>
    /\ UNCHANGED <<disk, cluster, keys, job, key>>

\* Listing the namespaces fails: no RoleBinding is looked at.
ListNamespacesFails(p) ==
    /\ pc[p] = "list" /\ Cluster \notin left[p] /\ left[p] = Namespaces
    /\ left' = [left EXCEPT ![p] = {}]
    /\ Flag(p)
    /\ UNCHANGED <<disk, cluster, keys, pc, job, key, todo>>

\* Mutant of Unbind: a failed deletion is only logged.
UnbindIgnoringErrors(p) ==
    /\ pc[p] = "unbind"
    /\ \E b \in todo[p] :
          /\ todo' = [todo EXCEPT ![p] = @ \ {b}]
          /\ bindings' \in {bindings, bindings \ {b}}
    /\ UNCHANGED <<disk, csr, keys, pc, job, key, left, err>>

\* Delete one listed binding; one that is gone answers NotFound, an error.
Unbind(p) ==
    /\ pc[p] = "unbind"
    /\ \E b \in todo[p] :
          LET rest == {c \in bindings : c.scope # b.scope \/ c.name # b.name}
          IN /\ todo' = [todo EXCEPT ![p] = @ \ {b}]
             /\ \/ /\ rest # bindings
                   /\ bindings' = rest /\ UNCHANGED err
                \/ bindings' \in {bindings, rest} /\ Flag(p)
    /\ UNCHANGED <<disk, csr, keys, pc, job, key, left>>

ScopeDone(p) ==
    /\ pc[p] = "unbind" /\ todo[p] = {}
    /\ Goto(p, "list")
    /\ UNCHANGED <<disk, cluster, keys, job, key, scan, err>>

BindingsDone(p) ==
    /\ pc[p] = "list" /\ left[p] = {}
    /\ Goto(p, "delCsr")
    /\ UNCHANGED <<disk, cluster, keys, job, key, scan, err>>

DeleteUserCsr(p) == pc[p] = "delCsr" /\ DeleteCsr(p, "delFiles")

\* Mutant of DeleteUserFiles: the joined errors are dropped.
DeleteUserFilesIgnoringErrors(p) ==
    pc[p] = "delFiles" /\ RemoveFiles(p, "deleted")

\* store.Remove, then the joined errors decide what DeleteUser returns.
DeleteUserFiles(p) ==
    /\ pc[p] = "delFiles"
    /\ \/ RemoveFiles(p, "deleted") /\ ~err'[p]
       \/ RemoveFiles(p, "partial") /\ err'[p]

-----------------------------------------------------------------------------
Step(p) ==
    \/ GenerateKey(p) \/ Submit(p) \/ Approve(p) \/ WaitForCertificate(p)
    \/ WriteKubeconfig(p) \/ BindClusterRole(p) \/ BindRole(p) \/ CleanupCsr(p)
    \/ RollbackFiles(p) \/ RollbackCsr(p)
    \/ ListBindings(p) \/ ListNamespacesFails(p) \/ Unbind(p) \/ ScopeDone(p)
    \/ BindingsDone(p) \/ DeleteUserCsr(p) \/ DeleteUserFiles(p)

Next ==
    \/ \E p \in Procs, u \in Users :
          StartDelete(p, u) \/ \E c \in Configs : StartCreate(p, u, c)
    \/ \E p \in Procs : Step(p) \/ Return(p) \/ Crash(p)
    \/ \E u \in Users : Sign(u)

Spec == Init /\ [][Next]_vars

\* A running command takes its next step: calls are bounded by apiCtx and the
\* certificate wait by its deadline. Operators and the signer owe nothing.
FairSpec == Spec /\ \A p \in Procs : WF_vars(Step(p))
-----------------------------------------------------------------------------
(* Properties *)

\* What a command promises at its end it promises to an operator who ran it
\* alone; what others did to the same user before, even two at once, does not
\* matter.
Undisturbed(p, outcome) == pc[p] = outcome /\ ~raced[p]

\* When CreateUser returns nil, the user's kubeconfig embeds the key this command
\* made and a certificate for it: neither a request, nor a key, nor a certificate
\* an earlier command left behind is taken for its own (user.go:192-245).
CreatedKubeconfigIsUsable ==
    \A p \in Procs : Undisturbed(p, "created") =>
        disk[user[p]].kcKey = key[p] /\ disk[user[p]].kcCert = key[p]

\* When DeleteUser returns nil, no binding names the user any more, whatever
\* calls failed and whatever earlier commands left half done: this is what
\* DeleteForUser aggregates its errors for (rbac.go:98-101).
DeletedUserHasNoAccess ==
    \A p \in Procs : Undisturbed(p, "deleted") =>
        \A b \in bindings : b.user # user[p]

\* When DeleteUser returns nil, neither a request nor a credential file of the
\* user remains (user.go:267-294).
DeletedUserHasNoCredential ==
    \A p \in Procs : Undisturbed(p, "deleted") =>
        csr[user[p]] = NoCsr /\ disk[user[p]] = Empty

\* A failed create whose rollback reported no warning leaves neither files nor
\* a request behind (rollbackUser, user.go:178-188).
FailedCreateLeavesNoCredential ==
    \A p \in Procs : Undisturbed(p, "failed") /\ ~err[p] =>
        csr[user[p]] = NoCsr /\ disk[user[p]] = Empty

\* When CreateUser returns nil, the roles asked for are bound to the user, and
\* the binding found instead of created ("already exists, skipping") is one of
\* that user and role (rbac.go:38-96).
CreatedUserIsGranted ==
    \A p \in Procs : Undisturbed(p, "created") =>
        /\ cfg[p].cluster # None =>
              \E b \in bindings : /\ b.scope = Cluster /\ b.user = user[p]
                                  /\ b.role = cfg[p].cluster
        /\ cfg[p].role # None =>
              \E b \in bindings : /\ b.scope = cfg[p].ns /\ b.user = user[p]
                                  /\ b.role = cfg[p].role

\* A binding disappears only by a DeleteUser of the user it names: the test
\* user_test.go:122 says DeleteForUser "removes only the target user's bindings".
DeleteOnlyOwnBindings ==
    [][\A b \in bindings \ bindings' :
          \E p \in Procs : pc[p] = "unbind" /\ user[p] = b.user]_vars

\* Every command that runs ends, even when the certificate is never issued:
\* calls are bounded by apiCtx, the wait by certificateWaitTimeout.
CommandsTerminate ==
    \A p \in Procs : pc[p] # "idle" ~> pc[p] \in Finished \cup {"idle"}

=============================================================================
