-------------------------- MODULE Completion_proofs --------------------------
(***************************************************************************)
(* What a run of `provision workloads` leaves behind, for every set of     *)
(* files, every number of runs and every number of faults: each call finds *)
(* what it needs, a run in which nothing failed leaves every component     *)
(* complete, one that only warned leaves the fatal ones complete, Grafana  *)
(* keeps the data sources that three components give it in turn, and       *)
(* calico-node has a token the API server accepts.                         *)
(***************************************************************************)
EXTENDS Recipes_proofs

\* The calls of the step at place i, as they are listed, whatever the cluster is.
Listed(i) == Recipe(WorkloadSteps[i].name, cfg.features, {})

\* A call the run is past must have succeeded: nothing has failed, or its error would
\* have ended the run.
Sure(i, e) == Quiet \/ (Fatal(i) /\ e.policy = "abort")

\* What it made is still there, but for what is volatile from its place on.
Left(i, e) == Sure(i, e) => e.call.makes \ Volatile(i) \subseteq facts
Through(i, n) == \A j \in 1..n : Left(i, Listed(i)[j])

\* Install of the step at place i has returned.
Past(i) == i < at \/ (i = at /\ pc = "post")

DoneInv == \A i \in 1..Last : Enabled(i) /\ Past(i) => Through(i, Len(Listed(i)))

\* While Install runs, so far it has let no error pass that it would have returned.
Made(e) == Quiet \/ e.policy = "abort"
LeftNow(e) == Made(e) => e.call.makes \ Volatile(at) \subseteq facts
ThroughNow(n) == \A j \in 1..n : LeftNow(Listed(at)[j])

NowInv == pc = "install" => ThroughNow(op - 1)
LeftInv == DoneInv /\ NowInv

-----------------------------------------------------------------------------
(* Steps *)

LEMMA AtIsNat == LoopInv => at \in Nat /\ at \in 1..17
  BY LastIs DEF LoopInv

\* The running recipe is the listed one, over this cluster.
LEMMA CallsFit ==
    ASSUME LoopInv, pc = "install"
    PROVE  \E n \in Nat : Fits(Calls, Listed(at), n, Drops(at))
<1>1. at \in 1..Last
  BY DEF LoopInv
<1>2. Calls = Recipe(WorkloadSteps[at].name, cfg.features, facts)
  BY DEF Calls, Step
<1>3. Fitting(Recipe(WorkloadSteps[at].name, cfg.features, facts), Listed(at), Drops(at))
  BY <1>1, PlaceFits DEF Listed
<1>4. QED  BY <1>2, <1>3 DEF Fitting

\* So is the call that is made.
LEMMA CurrentFits ==
    ASSUME LoopInv, OpInv, pc = "install", op <= Len(Calls)
    PROVE  \E n \in Nat : /\ Fits(Calls, Listed(at), n, Drops(at)) /\ op \in 1..n
                          /\ FitsAt(op, Calls, Listed(at), n, Drops(at))
<1>1. PICK n \in Nat : Fits(Calls, Listed(at), n, Drops(at))
  BY CallsFit
<1>2. Len(Calls) = n
  BY <1>1 DEF Fits, IsSeq
<1>3. op \in 1..n
  BY <1>2 DEF OpInv
<1>4. QED  BY <1>1, <1>3 DEF Fits

\* The post step's only call depends on nothing and takes nothing away.
LEMMA PostIsPlain ==
    ASSUME OpInv, pc = "post", op <= Len(Calls)
    PROVE  Current.call.drops = {} /\ Current.call.needs = {}
<1>1. Calls = PostRecipe(Step.name)
  BY DEF Calls
<1>2. CASE Step.name = "Keycloak"
  <2>1. Calls = May(<<Call("refreshCalico", {}, {CniToken})>>)
    BY <1>1, <1>2 DEF PostRecipe, RefreshCalico
  <2>2. Len(Calls) = 1 /\ Calls[1].call.drops = {} /\ Calls[1].call.needs = {}
    BY <2>1 DEF May, Call
  <2>3. op = 1
    BY <2>2 DEF OpInv
  <2>4. QED  BY <2>2, <2>3 DEF Current
<1>3. CASE Step.name # "Keycloak"
  <2>1. Calls = <<>>
    BY <1>1, <1>3 DEF PostRecipe
  <2>2. QED  BY <2>1 DEF OpInv
<1>4. QED  BY <1>2, <1>3

\* The calls of the other two functions take away only what Grafana loads.
LEMMA OtherDrops ==
    ASSUME LoopInv, OpInv, pc \in {"post", "oauth"}, op <= Len(Calls)
    PROVE  Current.call.drops \subseteq Loading
<1>1. CASE pc = "post"
  BY <1>1, PostIsPlain
<1>2. CASE pc = "oauth"
  <2>1. Calls = ConfigureGrafanaOAuth(cfg.features, facts)
    BY <1>2 DEF Calls
  <2>2. PICK n \in Nat : Fits(Calls, ConfigureGrafanaOAuth(cfg.features, {}), n, Loading)
    BY <2>1, OAuthFits DEF Fitting
  <2>3. op \in 1..n
    BY <2>2 DEF Fits, IsSeq, OpInv
  <2>4. QED  BY <2>2, <2>3 DEF Fits, FitsAt, Current
<1>3. QED  BY <1>1, <1>2

\* What a call at this place may take away.
LEMMA CallDrops ==
    ASSUME LoopInv, OpInv, pc \in Calling, op <= Len(Calls)
    PROVE  Current.call.drops \subseteq Volatile(at)
<1>1. CASE pc = "install"
  <2>1. Current.call.drops \subseteq Drops(at)
    BY <1>1, CurrentFits DEF FitsAt, Current
  <2>2. QED  BY <2>1, DropsVolatile, AtIsNat
<1>2. CASE pc # "install"
  <2>1. Current.call.drops \subseteq Loading
    BY <1>2, OtherDrops DEF Calling
  <2>2. QED  BY <2>1 DEF Volatile
<1>3. QED  BY <1>1, <1>2

\* By itself the cluster takes away the sidecar, what Grafana has loaded and, after an
\* edit of the API server's manifest, calico-node's token.
LEMMA ClusterKeeps ==
    ASSUME Cluster, NEW i
    PROVE  facts \ Volatile(i) \subseteq facts'
<1>1. CASE \E n \in {"keycloak", "monitoring", "ollama"} : SyncSecrets(n)
  BY <1>1 DEF SyncSecrets
<1>2. CASE StartKeycloakPod
  BY <1>2 DEF StartKeycloakPod, Volatile
<1>3. CASE StartGrafanaPod
  <2>1. facts \ RestartGrafana(facts).drops \subseteq facts'
    BY <1>3 DEF StartGrafanaPod, After
  <2>2. QED  BY <2>1, RestartTwins DEF Volatile
<1>4. CASE PullModel
  BY <1>4 DEF PullModel
<1>5. CASE RestartAPIServer
  BY <1>5 DEF RestartAPIServer, Restarted, Volatile
<1>6. QED  BY <1>1, <1>2, <1>3, <1>4, <1>5 DEF Cluster

\* No step takes away what is not volatile at its place.
LEMMA StepKeeps ==
    ASSUME LoopInv, OpInv, [Next]_vars
    PROVE  facts \ Volatile(at) \subseteq facts'
<1>1. CASE CallSucceeds \/ CallFails
  <2>1. pc \in Calling /\ op <= Len(Calls)
    BY <1>1 DEF CallSucceeds, CallFails
  <2>2. facts' \in {facts, After(facts, Current.call)}
    BY <1>1 DEF CallSucceeds, CallFails, Fault
  <2>3. Current.call.drops \subseteq Volatile(at)
    BY <2>1, CallDrops
  <2>4. QED  BY <2>2, <2>3 DEF After
<1>2. CASE Cluster
  BY <1>2, ClusterKeeps
<1>3. CASE ~(CallSucceeds \/ CallFails \/ Cluster)
  <2>1. facts' = facts
    BY <1>3 DEF Next, StartRun, Crash, InstallWorkloads, SkipComponent, BeginComponent,
                InstallReturns, PostReturns, EndOfPlan, OAuthReturns, vars
  <2>2. QED  BY <2>1
<1>4. QED  BY <1>1, <1>2, <1>3

-----------------------------------------------------------------------------
(* What is behind the run *)

LEMMA LeftInit == Init => LeftInv
<1> SUFFICES ASSUME Init PROVE LeftInv
  OBVIOUS
<1>1. \A i \in 1..Last : ~Past(i)
  BY LastIs DEF Init, Past
<1>2. pc # "install"
  BY DEF Init
<1>3. QED  BY <1>1, <1>2 DEF LeftInv, DoneInv, NowInv

\* A run keeps its configuration, and what has failed has failed.
LEMMA FailedGrows ==
    ASSUME [Next]_vars, ~StartRun, ~Crash
    PROVE  failed \subseteq failed'
  BY DEF Next, InstallWorkloads, SkipComponent, BeginComponent, CallSucceeds, CallFails,
         InstallReturns, PostReturns, EndOfPlan, OAuthReturns, Cluster, SyncSecrets,
         StartKeycloakPod, StartGrafanaPod, RestartAPIServer, PullModel, vars, report

LEMMA SameRun ==
    ASSUME [Next]_vars, ~StartRun, ~Crash
    PROVE  cfg' = cfg /\ (Quiet' => Quiet)
<1>1. cfg' = cfg
  BY DEF Next, InstallWorkloads, SkipComponent, BeginComponent, CallSucceeds, CallFails,
         InstallReturns, PostReturns, EndOfPlan, OAuthReturns, Cluster, SyncSecrets,
         StartKeycloakPod, StartGrafanaPod, RestartAPIServer, PullModel, vars
<1>2. QED  BY <1>1, FailedGrows DEF Quiet

\* Another run begins at the first place, with nothing behind it.
LEMMA NewRun ==
    ASSUME StartRun \/ Crash
    PROVE  at' = 1 /\ pc' \in {"loop", "idle"}
  BY DEF StartRun, Crash

\* What is kept at this place is kept for the places before it.
LEMMA StepKeepsEarlier ==
    ASSUME LoopInv, OpInv, [Next]_vars, NEW i \in Nat, i <= at
    PROVE  facts \ Volatile(i) \subseteq facts'
<1>1. Volatile(at) \subseteq Volatile(i)
  BY VolatileShrinks, AtIsNat
<1>2. QED  BY <1>1, StepKeeps

\* A call of Install that is made leaves what it makes, or its error was let pass.
LEMMA CallLeaves ==
    ASSUME LoopInv, OpInv, NowInv, CallSucceeds \/ CallFails, pc = "install", pc' = "install"
    PROVE  NowInv'
<1>1. op <= Len(Calls) /\ cfg' = cfg /\ at' = at
  BY DEF CallSucceeds, CallFails, Abort, Continue, GotoPost
<1>2. PICK n \in Nat : /\ Fits(Calls, Listed(at), n, Drops(at)) /\ op \in 1..n
                       /\ FitsAt(op, Calls, Listed(at), n, Drops(at))
  BY <1>1, CurrentFits
<1>3. [Next]_vars /\ ~StartRun /\ ~Crash
  <2>1. ~StartRun /\ ~Crash
    BY NewRun
  <2>2. QED  BY <2>1 DEF Next, InstallWorkloads
<1>4. Listed(at)' = Listed(at)
  BY <1>1 DEF Listed
<1>5. ThroughNow(op - 1)
  BY DEF NowInv
<1>6. facts \ Volatile(at) \subseteq facts' /\ (Quiet' => Quiet)
  BY <1>3, StepKeeps, SameRun
<1>7. \A j \in 1..(op - 1) : Made(Listed(at)[j])' =>
          Listed(at)[j].call.makes \ Volatile(at) \subseteq facts'
  BY <1>1, <1>4, <1>5, <1>6 DEF ThroughNow, LeftNow, Made
<1>8. CASE CallSucceeds
  <2>1. op' = op + 1 /\ Current.call.makes \subseteq facts'
    BY <1>8 DEF CallSucceeds, After
  <2>2. Listed(at)[op].call.makes \ Volatile(at) \subseteq Current.call.makes
    BY <1>2 DEF FitsAt, Twins, Current, Volatile
  <2>3. \A j \in 1..op : j = op \/ j \in 1..(op - 1)
    BY <1>2
  <2>4. \A j \in 1..op : Made(Listed(at)[j])' =>
            Listed(at)[j].call.makes \ Volatile(at) \subseteq facts'
    BY <1>7, <2>1, <2>2, <2>3
  <2>5. op' - 1 = op
    BY <1>2, <2>1
  <2>6. QED  BY <1>1, <1>4, <2>4, <2>5 DEF NowInv, ThroughNow, LeftNow
<1>9. CASE CallFails
  <2>1. ~Returned /\ op' = op + 1 + Current.skip /\ Current.policy # "abort"
    BY <1>9 DEF CallFails, Returned, Abort, Continue, GotoPost
  <2>2. Listed(at)[op].policy # "abort" /\ Listed(at)[op].skip = Current.skip
        /\ Listed(at)[op].policy = Current.policy
    BY <1>2, <2>1 DEF FitsAt, Current
  <2>3. \A j \in 1..(op' - 1) : j \in 1..(op - 1) \/ j = op
                               \/ j \in (op + 1)..(op + Listed(at)[op].skip)
    BY <1>2, <2>1, <2>2 DEF FitsAt
  <2>4. CASE Listed(at)[op].policy = "ignore"
    <3>1. Listed(at)[op].skip = 0 /\ Listed(at)[op].call.makes = {}
      BY <1>2, <2>4 DEF FitsAt
    <3>2. \A j \in 1..(op' - 1) : Made(Listed(at)[j])' =>
              Listed(at)[j].call.makes \ Volatile(at) \subseteq facts'
      BY <1>2, <1>7, <2>3, <3>1
    <3>3. QED  BY <1>1, <1>4, <3>2 DEF NowInv, ThroughNow, LeftNow
  <2>5. CASE Listed(at)[op].policy # "ignore"
    <3>1. failed' # {}
      BY <1>9, <2>2, <2>5 DEF CallFails
    <3>2. \A j \in (op + 1)..(op + Listed(at)[op].skip) : Listed(at)[j].policy # "abort"
      BY <1>2 DEF FitsAt
    <3>3. \A j \in 1..(op' - 1) : Made(Listed(at)[j])' =>
              Listed(at)[j].call.makes \ Volatile(at) \subseteq facts'
      BY <1>1, <1>2, <1>4, <1>7, <2>2, <2>3, <3>1, <3>2 DEF Made, Quiet
    <3>4. QED  BY <1>1, <1>4, <3>3 DEF NowInv, ThroughNow, LeftNow
  <2>6. QED  BY <2>4, <2>5
<1>10. QED  BY <1>8, <1>9

LEMMA NowStep == LoopInv /\ OpInv /\ NowInv /\ [Next]_vars => NowInv'
<1> SUFFICES ASSUME LoopInv, OpInv, NowInv, [Next]_vars, pc' = "install" PROVE NowInv'
  BY DEF NowInv
<1>1. CASE BeginComponent
  <2>1. op' = 1
    BY <1>1 DEF BeginComponent
  <2>2. 1..(op' - 1) = {}
    BY <2>1
  <2>3. QED  BY <2>2 DEF NowInv, ThroughNow
<1>2. CASE CallSucceeds \/ CallFails
  <2>1. CASE pc = "install"
    BY <1>2, <2>1, CallLeaves
  <2>2. CASE pc # "install"
    BY <1>2, <2>2 DEF CallSucceeds, CallFails, Returned, Continue
  <2>3. QED  BY <2>1, <2>2
<1>3. CASE Cluster \/ UNCHANGED vars
  <2>1. cfg' = cfg /\ at' = at /\ op' = op /\ pc' = pc /\ failed' = failed
    BY <1>3 DEF Cluster, SyncSecrets, StartKeycloakPod, StartGrafanaPod, RestartAPIServer,
                PullModel, vars, loop, report
  <2>2. ThroughNow(op - 1) /\ (Quiet' => Quiet)
    BY <2>1 DEF NowInv, Quiet
  <2>3. facts \ Volatile(at) \subseteq facts'
    BY StepKeeps
  <2>4. Listed(at)' = Listed(at)
    BY <2>1 DEF Listed
  <2>5. QED  BY <2>1, <2>2, <2>3, <2>4 DEF NowInv, ThroughNow, LeftNow, Made
<1>4. CASE StartRun \/ Crash
  BY <1>4, NewRun
<1>5. CASE SkipComponent \/ InstallReturns \/ PostReturns \/ EndOfPlan \/ OAuthReturns
  BY <1>5 DEF SkipComponent, InstallReturns, GotoPost, PostReturns, EndOfPlan, OAuthReturns
<1>6. QED  BY <1>1, <1>2, <1>3, <1>4, <1>5 DEF Next, InstallWorkloads

\* Install of the step at `at' returns, with an error or not.
Returns == pc = "install" /\ pc' = "post"

\* What is behind the run now was behind it before, or has just returned.
LEMMA PastStep ==
    ASSUME LoopInv, [Next]_vars, ~StartRun, ~Crash, NEW i \in 1..Last, Past(i)', Enabled(i)'
    PROVE  i <= at /\ Enabled(i) /\ (Past(i) \/ (Returns /\ i = at))
<1> USE LastIs
<1>1. Enabled(i)
  BY SameRun DEF Enabled
<1>2. at \in Nat
  BY AtIsNat
<1>3. CASE SkipComponent \/ PostReturns
  BY <1>1, <1>2, <1>3 DEF SkipComponent, PostReturns, Past
<1>4. CASE InstallReturns \/ CallFails
  BY <1>1, <1>2, <1>4 DEF InstallReturns, CallFails, Returned, Abort, Continue, GotoPost, Past,
                          Returns, Calling
<1>5. CASE BeginComponent \/ CallSucceeds \/ EndOfPlan \/ OAuthReturns
  BY <1>1, <1>2, <1>5 DEF BeginComponent, CallSucceeds, EndOfPlan, OAuthReturns, Past
<1>6. CASE Cluster \/ UNCHANGED vars
  BY <1>1, <1>2, <1>6 DEF Cluster, SyncSecrets, StartKeycloakPod, StartGrafanaPod,
                          RestartAPIServer, PullModel, vars, loop, Past
<1>7. QED  BY <1>3, <1>4, <1>5, <1>6 DEF Next, InstallWorkloads

\* An Install that returned left what it makes; if it was with an error, the
\* component is not fatal, and something has failed.
LEMMA ReturnedLeaves ==
    ASSUME LoopInv, OpInv, NowInv, [Next]_vars, Returns
    PROVE  at' = at /\ Through(at, Len(Listed(at)))'
<1>1. PICK n \in Nat : Fits(Calls, Listed(at), n, Drops(at))
  BY CallsFit DEF Returns
<1>2. InstallReturns \/ (CallFails /\ Returned)
  BY DEF Returns, Next, InstallWorkloads, StartRun, Crash, SkipComponent, BeginComponent,
         CallSucceeds, CallFails, Continue, PostReturns, EndOfPlan, OAuthReturns, Cluster,
         SyncSecrets, StartKeycloakPod, StartGrafanaPod, RestartAPIServer, PullModel, vars, loop
<1>3. cfg' = cfg /\ at' = at
  BY <1>2 DEF InstallReturns, CallFails, Abort, GotoPost
<1>4. Listed(at)' = Listed(at)
  BY <1>3 DEF Listed
<1>5. CASE InstallReturns
  <2>1. op > Len(Calls) /\ facts' = facts /\ failed' = failed
    BY <1>5 DEF InstallReturns, report
  <2>2. Len(Calls) = n /\ Len(Listed(at)) = n
    BY <1>1 DEF Fits, IsSeq
  <2>3. op - 1 = n
    BY <2>1, <2>2 DEF OpInv, Returns, Calling
  <2>4. ThroughNow(n)
    BY <2>3 DEF NowInv, Returns
  <2>5. Through(at, n)
    BY <2>4 DEF ThroughNow, LeftNow, Made, Through, Left, Sure
  <2>6. QED  BY <1>3, <1>4, <2>1, <2>2, <2>5 DEF Through, Left, Sure, Quiet
<1>6. CASE CallFails /\ Returned
  <2>1. failed' # {} /\ ~Fatal(at)
    BY <1>6 DEF CallFails, Returned, Abort, GotoPost, Fatal, Step, Returns
  <2>2. ~Fatal(at)'
    BY <1>3, <2>1 DEF Fatal
  <2>3. QED  BY <1>3, <2>1, <2>2 DEF Through, Left, Sure, Quiet
<1>7. QED  BY <1>2, <1>5, <1>6

LEMMA DoneStep == LoopInv /\ OpInv /\ LeftInv /\ [Next]_vars => DoneInv'
<1> SUFFICES ASSUME LoopInv, OpInv, LeftInv, [Next]_vars,
                    NEW i \in 1..Last, Enabled(i)', Past(i)'
             PROVE  Through(i, Len(Listed(i)))'
  BY LastIs DEF DoneInv, Last
<1> USE LastIs
<1>1. CASE StartRun \/ Crash
  BY <1>1, NewRun DEF Past
<1>2. CASE ~StartRun /\ ~Crash
  <2>1. i <= at /\ Enabled(i) /\ (Past(i) \/ (Returns /\ i = at))
    BY <1>2, PastStep
  <2>2. CASE Past(i)
    <3>1. Through(i, Len(Listed(i)))
      BY <2>1, <2>2 DEF LeftInv, DoneInv
    <3>2. facts \ Volatile(i) \subseteq facts' /\ cfg' = cfg /\ (Quiet' => Quiet)
      BY <1>2, <2>1, StepKeepsEarlier, SameRun
    <3>3. Listed(i)' = Listed(i)
      BY <3>2 DEF Listed
    <3>4. QED  BY <3>1, <3>2, <3>3 DEF Through, Left, Sure
  <2>3. CASE Returns /\ i = at
    <3>1. Through(at, Len(Listed(at)))' /\ at' = at
      BY <2>3, ReturnedLeaves DEF LeftInv, Returns
    <3>2. QED  BY <2>3, <3>1
  <2>4. QED  BY <2>1, <2>2, <2>3
<1>3. QED  BY <1>1, <1>2

LEMMA LeftAlways == Spec => []LeftInv
<1>1. LoopInv /\ OpInv /\ LeftInv /\ [Next]_vars => LeftInv'
  BY NowStep, DoneStep DEF LeftInv
<1>2. QED  BY <1>1, LoopAlways, OpAlways, LeftInit, PTL DEF Spec

-----------------------------------------------------------------------------
(* Order *)

\* A fact that a step behind the run was sure to make is there.
LEMMA DoneGives ==
    ASSUME LeftInv, NEW i \in 1..Last, Enabled(i), Past(i),
           NEW P, Quiet \/ (Fatal(i) /\ P = Essential),
           NEW x, x \notin Volatile(i), Gives(Listed(i), x, P)
    PROVE  x \in facts
<1>1. PICK j \in 1..Len(Listed(i)) : Listed(i)[j].policy \in P /\ x \in Listed(i)[j].call.makes
  BY DEF Gives
<1>2. Left(i, Listed(i)[j])
  BY DEF LeftInv, DoneInv, Through
<1>3. Sure(i, Listed(i)[j])
  BY <1>1 DEF Sure, Essential
<1>4. QED  BY <1>1, <1>2, <1>3 DEF Left

\* Only the class that is deleted and made again may be gone before it lasts.
Storage == Class("nfs-storage")

LEMMA LastingStays ==
    ASSUME NEW x, Lasting(x), NEW i \in Nat, i >= 8 \/ x # Storage
    PROVE  x \notin Volatile(i)
<1>1. CASE i >= 8
  BY <1>1, VolatileShrinks DEF Lasting
<1>2. CASE i < 8 /\ x # Storage
  <2>1. Volatile(i) \subseteq Volatile(8) \cup {Storage}
    BY <1>2 DEF Volatile, Storage
  <2>2. QED  BY <1>2, <2>1 DEF Lasting
<1>3. QED  BY <1>1, <1>2

\* The same, for what is never taken away.
LEMMA DoneGivesLasting ==
    ASSUME LeftInv, NEW i \in 1..Last, Enabled(i), Past(i), Quiet,
           NEW P, NEW x, Lasting(x), i >= 8 \/ x # Storage, Gives(Listed(i), x, P)
    PROVE  x \in facts
<1>1. x \notin Volatile(i)
  BY LastingStays, LastIs
<1>2. QED  BY <1>1, DoneGives

\* The components that every configuration has, and those that need a toggle.
LEMMA WhenEnabled ==
    /\ \A i \in {1, 2, 3, 4, 7, 8, 9} : Enabled(i)
    /\ \A i \in {10, 11, 13} : Enabled(i) <=> "monitoring" \in cfg.features
    /\ Enabled(12) <=> {"monitoring", "tracing"} \subseteq cfg.features
    /\ Enabled(14) <=> "keycloak" \in cfg.features
    /\ Enabled(16) <=> "karpor" \in cfg.features
  BY DEF Enabled, WorkloadSteps, Component

LEMMA ListedAre ==
    /\ Listed(1) = MetalLB /\ Listed(2) = Istio /\ Listed(3) = CertManager
    /\ Listed(7) = NFSProvisioner /\ Listed(8) = VaultInstaller
    /\ Listed(9) = VaultSecretsOperator(cfg.features) /\ Listed(10) = Monitoring(cfg.features)
    /\ Listed(14) = Keycloak(cfg.features, {}) /\ Listed(16) = Karpor(cfg.features)
  BY PlaceNames DEF Listed, Recipe

\* As long as nothing has failed, what a step needs of the earlier ones is there.
LEMMA ProvidedIsThere ==
    ASSUME LoopInv, LeftInv, Quiet
    PROVE  Provided(at, cfg.features) \subseteq facts
<1>1. \A i \in 1..16 : i \in 1..Last
  BY LastIs
<1>2. \A i \in Nat : i < at => Past(i)
  BY DEF Past
<1>others. Storage \notin {Crds("istio"), Namespace("istio-system"), LabCA, Class("nfs-static"),
                          Class("nfs-dynamic")}
  BY DEF Storage, Class, Crds, Namespace, LabCA
<1>3. ASSUME at > 2
      PROVE  Crds("istio") \in facts /\ Namespace("istio-system") \in facts
  <2>1. Enabled(2) /\ Past(2) /\ 2 \in 1..Last
    BY <1>1, <1>2, <1>3, WhenEnabled
  <2>2. Gives(Listed(2), Crds("istio"), Essential)
        /\ Gives(Listed(2), Namespace("istio-system"), Essential)
    BY IstioGives, ListedAre
  <2>3. QED  BY <1>others, <2>1, <2>2, LastingKinds, DoneGivesLasting
<1>4. ASSUME at > 3 PROVE LabCA \in facts
  <2>1. Enabled(3) /\ Past(3) /\ 3 \in 1..Last
    BY <1>1, <1>2, <1>4, WhenEnabled
  <2>2. Gives(Listed(3), LabCA, Essential)
    BY CertManagerGives, ListedAre
  <2>3. QED  BY <1>others, <2>1, <2>2, LastingKinds, DoneGivesLasting
<1>5. ASSUME at > 8 PROVE Deployed("vault") \in facts
  <2>1. Enabled(8) /\ Past(8) /\ 8 \in 1..Last
    BY <1>1, <1>2, <1>5, WhenEnabled
  <2>2. Gives(Listed(8), Deployed("vault"), Essential)
    BY VaultGives, ListedAre
  <2>3. QED  BY <2>1, <2>2, LastingKinds, DoneGivesLasting
<1>6. ASSUME at > 9 PROVE Namespace("keycloak") \in facts
  <2>1. Enabled(9) /\ Past(9) /\ 9 \in 1..Last
    BY <1>1, <1>2, <1>6, WhenEnabled
  <2>2. Gives(Listed(9), Namespace("keycloak"), Whatever)
    BY SecretsOperatorGives, ListedAre
  <2>3. QED  BY <2>1, <2>2, LastingKinds, DoneGivesLasting
<1>7. ASSUME at > 10, "monitoring" \in cfg.features,
             NEW x \in {Namespace("monitoring"), Deployed("grafana"), Secret("grafana-admin")}
      PROVE  x \in facts
  <2>1. Enabled(10) /\ Past(10) /\ 10 \in 1..Last
    BY <1>1, <1>2, <1>7, WhenEnabled
  <2>2. Gives(Listed(10), x, Essential)
    BY <1>7, MonitoringGives, ListedAre
  <2>3. Lasting(x)
    BY <1>7, LastingKinds
  <2>4. QED  BY <2>1, <2>2, <2>3, DoneGivesLasting
<1>8. ASSUME at > 7, NEW x \in {Class("nfs-static"), Class("nfs-dynamic")} PROVE x \in facts
  <2>1. Enabled(7) /\ Past(7) /\ 7 \in 1..Last
    BY <1>1, <1>2, <1>8, WhenEnabled
  <2>2. Gives(Listed(7), x, Essential)
    BY <1>8, NFSGives, ListedAre
  <2>3. Lasting(x) /\ x # Storage
    BY <1>8, <1>others, LastingKinds
  <2>4. QED  BY <2>1, <2>2, <2>3, DoneGivesLasting
<1>9. QED  BY <1>3, <1>4, <1>5, <1>6, <1>7, <1>8 DEF Provided

\* Nothing is missing for the next call: what it needs and the cluster does not bring
\* about, an earlier step or an earlier call of its own component has made.
LEMMA InstallOrder ==
    ASSUME LoopInv, OpInv, LeftInv, pc = "install", op <= Len(Calls), Quiet
    PROVE  Current.call.needs \ Awaited \subseteq facts
<1>1. PICK n \in Nat : /\ Fits(Calls, Listed(at), n, Drops(at)) /\ op \in 1..n
                       /\ FitsAt(op, Calls, Listed(at), n, Drops(at))
  BY CurrentFits
<1>2. at \in 1..Last /\ WorkloadSteps[at].requires \subseteq cfg.features
  BY DEF LoopInv, Enabled
<1>3. Ordered(Listed(at), Provided(at, cfg.features))
  BY <1>2, PlaceOrdered DEF Listed
<1>4. Met(Listed(at), op, Provided(at, cfg.features))
  <2>1. PICK m \in Nat : /\ IsSeq(Listed(at), m)
                         /\ \A j \in 1..m : Met(Listed(at), j, Provided(at, cfg.features))
    BY <1>3 DEF Ordered
  <2>2. m = n
    BY <1>1, <2>1 DEF Fits, IsSeq
  <2>3. QED  BY <1>1, <2>1, <2>2
<1>5. Current.call.needs \ Awaited = Listed(at)[op].call.needs \ Awaited
  BY <1>1 DEF FitsAt, Twins, Current
<1>early. at >= 8 \/ Storage \notin Listed(at)[op].call.needs
  <2>1. at \in 1..7 => Early(Listed(at))
    BY PlaceEarly DEF Listed
  <2>2. Len(Listed(at)) = n
    BY <1>1 DEF Fits, IsSeq
  <2>3. QED  BY <1>1, <1>2, <2>1, <2>2, LastIs DEF Early, Storage
<1>6. ASSUME NEW x \in Listed(at)[op].call.needs \ Awaited PROVE x \in facts
  <2>1. Lasting(x) /\ (x \in Provided(at, cfg.features)
                       \/ \E k \in 1..(op - 1) : x \in Listed(at)[k].call.makes)
    BY <1>4, <1>6 DEF Met
  <2>2. ASSUME NEW k \in 1..(op - 1), x \in Listed(at)[k].call.makes PROVE x \in facts
    <3>1. Listed(at)[k].call.makes \ Volatile(at) \subseteq facts
      BY <2>2 DEF LeftInv, NowInv, ThroughNow, LeftNow, Made
    <3>2. x \notin Volatile(at)
      BY <1>2, <1>6, <1>early, <2>1, LastingStays, LastIs
    <3>3. QED  BY <2>2, <3>1, <3>2
  <2>3. QED  BY <2>1, <2>2, ProvidedIsThere
<1>7. QED  BY <1>5, <1>6

LEMMA OtherOrder ==
    ASSUME LoopInv, OpInv, LeftInv, pc \in {"post", "oauth"}, op <= Len(Calls), Quiet
    PROVE  Current.call.needs \ Awaited \subseteq facts
<1>1. CASE pc = "post"
  BY <1>1, PostIsPlain
<1>2. CASE pc = "oauth"
  <2>1. Calls = ConfigureGrafanaOAuth(cfg.features, facts)
    BY <1>2 DEF Calls
  <2>2. PICK n \in Nat : Shape(Calls, n)
    BY <2>1, OAuthShape
  <2>3. op \in 1..Len(ConfigureGrafanaOAuth(cfg.features, facts))
    BY <2>1, <2>2 DEF OpInv, Shape, IsSeq
  <2>4. "monitoring" \in cfg.features
        /\ Current.call.needs \ Awaited
             \subseteq {LabCA, Namespace("monitoring"), Deployed("grafana")}
    BY <2>1, <2>3, OAuthNeeds DEF Current
  <2>5. at = 17
    BY <1>2, LastIs DEF LoopInv
  <2>6. {LabCA, Namespace("monitoring"), Deployed("grafana")} \subseteq Provided(at, cfg.features)
    BY <2>4, <2>5 DEF Provided
  <2>7. QED  BY <2>4, <2>6, ProvidedIsThere
<1>3. QED  BY <1>1, <1>2

\* "Dependency order" (provisioner.go:225-226): the order of the steps is enough,
\* in every configuration and over whatever an earlier run left: as long as nothing
\* has failed, all that the next call needs is there, or comes by itself.
THEOREM StepsAreInOrder == Spec => []DependencyOrder
<1>1. LoopInv /\ OpInv /\ LeftInv => DependencyOrder
  <2> SUFFICES ASSUME LoopInv, OpInv, LeftInv, pc \in Calling, op <= Len(Calls), Quiet
               PROVE  Current.call.needs \ Awaited \subseteq facts
    BY DEF DependencyOrder
  <2>1. pc = "install" \/ pc \in {"post", "oauth"}
    BY DEF Calling
  <2>2. QED  BY <2>1, InstallOrder, OtherOrder
<1>2. QED  BY <1>1, LoopAlways, OpAlways, LeftAlways, PTL

-----------------------------------------------------------------------------
(* What success means *)

\* Of what they promise, what the components are sure to make, given what P says of
\* an error, and what no later step takes away.
Secured(i) ==
    CASE i = 1 -> {Deployed("pool")}
      [] i = 2 -> {Crds("istio"), Injected("default")}
      [] i = 7 -> {Class("nfs-static"), Class("nfs-dynamic")}
      [] i = 10 -> {Class("nfs-storage"), Injected("monitoring"), Deployed("prometheus"),
                    Deployed("grafana")}
      [] i = 14 -> {Injected("keycloak"), Filled}
      [] i = 16 -> {Deployed("karpor")}
      [] OTHER -> {}

LEMMA SecuredStays ==
    ASSUME NEW i \in 1..16, NEW x \in Secured(i)
    PROVE  x \notin Volatile(i) /\ i \in {1, 2, 7, 10, 14, 16}
<1>1. i \in {1, 2, 7, 10, 14, 16}
  BY DEF Secured
<1>2. CASE i \in {1, 2, 7}
  BY <1>2 DEF Secured, Volatile, Sidecar, Loading, Labels, ConfigMap, CniToken, Edited, Keyed,
              Crds, Deployed, Class, Injected, Source, Shown
<1>3. CASE i \in {10, 14, 16}
  BY <1>3 DEF Secured, Volatile, Sidecar, Loading, Labels, ConfigMap, CniToken, Edited, Keyed,
              Crds, Deployed, Class, Injected, Source, Shown, Filled
<1>4. QED  BY <1>1, <1>2, <1>3

LEMMA SecuredGiven ==
    ASSUME NEW i \in 1..16, NEW x \in Secured(i)
    PROVE  Gives(Listed(i), x, Essential)
<1>1. CASE i = 1
  BY <1>1, MetalLBGives, ListedAre DEF Secured
<1>2. CASE i = 2
  BY <1>2, IstioGives, ListedAre DEF Secured
<1>3. CASE i = 7
  BY <1>3, NFSGives, ListedAre DEF Secured
<1>4. CASE i = 10
  <2>1. x \in {Class("nfs-storage"), Injected("monitoring"), Deployed("prometheus"),
               Deployed("grafana")}
    BY <1>4 DEF Secured
  <2>2. QED  BY <1>4, <2>1, MonitoringGives, ListedAre
<1>5. CASE i = 14
  BY <1>5, KeycloakGives, ListedAre DEF Secured
<1>6. CASE i = 16
  BY <1>6, KarporGives, ListedAre DEF Secured
<1>7. QED  BY <1>1, <1>2, <1>3, <1>4, <1>5, <1>6, SecuredStays

\* When the run has returned nil, every component is behind it.
LEMMA SecuredIsThere ==
    ASSUME LoopInv, LeftInv, pc = "ok", NEW i \in 1..16, Enabled(i), Quiet \/ Fatal(i)
    PROVE  Secured(i) \subseteq facts
<1>1. i \in 1..Last /\ Past(i)
  BY LastIs DEF LoopInv, Past
<1>2. ASSUME NEW x \in Secured(i) PROVE x \in facts
  <2>1. x \notin Volatile(i) /\ Gives(Listed(i), x, Essential)
    BY SecuredStays, SecuredGiven
  <2>2. QED  BY <1>1, <2>1, DoneGives
<1>3. QED  BY <1>2

\* The two components that fill Grafana's ConfigMap, and Keycloak, promise more.
LEMMA PromisedIsSecured ==
    \A i \in (1..16) \ {11, 12, 14} : Promised(WorkloadSteps[i].name) = Secured(i)
<1> SUFFICES ASSUME NEW i \in (1..16) \ {11, 12, 14}
             PROVE  Promised(WorkloadSteps[i].name) = Secured(i)
  OBVIOUS
<1>1. CASE i \in {1, 2, 3, 4}
  BY <1>1, PlaceNames DEF Promised, Secured
<1>2. CASE i \in {5, 6, 7, 8}
  BY <1>2, PlaceNames DEF Promised, Secured
<1>3. CASE i \in {9, 10, 13}
  BY <1>3, PlaceNames DEF Promised, Secured
<1>4. CASE i \in {15, 16}
  BY <1>4, PlaceNames DEF Promised, Secured
<1>5. QED  BY <1>1, <1>2, <1>3, <1>4

LEMMA EssentialsAre ==
    \A i \in 1..16 : Fatal(i) /\ WorkloadSteps[i].name # "Loki" => i \notin {11, 12, 14}
  BY PlaceNames DEF Fatal, WorkloadSteps, Component

\* A run that returns nil, whatever it warned of and whatever earlier runs did,
\* leaves what the fatal components are there for.
THEOREM EssentialsAreThere == Spec => []SuccessMeansEssentials
<1>1. LoopInv /\ LeftInv => SuccessMeansEssentials
  <2> SUFFICES ASSUME LoopInv, LeftInv, pc = "ok", NEW i \in 1..Last, Enabled(i), Fatal(i),
                      WorkloadSteps[i].name # "Loki"
               PROVE  Promised(WorkloadSteps[i].name) \subseteq facts
    BY DEF SuccessMeansEssentials
  <2>1. i \in 1..16
    BY LastIs
  <2>2. QED  BY <2>1, SecuredIsThere, EssentialsAre, PromisedIsSecured
<1>2. QED  BY <1>1, LoopAlways, LeftAlways, PTL

-----------------------------------------------------------------------------
(* Grafana's data sources *)

\* The run is past the n-th call of the component at place p.
Beyond(p, n) == at > p \/ (at = p /\ (pc = "post" \/ (pc = "install" /\ op > n)))

\* A run gets past the n-th call of a component by that call's success, or by
\* an error of it or of one before it.
LEMMA BeyondStep ==
    ASSUME LoopInv, OpInv, [Next]_vars, ~StartRun, ~Crash,
           NEW p \in 1..16, NEW n \in Nat \ {0}, Enabled(p), Beyond(p, n)', ~Beyond(p, n),
           at = p /\ pc = "install" => Len(Calls) >= n
    PROVE  /\ at = p /\ pc = "install" /\ op \in 1..n /\ op <= Len(Calls)
           /\ (CallSucceeds /\ op = n) \/ (CallFails /\ (Returned \/ op' > n))
<1> USE LastIs
<1>1. at \in Nat /\ op \in Nat \ {0}
  BY AtIsNat DEF OpInv
<1>2. CASE SkipComponent \/ PostReturns
  BY <1>1, <1>2 DEF SkipComponent, PostReturns, Beyond
<1>3. CASE BeginComponent \/ EndOfPlan \/ OAuthReturns
  BY <1>1, <1>3 DEF BeginComponent, EndOfPlan, OAuthReturns, Beyond, LoopInv
<1>4. CASE Cluster \/ UNCHANGED vars
  BY <1>4 DEF Cluster, SyncSecrets, StartKeycloakPod, StartGrafanaPod, RestartAPIServer,
              PullModel, vars, loop, Beyond
<1>5. CASE InstallReturns
  BY <1>1, <1>5 DEF InstallReturns, GotoPost, Beyond
<1>6. CASE CallSucceeds
  BY <1>1, <1>6 DEF CallSucceeds, Beyond
<1>7. CASE CallFails
  <2>1. at' = at /\ op <= Len(Calls)
    BY <1>7 DEF CallFails, Abort, Continue, GotoPost
  <2>2. CASE Returned
    BY <1>1, <1>7, <2>1, <2>2 DEF Returned, Beyond
  <2>3. CASE ~Returned
    <3>1. pc' = pc
      BY <1>7, <2>3 DEF CallFails, Continue
    <3>2. QED  BY <1>1, <1>7, <2>1, <3>1 DEF Beyond
  <2>4. QED  BY <2>2, <2>3
<1>8. QED  BY <1>2, <1>3, <1>4, <1>5, <1>6, <1>7 DEF Next, InstallWorkloads

\* A fact is kept by a step that does not call for its removal.
LEMMA FactKept ==
    ASSUME [Next]_vars, NEW x \in facts, x \notin Volatile(17),
           pc \in Calling /\ op <= Len(Calls) => x \notin Current.call.drops
    PROVE  x \in facts'
<1>1. CASE CallSucceeds \/ CallFails
  <2>1. pc \in Calling /\ op <= Len(Calls)
    BY <1>1 DEF CallSucceeds, CallFails
  <2>2. facts' \in {facts, After(facts, Current.call)}
    BY <1>1 DEF CallSucceeds, CallFails, Fault
  <2>3. QED  BY <2>1, <2>2 DEF After
<1>2. CASE Cluster
  BY <1>2, ClusterKeeps
<1>3. CASE ~(CallSucceeds \/ CallFails \/ Cluster)
  BY <1>3 DEF Next, StartRun, Crash, InstallWorkloads, SkipComponent, BeginComponent,
              InstallReturns, PostReturns, EndOfPlan, OAuthReturns, vars
<1>4. QED  BY <1>1, <1>2, <1>3

\* A call that leaves data source d as it is: what it replaces it makes again, and a
\* Grafana that it restarts loads what the ConfigMap has.
Harmless(call, d) ==
    /\ Source(d) \in call.drops => Source(d) \in call.makes
    /\ Shown(d) \in call.drops /\ Source(d) \in facts => Shown(d) \in call.makes

LEMMA PlainIsHarmless ==
    ASSUME NEW call, NEW d \in Sources, call.drops \cap (ConfigMap \cup Loading) = {}
    PROVE  Harmless(call, d)
  BY DEF Harmless, ConfigMap, Loading

LEMMA RestartIsHarmless ==
    ASSUME NEW d \in Sources
    PROVE  Harmless(RestartGrafana(facts), d)
           /\ (Source(d) \in facts => Shown(d) \in RestartGrafana(facts).makes)
<1>1. RestartGrafana(facts).drops = Loading
  BY RestartTwins
<1>2. Source(d) \notin Loading
  BY DEF Loading, Source, Shown
<1>3. Source(d) \in facts => Shown(d) \in RestartGrafana(facts).makes
  BY DEF RestartGrafana, Replacing, Call
<1>4. QED  BY <1>1, <1>2, <1>3 DEF Harmless

\* From the moment Loki's data source is in the ConfigMap, every call of the plan is
\* harmless.
LEMMA LateIsHarmless ==
    ASSUME LoopInv, OpInv, pc \in Calling, op <= Len(Calls), Beyond(11, 3), NEW d \in Sources
    PROVE  Harmless(Current.call, d)
<1>1. CASE pc = "post"
  BY <1>1, PostIsPlain, PlainIsHarmless
<1>2. CASE pc = "oauth"
  <2>1. Calls = ConfigureGrafanaOAuth(cfg.features, facts)
    BY <1>2 DEF Calls
  <2>2. PICK n \in Nat : Shape(Calls, n)
    BY <2>1, OAuthShape
  <2>3. "monitoring" \in cfg.features
    <3>1. op \in 1..Len(ConfigureGrafanaOAuth(cfg.features, facts))
      BY <2>1, <2>2 DEF OpInv, Shape, IsSeq
    <3>2. QED  BY <3>1, OAuthNeeds
  <2>4. /\ IsSeq(Calls, 3) /\ Calls[1].call.drops = {} /\ Calls[2].call.drops = {}
        /\ Calls[3].call = RestartGrafana(facts)
    BY <2>1, <2>3, OAuthAt
  <2>5. op = 1 \/ op = 2 \/ op = 3
    BY <2>4 DEF OpInv, IsSeq
  <2>6. QED  BY <2>4, <2>5, PlainIsHarmless, RestartIsHarmless DEF Current
<1>3. CASE pc = "install" /\ at = 11
  <2>1. Calls = Loki(facts)
    BY <1>3, PlaceNames DEF Calls, Step, Recipe
  <2>2. IsSeq(Calls, 4) /\ Calls[4].call = RestartGrafana(facts)
    BY <2>1, LokiAt
  <2>3. op = 4
    BY <1>3, <2>2 DEF OpInv, IsSeq, Beyond
  <2>4. QED  BY <2>2, <2>3, RestartIsHarmless DEF Current
<1>4. CASE pc = "install" /\ at = 12
  <2>1. Calls = Tempo(facts)
    BY <1>4, PlaceNames DEF Calls, Step, Recipe
  <2>2. /\ IsSeq(Calls, 5) /\ Calls[1].call = InstallTempo /\ Calls[2].call = InstallOtelCollector
        /\ Calls[3].call = Datasources("tempoDatasource", Sources)
        /\ Calls[4].call = RestartGrafana(facts) /\ Calls[5].call = ConfigureIstioTracing
    BY <2>1, TempoAt
  <2>3. op = 1 \/ op = 2 \/ op = 3 \/ op = 4 \/ op = 5
    BY <2>2 DEF OpInv, IsSeq
  <2>4. InstallTempo.drops = {} /\ InstallOtelCollector.drops = {}
        /\ ConfigureIstioTracing.drops = {}
    BY DEF InstallTempo, InstallOtelCollector, ConfigureIstioTracing, Call
  <2>5. Harmless(Datasources("tempoDatasource", Sources), d)
    BY DEF Harmless, Datasources, Replacing, Call, Source, Shown
  <2>6. QED  BY <2>2, <2>3, <2>4, <2>5, PlainIsHarmless, RestartIsHarmless DEF Current
<1>5. CASE pc = "install" /\ at \notin {11, 12}
  <2>1. at \in {13, 14, 15, 16}
    BY <1>5, LastIs DEF LoopInv, Beyond
  <2>2. Current.call.drops \subseteq Drops(at)
    BY <1>5, CurrentFits DEF FitsAt, Current
  <2>3. Drops(at) \cap (ConfigMap \cup Loading) = {}
    BY <2>1 DEF Drops, ConfigMap, Loading, CniToken, Edited, Keyed, Deployed, Source, Shown
  <2>4. QED  BY <2>2, <2>3, PlainIsHarmless
<1>6. QED  BY <1>1, <1>2, <1>3, <1>4, <1>5 DEF Calling

\* So a data source that is in the ConfigMap stays there, and one that Grafana has
\* loaded stays loaded.
LEMMA SourceKept ==
    ASSUME LoopInv, OpInv, [Next]_vars, Beyond(11, 3), NEW d \in Sources, Source(d) \in facts
    PROVE  Source(d) \in facts' /\ (Shown(d) \in facts => Shown(d) \in facts')
<1>1. CASE CallSucceeds \/ CallFails
  <2>1. pc \in Calling /\ op <= Len(Calls)
    BY <1>1 DEF CallSucceeds, CallFails
  <2>2. facts' \in {facts, After(facts, Current.call)}
    BY <1>1 DEF CallSucceeds, CallFails, Fault
  <2>3. Harmless(Current.call, d)
    BY <2>1, LateIsHarmless
  <2>4. QED  BY <2>2, <2>3 DEF After, Harmless
<1>2. CASE StartGrafanaPod
  <2>1. facts' = After(facts, RestartGrafana(facts))
    BY <1>2 DEF StartGrafanaPod
  <2>2. QED  BY <2>1, RestartIsHarmless DEF After, Harmless
<1>3. CASE Cluster /\ ~StartGrafanaPod
  <2>1. facts \ {Sidecar, Edited, CniToken} \subseteq facts'
    BY <1>3 DEF Cluster, SyncSecrets, StartKeycloakPod, RestartAPIServer, Restarted, PullModel
  <2>2. {Source(d), Shown(d)} \cap {Sidecar, Edited, CniToken} = {}
    BY DEF Sidecar, Edited, CniToken, Source, Shown
  <2>3. QED  BY <2>1, <2>2
<1>4. CASE ~(CallSucceeds \/ CallFails \/ Cluster)
  BY <1>4 DEF Next, StartRun, Crash, InstallWorkloads, SkipComponent, BeginComponent,
              InstallReturns, PostReturns, EndOfPlan, OAuthReturns, vars
<1>5. QED  BY <1>1, <1>2, <1>3, <1>4

Held(ds) == \A d \in ds : Source(d) \in facts
Served(ds) == \A d \in ds : Source(d) \in facts /\ Shown(d) \in facts

\* Unless one of these calls failed, the data sources ds are in the ConfigMap once the
\* component at place p has put them there, and in Grafana once it has restarted it.
SourcesInv(p, names, ds) ==
    failed \cap names = {} /\ Enabled(p) =>
        /\ Beyond(p, 3) => Held(ds)
        /\ Beyond(p, 4) => Served(ds)

LokiCalls == {"loki", "alloy", "lokiDatasource", "restartGrafana"}
TempoCalls == {"tempo", "otelCollector", "tempoDatasource", "restartGrafana"}
SourcesKept ==
    /\ SourcesInv(11, LokiCalls, {"prometheus", "loki"})
    /\ SourcesInv(12, TempoCalls, Sources)

\* The component at place p has four such calls, the third fills the ConfigMap and
\* the fourth restarts Grafana.
Fills(p, names, ds) ==
    at = p /\ pc = "install" =>
        /\ Len(Calls) >= 4
        /\ \A j \in 1..4 : Calls[j].policy # "ignore" /\ Calls[j].call.name \in names
        /\ {Source(d) : d \in ds} \subseteq Calls[3].call.makes
        /\ Calls[4].call = RestartGrafana(facts)

LEMMA Filling ==
    /\ Fills(11, LokiCalls, {"prometheus", "loki"})
    /\ Fills(12, TempoCalls, Sources)
<1>1. ASSUME at = 11, pc = "install"
      PROVE  /\ Len(Calls) >= 4
             /\ \A j \in 1..4 : Calls[j].policy # "ignore" /\ Calls[j].call.name \in LokiCalls
             /\ {Source(d) : d \in {"prometheus", "loki"}} \subseteq Calls[3].call.makes
             /\ Calls[4].call = RestartGrafana(facts)
  <2>1. Calls = Loki(facts)
    BY <1>1, PlaceNames DEF Calls, Step, Recipe
  <2>2. /\ IsSeq(Calls, 4) /\ Calls[1].call = InstallLoki /\ Calls[2].call = InstallAlloy
        /\ Calls[3].call = Datasources("lokiDatasource", {"prometheus", "loki"})
        /\ Calls[4].call = RestartGrafana(facts)
        /\ Calls[1].policy = "abort" /\ Calls[2].policy = "abort"
        /\ Calls[3].policy = "warn" /\ Calls[4].policy = "warn"
    BY <2>1, LokiAt
  <2>3. /\ InstallLoki.name \in LokiCalls /\ InstallAlloy.name \in LokiCalls
        /\ Datasources("lokiDatasource", {"prometheus", "loki"}).name \in LokiCalls
        /\ RestartGrafana(facts).name \in LokiCalls
    BY DEF InstallLoki, InstallAlloy, Datasources, RestartGrafana, Replacing, Call, LokiCalls
  <2>4. Datasources("lokiDatasource", {"prometheus", "loki"}).makes
        = {Source(d) : d \in {"prometheus", "loki"}}
    BY DEF Datasources, Replacing, Call
  <2>5. \A j \in 1..4 : j = 1 \/ j = 2 \/ j = 3 \/ j = 4
    OBVIOUS
  <2>6. \A j \in 1..4 : Calls[j].policy # "ignore" /\ Calls[j].call.name \in LokiCalls
    BY <2>2, <2>3, <2>5
  <2>7. QED  BY <2>2, <2>4, <2>6 DEF IsSeq
<1>2. ASSUME at = 12, pc = "install"
      PROVE  /\ Len(Calls) >= 4
             /\ \A j \in 1..4 : Calls[j].policy # "ignore" /\ Calls[j].call.name \in TempoCalls
             /\ {Source(d) : d \in Sources} \subseteq Calls[3].call.makes
             /\ Calls[4].call = RestartGrafana(facts)
  <2>1. Calls = Tempo(facts)
    BY <1>2, PlaceNames DEF Calls, Step, Recipe
  <2>2. /\ IsSeq(Calls, 5) /\ Calls[1].call = InstallTempo /\ Calls[2].call = InstallOtelCollector
        /\ Calls[3].call = Datasources("tempoDatasource", Sources)
        /\ Calls[4].call = RestartGrafana(facts)
        /\ Calls[1].policy = "abort" /\ Calls[2].policy = "abort"
        /\ Calls[3].policy = "warn" /\ Calls[4].policy = "warn"
    BY <2>1, TempoAt
  <2>3. /\ InstallTempo.name \in TempoCalls /\ InstallOtelCollector.name \in TempoCalls
        /\ Datasources("tempoDatasource", Sources).name \in TempoCalls
        /\ RestartGrafana(facts).name \in TempoCalls
    BY DEF InstallTempo, InstallOtelCollector, Datasources, RestartGrafana, Replacing, Call,
           TempoCalls
  <2>4. Datasources("tempoDatasource", Sources).makes = {Source(d) : d \in Sources}
    BY DEF Datasources, Replacing, Call
  <2>5. \A j \in 1..4 : j = 1 \/ j = 2 \/ j = 3 \/ j = 4
    OBVIOUS
  <2>6. \A j \in 1..4 : Calls[j].policy # "ignore" /\ Calls[j].call.name \in TempoCalls
    BY <2>2, <2>3, <2>5
  <2>7. QED  BY <2>2, <2>4, <2>6 DEF IsSeq
<1>3. QED  BY <1>1, <1>2 DEF Fills

LEMMA CallsLength == LoopInv /\ pc = "install" => Len(Calls) \in Nat
  BY CallsFit DEF Fits, IsSeq

\* A run gets past one of the four calls only by its success.
LEMMA FilledAt ==
    ASSUME LoopInv, OpInv, [Next]_vars, ~StartRun, ~Crash,
           NEW p \in {11, 12}, NEW n \in 1..4, NEW names, NEW ds, Fills(p, names, ds),
           Enabled(p), Beyond(p, n)', ~Beyond(p, n), failed' \cap names = {}
    PROVE  /\ at = p /\ pc = "install" /\ op = n /\ op <= Len(Calls)
           /\ facts' = After(facts, Calls[n].call)
<1>1. at = p /\ pc = "install" => Len(Calls) >= n
  BY CallsLength DEF Fills
<1>2. /\ at = p /\ pc = "install" /\ op \in 1..n /\ op <= Len(Calls)
      /\ (CallSucceeds /\ op = n) \/ CallFails
  BY <1>1, BeyondStep
<1>3. Current.policy # "ignore" /\ Current.call.name \in names
  BY <1>2 DEF Fills, Current
<1>4. ~CallFails
  BY <1>3 DEF CallFails
<1>5. QED  BY <1>2, <1>4 DEF CallSucceeds, Current

LEMMA SourcesStep ==
    ASSUME LoopInv, OpInv, [Next]_vars, NEW p \in {11, 12}, NEW names, NEW ds \in SUBSET Sources,
           Fills(p, names, ds), SourcesInv(p, names, ds)
    PROVE  SourcesInv(p, names, ds)'
<1> USE LastIs
<1>1. CASE StartRun \/ Crash
  <2>1. ~Beyond(p, 3)' /\ ~Beyond(p, 4)'
    BY <1>1, NewRun DEF Beyond
  <2>2. QED  BY <2>1 DEF SourcesInv
<1>2. CASE ~StartRun /\ ~Crash
  <2> SUFFICES ASSUME failed' \cap names = {}, Enabled(p)'
               PROVE  (Beyond(p, 3)' => Held(ds)') /\ (Beyond(p, 4)' => Served(ds)')
    BY DEF SourcesInv
  <2>1. failed \subseteq failed' /\ cfg' = cfg
    BY <1>2, SameRun, FailedGrows
  <2>2. failed \cap names = {} /\ Enabled(p)
    BY <2>1 DEF Enabled
  <2>3. Beyond(p, 4) => Beyond(p, 3)
    BY AtIsNat DEF Beyond, OpInv
  <2>4. Beyond(p, 3) => Beyond(11, 3)
    BY AtIsNat DEF Beyond
  <2>5. ASSUME Beyond(p, 3)' PROVE Held(ds)'
    <3>1. CASE Beyond(p, 3)
      <4>1. Held(ds)
        BY <2>2, <3>1 DEF SourcesInv
      <4>2. QED  BY <2>4, <3>1, <4>1, SourceKept DEF Held
    <3>2. CASE ~Beyond(p, 3)
      <4>1. at = p /\ pc = "install" /\ facts' = After(facts, Calls[3].call)
        BY <1>2, <2>2, <2>5, <3>2, FilledAt
      <4>2. {Source(d) : d \in ds} \subseteq facts'
        BY <4>1 DEF Fills, After
      <4>3. QED  BY <4>2 DEF Held
    <3>3. QED  BY <3>1, <3>2
  <2>6. ASSUME Beyond(p, 4)' PROVE Served(ds)'
    <3>1. CASE Beyond(p, 4)
      <4>1. Served(ds)
        BY <2>2, <3>1 DEF SourcesInv
      <4>2. QED  BY <2>3, <2>4, <3>1, <4>1, SourceKept DEF Served
    <3>2. CASE ~Beyond(p, 4)
      <4>1. at = p /\ pc = "install" /\ op = 4 /\ facts' = After(facts, Calls[4].call)
        BY <1>2, <2>2, <2>6, <3>2, FilledAt
      <4>2. Beyond(p, 3)
        BY <4>1 DEF Beyond
      <4>3. Held(ds)
        BY <2>2, <4>2 DEF SourcesInv
      <4>4. Calls[4].call = RestartGrafana(facts)
        BY <4>1 DEF Fills
      <4>5. \A d \in ds : Shown(d) \in facts'
        BY <4>1, <4>3, <4>4, RestartIsHarmless DEF Held, After
      <4>6. \A d \in ds : Source(d) \in facts'
        BY <2>4, <4>2, <4>3, SourceKept DEF Held
      <4>7. QED  BY <4>5, <4>6 DEF Served
    <3>3. QED  BY <3>1, <3>2
  <2>7. QED  BY <2>5, <2>6
<1>3. QED  BY <1>1, <1>2

LEMMA SourcesAlways == Spec => []SourcesKept
<1>1. Init => SourcesKept
  <2>1. ASSUME Init PROVE \A p \in {11, 12} : ~Beyond(p, 3) /\ ~Beyond(p, 4)
    BY <2>1 DEF Init, Beyond
  <2>2. QED  BY <2>1 DEF SourcesKept, SourcesInv
<1>2. LoopInv /\ OpInv /\ SourcesKept /\ [Next]_vars => SourcesKept'
  <2> SUFFICES ASSUME LoopInv, OpInv, SourcesKept, [Next]_vars PROVE SourcesKept'
    OBVIOUS
  <2>1. SourcesInv(11, LokiCalls, {"prometheus", "loki"})'
    <3>1. {"prometheus", "loki"} \in SUBSET Sources
      BY DEF Sources
    <3>2. QED  BY <3>1, Filling, SourcesStep DEF SourcesKept
  <2>2. SourcesInv(12, TempoCalls, Sources)'
    BY Filling, SourcesStep DEF SourcesKept
  <2>3. QED  BY <2>1, <2>2 DEF SourcesKept
<1>3. QED  BY <1>1, <1>2, LoopAlways, OpAlways, PTL DEF Spec

\* The name of a component tells its place.
LEMMA Named ==
    /\ Has("Keycloak") => Enabled(14)
    /\ Has("Karpor") => Enabled(16)
    /\ Has("Monitoring") => Enabled(10)
    /\ Has("Tempo") => Enabled(12)
<1>1. \A i \in 1..Last : /\ WorkloadSteps[i].name = "Keycloak" => i = 14
                         /\ WorkloadSteps[i].name = "Karpor" => i = 16
                         /\ WorkloadSteps[i].name = "Monitoring" => i = 10
                         /\ WorkloadSteps[i].name = "Tempo" => i = 12
  BY PlaceNames, PlaceCases
<1>2. QED  BY <1>1 DEF Has

\* A run with Tempo that returns nil and in which none of Tempo's calls failed leaves
\* Grafana with the three data sources, in its ConfigMap and loaded, whatever else
\* failed and whatever the ConfigMap was before (tempo.go).
THEOREM SourcesAreKept == Spec => []GrafanaKeepsItsSources
<1>1. LoopInv /\ SourcesKept => GrafanaKeepsItsSources
  <2> SUFFICES ASSUME LoopInv, SourcesKept, pc = "ok", Has("Tempo"), failed \cap TempoCalls = {},
                      NEW d \in Sources
               PROVE  Source(d) \in facts /\ Shown(d) \in facts
    BY DEF GrafanaKeepsItsSources, TempoCalls
  <2>1. Enabled(12) /\ Beyond(12, 4)
    BY Named, LastIs DEF LoopInv, Beyond
  <2>2. QED  BY <2>1 DEF SourcesKept, SourcesInv, Served
<1>2. QED  BY <1>1, LoopAlways, SourcesAlways, PTL

-----------------------------------------------------------------------------
(* Karpor's kubeconfig and Grafana's login *)

Kubeconfig == Deployed("karpor-kubeconfig")

\* The ConfigMap is deleted by Karpor's fifth call and made by its sixth.
KubeInv == Quiet /\ Enabled(16) /\ Beyond(16, 6) => Kubeconfig \in facts

\* The running recipe, if it is Karpor's.
LEMMA KarporCalls ==
    ASSUME pc = "install", at = 16
    PROVE  \E n \in Nat :
               /\ IsSeq(Calls, n) /\ n >= 6
               /\ \A j \in 1..4 : Calls[j].policy = "abort"
               /\ Calls[5].policy = "ignore" /\ Calls[5].skip = 0
               /\ Calls[6].policy = "warn" /\ Calls[6].call.makes = {Kubeconfig}
               /\ \A j \in 7..n : Calls[j].call.drops = {}
<1>1. Calls = Karpor(cfg.features)
  BY PlaceNames DEF Calls, Step, Recipe
<1>2. QED  BY <1>1, KarporAt DEF Kubeconfig

LEMMA KubeconfigIsMade ==
    ASSUME LoopInv, OpInv, [Next]_vars, ~StartRun, ~Crash, Enabled(16), Quiet',
           Beyond(16, 6)', ~Beyond(16, 6)
    PROVE  Kubeconfig \in facts'
<1>1. at = 16 /\ pc = "install" => Len(Calls) >= 6
  BY KarporCalls DEF IsSeq
<1>2. /\ at = 16 /\ pc = "install" /\ op \in 1..6 /\ op <= Len(Calls)
      /\ (CallSucceeds /\ op = 6) \/ (CallFails /\ (Returned \/ op' > 6))
  BY <1>1, BeyondStep
<1>3. PICK n \in Nat :
               /\ \A j \in 1..4 : Calls[j].policy = "abort"
               /\ Calls[5].policy = "ignore" /\ Calls[5].skip = 0
               /\ Calls[6].policy = "warn" /\ Calls[6].call.makes = {Kubeconfig}
  BY <1>2, KarporCalls
<1>4. CASE CallSucceeds /\ op = 6
  BY <1>3, <1>4 DEF CallSucceeds, Current, After
<1>5. CASE CallFails /\ (Returned \/ op' > 6)
  <2>1. Current.policy = "ignore"
    BY <1>5 DEF CallFails, Quiet
  <2>2. op = 5
    <3>1. op \in 1..4 \/ op = 5 \/ op = 6
      BY <1>2
    <3>2. QED  BY <1>3, <2>1, <3>1 DEF Current
  <2>3. op' = 6
    BY <1>3, <1>5, <2>1, <2>2 DEF CallFails, Returned, Continue, Current
  <2>4. QED  BY <1>5, <2>1, <2>3 DEF Returned
<1>6. QED  BY <1>2, <1>4, <1>5

LEMMA KubeconfigIsKept ==
    ASSUME LoopInv, OpInv, [Next]_vars, Beyond(16, 6), Kubeconfig \in facts
    PROVE  Kubeconfig \in facts'
<1>1. Kubeconfig \notin Volatile(17) /\ Kubeconfig \notin Loading
  BY DEF Kubeconfig, Volatile, Loading, Sidecar, CniToken, Edited, Deployed, Shown
<1>2. ASSUME pc \in Calling, op <= Len(Calls) PROVE Kubeconfig \notin Current.call.drops
  <2>1. CASE pc = "install"
    <3>1. at = 16 /\ op > 6
      BY <2>1, LastIs DEF Beyond, LoopInv
    <3>2. PICK n \in Nat : IsSeq(Calls, n) /\ \A j \in 7..n : Calls[j].call.drops = {}
      BY <2>1, <3>1, KarporCalls
    <3>3. op \in 7..n
      BY <1>2, <3>1, <3>2 DEF IsSeq, OpInv
    <3>4. QED  BY <3>2, <3>3 DEF Current
  <2>2. CASE pc \in {"post", "oauth"}
    BY <1>1, <1>2, <2>2, OtherDrops
  <2>3. QED  BY <1>2, <2>1, <2>2 DEF Calling
<1>3. QED  BY <1>1, <1>2, FactKept

LEMMA KubeStep == LoopInv /\ OpInv /\ KubeInv /\ [Next]_vars => KubeInv'
<1> SUFFICES ASSUME LoopInv, OpInv, KubeInv, [Next]_vars, Quiet', Enabled(16)', Beyond(16, 6)'
             PROVE  (Kubeconfig \in facts)'
  BY DEF KubeInv
<1>1. ~StartRun /\ ~Crash
  BY NewRun DEF Beyond
<1>2. Quiet /\ Enabled(16)
  BY <1>1, SameRun DEF Enabled
<1>3. QED  BY <1>1, <1>2, KubeconfigIsMade, KubeconfigIsKept DEF KubeInv, Kubeconfig

\* The loop has remembered the Keycloak installer once it is past it.
RememberInv == Running /\ Enabled(14) /\ Past(14) => keycloak

LEMMA RememberStep == LoopInv /\ OpInv /\ RememberInv /\ [Next]_vars => RememberInv'
<1> SUFFICES ASSUME LoopInv, OpInv, RememberInv, [Next]_vars,
                    Running', Enabled(14)', Past(14)'
             PROVE  keycloak'
  BY DEF RememberInv
<1> USE LastIs
<1>1. ~StartRun /\ ~Crash
  BY NewRun DEF Past
<1>2. Enabled(14) /\ at \in Nat
  BY <1>1, SameRun, AtIsNat DEF Enabled
<1>3. CASE InstallReturns \/ CallFails
  <2>1. CASE pc' = "post" /\ pc = "install"
    <3>1. keycloak' = (keycloak \/ Step.name = "Keycloak") /\ at' = at
      BY <1>3, <2>1 DEF InstallReturns, CallFails, Abort, Continue, GotoPost
    <3>2. at = 14 => Step.name = "Keycloak"
      BY PlaceNames DEF Step
    <3>3. at > 14 => keycloak
      BY <1>2, <2>1 DEF RememberInv, Past, Running, Calling
    <3>4. at' >= 14
      BY <1>2, <3>1 DEF Past
    <3>5. at = 14 \/ at > 14
      BY <1>2, <3>1, <3>4
    <3>6. QED  BY <3>1, <3>2, <3>3, <3>5, Zenon
  <2>2. CASE ~(pc' = "post" /\ pc = "install")
    <3>1. at' = at /\ keycloak' = keycloak /\ pc' = pc
      BY <1>3, <2>2 DEF InstallReturns, CallFails, Returned, Abort, Continue, GotoPost, Running,
                        Calling
    <3>2. QED  BY <1>2, <3>1 DEF RememberInv, Past, Running
  <2>3. QED  BY <2>1, <2>2
<1>4. CASE SkipComponent \/ BeginComponent \/ PostReturns
  BY <1>2, <1>4 DEF SkipComponent, BeginComponent, PostReturns, RememberInv, Past, Running,
                    Calling
<1>5. CASE CallSucceeds \/ EndOfPlan \/ OAuthReturns
  BY <1>2, <1>5 DEF CallSucceeds, EndOfPlan, OAuthReturns, RememberInv, Past, Running, Calling
<1>6. CASE Cluster \/ UNCHANGED vars
  BY <1>2, <1>6 DEF Cluster, SyncSecrets, StartKeycloakPod, StartGrafanaPod, RestartAPIServer,
                    PullModel, vars, loop, RememberInv, Past, Running
<1>7. QED  BY <1>1, <1>3, <1>4, <1>5, <1>6 DEF Next, InstallWorkloads

\* Grafana logs in through Keycloak once the second call of ConfigureGrafanaOAuth
\* has been made.
OAuthInv ==
    Quiet /\ "monitoring" \in cfg.features =>
        /\ pc = "oauth" /\ op > 2 => OAuth \in facts
        /\ pc = "ok" /\ Enabled(14) => OAuth \in facts

LEMMA OAuthStep ==
    LoopInv /\ OpInv /\ RememberInv /\ OAuthInv /\ [Next]_vars => OAuthInv'
<1> SUFFICES ASSUME LoopInv, OpInv, RememberInv, OAuthInv, [Next]_vars,
                    Quiet', "monitoring" \in cfg'.features,
                    (pc' = "oauth" /\ op' > 2) \/ (pc' = "ok" /\ Enabled(14)')
             PROVE  (OAuth \in facts)'
  BY DEF OAuthInv
<1> USE LastIs
<1>1. ~StartRun /\ ~Crash
  BY NewRun DEF StartRun, Crash
<1>2. Quiet /\ "monitoring" \in cfg.features /\ (Enabled(14)' => Enabled(14)) /\ at \in Nat
  BY <1>1, SameRun, AtIsNat DEF Enabled
<1>3. OAuth \notin Volatile(17)
  BY DEF OAuth, Volatile, Loading, Sidecar, CniToken, Edited, Shown
<1>4. ASSUME pc = "oauth"
      PROVE  /\ at = 17 /\ IsSeq(Calls, 3) /\ (\A j \in 1..3 : Calls[j].policy = "warn")
             /\ OAuth \in Calls[2].call.makes
  <2>1. Calls = ConfigureGrafanaOAuth(cfg.features, facts)
    BY <1>4 DEF Calls
  <2>2. QED  BY <1>2, <1>4, <2>1, OAuthAt DEF LoopInv
<1>5. CASE pc = "oauth" /\ op > 2
  <2>1. OAuth \in facts /\ OAuth \notin Volatile(at)
    BY <1>2, <1>3, <1>4, <1>5 DEF OAuthInv
  <2>2. QED  BY <2>1, StepKeeps
<1>6. CASE pc = "ok" /\ Enabled(14)
  <2>1. OAuth \in facts /\ at = 17
    BY <1>2, <1>6 DEF OAuthInv, LoopInv
  <2>2. QED  BY <1>3, <2>1, StepKeeps
<1>7. CASE pc = "oauth" /\ op <= 2
  <2>1. CASE CallSucceeds
    <3>1. op = 2 /\ facts' = After(facts, Calls[2].call)
      BY <1>7, <2>1 DEF CallSucceeds, Current, OpInv
    <3>2. QED  BY <1>4, <1>7, <3>1 DEF After
  <2>2. CASE CallFails
    <3>1. op \in 1..3
      BY <1>7 DEF OpInv
    <3>2. Current.policy = "warn"
      BY <1>4, <1>7, <3>1 DEF Current
    <3>3. QED  BY <2>2, <3>2 DEF CallFails, Quiet
  <2>3. CASE OAuthReturns
    <3>1. Len(Calls) = 3 /\ op > Len(Calls) /\ op \in Nat
      BY <1>4, <1>7, <2>3 DEF OAuthReturns, IsSeq, OpInv
    <3>2. QED  BY <1>7, <3>1
  <2>4. CASE Cluster \/ UNCHANGED vars
    BY <1>7, <2>4 DEF Cluster, SyncSecrets, StartKeycloakPod, StartGrafanaPod,
                      RestartAPIServer, PullModel, vars, loop, OpInv
  <2>5. CASE SkipComponent \/ BeginComponent \/ InstallReturns \/ PostReturns \/ EndOfPlan
    BY <1>7, <2>5 DEF SkipComponent, BeginComponent, InstallReturns, PostReturns, EndOfPlan
  <2>6. QED  BY <1>1, <2>1, <2>2, <2>3, <2>4, <2>5 DEF Next, InstallWorkloads
<1>8. CASE pc # "oauth" /\ (pc # "ok" \/ ~Enabled(14))
  <2>1. EndOfPlan
    BY <1>1, <1>2, <1>8 DEF Next, InstallWorkloads, SkipComponent, BeginComponent, CallSucceeds,
          CallFails, Returned, Abort, Continue, InstallReturns, GotoPost, PostReturns,
          OAuthReturns, Cluster, SyncSecrets, StartKeycloakPod, StartGrafanaPod,
          RestartAPIServer, PullModel, vars, loop
  <2>2. at > 14 /\ Running
    BY <1>2, <2>1 DEF EndOfPlan, Running
  <2>3. Enabled(14) => keycloak
    BY <2>2 DEF RememberInv, Past
  <2>4. op' = 1 /\ pc' = IF keycloak THEN "oauth" ELSE "ok"
    BY <2>1 DEF EndOfPlan
  <2>5. pc' = "ok" /\ Enabled(14)
    BY <1>2, <2>4
  <2>6. pc' = "oauth"
    BY <2>3, <2>4, <2>5, Zenon
  <2>7. QED  BY <2>5, <2>6
<1>9. QED  BY <1>5, <1>6, <1>7, <1>8 DEF OpInv

LoginInv == KubeInv /\ RememberInv /\ OAuthInv

LEMMA LoginAlways == Spec => []LoginInv
<1>1. Init => LoginInv
  BY LastIs DEF Init, LoginInv, KubeInv, RememberInv, OAuthInv, Beyond, Past, Running, Calling
<1>2. LoopInv /\ OpInv /\ LoginInv /\ [Next]_vars => LoginInv'
  BY KubeStep, RememberStep, OAuthStep DEF LoginInv
<1>3. QED  BY <1>1, <1>2, LoopAlways, OpAlways, PTL DEF Spec

-----------------------------------------------------------------------------
(* calico-node's token *)

\* The calls of the patch follow this one of Keycloak's.
PatchStart(c) == CHOOSE n \in Nat : \A f : PatchedAfter(c, f, n)

LEMMA PatchStartIs ==
    ASSUME NEW c
    PROVE  PatchStart(c) \in Nat /\ \A f : PatchedAfter(c, f, PatchStart(c))
  BY KeycloakAt DEF PatchStart

\* Where an edit waits for the kubelet.
Waiting ==
    /\ pc = "install" /\ at = 14
    /\ op \in {PatchStart(cfg.features) + 3, PatchStart(cfg.features) + 4}

EditCalls == {"hostAlias", "authFlag", "apiServerWait"}

\* An edit the kubelet has not noticed is one that is being waited for, or this run
\* gave the patch up or saw the wait fail.
EditInv == Edited \in facts /\ pc # "idle" => failed \cap EditCalls # {} \/ Waiting

\* What the next call of Keycloak's does to the manifest.
LEMMA KeycloakEdits ==
    ASSUME OpInv, pc = "install", at = 14, op <= Len(Calls), NEW n, n = PatchStart(cfg.features)
    PROVE  /\ n \in Nat
           /\ op \in {n + 2, n + 3, n + 4} =>
                 Current.policy = "warn" /\ Current.call.name \in EditCalls
           /\ op = n + 4 => Current.call = WaitForAPIServer(facts)
           /\ op \notin {n + 2, n + 3} => Edited \notin Current.call.makes
<1>1. Calls = Keycloak(cfg.features, facts)
  BY PlaceNames DEF Calls, Step, Recipe
<1>2. n \in Nat /\ PatchedAfter(cfg.features, facts, n)
  BY PatchStartIs
<1>3. PICK m \in Nat :
        /\ IsSeq(Calls, n + 5 + m)
        /\ \A j \in 1..5 : Calls[n + j] = PatchAPIServer(facts)[j]
        /\ \A j \in 1..(n + 5 + m) : j \notin (n + 1)..(n + 5) => Edited \notin Calls[j].call.makes
  BY <1>1, <1>2 DEF PatchedAfter
<1>4. op \in 1..(n + 5 + m)
  BY <1>3 DEF OpInv, IsSeq
<1>5. \A j \in 1..5 : Calls[n + j].policy = "warn" /\ Calls[n + j].call = PatchCalls(facts)[j]
  BY <1>3, PatchIs
<1>6. /\ PatchCalls(facts)[1] = Call("authConfig", {LabCA}, {})
      /\ PatchCalls(facts)[2] = EditManifest("hostAlias", Alias, facts)
      /\ PatchCalls(facts)[3] = EditManifest("authFlag", Oidc, facts)
      /\ PatchCalls(facts)[4] = WaitForAPIServer(facts)
      /\ PatchCalls(facts)[5] = Call("oidcRoles", {}, {Deployed("oidc-roles")})
  BY DEF PatchCalls
<1>7. /\ EditManifest("hostAlias", Alias, facts).name \in EditCalls
      /\ EditManifest("authFlag", Oidc, facts).name \in EditCalls
      /\ WaitForAPIServer(facts).name \in EditCalls
      /\ Edited \notin WaitForAPIServer(facts).makes
      /\ Edited \notin Call("authConfig", {LabCA}, {}).makes
      /\ Edited \notin Call("oidcRoles", {}, {Deployed("oidc-roles")}).makes
  BY DEF EditManifest, WaitForAPIServer, Replacing, Call, EditCalls, Edited, Deployed
<1>8. CASE op \in (n + 1)..(n + 5)
  <2>1. op = n + 1 \/ op = n + 2 \/ op = n + 3 \/ op = n + 4 \/ op = n + 5
    BY <1>2, <1>8
  <2>2. QED  BY <1>2, <1>5, <1>6, <1>7, <2>1 DEF Current
<1>9. CASE op \notin (n + 1)..(n + 5)
  BY <1>2, <1>3, <1>4, <1>9 DEF Current
<1>10. QED  BY <1>8, <1>9

\* No call elsewhere edits it.
LEMMA OthersEditNothing ==
    ASSUME LoopInv, OpInv, pc \in Calling, op <= Len(Calls), ~(pc = "install" /\ at = 14)
    PROVE  Edited \notin Current.call.makes
<1>1. Shuns(Calls)
  <2>1. CASE pc = "install"
    BY <2>1, PlaceShuns DEF Calls, Step, LoopInv
  <2>2. CASE pc \in {"post", "oauth"}
    BY <2>2, OthersShun DEF Calls
  <2>3. QED  BY <2>1, <2>2 DEF Calling
<1>2. op \in 1..Len(Calls)
  BY <1>1 DEF OpInv, Shuns, Listing, IsSeq
<1>3. QED  BY <1>1, <1>2 DEF Shuns, Makes, Current

LEMMA EditCall ==
    ASSUME LoopInv, OpInv, EditInv, CallSucceeds \/ CallFails
    PROVE  EditInv'
<1> DEFINE n == PatchStart(cfg.features)
<1>1. pc \in Calling /\ op <= Len(Calls) /\ pc # "idle" /\ cfg' = cfg
  BY DEF CallSucceeds, CallFails, Calling
<1>2. facts' \in {facts, After(facts, Current.call)} /\ failed \subseteq failed'
  BY DEF CallSucceeds, CallFails, Fault, report
<1> SUFFICES ASSUME Edited \in facts', failed \cap EditCalls = {}
             PROVE  failed' \cap EditCalls # {} \/ Waiting'
  BY <1>2 DEF EditInv
<1>3. Edited \in facts => Waiting
  BY <1>1 DEF EditInv
<1>4. pc = "install" /\ at = 14
  <2> SUFFICES ASSUME ~(pc = "install" /\ at = 14) PROVE FALSE
    OBVIOUS
  <2>1. Edited \notin Current.call.makes
    BY <1>1, OthersEditNothing
  <2>2. QED  BY <1>2, <1>3, <2>1 DEF After, Waiting
<1>5. /\ n \in Nat
      /\ op \in {n + 2, n + 3, n + 4} =>
            Current.policy = "warn" /\ Current.call.name \in EditCalls
      /\ op = n + 4 => Current.call = WaitForAPIServer(facts)
      /\ op \notin {n + 2, n + 3} => Edited \notin Current.call.makes
  BY <1>1, <1>4, KeycloakEdits
<1>6. op \in {n + 2, n + 3, n + 4}
  BY <1>2, <1>3, <1>5 DEF After, Waiting
<1>7. CASE CallFails
  BY <1>5, <1>6, <1>7 DEF CallFails
<1>8. CASE CallSucceeds
  <2>1. op' = op + 1 /\ pc' = pc /\ at' = at /\ facts' = After(facts, Current.call)
    BY <1>8 DEF CallSucceeds
  <2>2. op # n + 4
    <3> SUFFICES ASSUME op = n + 4 PROVE FALSE
      OBVIOUS
    <3>1. Current.call.drops = Restarted(facts) /\ Edited \notin Current.call.makes
      BY <1>5 DEF WaitForAPIServer, Replacing, Call
    <3>2. Edited \in facts /\ Edited \notin Restarted(facts)
      BY <2>1, <3>1 DEF After
    <3>3. QED  BY <3>2 DEF Restarted
  <2>3. op' \in {n + 3, n + 4}
    BY <1>5, <1>6, <2>1, <2>2
  <2>4. QED  BY <1>1, <1>4, <2>1, <2>3 DEF Waiting
<1>9. QED  BY <1>7, <1>8

\* The steps of the loop leave Keycloak's recipe only at its end.
LEMMA EditLoop ==
    ASSUME OpInv, EditInv,
           \/ SkipComponent \/ BeginComponent \/ InstallReturns
           \/ PostReturns \/ EndOfPlan \/ OAuthReturns
    PROVE  EditInv'
<1>1. facts' = facts /\ failed' = failed /\ pc # "idle"
  BY DEF SkipComponent, BeginComponent, InstallReturns, PostReturns, EndOfPlan, OAuthReturns,
         report
<1>2. ~Waiting
  <2> SUFFICES ASSUME Waiting PROVE FALSE
    OBVIOUS
  <2>1. op > Len(Calls) /\ pc = "install" /\ at = 14
    BY DEF Waiting, SkipComponent, BeginComponent, InstallReturns, PostReturns, EndOfPlan,
           OAuthReturns
  <2>2. Calls = Keycloak(cfg.features, facts)
    BY <2>1, PlaceNames DEF Calls, Step, Recipe
  <2>3. PatchStart(cfg.features) \in Nat
        /\ PatchedAfter(cfg.features, facts, PatchStart(cfg.features))
    BY PatchStartIs
  <2>4. PICK m \in Nat : Len(Calls) = PatchStart(cfg.features) + 5 + m
    BY <2>2, <2>3 DEF PatchedAfter, IsSeq
  <2>5. QED  BY <2>1, <2>3, <2>4 DEF Waiting
<1>3. QED  BY <1>1, <1>2 DEF EditInv

\* The cluster edits nothing.
LEMMA EditCluster == ASSUME EditInv, Cluster PROVE EditInv'
<1>1. cfg' = cfg /\ pc' = pc /\ at' = at /\ op' = op /\ failed' = failed
  BY DEF Cluster, SyncSecrets, StartKeycloakPod, StartGrafanaPod, RestartAPIServer, PullModel,
         loop, report
<1>2. Edited \in facts' => Edited \in facts
  <2>1. CASE \E n \in {"keycloak", "monitoring", "ollama"} : SyncSecrets(n)
    BY <2>1 DEF SyncSecrets, Edited, Secret
  <2>2. CASE StartKeycloakPod
    BY <2>2 DEF StartKeycloakPod, Edited, Pod, Sidecar
  <2>3. CASE StartGrafanaPod
    BY <2>3 DEF StartGrafanaPod, After, RestartGrafana, Replacing, Call, Edited, Shown
  <2>4. CASE RestartAPIServer \/ PullModel
    BY <2>4 DEF RestartAPIServer, PullModel, Edited, Model
  <2>5. QED  BY <2>1, <2>2, <2>3, <2>4 DEF Cluster
<1>3. QED  BY <1>1, <1>2 DEF EditInv, Waiting

LEMMA EditAlways == Spec => []EditInv
<1>1. Init => EditInv
  BY DEF Init, EditInv
<1>2. LoopInv /\ OpInv /\ EditInv /\ [Next]_vars => EditInv'
  <2> SUFFICES ASSUME LoopInv, OpInv, EditInv, [Next]_vars PROVE EditInv'
    OBVIOUS
  <2>1. CASE StartRun \/ Crash
    BY <2>1 DEF StartRun, Crash, EditInv
  <2>2. CASE UNCHANGED vars
    BY <2>2 DEF vars, loop, report, EditInv, Waiting
  <2>3. QED  BY <2>1, <2>2, EditCall, EditLoop, EditCluster DEF Next, InstallWorkloads
<1>3. QED  BY <1>1, <1>2, LoopAlways, OpAlways, PTL DEF Spec

\* calico-node has a good token, or the run could not refresh it, or the manifest was
\* edited and nobody saw the restart.
Refreshed == CniToken \in facts \/ failed \cap (EditCalls \cup {"refreshCalico"}) # {}

\* It is so from the moment Keycloak's post step has made its call.
TokenInv ==
    /\ Enabled(14) /\ at > 14 => Refreshed
    /\ pc = "post" /\ at = 14 /\ op > 1 => Refreshed

LEMMA TokenInit == Init => TokenInv
  BY LastIs DEF Init, TokenInv

\* The calls that are made after that take no token away.
LEMMA LateCallSpares ==
    ASSUME LoopInv, OpInv, pc \in Calling, at > 14, op <= Len(Calls)
    PROVE  CniToken \notin Current.call.drops
<1>1. CASE pc = "install"
  <2>1. at \in {15, 16}
    BY <1>1, LastIs DEF LoopInv
  <2>2. Current.call.drops \subseteq Drops(at)
    BY <1>1, CurrentFits DEF FitsAt, Current
  <2>3. CniToken \notin Drops(at)
    BY <2>1 DEF Drops, CniToken, Keyed, Deployed
  <2>4. QED  BY <2>2, <2>3
<1>2. CASE pc \in {"post", "oauth"}
  <2>1. CniToken \notin Loading
    BY DEF CniToken, Loading, Shown
  <2>2. QED  BY <1>2, <2>1, OtherDrops
<1>3. QED  BY <1>1, <1>2 DEF Calling

\* The post step makes one call, and that is the refresh.
LEMMA KeycloakPost ==
    ASSUME pc = "post", at = 14
    PROVE  /\ Len(Calls) = 1 /\ Calls[1].policy = "warn" /\ Calls[1].skip = 0
           /\ Calls[1].call.name = "refreshCalico"
           /\ CniToken \in Calls[1].call.makes
<1>1. Calls = RefreshCalico
  BY PlaceNames DEF Calls, PostRecipe, Step
<1>2. QED  BY <1>1 DEF RefreshCalico, May, Call

\* A call that is made after the refresh leaves it valid, whether it succeeds or not.
LEMMA CallKeeps ==
    ASSUME LoopInv, OpInv, TokenInv, CallSucceeds \/ CallFails, Enabled(14), at > 14
    PROVE  Refreshed'
<1>1. pc \in Calling /\ op <= Len(Calls)
  BY DEF CallSucceeds, CallFails
<1>2. facts' \in {facts, After(facts, Current.call)}
  BY DEF CallSucceeds, CallFails, Fault
<1>3. failed \subseteq failed'
  BY DEF CallSucceeds, CallFails, report
<1>4. CniToken \in facts => CniToken \in facts'
  BY <1>1, <1>2, LateCallSpares DEF After
<1>5. QED  BY <1>3, <1>4 DEF TokenInv, Refreshed

LEMMA RefreshCounts ==
    ASSUME LoopInv, OpInv, CallSucceeds \/ CallFails, pc = "post", at = 14
    PROVE  Refreshed'
<1>1. op = 1
  <2>1. op <= 1
    BY KeycloakPost DEF CallSucceeds, CallFails
  <2>2. QED  BY <2>1 DEF OpInv
<1>2. Current.policy = "warn" /\ Current.call.name = "refreshCalico"
      /\ CniToken \in Current.call.makes
  BY <1>1, KeycloakPost DEF Current
<1>3. CASE CallSucceeds
  BY <1>2, <1>3 DEF CallSucceeds, After, Refreshed
<1>4. CASE CallFails
  <2>1. failed' = failed \cup {"refreshCalico"}
    BY <1>2, <1>4 DEF CallFails
  <2>2. QED  BY <2>1 DEF Refreshed
<1>5. QED  BY <1>3, <1>4

\* The API server restarts behind the run's back only if this run let it.
LEMMA ClusterRefreshes ==
    ASSUME LoopInv, EditInv, TokenInv, Cluster
    PROVE  TokenInv'
<1>1. cfg' = cfg /\ pc' = pc /\ at' = at /\ op' = op /\ failed' = failed
  BY DEF Cluster, SyncSecrets, StartKeycloakPod, StartGrafanaPod, RestartAPIServer, PullModel,
         loop, report
<1>2. CASE RestartAPIServer
  <2>1. pc = "idle" \/ failed \cap EditCalls # {} \/ Waiting
    BY <1>2 DEF RestartAPIServer, EditInv
  <2>2. CASE failed \cap EditCalls # {}
    BY <1>1, <2>2 DEF TokenInv, Refreshed
  <2>3. CASE pc = "idle" \/ Waiting
    <3>1. at \in {1, 14} /\ pc # "post"
      BY <2>3 DEF LoopInv, Waiting
    <3>2. QED  BY <1>1, <3>1 DEF TokenInv
  <2>4. QED  BY <2>1, <2>2, <2>3
<1>3. CASE Cluster /\ ~RestartAPIServer
  <2>1. CniToken \in facts => CniToken \in facts'
    <3>1. CASE \E n \in {"keycloak", "monitoring", "ollama"} : SyncSecrets(n)
      BY <3>1 DEF SyncSecrets
    <3>2. CASE StartKeycloakPod
      BY <3>2 DEF StartKeycloakPod, CniToken, Sidecar
    <3>3. CASE StartGrafanaPod
      BY <3>3 DEF StartGrafanaPod, After, RestartGrafana, Replacing, Call, CniToken, Shown
    <3>4. CASE PullModel
      BY <3>4 DEF PullModel
    <3>5. QED  BY <1>3, <3>1, <3>2, <3>3, <3>4 DEF Cluster
  <2>2. Refreshed => Refreshed'
    BY <1>1, <2>1 DEF Refreshed
  <2>3. QED  BY <1>1, <2>2 DEF TokenInv, Enabled
<1>4. QED  BY <1>2, <1>3

LEMMA TokenStep == LoopInv /\ OpInv /\ EditInv /\ TokenInv /\ [Next]_vars => TokenInv'
<1> SUFFICES ASSUME LoopInv, OpInv, EditInv, TokenInv, [Next]_vars PROVE TokenInv'
  OBVIOUS
<1>1. CASE StartRun
  BY <1>1 DEF StartRun, TokenInv
<1>2. CASE Crash
  BY <1>2 DEF Crash, TokenInv
<1>3. CASE SkipComponent
  <2>1. at # 14 \/ ~Enabled(14)
    BY <1>3 DEF SkipComponent
  <2>2. at \in Nat /\ at' = at + 1 /\ pc' = "loop" /\ op' = op
    BY <1>3, LastIs DEF SkipComponent, LoopInv
  <2>3. cfg' = cfg /\ facts' = facts /\ failed' = failed
    BY <1>3 DEF SkipComponent, report
  <2>4. Enabled(14)' = Enabled(14) /\ Refreshed' = Refreshed
    BY <2>3 DEF Enabled, Refreshed
  <2>5. QED  BY <2>1, <2>2, <2>4 DEF TokenInv
<1>4. CASE BeginComponent
  BY <1>4 DEF BeginComponent, TokenInv, report, Refreshed, Enabled
<1>5. CASE CallSucceeds \/ CallFails
  <2>1. Enabled(14)' = Enabled(14) /\ at' = at
    BY <1>5 DEF CallSucceeds, CallFails, Abort, Continue, GotoPost, Enabled
  <2>2. Enabled(14) /\ at > 14 => Refreshed'
    BY <1>5, CallKeeps
  <2>3. pc' = "post" /\ at = 14 /\ op' > 1 => Refreshed'
    <3>1. CASE pc = "post"
      BY <1>5, <3>1, RefreshCounts
    <3>2. CASE pc # "post"
      BY <1>5, <3>2 DEF CallSucceeds, CallFails, Abort, Continue, GotoPost
    <3>3. QED  BY <3>1, <3>2
  <2>4. QED  BY <2>1, <2>2, <2>3 DEF TokenInv
<1>6. CASE InstallReturns
  BY <1>6 DEF InstallReturns, GotoPost, TokenInv, report, Refreshed, Enabled
<1>7. CASE PostReturns
  <2>1. at = 14 => op > 1
    BY <1>7, KeycloakPost DEF PostReturns
  <2>2. at \in Nat /\ at' = at + 1 /\ pc = "post" /\ pc' = "loop" /\ op' = op
    BY <1>7, LastIs DEF PostReturns, LoopInv
  <2>3. Enabled(14)' = Enabled(14) /\ Refreshed' = Refreshed
    BY <1>7 DEF PostReturns, report, Enabled, Refreshed
  <2>4. QED  BY <2>1, <2>2, <2>3 DEF TokenInv
<1>8. CASE EndOfPlan
  BY <1>8 DEF EndOfPlan, TokenInv, report, Refreshed, Enabled
<1>9. CASE OAuthReturns
  BY <1>9 DEF OAuthReturns, TokenInv, report, Refreshed, Enabled
<1>10. CASE Cluster
  BY <1>10, ClusterRefreshes
<1>11. CASE UNCHANGED vars
  BY <1>11 DEF vars, loop, report, TokenInv, Refreshed, Enabled
<1>12. QED
  BY <1>1, <1>2, <1>3, <1>4, <1>5, <1>6, <1>7, <1>8, <1>9, <1>10, <1>11
     DEF Next, InstallWorkloads

LEMMA TokenAlways == Spec => []TokenInv
  BY LoopAlways, OpAlways, EditAlways, TokenInit, TokenStep, PTL DEF Spec

\* A run with Keycloak that returns nil leaves calico-node a token the API server
\* accepts, whatever else failed, in this run or in earlier ones, and although the
\* kubelet restarts the API server in its own time after an edit: unless refreshing
\* failed, or an edit did and so nobody waited, or the wait was too short.
THEOREM FreshToken == Spec => []NodesGetFreshToken
<1>1. LoopInv /\ TokenInv => NodesGetFreshToken
  <2> SUFFICES ASSUME LoopInv, TokenInv, pc = "ok", Has("Keycloak"),
                      failed \cap (EditCalls \cup {"refreshCalico"}) = {}
               PROVE  CniToken \in facts
    BY DEF NodesGetFreshToken, EditCalls
  <2>1. Enabled(14) /\ at > 14
    BY Named, LastIs DEF LoopInv
  <2>2. QED  BY <2>1 DEF TokenInv, Refreshed
<1>2. QED  BY <1>1, LoopAlways, TokenAlways, PTL

-----------------------------------------------------------------------------
(* What success without a failure means *)

\* Keycloak's flag stays in the API server's manifest, and calico-node has been
\* given a token since.
LEMMA KeycloakIsThere ==
    ASSUME LoopInv, LeftInv, TokenInv, pc = "ok", Quiet, Enabled(14)
    PROVE  Promised("Keycloak") \subseteq facts
<1>1. 14 \in 1..Last /\ Past(14) /\ at > 14
  BY LastIs DEF LoopInv, Past
<1>2. {Injected("keycloak"), Filled} \subseteq facts
  BY SecuredIsThere DEF Secured
<1>3. Oidc \in facts
  <2>1. Oidc \notin Volatile(14)
    BY DEF Oidc, Volatile, Loading, Labels, ConfigMap, Sidecar, CniToken, Edited, Keyed,
           Deployed, Shown
  <2>2. Gives(Listed(14), Oidc, Whatever)
    BY KeycloakGives, ListedAre
  <2>3. QED  BY <1>1, <2>1, <2>2, DoneGives
<1>4. CniToken \in facts
  BY <1>1 DEF TokenInv, Refreshed, Quiet
<1>5. QED  BY <1>2, <1>3, <1>4 DEF Promised

\* Loki's and Tempo's data sources are in Grafana.
LEMMA SourcesAreThere ==
    ASSUME LoopInv, SourcesKept, pc = "ok", Quiet
    PROVE  /\ Enabled(11) => Promised("Loki") \subseteq facts
           /\ Enabled(12) => Promised("Tempo") \subseteq facts
<1>1. Beyond(11, 4) /\ Beyond(12, 4)
  BY LastIs DEF LoopInv, Beyond
<1>2. /\ Enabled(11) => Served({"prometheus", "loki"})
      /\ Enabled(12) => Served(Sources)
  BY <1>1 DEF SourcesKept, SourcesInv, Quiet
<1>3. QED  BY <1>2 DEF Served, Promised

\* A run that returns nil and in which nothing failed leaves every component that is
\* enabled complete, in every configuration and whatever earlier runs left: the
\* order of the steps lets none of them undo another.
THEOREM QuietRunsComplete == Spec => []QuietRunIsComplete
<1>1. LoopInv /\ LeftInv /\ SourcesKept /\ TokenInv /\ LoginInv => QuietRunIsComplete
  <2> SUFFICES ASSUME LoopInv, LeftInv, SourcesKept, TokenInv, LoginInv, pc = "ok", Quiet
               PROVE  /\ \A i \in 1..Last :
                            Enabled(i) => Promised(WorkloadSteps[i].name) \subseteq facts
                      /\ Has("Keycloak") /\ Has("Monitoring") => OAuth \in facts
                      /\ Has("Karpor") => Kubeconfig \in facts
    BY DEF QuietRunIsComplete, Kubeconfig
  <2>1. ASSUME NEW i \in 1..Last, Enabled(i)
        PROVE  Promised(WorkloadSteps[i].name) \subseteq facts
    <3>1. i \in 1..16
      BY LastIs
    <3>2. CASE i \in {11, 12, 14}
      BY <2>1, <3>2, PlaceNames, SourcesAreThere, KeycloakIsThere
    <3>3. CASE i \notin {11, 12, 14}
      <4>1. Promised(WorkloadSteps[i].name) = Secured(i)
        BY <3>1, <3>3, PromisedIsSecured
      <4>2. QED  BY <2>1, <3>1, <4>1, SecuredIsThere
    <3>4. QED  BY <3>2, <3>3
  <2>2. Has("Keycloak") /\ Has("Monitoring") => OAuth \in facts
    BY Named, WhenEnabled DEF LoginInv, OAuthInv
  <2>3. Has("Karpor") => Kubeconfig \in facts
    <3>1. Beyond(16, 6)
      BY LastIs DEF LoopInv, Beyond
    <3>2. QED  BY <3>1, Named DEF LoginInv, KubeInv
  <2>4. QED  BY <2>1, <2>2, <2>3
<1>2. QED  BY <1>1, LoopAlways, LeftAlways, SourcesAlways, TokenAlways, LoginAlways, PTL

-----------------------------------------------------------------------------
(* Keycloak's sidecar in a first run *)

InMesh == {Injected("keycloak"), Crds("istio")} \subseteq facts

\* Nothing deploys Keycloak before its own place in the plan, nor makes its pod; when it
\* is deployed, its namespace has the label and the mesh is there, and no call from
\* that place on takes the label away.
FirstInv ==
    /\ runs = 0 => pc = "idle" /\ Deployed("keycloak") \notin facts
    /\ runs <= 1 =>
        /\ Deployed("keycloak") \in facts => (at >= 14 \/ pc = "idle") /\ InMesh
        /\ Pod \in facts => {Deployed("keycloak"), Sidecar} \subseteq facts

\* No call takes the sidecar or Keycloak's Deployment away, nor makes the pod.
LEMMA CallSpares ==
    ASSUME LoopInv, OpInv, pc \in Calling, op <= Len(Calls)
    PROVE  /\ {Sidecar, Deployed("keycloak")} \cap Current.call.drops = {}
           /\ Pod \notin Current.call.makes
<1>1. /\ Sidecar \notin Loading /\ Deployed("keycloak") \notin Loading /\ Pod \notin Loading
      /\ \A i : Sidecar \notin Drops(i) /\ Deployed("keycloak") \notin Drops(i)
  BY DEF Drops, Sidecar, Deployed, Loading, Shown, Pod, ConfigMap, Source, Labels, Injected,
         Class, CniToken, Edited, Keyed
<1>2. CASE pc = "install"
  <2>1. PICK n \in Nat : /\ Fits(Calls, Listed(at), n, Drops(at)) /\ op \in 1..n
                         /\ FitsAt(op, Calls, Listed(at), n, Drops(at))
    BY <1>2, CurrentFits
  <2>2. Len(Listed(at)) = n
    BY <2>1 DEF Fits, IsSeq
  <2>3. Labelled(Listed(at))
    BY <1>2, PlaceLabels DEF LoopInv, Listed
  <2>4. Pod \notin Listed(at)[op].call.makes
    BY <2>1, <2>2, <2>3 DEF Labelled, Makes
  <2>5. Pod # Edited
    BY DEF Pod, Edited
  <2>6. QED  BY <1>1, <2>1, <2>4, <2>5 DEF FitsAt, Twins, Current
<1>3. CASE pc \in {"post", "oauth"}
  <2>1. Shuns(Calls)
    BY <1>3, OthersShun DEF Calls
  <2>2. op \in 1..Len(Calls)
    BY <2>1 DEF OpInv, Shuns, Listing, IsSeq
  <2>3. Pod \notin Current.call.makes
    BY <2>1, <2>2 DEF Shuns, Makes, Current
  <2>4. QED  BY <1>1, <1>3, <2>3, OtherDrops
<1>4. QED  BY <1>2, <1>3 DEF Calling

\* The call that deploys Keycloak is one of Keycloak's, and finds the label and the mesh.
LEMMA CallDeploys ==
    ASSUME LoopInv, OpInv, LeftInv, pc \in Calling, op <= Len(Calls),
           Deployed("keycloak") \in Current.call.makes
    PROVE  at = 14 /\ pc = "install" /\ InMesh
<1>1. pc = "install"
  <2>1. CASE pc \in {"post", "oauth"}
    <3>1. Shuns(Calls)
      BY <2>1, OthersShun DEF Calls
    <3>2. op \in 1..Len(Calls)
      BY <3>1 DEF OpInv, Shuns, Listing, IsSeq
    <3>3. QED  BY <3>1, <3>2 DEF Shuns, Makes, Current
  <2>2. QED  BY <2>1 DEF Calling
<1>2. at \in 1..Last /\ Enabled(at)
  BY <1>1 DEF LoopInv
<1>3. PICK n \in Nat : /\ Fits(Calls, Listed(at), n, Drops(at)) /\ op \in 1..n
                       /\ FitsAt(op, Calls, Listed(at), n, Drops(at))
  BY <1>1, CurrentFits
<1>4. Len(Listed(at)) = n
  BY <1>3 DEF Fits, IsSeq
<1>5. Deployed("keycloak") \in Listed(at)[op].call.makes
  <2>1. Deployed("keycloak") \notin Loading \cup {Edited}
    BY DEF Deployed, Loading, Shown, Edited
  <2>2. QED  BY <1>3, <2>1 DEF FitsAt, Twins, Current
<1>6. at = 14
  <2>1. at # 14 => Shuns(Listed(at))
    BY <1>2, PlaceShuns DEF Listed
  <2>2. QED  BY <1>3, <1>4, <1>5, <2>1 DEF Shuns, Makes
<1>7. Injected("keycloak") \in facts
  <2>1. Labelled(Listed(at))
    BY <1>2, PlaceLabels DEF Listed
  <2>2. PICK k \in 1..(op - 1) : /\ Listed(at)[k].policy = "abort"
                                 /\ Injected("keycloak") \in Listed(at)[k].call.makes
    BY <1>3, <1>4, <1>5, <2>1 DEF Labelled
  <2>3. Listed(at)[k].call.makes \ Volatile(at) \subseteq facts
    BY <1>1, <2>2 DEF LeftInv, NowInv, ThroughNow, LeftNow, Made
  <2>4. Injected("keycloak") \notin Volatile(14)
    BY DEF Volatile, Sidecar, Loading, Labels, ConfigMap, CniToken, Edited, Keyed, Deployed,
           Class, Injected, Source, Shown, Crds
  <2>5. QED  BY <1>6, <2>2, <2>3, <2>4
<1>8. Crds("istio") \in facts
  <2>1. 2 \in 1..Last /\ Past(2) /\ Enabled(2)
    BY <1>6, LastIs, WhenEnabled DEF Past
  <2>2. Fatal(2)
    BY DEF Fatal, WorkloadSteps, Component
  <2>3. Crds("istio") \notin Volatile(2)
    <3>1. Crds("istio") # Storage
      BY DEF Crds, Storage, Class
    <3>2. QED  BY <3>1, LastingKinds, LastingStays
  <2>4. Gives(Listed(2), Crds("istio"), Essential)
    BY IstioGives, ListedAre
  <2>5. QED  BY <2>1, <2>2, <2>3, <2>4, DoneGives
<1>9. QED  BY <1>1, <1>6, <1>7, <1>8 DEF InMesh

\* A first run that calls makes or keeps what FirstInv says.
LEMMA FirstCall ==
    ASSUME LoopInv, OpInv, LeftInv, FirstInv, CallSucceeds \/ CallFails, runs \in Nat
    PROVE  FirstInv'
<1> SUFFICES ASSUME runs <= 1 PROVE FirstInv'
  BY DEF FirstInv, CallSucceeds, CallFails
<1>1. pc \in Calling /\ op <= Len(Calls) /\ pc # "idle"
  BY DEF CallSucceeds, CallFails, Calling
<1>2. runs' = 1
  BY <1>1 DEF FirstInv, CallSucceeds, CallFails
<1>3. facts' \in {facts, After(facts, Current.call)}
  BY DEF CallSucceeds, CallFails, Fault
<1>4. at' = at /\ at \in Nat
  BY AtIsNat DEF CallSucceeds, CallFails, Abort, Continue, GotoPost
<1>5. [Next]_vars
  BY DEF Next, InstallWorkloads
<1>6. ASSUME Deployed("keycloak") \in facts' PROVE at >= 14 /\ InMesh
  <2>1. CASE Deployed("keycloak") \in facts
    BY <1>1, <2>1 DEF FirstInv
  <2>2. CASE Deployed("keycloak") \notin facts
    <3>1. Deployed("keycloak") \in Current.call.makes
      BY <1>3, <1>6, <2>2 DEF After
    <3>2. QED  BY <1>1, <3>1, CallDeploys
  <2>3. QED  BY <2>1, <2>2
<1>7. ASSUME Deployed("keycloak") \in facts' PROVE InMesh'
  <2>1. facts \ Volatile(14) \subseteq facts'
    BY <1>4, <1>5, <1>6, <1>7, StepKeepsEarlier
  <2>2. Injected("keycloak") \notin Volatile(14) /\ Crds("istio") \notin Volatile(14)
    BY DEF Volatile, Sidecar, Loading, Labels, ConfigMap, CniToken, Edited, Keyed, Deployed,
           Class, Injected, Source, Shown, Crds
  <2>3. QED  BY <1>6, <1>7, <2>1, <2>2 DEF InMesh
<1>8. ASSUME Pod \in facts' PROVE {Deployed("keycloak"), Sidecar} \subseteq facts'
  <2>1. Pod \in facts
    BY <1>1, <1>3, <1>8, CallSpares DEF After
  <2>2. {Deployed("keycloak"), Sidecar} \subseteq facts
    BY <2>1 DEF FirstInv
  <2>3. QED  BY <1>1, <1>3, <2>2, CallSpares DEF After
<1>9. QED  BY <1>2, <1>4, <1>6, <1>7, <1>8 DEF FirstInv

\* What the cluster does by itself keeps it.
LEMMA FirstCluster ==
    ASSUME FirstInv, Cluster
    PROVE  FirstInv'
<1>1. runs' = runs /\ pc' = pc /\ at' = at
  BY DEF Cluster, SyncSecrets, StartKeycloakPod, StartGrafanaPod, RestartAPIServer, PullModel, loop
<1>2. CASE \E n \in {"keycloak", "monitoring", "ollama"} : SyncSecrets(n)
  <2>1. \A x \in {Deployed("keycloak"), Pod, Sidecar, Injected("keycloak"), Crds("istio")} :
            x \in facts' <=> x \in facts
    BY <1>2 DEF SyncSecrets, Deployed, Pod, Sidecar, Injected, Crds, Secret
  <2>2. QED  BY <1>1, <2>1 DEF FirstInv, InMesh
<1>3. CASE StartKeycloakPod
  <2>1. \A x \in {Deployed("keycloak"), Injected("keycloak"), Crds("istio")} :
            x \in facts' <=> x \in facts
    BY <1>3 DEF StartKeycloakPod, Deployed, Pod, Sidecar, Injected, Crds
  <2>2. InMesh => Sidecar \in facts'
    BY <1>3 DEF StartKeycloakPod, InMesh
  <2>3. Deployed("keycloak") \in facts
    BY <1>3 DEF StartKeycloakPod
  <2>4. QED  BY <1>1, <2>1, <2>2, <2>3 DEF FirstInv, InMesh
<1>4. CASE StartGrafanaPod
  <2>1. facts' = (facts \ RestartGrafana(facts).drops) \cup RestartGrafana(facts).makes
    BY <1>4 DEF StartGrafanaPod, After
  <2>2. \A x \in {Deployed("keycloak"), Pod, Sidecar, Injected("keycloak"), Crds("istio")} :
            x \notin Loading
    BY DEF Loading, Shown, Deployed, Pod, Sidecar, Injected, Crds
  <2>3. RestartGrafana(facts).drops = Loading /\ RestartGrafana(facts).makes \subseteq Loading
    BY DEF RestartGrafana, Replacing, Call, Loading
  <2>4. \A x \in {Deployed("keycloak"), Pod, Sidecar, Injected("keycloak"), Crds("istio")} :
            x \in facts' <=> x \in facts
    BY <2>1, <2>2, <2>3
  <2>5. QED  BY <1>1, <2>4 DEF FirstInv, InMesh
<1>5. CASE PullModel
  <2>1. \A x \in {Deployed("keycloak"), Pod, Sidecar, Injected("keycloak"), Crds("istio")} :
            x \in facts' <=> x \in facts
    BY <1>5 DEF PullModel, Deployed, Pod, Sidecar, Injected, Crds, Model
  <2>2. QED  BY <1>1, <2>1 DEF FirstInv, InMesh
<1>6. CASE RestartAPIServer
  <2>1. \A x \in {Deployed("keycloak"), Pod, Sidecar, Injected("keycloak"), Crds("istio")} :
            x \in facts' <=> x \in facts
    BY <1>6 DEF RestartAPIServer, Restarted, Deployed, Pod, Sidecar, Injected, Crds, Edited,
                CniToken
  <2>2. QED  BY <1>1, <2>1 DEF FirstInv, InMesh
<1>7. QED  BY <1>2, <1>3, <1>4, <1>5, <1>6 DEF Cluster

LEMMA FirstStep ==
    LoopInv /\ OpInv /\ LeftInv /\ CountInv /\ FirstInv /\ [Next]_vars => FirstInv'
<1> SUFFICES ASSUME LoopInv, OpInv, LeftInv, CountInv, FirstInv, [Next]_vars PROVE FirstInv'
  OBVIOUS
<1>1. runs \in Nat /\ at \in Nat
  BY AtIsNat DEF CountInv
<1>2. CASE StartRun
  <2>1. runs' = runs + 1 /\ facts' = facts
    BY <1>2 DEF StartRun
  <2>2. CASE runs = 0
    BY <2>1, <2>2 DEF FirstInv
  <2>3. CASE runs # 0
    BY <1>1, <2>1, <2>3 DEF FirstInv
  <2>4. QED  BY <2>2, <2>3
<1>3. CASE Crash
  BY <1>1, <1>3 DEF Crash, FirstInv, Ended, InMesh
<1>4. CASE CallSucceeds \/ CallFails
  BY <1>1, <1>4, FirstCall
<1>5. CASE Cluster
  BY <1>5, FirstCluster
<1>6. CASE SkipComponent \/ BeginComponent \/ InstallReturns
  BY <1>1, <1>6 DEF SkipComponent, BeginComponent, InstallReturns, GotoPost, FirstInv, InMesh
<1>7. CASE PostReturns \/ EndOfPlan \/ OAuthReturns
  BY <1>1, <1>7 DEF PostReturns, EndOfPlan, OAuthReturns, FirstInv, InMesh
<1>8. CASE UNCHANGED vars
  BY <1>8 DEF vars, loop, FirstInv, InMesh
<1>9. QED  BY <1>2, <1>3, <1>4, <1>5, <1>6, <1>7, <1>8 DEF Next, InstallWorkloads

\* What takes Keycloak's sidecar away (KeycloakKeepsItsSidecar) is a second run: it
\* removes the label from the namespace Keycloak is already in. In the first run on a
\* new cluster, in any configuration, with any failures and a kill at any moment, a pod
\* of Keycloak has its sidecar: the Deployment comes after the label, and the only
\* call that removes the label, of the secrets operator (vault_secrets_operator.go), before both.
THEOREM FirstRunKeepsSidecar == Spec => [](runs <= 1 => KeycloakKeepsItsSidecar)
<1>1. Init => FirstInv
  BY DEF Init, FirstInv, Deployed, CniToken, Pod
<1>2. CountInv /\ FirstInv => (runs <= 1 => KeycloakKeepsItsSidecar)
  BY DEF FirstInv, KeycloakKeepsItsSidecar
<1>3. Spec => []CountInv
  BY CountInit, CountStep, LoopAlways, PTL DEF Spec
<1>4. QED  BY <1>1, <1>2, <1>3, FirstStep, LoopAlways, OpAlways, LeftAlways, PTL DEF Spec

=============================================================================
