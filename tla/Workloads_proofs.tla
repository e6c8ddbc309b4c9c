-------------------------- MODULE Workloads_proofs --------------------------
(***************************************************************************)
(* `provision workloads` implements InstallPlan, tries whatever a          *)
(* configuration asks for and never loses its place in a recipe, for every *)
(* set of files, every number of runs and every number of faults.          *)
(***************************************************************************)
EXTENDS Workloads, TLAPS

\* Where the loop of InstallWorkloads is: at an enabled component while one is
\* being installed, past the last one afterwards.
LoopInv ==
    /\ pc \in Calling \cup Ended \cup {"loop"}
    /\ at \in 1..(Last + 1)
    /\ pc \in {"install", "post", "failed"} => at \in 1..Last /\ Enabled(at)
    /\ pc \in {"oauth", "ok"} => at = Last + 1
    /\ pc = "idle" => at = 1 /\ broken = {}

\* The plan has sixteen components.
LEMMA LastIs == Last = 16
  BY DEF Last, WorkloadSteps

LEMMA LastIsNat == Last \in Nat
  BY LastIs

LEMMA LoopInit == Init => LoopInv
  BY LastIsNat DEF Init, LoopInv, Ended, Calling

LEMMA LoopStep == LoopInv /\ [Next]_vars => LoopInv'
<1> SUFFICES ASSUME LoopInv, [Next]_vars PROVE LoopInv'
  OBVIOUS
<1> USE LastIsNat
<1>1. CASE StartRun
  BY <1>1 DEF LoopInv, StartRun, Calling, Ended, Enabled
<1>2. CASE Crash
  BY <1>2 DEF LoopInv, Crash, Calling, Ended, Enabled
<1>3. CASE SkipComponent
  BY <1>3 DEF LoopInv, SkipComponent, Calling, Ended, Enabled
<1>4. CASE BeginComponent
  BY <1>4 DEF LoopInv, BeginComponent, Calling, Ended, Enabled
<1>5. CASE CallSucceeds
  BY <1>5 DEF LoopInv, CallSucceeds, Calling, Ended, Enabled, report
<1>6. CASE CallFails
  <2>1. CASE Returned
    BY <1>6, <2>1 DEF LoopInv, CallFails, Returned, Abort, GotoPost, Calling, Ended, Enabled
  <2>2. CASE ~Returned
    BY <1>6, <2>2 DEF LoopInv, CallFails, Continue, Calling, Ended, Enabled
  <2>3. QED  BY <2>1, <2>2
<1>7. CASE InstallReturns
  BY <1>7 DEF LoopInv, InstallReturns, GotoPost, Calling, Ended, Enabled, report
<1>8. CASE PostReturns
  BY <1>8 DEF LoopInv, PostReturns, Calling, Ended, Enabled, report
<1>9. CASE EndOfPlan
  BY <1>9 DEF LoopInv, EndOfPlan, Calling, Ended, Enabled, report
<1>10. CASE OAuthReturns
  BY <1>10 DEF LoopInv, OAuthReturns, Calling, Ended, Enabled, report
<1>11. CASE Cluster
  <2>1. UNCHANGED <<cfg, loop, report>>
    BY <1>11 DEF Cluster, SyncSecrets, StartKeycloakPod, StartGrafanaPod, RestartAPIServer,
                PullModel
  <2>2. QED  BY <2>1 DEF LoopInv, loop, report, Enabled
<1>12. CASE UNCHANGED vars
  BY <1>12 DEF LoopInv, vars, loop, report, Enabled
<1>13. QED
  BY <1>1, <1>2, <1>3, <1>4, <1>5, <1>6, <1>7, <1>8, <1>9, <1>10, <1>11, <1>12
     DEF Next, InstallWorkloads

LEMMA LoopAlways == Spec => []LoopInv
  BY LoopInit, LoopStep, PTL DEF Spec

-----------------------------------------------------------------------------
(* Refinement *)

\* The mapping, by name.
Outcome == IF Running THEN "running" ELSE pc
EnabledSet == {i \in 1..Last : Enabled(i)}

\* The initial state is the plan's.
LEMMA PlanInit == Init => Plan!Init
<1> SUFFICES ASSUME Init PROVE Plan!Init
  OBVIOUS
<1>1. Tried = {}
  BY LastIsNat DEF Init, Tried
<1>2. ~Running /\ pc = "idle" /\ broken = {}
  BY DEF Init, Running, Calling
<1>3. QED  BY <1>1, <1>2 DEF Plan!Init

\* A step that leaves the configuration, the record of failures and the mapped
\* values alone is a stutter of the plan.
LEMMA Stutter ==
    ASSUME cfg' = cfg, broken' = broken, Outcome' = Outcome, Tried' = Tried
    PROVE  UNCHANGED Plan!plan
<1>1. EnabledSet' = EnabledSet
  BY DEF EnabledSet, Enabled
<1>2. QED  BY <1>1 DEF Plan!plan, Outcome, EnabledSet

\* Install of the component at `at' has returned: it was the next one, and it is
\* tried now.
LEMMA AtIsNext ==
    ASSUME LoopInv, pc = "install"
    PROVE  at \in EnabledSet /\ Plan!IsNext(at)
<1>1. at \in EnabledSet
  BY DEF LoopInv, EnabledSet
<1>2. at \notin Tried
  BY DEF LoopInv, Tried
<1>3. \A j \in EnabledSet : j < at => j \in Tried
  BY DEF EnabledSet, Tried
<1>4. QED
  BY <1>1, <1>2, <1>3 DEF Plan!IsNext, EnabledSet, Running, Calling

LEMMA NowTried ==
    ASSUME LoopInv, cfg' = cfg, at' = at, pc = "install", pc' \in {"post", "failed"}
    PROVE  Tried' = Tried \cup {at}
BY LastIsNat DEF LoopInv, Tried, Enabled

\* Every step of the program is a step of the plan or a stutter.
LEMMA PlanStep == LoopInv /\ [Next]_vars => [Plan!Next]_(Plan!plan)
<1> SUFFICES ASSUME LoopInv, [Next]_vars PROVE [Plan!Next]_(Plan!plan)
  OBVIOUS
<1> USE LastIsNat
<1>1. CASE StartRun
  <2>1. Outcome # "running" /\ Outcome' = "running" /\ broken' = {}
    BY <1>1 DEF StartRun, Outcome, Running, Ended, Calling
  <2>2. Tried' = {}
    BY <1>1 DEF StartRun, Tried, Enabled
  <2>3. EnabledSet' \subseteq 1..Last
    BY DEF EnabledSet
  <2>4. Plan!Begin
    BY <2>1, <2>2, <2>3 DEF Plan!Begin, Outcome, EnabledSet
  <2>5. QED  BY <2>4 DEF Plan!Next
<1>2. CASE Crash
  <2>1. Outcome = "running" /\ Outcome' = "idle" /\ broken' = {}
    BY <1>2 DEF LoopInv, Crash, Outcome, Running, Ended, Calling
  <2>2. Tried' = {}
    BY <1>2 DEF Crash, Tried, Enabled
  <2>3. EnabledSet' = EnabledSet
    BY <1>2 DEF Crash, EnabledSet, Enabled
  <2>4. Plan!Killed
    BY <2>1, <2>2, <2>3 DEF Plan!Killed, Outcome, EnabledSet
  <2>5. QED  BY <2>4 DEF Plan!Next
<1>3. CASE SkipComponent
  <2>1. cfg' = cfg /\ broken' = broken /\ Outcome' = Outcome
    BY <1>3 DEF SkipComponent, report, Outcome, Running
  <2>2. Tried' = Tried
    BY <1>3 DEF SkipComponent, LoopInv, Tried, Enabled
  <2>3. QED  BY <2>1, <2>2, Stutter
<1>4. CASE BeginComponent
  <2>1. cfg' = cfg /\ broken' = broken /\ Outcome' = Outcome
    BY <1>4 DEF BeginComponent, report, Outcome, Running, Calling
  <2>2. Tried' = Tried
    BY <1>4 DEF BeginComponent, Tried, Enabled
  <2>3. QED  BY <2>1, <2>2, Stutter
<1>5. CASE CallSucceeds
  <2>1. cfg' = cfg /\ broken' = broken /\ Outcome' = Outcome
    BY <1>5 DEF CallSucceeds, report, Outcome, Running
  <2>2. Tried' = Tried
    BY <1>5 DEF CallSucceeds, Tried, Enabled
  <2>3. QED  BY <2>1, <2>2, Stutter
<1>6. CASE CallFails
  <2>1. CASE Returned
    <3>1. pc = "install" /\ cfg' = cfg /\ at' = at /\ broken' = broken \cup {at}
      BY <1>6, <2>1 DEF CallFails, Returned, Abort, GotoPost
    <3>2. pc' = IF Fatal(at) THEN "failed" ELSE "post"
      BY <1>6, <2>1 DEF CallFails, Returned, Abort, GotoPost, Fatal, Step
    <3>3. Tried' = Tried \cup {at}
      BY <3>1, <3>2, NowTried
    <3>4. EnabledSet' = EnabledSet
      BY <3>1 DEF EnabledSet, Enabled
    <3>5. Outcome' = IF Fatal(at) THEN "failed" ELSE "running"
      BY <3>2 DEF Outcome, Running, Calling
    <3>6. at \in EnabledSet /\ Plan!IsNext(at)
      BY <3>1, AtIsNext
    <3>7. Plan!NotInstalled(at)
      BY <3>1, <3>3, <3>4, <3>5, <3>6 DEF Plan!NotInstalled, Outcome, EnabledSet
    <3>8. QED  BY <3>6, <3>7 DEF Plan!Next, EnabledSet
  <2>2. CASE ~Returned
    <3>1. cfg' = cfg /\ broken' = broken /\ Outcome' = Outcome
      BY <1>6, <2>2 DEF CallFails, Continue, Outcome, Running
    <3>2. Tried' = Tried
      BY <1>6, <2>2 DEF CallFails, Continue, Tried, Enabled
    <3>3. QED  BY <3>1, <3>2, Stutter
  <2>3. QED  BY <2>1, <2>2
<1>7. CASE InstallReturns
  <2>1. /\ pc = "install" /\ pc' = "post"
        /\ cfg' = cfg /\ at' = at /\ broken' = broken
    BY <1>7 DEF InstallReturns, GotoPost, report
  <2>2. Tried' = Tried \cup {at}
    BY <2>1, NowTried
  <2>3. EnabledSet' = EnabledSet
    BY <2>1 DEF EnabledSet, Enabled
  <2>4. Outcome' = Outcome
    BY <2>1 DEF Outcome, Running, Calling
  <2>5. at \in EnabledSet /\ Plan!IsNext(at)
    BY <2>1, AtIsNext
  <2>6. Plan!Installed(at)
    BY <2>1, <2>2, <2>3, <2>4, <2>5 DEF Plan!Installed, Outcome, EnabledSet
  <2>7. QED  BY <2>5, <2>6 DEF Plan!Next, EnabledSet
<1>8. CASE PostReturns
  <2>1. cfg' = cfg /\ broken' = broken /\ Outcome' = Outcome
    BY <1>8 DEF PostReturns, report, Outcome, Running, Calling
  <2>2. Tried' = Tried
    BY <1>8 DEF PostReturns, LoopInv, Tried, Enabled
  <2>3. QED  BY <2>1, <2>2, Stutter
<1>9. CASE EndOfPlan
  <2>1. cfg' = cfg /\ broken' = broken /\ at' = at /\ pc = "loop" /\ at = Last + 1
    BY <1>9 DEF EndOfPlan, report, LoopInv
  <2>2. Tried' = Tried
    BY <2>1 DEF Tried, Enabled
  <2>3. CASE keycloak
    <3>1. Outcome' = Outcome
      BY <1>9, <2>3 DEF EndOfPlan, Outcome, Running, Calling
    <3>2. QED  BY <2>1, <2>2, <3>1, Stutter
  <2>4. CASE ~keycloak
    <3>1. Outcome = "running" /\ Outcome' = "ok"
      BY <1>9, <2>4 DEF EndOfPlan, Outcome, Running, Calling
    <3>2. EnabledSet \subseteq Tried
      BY <2>1 DEF EnabledSet, Tried
    <3>3. EnabledSet' = EnabledSet
      BY <2>1 DEF EnabledSet, Enabled
    <3>4. Plan!Finish
      BY <2>1, <2>2, <3>1, <3>2, <3>3 DEF Plan!Finish, Outcome, EnabledSet
    <3>5. QED  BY <3>4 DEF Plan!Next
  <2>5. QED  BY <2>3, <2>4
<1>10. CASE OAuthReturns
  <2>1. /\ cfg' = cfg /\ broken' = broken /\ at' = at /\ at = Last + 1
        /\ Outcome = "running" /\ Outcome' = "ok"
    BY <1>10 DEF OAuthReturns, report, LoopInv, Outcome, Running, Calling
  <2>2. Tried' = Tried
    BY <1>10, <2>1 DEF Tried, Enabled
  <2>3. EnabledSet \subseteq Tried /\ EnabledSet' = EnabledSet
    BY <2>1 DEF EnabledSet, Tried, Enabled
  <2>4. Plan!Finish
    BY <2>1, <2>2, <2>3 DEF Plan!Finish, Outcome, EnabledSet
  <2>5. QED  BY <2>4 DEF Plan!Next
<1>11. CASE Cluster \/ UNCHANGED vars
  <2>1. UNCHANGED <<cfg, loop, report>>
    BY <1>11 DEF Cluster, SyncSecrets, StartKeycloakPod, StartGrafanaPod, RestartAPIServer,
                PullModel, vars
  <2>2. cfg' = cfg /\ broken' = broken /\ Outcome' = Outcome /\ Tried' = Tried
    BY <2>1 DEF loop, report, Outcome, Running, Tried, Enabled
  <2>3. QED  BY <2>2, Stutter
<1>12. QED
  BY <1>1, <1>2, <1>3, <1>4, <1>5, <1>6, <1>7, <1>8, <1>9, <1>10, <1>11
     DEF Next, InstallWorkloads

\* InstallWorkloads implements the plan.
THEOREM ImplementsPlan == Spec => PlanSpec
<1>1. Spec => Plan!Init /\ [][Plan!Next]_(Plan!plan)
  BY LoopAlways, PlanInit, PlanStep, PTL DEF Spec
<1>2. QED  BY <1>1 DEF PlanSpec, Plan!Spec

-----------------------------------------------------------------------------
(* What the configuration asks for *)

LEMMA ConfigInit == Init => cfg \in Configs
  BY DEF Init

\* Only StartRun takes another configuration.
LEMMA ConfigStep == cfg \in Configs /\ [Next]_vars => (cfg \in Configs)'
<1> SUFFICES ASSUME cfg \in Configs, [Next]_vars PROVE cfg' \in Configs'
  OBVIOUS
<1>1. Configs' = Configs
  BY DEF Configs
<1>2. CASE StartRun
  BY <1>1, <1>2 DEF StartRun
<1>3. CASE ~StartRun
  <2>1. cfg' = cfg
    BY <1>3 DEF Next, Crash, InstallWorkloads, SkipComponent, BeginComponent, CallSucceeds,
                CallFails, InstallReturns, PostReturns, EndOfPlan, OAuthReturns, Cluster,
                SyncSecrets, StartKeycloakPod, StartGrafanaPod, RestartAPIServer,
                PullModel, vars
  <2>2. QED  BY <1>1, <2>1
<1>4. QED  BY <1>2, <1>3

\* The only value that is allowed and asks for something is the one looked for.
LEMMA AllowedIsOn ==
    ASSUME cfg \in Configs, NEW t \in Toggles,
           cfg.components[t] \notin {"", "none", "disabled"}
    PROVE  t \in cfg.features
<1>1. PICK d : Valid(d) /\ cfg = [features |-> FeaturesOf(d), components |-> d.components]
  BY DEF Configs
<1>2. Allowed(t, d.components[t])
  BY <1>1 DEF Valid
<1>3. d.components[t] = On[t]
  BY <1>1, <1>2 DEF Allowed
<1>4. QED  BY <1>1, <1>3 DEF FeaturesOf

\* Where the components that a toggle decides about are in the plan.
LEMMA Places ==
    /\ WorkloadSteps[5].requires = {"vpa"} /\ WorkloadSteps[6].requires = {"keda"}
    /\ WorkloadSteps[10].requires = {"monitoring"}
    /\ WorkloadSteps[12].requires = {"monitoring", "tracing"}
    /\ WorkloadSteps[14].requires = {"keycloak"} /\ WorkloadSteps[16].requires = {"karpor"}
  BY DEF WorkloadSteps, Component

LEMMA AreInPlan == \A i \in {5, 6, 10, 12, 14, 16} : i \in 1..Last
<1>1. \A i \in {5, 6, 10, 12, 14, 16} : i \in 1..16
  OBVIOUS
<1>2. QED  BY <1>1, LastIs

LEMMA MonitoringStep ==
    \A i \in 1..Last : WorkloadSteps[i].name = "Monitoring" =>
        WorkloadSteps[i].requires = {"monitoring"}
  BY DEF WorkloadSteps, Component, Last

LEMMA Asked == cfg \in Configs => AskedIsTried
<1> SUFFICES ASSUME cfg \in Configs,
                    NEW t \in Toggles \ {"logging", "service_mesh"},
                    cfg.components[t] \notin {"", "none", "disabled"}
             PROVE  \E i \in 1..Last :
                       /\ t \in WorkloadSteps[i].requires
                       /\ Enabled(i) \/ (t = "tracing" /\ ~Has("Monitoring"))
  BY DEF AskedIsTried
<1> DEFINE Covers(i) == /\ t \in WorkloadSteps[i].requires
                        /\ Enabled(i) \/ (t = "tracing" /\ ~Has("Monitoring"))
<1>1. t \in cfg.features
  BY AllowedIsOn
<1>2. \A i \in {5, 6, 10, 12, 14, 16} : i \in 1..Last
  BY AreInPlan
<1>3. \A i \in 1..Last : WorkloadSteps[i].requires = {t} => Covers(i)
  BY <1>1 DEF Enabled
<1>4. CASE t = "tracing"
  <2>1. CASE "monitoring" \in cfg.features
    <3>1. Enabled(12)
      BY <1>1, <1>4, <2>1, Places DEF Enabled
    <3>2. Covers(12)
      BY <1>4, <3>1, Places
    <3>3. QED  BY <1>2, <3>2
  <2>2. CASE "monitoring" \notin cfg.features
    <3>1. ~Has("Monitoring")
      BY <2>2, MonitoringStep DEF Has, Enabled
    <3>2. Covers(12)
      BY <1>4, <3>1, Places
    <3>3. QED  BY <1>2, <3>2
  <2>3. QED  BY <2>1, <2>2
<1>5. CASE t # "tracing"
  <2>1. t \in {"monitoring", "karpor", "keycloak", "vpa", "keda"}
    BY <1>5 DEF Toggles, On
  <2>2. \E i \in {5, 6, 10, 14, 16} : WorkloadSteps[i].requires = {t}
    BY <2>1, Places
  <2>3. QED  BY <1>2, <1>3, <2>2
<1>6. QED  BY <1>4, <1>5

\* A run that succeeds has tried every component whose toggle asks for it.
THEOREM NothingIsSkipped == Spec => []AskedIsTried
  BY ConfigInit, ConfigStep, Asked, PTL DEF Spec

-----------------------------------------------------------------------------
(* The shape of the recipes: how many calls they have, and that skipping a *)
(* group never leads past the end of a recipe. It depends on the           *)
(* configuration, not on the cluster.                                      *)

IsSeq(s, n) == Len(s) = n /\ \E S : s \in Seq(S)

Shape(r, n) == IsSeq(r, n) /\ \A i \in 1..n : r[i].skip \in 0..(n - i)

LEMMA ShapeBoth ==
    ASSUME NEW n \in Nat, NEW m \in Nat, NEW r, NEW s, Shape(r, n), Shape(s, m)
    PROVE  Shape(r \o s, n + m)
<1> DEFINE t == r \o s
<1>1. PICK S : r \in Seq(S)
  BY DEF Shape, IsSeq
<1>2. PICK T : s \in Seq(T)
  BY DEF Shape, IsSeq
<1>3. r \in Seq(S \cup T) /\ s \in Seq(S \cup T)
  BY <1>1, <1>2
<1>4. Len(r) = n /\ Len(s) = m
  BY DEF Shape, IsSeq
<1>5. t \in Seq(S \cup T) /\ Len(t) = n + m
  BY <1>3, <1>4
<1>6. /\ \A i \in 1..n : t[i] = r[i]
      /\ \A i \in (n + 1)..(n + m) : t[i] = s[i - n]
  BY <1>3, <1>4
<1> HIDE DEF t
<1>7. ASSUME NEW i \in 1..(n + m) PROVE t[i].skip \in 0..(n + m - i)
  <2>1. CASE i \in 1..n
    <3>1. r[i].skip \in 0..(n - i)
      BY <2>1 DEF Shape
    <3>2. t[i] = r[i]
      BY <1>6, <2>1
    <3>3. QED  BY <2>1, <3>1, <3>2
  <2>2. CASE i \in (n + 1)..(n + m)
    <3>1. i - n \in 1..m
      BY <2>2
    <3>2. s[i - n].skip \in 0..(m - (i - n))
      BY <3>1 DEF Shape
    <3>3. t[i] = s[i - n]
      BY <1>6, <2>2
    <3>4. QED  BY <2>2, <3>2, <3>3
  <2>3. i \in 1..n \/ i \in (n + 1)..(n + m)
    OBVIOUS
  <2>4. QED  BY <2>1, <2>2, <2>3
<1>8. IsSeq(t, n + m)
  BY <1>5 DEF IsSeq
<1>9. Shape(t, n + m)
  BY <1>7, <1>8 DEF Shape
<1>10. QED  BY <1>9 DEF t

LEMMA ShapeGroup ==
    ASSUME NEW n \in Nat, NEW r, DOMAIN r = 1..n, r = [i \in 1..n |-> r[i]],
           \A i \in 1..n : r[i].skip \in 0..(n - i)
    PROVE  Shape(r, n)
<1> DEFINE S == {r[i] : i \in 1..n}
<1>1. r \in Seq(S) /\ Len(r) = n
  OBVIOUS
<1>2. QED  BY <1>1 DEF Shape, IsSeq

LEMMA ShapeNone == Shape(<<>>, 0)
<1>1. DOMAIN <<>> = 1..0 /\ <<>> = [i \in 1..0 |-> <<>>[i]]
  OBVIOUS
<1>2. \A i \in 1..0 : <<>>[i].skip \in 0..(0 - i)
  OBVIOUS
<1>3. 0 \in Nat
  OBVIOUS
<1>4. QED  BY <1>1, <1>2, <1>3, ShapeGroup

LEMMA ShapeCalls ==
    ASSUME NEW n \in Nat, NEW calls, Len(calls) = n
    PROVE  Shape(Must(calls), n) /\ Shape(May(calls), n) /\ Shape(Try(calls), n)
<1>1. Shape(Must(calls), n)
  <2> DEFINE r == Must(calls)
  <2>1. DOMAIN r = 1..n /\ r = [i \in 1..n |-> r[i]]
    BY DEF Must
  <2>2. \A i \in 1..n : r[i].skip \in 0..(n - i)
    BY DEF Must
  <2>3. QED  BY <2>1, <2>2, ShapeGroup
<1>2. Shape(May(calls), n)
  <2> DEFINE r == May(calls)
  <2>1. DOMAIN r = 1..n /\ r = [i \in 1..n |-> r[i]]
    BY DEF May
  <2>2. \A i \in 1..n : r[i].skip \in 0..(n - i)
    BY DEF May
  <2>3. QED  BY <2>1, <2>2, ShapeGroup
<1>3. Shape(Try(calls), n)
  <2> DEFINE r == Try(calls)
  <2>1. DOMAIN r = 1..n /\ r = [i \in 1..n |-> r[i]]
    BY DEF Try
  <2>2. \A i \in 1..n : r[i].skip \in 0..(n - i)
    BY DEF Try
  <2>3. QED  BY <2>1, <2>2, ShapeGroup
<1>4. QED  BY <1>1, <1>2, <1>3

\* The number of calls of a part that is made only with a feature.
Length(feature, c, n) == IF feature \in c THEN n ELSE 0

LEMMA ShapeIf ==
    ASSUME NEW feature, NEW c, NEW n \in Nat, NEW r, Shape(r, n)
    PROVE  Length(feature, c, n) \in Nat /\ Shape(If(feature, c, r), Length(feature, c, n))
  BY ShapeNone DEF If, Length

LEMMA Tuples ==
    /\ \A a : Len(<<a>>) = 1
    /\ \A a, b : Len(<<a, b>>) = 2
    /\ \A a, b, d : Len(<<a, b, d>>) = 3
    /\ \A a, b, d, e : Len(<<a, b, d, e>>) = 4
  OBVIOUS

\* The groups of calls that are put together from smaller ones.
LEMMA SeqBoth ==
    ASSUME NEW n \in Nat, NEW m \in Nat, NEW r, NEW s, IsSeq(r, n), IsSeq(s, m)
    PROVE  IsSeq(r \o s, n + m)
<1>1. PICK S : r \in Seq(S)
  BY DEF IsSeq
<1>2. PICK T : s \in Seq(T)
  BY DEF IsSeq
<1>3. r \in Seq(S \cup T) /\ s \in Seq(S \cup T)
  BY <1>1, <1>2
<1>4. r \o s \in Seq(S \cup T) /\ Len(r \o s) = n + m
  BY <1>3 DEF IsSeq
<1>5. QED  BY <1>4 DEF IsSeq

LEMMA SeqOne == ASSUME NEW a PROVE IsSeq(<<a>>, 1)
<1>1. <<a>> \in Seq({a})
  OBVIOUS
<1>2. QED  BY <1>1 DEF IsSeq

LEMMA SeqTwo == ASSUME NEW a, NEW b PROVE IsSeq(<<a, b>>, 2)
<1>1. <<a, b>> \in Seq({a, b})
  OBVIOUS
<1>2. QED  BY <1>1 DEF IsSeq

LEMMA SeqThree == ASSUME NEW a, NEW b, NEW d PROVE IsSeq(<<a, b, d>>, 3)
<1>1. <<a, b, d>> \in Seq({a, b, d})
  OBVIOUS
<1>2. QED  BY <1>1 DEF IsSeq

LEMMA SeqFive ==
    ASSUME NEW a, NEW b, NEW d, NEW e, NEW g PROVE IsSeq(<<a, b, d, e, g>>, 5)
<1>1. <<a, b, d, e, g>> \in Seq({a, b, d, e, g})
  OBVIOUS
<1>2. QED  BY <1>1 DEF IsSeq

LEMMA MonitoringCalls ==
    Len(<<MonitoringNamespace, CreateNFSStorage, InstallPrometheusOperator,
          InstallPrometheus, CreateGrafanaSecret>> \o InstallGrafana
        \o <<InstallNodeExporter, InstallKubeStateMetrics, InstallAlertmanager>>) = 10
<1> DEFINE first == <<MonitoringNamespace, CreateNFSStorage, InstallPrometheusOperator,
                      InstallPrometheus, CreateGrafanaSecret>>
           last == <<InstallNodeExporter, InstallKubeStateMetrics, InstallAlertmanager>>
<1>1. IsSeq(first, 5)
  BY SeqFive
<1>2. IsSeq(InstallGrafana, 2)
  BY SeqTwo DEF InstallGrafana
<1>3. IsSeq(last, 3)
  BY SeqThree
<1> HIDE DEF first, last
<1>4. IsSeq(first \o InstallGrafana, 5 + 2)
  BY <1>1, <1>2, SeqBoth
<1>5. IsSeq(first \o InstallGrafana \o last, 5 + 2 + 3)
  BY <1>3, <1>4, SeqBoth
<1>6. QED  BY <1>5 DEF IsSeq, first, last

LEMMA KeycloakCalls ==
    ASSUME NEW f
    PROVE  Len(DeployKeycloak \o <<WaitForKeycloak(f)>> \o ConfigureRealm) = 6
<1> DEFINE wait == <<WaitForKeycloak(f)>>
<1>1. IsSeq(DeployKeycloak, 2)
  BY SeqTwo DEF DeployKeycloak
<1>2. IsSeq(wait, 1)
  BY SeqOne
<1>3. IsSeq(ConfigureRealm, 3)
  BY SeqThree DEF ConfigureRealm
<1> HIDE DEF wait
<1>4. IsSeq(DeployKeycloak \o wait, 2 + 1)
  BY <1>1, <1>2, SeqBoth
<1>5. IsSeq(DeployKeycloak \o wait \o ConfigureRealm, 2 + 1 + 3)
  BY <1>3, <1>4, SeqBoth
<1>6. QED  BY <1>5 DEF IsSeq, wait

\* The number of calls of a recipe does not depend on the cluster.
Steady(name, c) == \E n \in Nat : \A f : Shape(Recipe(name, c, f), n)

LEMMA FixedSteady ==
    ASSUME NEW name, NEW c, NEW n \in Nat, NEW r, Shape(r, n), \A f : Recipe(name, c, f) = r
    PROVE  Steady(name, c)
  BY DEF Steady

LEMMA MetalLBSteady == ASSUME NEW c PROVE Steady("MetalLB", c)
<1>1. Shape(MetalLB, 2)
  BY ShapeCalls, Tuples DEF MetalLB
<1>2. \A f : Recipe("MetalLB", c, f) = MetalLB
  BY DEF Recipe
<1>3. QED  BY <1>1, <1>2, FixedSteady

LEMMA IstioSteady == ASSUME NEW c PROVE Steady("Istio", c)
<1>1. Shape(Istio, 2)
  BY ShapeCalls, Tuples DEF Istio
<1>2. \A f : Recipe("Istio", c, f) = Istio
  BY DEF Recipe
<1>3. QED  BY <1>1, <1>2, FixedSteady

LEMMA CertManagerSteady == ASSUME NEW c PROVE Steady("CertManager", c)
<1>1. Shape(CertManager, 3)
  BY ShapeCalls, Tuples DEF CertManager
<1>2. \A f : Recipe("CertManager", c, f) = CertManager
  BY DEF Recipe
<1>3. QED  BY <1>1, <1>2, FixedSteady

LEMMA MetricsServerSteady == ASSUME NEW c PROVE Steady("MetricsServer", c)
<1>1. Shape(MetricsServer, 1)
  BY ShapeCalls, Tuples DEF MetricsServer
<1>2. \A f : Recipe("MetricsServer", c, f) = MetricsServer
  BY DEF Recipe
<1>3. QED  BY <1>1, <1>2, FixedSteady

LEMMA VPASteady == ASSUME NEW c PROVE Steady("VPA", c)
<1>1. Shape(VPA, 2)
  BY ShapeCalls, Tuples DEF VPA
<1>2. \A f : Recipe("VPA", c, f) = VPA
  BY DEF Recipe
<1>3. QED  BY <1>1, <1>2, FixedSteady

LEMMA KEDASteady == ASSUME NEW c PROVE Steady("KEDA", c)
<1>1. Shape(KEDA, 2)
  BY ShapeCalls, Tuples DEF KEDA
<1>2. \A f : Recipe("KEDA", c, f) = KEDA
  BY DEF Recipe
<1>3. QED  BY <1>1, <1>2, FixedSteady

LEMMA VaultInstallerSteady == ASSUME NEW c PROVE Steady("VaultInstaller", c)
<1>1. Shape(VaultInstaller, 1)
  BY ShapeCalls, Tuples DEF VaultInstaller
<1>2. \A f : Recipe("VaultInstaller", c, f) = VaultInstaller
  BY DEF Recipe
<1>3. QED  BY <1>1, <1>2, FixedSteady

\* The recipes that do not depend on the cluster, put together from groups.
Sized(r) == \E n \in Nat : Shape(r, n)

LEMMA SizedBoth == ASSUME NEW r, NEW s, Sized(r), Sized(s) PROVE Sized(r \o s)
<1>1. PICK n \in Nat : Shape(r, n)
  BY DEF Sized
<1>2. PICK m \in Nat : Shape(s, m)
  BY DEF Sized
<1>3. Shape(r \o s, n + m)
  BY <1>1, <1>2, ShapeBoth
<1>4. n + m \in Nat
  OBVIOUS
<1>5. QED  BY <1>3, <1>4 DEF Sized

LEMMA SizedCalls ==
    ASSUME NEW calls, Len(calls) \in Nat
    PROVE  Sized(Must(calls)) /\ Sized(May(calls)) /\ Sized(Try(calls))
  BY ShapeCalls DEF Sized

LEMMA SizedIf == ASSUME NEW feature, NEW c, NEW r, Sized(r) PROVE Sized(If(feature, c, r))
<1>1. PICK n \in Nat : Shape(r, n)
  BY DEF Sized
<1>2. QED  BY <1>1, ShapeIf DEF Sized

LEMMA SizedSteady ==
    ASSUME NEW name, NEW c, NEW r, Sized(r), \A f : Recipe(name, c, f) = r
    PROVE  Steady(name, c)
  BY DEF Steady, Sized

LEMMA NFSProvisionerSteady == ASSUME NEW c PROVE Steady("NFSProvisioner", c)
<1>1. Sized(Must(<<InstallHelm>>)) /\ Sized(Must(<<InstallDynamicProvisioner>>))
  BY SizedCalls, Tuples
<1>2. Sized(CreateStaticStorageClass)
  BY SizedCalls, SizedBoth, Tuples DEF CreateStaticStorageClass
<1>3. Sized(NFSProvisioner)
  BY <1>1, <1>2, SizedBoth DEF NFSProvisioner
<1>4. \A f : Recipe("NFSProvisioner", c, f) = NFSProvisioner
  BY DEF Recipe
<1>5. QED  BY <1>3, <1>4, SizedSteady

LEMMA VsoSized == ASSUME NEW n PROVE Sized(VsoResources(n))
  BY SizedCalls, SizedBoth, Tuples DEF VsoResources

LEMMA VaultSecretsOperatorSteady == ASSUME NEW c PROVE Steady("VaultSecretsOperator", c)
<1>1. Sized(Must(<<InstallHelm, Call("vso", {Deployed("helm")}, {Crds("vso")})>>))
  BY SizedCalls, Tuples
<1>2. Sized(If("ollama_key", c, VsoResources("ollama")))
  BY VsoSized, SizedIf
<1>3. Sized(May(<<WaitForSecrets(c)>>))
  BY SizedCalls, Tuples
<1>4. Sized(VaultSecretsOperator(c))
  BY <1>1, <1>2, <1>3, VsoSized, SizedBoth DEF VaultSecretsOperator
<1>5. \A f : Recipe("VaultSecretsOperator", c, f) = VaultSecretsOperator(c)
  BY DEF Recipe
<1>6. QED  BY <1>4, <1>5, SizedSteady

LEMMA MonitoringSteady == ASSUME NEW c PROVE Steady("Monitoring", c)
<1>1. Sized(Must(<<MonitoringNamespace, CreateNFSStorage, InstallPrometheusOperator,
                   InstallPrometheus, CreateGrafanaSecret>> \o InstallGrafana
                 \o <<InstallNodeExporter, InstallKubeStateMetrics, InstallAlertmanager>>))
  BY MonitoringCalls, SizedCalls
<1>2. Sized(May(<<InstallCertManagerMonitoring>>))
  BY SizedCalls, Tuples
<1>3. Sized(May(<<CreateMonitoringGateways>>) \o May(<<InstallIstioMonitoring>>))
  BY SizedCalls, SizedBoth, Tuples
<1>4. Sized(If("service_mesh", c, May(<<CreateMonitoringGateways>>)
                                  \o May(<<InstallIstioMonitoring>>)))
  BY <1>3, SizedIf
<1>5. Sized(Monitoring(c))
  BY <1>1, <1>2, <1>4, SizedBoth DEF Monitoring
<1>6. \A f : Recipe("Monitoring", c, f) = Monitoring(c)
  BY DEF Recipe
<1>7. QED  BY <1>5, <1>6, SizedSteady

LEMMA LokiSteady == ASSUME NEW c PROVE Steady("Loki", c)
<1>1. Shape(Must(<<InstallLoki, InstallAlloy>>), 2)
  BY ShapeCalls, Tuples
<1>2. \A f : Shape(ConfigureLokiDatasource(f), 2)
  BY ShapeCalls, Tuples DEF ConfigureLokiDatasource
<1>3. \A f : Shape(Loki(f), 2 + 2)
  BY <1>1, <1>2, ShapeBoth DEF Loki
<1>4. \A f : Recipe("Loki", c, f) = Loki(f)
  BY DEF Recipe
<1>5. QED  BY <1>3, <1>4 DEF Steady

LEMMA TempoSteady == ASSUME NEW c PROVE Steady("Tempo", c)
<1>1. Shape(Must(<<InstallTempo, InstallOtelCollector>>), 2)
  BY ShapeCalls, Tuples
<1>2. \A f : Shape(ConfigureTempoDataSource(f), 2)
  BY ShapeCalls, Tuples DEF ConfigureTempoDataSource
<1>3. Shape(May(<<ConfigureIstioTracing>>), 1)
  BY ShapeCalls, Tuples
<1>4. \A f : Shape(Tempo(f), 2 + 2 + 1)
  BY <1>1, <1>2, <1>3, ShapeBoth DEF Tempo
<1>5. \A f : Recipe("Tempo", c, f) = Tempo(f)
  BY DEF Recipe
<1>6. QED  BY <1>4, <1>5 DEF Steady

LEMMA KialiSteady == ASSUME NEW c PROVE Steady("Kiali", c)
<1>1. Sized(Kiali)
  BY SizedCalls, SizedBoth, Tuples DEF Kiali
<1>2. \A f : Recipe("Kiali", c, f) = Kiali
  BY DEF Recipe
<1>3. QED  BY <1>1, <1>2, SizedSteady

\* The calls that edit the API server's manifest, wait for it and go on.
PatchCalls(f) ==
    <<Call("authConfig", {LabCA}, {}),
      EditManifest("hostAlias", Alias, f),
      EditManifest("authFlag", Oidc, f),
      WaitForAPIServer(f),
      Call("oidcRoles", {}, {Deployed("oidc-roles")})>>

LEMMA PatchIs ==
    ASSUME NEW f
    PROVE  PatchAPIServer(f) =
             [i \in 1..5 |-> [call |-> PatchCalls(f)[i], policy |-> "warn",
                              skip |-> IF i = 4 THEN 0 ELSE 5 - i]]
<1> DEFINE k == PatchCalls(f)
<1>1. PatchAPIServer(f) = [May(k) EXCEPT ![4].skip = 0]
  BY DEF PatchAPIServer, PatchCalls
<1>2. Len(k) = 5
  BY DEF PatchCalls
<1> HIDE DEF k
<1>3. May(k) = [i \in 1..5 |-> [call |-> k[i], policy |-> "warn", skip |-> 5 - i]]
  BY <1>2 DEF May
<1>4. [May(k) EXCEPT ![4].skip = 0] =
        [i \in 1..5 |-> [call |-> k[i], policy |-> "warn", skip |-> IF i = 4 THEN 0 ELSE 5 - i]]
  BY <1>3
<1>5. QED  BY <1>1, <1>4 DEF k

LEMMA PatchShape == ASSUME NEW f PROVE Shape(PatchAPIServer(f), 5)
<1> DEFINE r == PatchAPIServer(f)
<1>1. DOMAIN r = 1..5 /\ r = [i \in 1..5 |-> r[i]]
  BY PatchIs
<1>2. \A i \in 1..5 : r[i].skip \in 0..(5 - i)
  BY PatchIs
<1> HIDE DEF r
<1>3. 5 \in Nat
  OBVIOUS
<1>4. QED  BY <1>1, <1>2, <1>3, ShapeGroup DEF r

LEMMA KeycloakSteady == ASSUME NEW c PROVE Steady("Keycloak", c)
<1> DEFINE before == Must(<<Call("resolveCredentials", {}, {})>>)
                     \o May(<<WaitForAdminSecret>>)
                     \o If("service_mesh", c, May(<<CreatePostgresMTLS>>))
           deploy(f) == Must(DeployKeycloak \o <<WaitForKeycloak(f)>> \o ConfigureRealm)
           gateway == If("service_mesh", c, May(<<CreateGateway>>))
           store == May(<<StoreKubeconfigInVault>>)
<1>1. PICK n \in Nat : Shape(before, n)
  <2>1. Sized(May(<<CreatePostgresMTLS>>))
    BY SizedCalls, Tuples
  <2>2. Sized(before)
    BY <2>1, SizedCalls, SizedBoth, SizedIf, Tuples
  <2>3. QED  BY <2>2 DEF Sized
<1>2. \A f : Shape(deploy(f), 6)
  BY KeycloakCalls, ShapeCalls
<1>3. \A f : Shape(PatchAPIServer(f), 5)
  BY PatchShape
<1>4. PICK m \in Nat : Shape(gateway, m)
  <2>1. Sized(gateway)
    BY SizedCalls, SizedIf, Tuples
  <2>2. QED  BY <2>1 DEF Sized
<1>5. Shape(store, 1)
  BY ShapeCalls, Tuples
<1>6. \A f : Keycloak(c, f) =
                 before \o deploy(f) \o PatchAPIServer(f) \o gateway \o store
  BY DEF Keycloak
<1> HIDE DEF before, deploy, gateway, store
<1>7. \A f : Shape(before \o deploy(f), n + 6)
  BY <1>1, <1>2, ShapeBoth
<1>8. n + 6 \in Nat /\ n + 6 + 5 \in Nat /\ n + 6 + 5 + m \in Nat /\ n + 6 + 5 + m + 1 \in Nat
  OBVIOUS
<1>9. \A f : Shape(before \o deploy(f) \o PatchAPIServer(f), n + 6 + 5)
  BY <1>3, <1>7, <1>8, ShapeBoth
<1>10. \A f : Shape(before \o deploy(f) \o PatchAPIServer(f) \o gateway, n + 6 + 5 + m)
  BY <1>4, <1>8, <1>9, ShapeBoth
<1>11. \A f : Shape(Keycloak(c, f), n + 6 + 5 + m + 1)
  BY <1>5, <1>6, <1>8, <1>10, ShapeBoth
<1>12. \A f : Recipe("Keycloak", c, f) = Keycloak(c, f)
  BY DEF Recipe
<1>13. QED  BY <1>8, <1>11, <1>12 DEF Steady

LEMMA OllamaSteady == ASSUME NEW c PROVE Steady("Ollama", c)
<1>1. Sized(Must(<<Call("ollamaNamespace", {}, {Namespace("ollama")})>>))
      /\ Sized(Must(<<BuildDeployment(c)>>))
  BY SizedCalls, Tuples
<1>2. Sized(If("ollama_key", c, Must(<<CreateAPIKeySecret>>)))
  BY SizedCalls, SizedIf, Tuples
<1>3. Sized(If("local_model", c, Must(<<CreateOllamaStorage>>)))
  BY SizedCalls, SizedIf, Tuples
<1>4. Sized(CreateModelPullJob)
  BY SizedCalls, SizedBoth, Tuples DEF CreateModelPullJob
<1>5. Sized(If("local_model", c, If("named_model", c, CreateModelPullJob)))
  BY <1>4, SizedIf
<1>6. Sized(Ollama(c))
  BY <1>1, <1>2, <1>3, <1>5, SizedBoth DEF Ollama
<1>7. \A f : Recipe("Ollama", c, f) = Ollama(c)
  BY DEF Recipe
<1>8. QED  BY <1>6, <1>7, SizedSteady

LEMMA KarporSteady == ASSUME NEW c PROVE Steady("Karpor", c)
<1>1. Sized(Must(<<InstallHelm,
           Call("karporNamespace", {}, {Namespace("karpor")}),
           CreateKarporStorage,
           Call("karpor", {Deployed("helm"), Namespace("karpor"), Class("nfs-static")},
                {Deployed("karpor")})>>))
  BY SizedCalls, Tuples
<1>2. Sized(CreateKubeconfig)
  BY SizedCalls, SizedBoth, Tuples DEF CreateKubeconfig
<1>3. Sized(If("service_mesh", c, May(<<CreateKarporGateway>>)))
  BY SizedCalls, SizedIf, Tuples
<1>4. Sized(EnableAI(c))
  BY SizedCalls, SizedIf, Tuples DEF EnableAI
<1>5. Sized(Karpor(c))
  BY <1>1, <1>2, <1>3, <1>4, SizedBoth DEF Karpor
<1>6. \A f : Recipe("Karpor", c, f) = Karpor(c)
  BY DEF Recipe
<1>7. QED  BY <1>5, <1>6, SizedSteady

LEMMA OAuthShape ==
    ASSUME NEW c
    PROVE  \E n \in Nat : \A f : Shape(ConfigureGrafanaOAuth(c, f), n)
<1>1. \A f : Shape(May(<<
        Call("oauthConfig", {Secret("monitoring"), LabCA, Namespace("monitoring")}, {}),
        Call("oauthPatch", {Deployed("grafana")}, {OAuth}),
        RestartGrafana(f)>>), 3)
  BY ShapeCalls, Tuples
<1>2. \A f : Shape(ConfigureGrafanaOAuth(c, f), Length("monitoring", c, 3))
  BY <1>1, ShapeIf DEF ConfigureGrafanaOAuth
<1>3. QED  BY <1>2 DEF Length

LEMMA PostShape == ASSUME NEW name PROVE Sized(PostRecipe(name))
<1>1. Sized(RefreshCalico)
  BY SizedCalls, Tuples DEF RefreshCalico
<1>2. Sized(<<>>)
  BY ShapeNone DEF Sized
<1>3. QED  BY <1>1, <1>2 DEF PostRecipe

\* Every component of the plan has a recipe.
LEMMA Names ==
    \A i \in 1..Last : WorkloadSteps[i].name \in
        {"MetalLB", "Istio", "CertManager", "MetricsServer", "VPA", "KEDA", "NFSProvisioner",
         "VaultInstaller", "VaultSecretsOperator", "Monitoring", "Loki", "Tempo", "Kiali",
         "Keycloak", "Ollama", "Karpor"}
  BY DEF WorkloadSteps, Component, Last

LEMMA AllSteady == ASSUME NEW i \in 1..Last, NEW c PROVE Steady(WorkloadSteps[i].name, c)
  BY Names, MetalLBSteady, IstioSteady, CertManagerSteady, MetricsServerSteady, VPASteady,
     KEDASteady, NFSProvisionerSteady, VaultInstallerSteady, VaultSecretsOperatorSteady,
     MonitoringSteady, LokiSteady, TempoSteady, KialiSteady, KeycloakSteady, OllamaSteady,
     KarporSteady

-----------------------------------------------------------------------------
(* Types *)

\* The function that runs has a fixed number of calls.
LEMMA CallsShape ==
    ASSUME LoopInv, pc \in Calling, cfg' = cfg, at' = at, pc' = pc
    PROVE  \E n \in Nat : Shape(Calls, n) /\ Len(Calls') = n
<1>1. CASE pc = "install"
  <2>1. Step' = Step
    BY DEF Step
  <2>2. Calls = Recipe(Step.name, cfg.features, facts)
    BY <1>1 DEF Calls
  <2>3. Calls' = Recipe(Step.name, cfg.features, facts')
    BY <1>1, <2>1 DEF Calls
  <2>4. Steady(Step.name, cfg.features)
    BY <1>1, AllSteady DEF Step, LoopInv
  <2>5. QED  BY <2>2, <2>3, <2>4 DEF Steady, Shape, IsSeq
<1>2. CASE pc = "post"
  <2>1. Step' = Step
    BY DEF Step
  <2>2. Calls = PostRecipe(Step.name) /\ Calls' = PostRecipe(Step.name)
    BY <1>2, <2>1 DEF Calls
  <2>3. QED  BY <2>2, PostShape DEF Sized, Shape, IsSeq
<1>3. CASE pc = "oauth"
  <2>1. Calls = ConfigureGrafanaOAuth(cfg.features, facts)
    BY <1>3 DEF Calls
  <2>2. Calls' = ConfigureGrafanaOAuth(cfg.features, facts')
    BY <1>3 DEF Calls
  <2>3. QED  BY <2>1, <2>2, OAuthShape DEF Shape, IsSeq
<1>4. QED  BY <1>1, <1>2, <1>3 DEF Calling

\* The next call is one of the function's or just past its last.
OpInv ==
    /\ op \in Nat \ {0}
    /\ pc \in Calling => op \in 1..(Len(Calls) + 1)

LEMMA OpInit == Init => OpInv
  BY DEF Init, OpInv, Calling

\* A function that begins is at its first call.
LEMMA OpBegins ==
    ASSUME LoopInv', op' = 1
    PROVE  OpInv'
<1>1. ASSUME (pc \in Calling)' PROVE (Len(Calls) \in Nat)'
  <2>1. CASE pc' = "install"
    <3>1. Calls' = Recipe(Step'.name, cfg'.features, facts')
      BY <2>1 DEF Calls
    <3>2. Steady(Step'.name, cfg'.features)
      BY <2>1, AllSteady, LastIs DEF Step, LoopInv
    <3>3. QED  BY <3>1, <3>2 DEF Steady, Shape, IsSeq
  <2>2. CASE pc' = "post"
    <3>1. Calls' = PostRecipe(Step'.name)
      BY <2>2 DEF Calls
    <3>2. QED  BY <3>1, PostShape DEF Sized, Shape, IsSeq
  <2>3. CASE pc' = "oauth"
    <3>1. Calls' = ConfigureGrafanaOAuth(cfg'.features, facts')
      BY <2>3 DEF Calls
    <3>2. QED  BY <3>1, OAuthShape DEF Shape, IsSeq
  <2>4. QED  BY <1>1, <2>1, <2>2, <2>3 DEF Calling
<1>2. QED  BY <1>1 DEF OpInv

LEMMA OpStep == LoopInv /\ LoopInv' /\ OpInv /\ [Next]_vars => OpInv'
<1> SUFFICES ASSUME LoopInv, LoopInv', OpInv, [Next]_vars PROVE OpInv'
  OBVIOUS
<1>1. CASE StartRun
  BY <1>1, OpBegins DEF StartRun
<1>2. CASE Crash
  BY <1>2, OpBegins DEF Crash
<1>3. CASE SkipComponent
  BY <1>3 DEF SkipComponent, OpInv, Calling
<1>4. CASE BeginComponent
  BY <1>4, OpBegins DEF BeginComponent
<1>5. CASE CallSucceeds
  <2>1. pc \in Calling /\ cfg' = cfg /\ at' = at /\ pc' = pc /\ op <= Len(Calls) /\ op' = op + 1
    BY <1>5 DEF CallSucceeds
  <2>2. PICK n \in Nat : Shape(Calls, n) /\ Len(Calls') = n
    BY <2>1, CallsShape
  <2>3. op' \in 1..(n + 1)
    BY <2>1, <2>2 DEF OpInv, Shape, IsSeq
  <2>4. QED  BY <2>2, <2>3 DEF OpInv
<1>6. CASE CallFails
  <2>1. CASE Returned
    <3>1. Abort
      BY <1>6, <2>1 DEF CallFails
    <3>2. CASE GotoPost
      BY <3>2, OpBegins DEF GotoPost
    <3>3. CASE pc' = "failed" /\ op' = op
      BY <3>3 DEF OpInv, Calling
    <3>4. QED  BY <3>1, <3>2, <3>3 DEF Abort
  <2>2. CASE ~Returned
    <3>1. /\ pc \in Calling /\ cfg' = cfg /\ at' = at /\ pc' = pc /\ op <= Len(Calls)
          /\ op' = op + 1 + Current.skip
      BY <1>6, <2>2 DEF CallFails, Continue
    <3>2. PICK n \in Nat : Shape(Calls, n) /\ Len(Calls') = n
      BY <3>1, CallsShape
    <3>3. op \in 1..n
      BY <3>1, <3>2 DEF OpInv, Shape, IsSeq
    <3>4. Current.skip \in 0..(n - op)
      BY <3>2, <3>3 DEF Current, Shape
    <3>5. op' \in 1..(n + 1)
      BY <3>1, <3>3, <3>4
    <3>6. QED  BY <3>2, <3>5 DEF OpInv
  <2>3. QED  BY <2>1, <2>2
<1>7. CASE InstallReturns
  BY <1>7, OpBegins DEF InstallReturns, GotoPost
<1>8. CASE PostReturns
  BY <1>8 DEF PostReturns, OpInv, Calling
<1>9. CASE EndOfPlan
  BY <1>9, OpBegins DEF EndOfPlan
<1>10. CASE OAuthReturns
  BY <1>10 DEF OAuthReturns, OpInv, Calling
<1>11. CASE Cluster \/ UNCHANGED vars
  <2>1. cfg' = cfg /\ at' = at /\ pc' = pc /\ op' = op
    BY <1>11 DEF Cluster, SyncSecrets, StartKeycloakPod, StartGrafanaPod, RestartAPIServer,
                PullModel, vars, loop
  <2>2. CASE pc \in Calling
    <3>1. PICK n \in Nat : Shape(Calls, n) /\ Len(Calls') = n
      BY <2>1, <2>2, CallsShape
    <3>2. op \in 1..(n + 1)
      BY <2>2, <3>1 DEF OpInv, Shape, IsSeq
    <3>3. QED  BY <2>1, <3>1, <3>2 DEF OpInv
  <2>3. CASE pc \notin Calling
    BY <2>1, <2>3 DEF OpInv
  <2>4. QED  BY <2>2, <2>3
<1>12. QED
  BY <1>1, <1>2, <1>3, <1>4, <1>5, <1>6, <1>7, <1>8, <1>9, <1>10, <1>11
     DEF Next, InstallWorkloads

\* What is counted and remembered.
CountInv ==
    /\ keycloak \in BOOLEAN
    /\ broken \subseteq 1..Last
    /\ runs \in 0..MaxRuns /\ faults \in 0..MaxFaults

LEMMA CountInit == Init => CountInv
<1> SUFFICES ASSUME Init PROVE CountInv
  OBVIOUS
<1>1. keycloak \in BOOLEAN
  BY DEF Init
<1>2. broken \subseteq 1..Last
  BY DEF Init
<1>3. runs \in 0..MaxRuns /\ faults \in 0..MaxFaults
  BY WorkloadsAssumption DEF Init
<1>4. QED  BY <1>1, <1>2, <1>3 DEF CountInv

LEMMA CountStep == LoopInv /\ CountInv /\ [Next]_vars => CountInv'
<1> SUFFICES ASSUME LoopInv, CountInv, [Next]_vars PROVE CountInv'
  OBVIOUS
<1> USE WorkloadsAssumption, LastIs
<1>1. (keycloak \in BOOLEAN)'
  <2>1. keycloak \in BOOLEAN
    BY DEF CountInv
  <2>2. \/ keycloak' = keycloak \/ keycloak' = FALSE
        \/ keycloak' = (keycloak \/ Step.name = "Keycloak")
    BY DEF Next, StartRun, Crash, InstallWorkloads, SkipComponent, BeginComponent, CallSucceeds,
           CallFails, Abort, Continue, GotoPost, InstallReturns, PostReturns, EndOfPlan,
           OAuthReturns, Cluster, SyncSecrets, StartKeycloakPod, StartGrafanaPod, RestartAPIServer,
           PullModel, vars, loop
  <2>3. QED  BY <2>1, <2>2
<1>2. (broken \subseteq 1..Last)'
  <2>1. broken \subseteq 1..Last
    BY DEF CountInv
  <2>2. broken' = broken \/ broken' = {} \/ (pc = "install" /\ broken' = broken \cup {at})
    BY DEF Next, StartRun, Crash, InstallWorkloads, SkipComponent, BeginComponent, CallSucceeds,
           CallFails, Returned, Abort, Continue, InstallReturns, PostReturns, EndOfPlan,
           OAuthReturns, Cluster, SyncSecrets, StartKeycloakPod, StartGrafanaPod, RestartAPIServer,
           PullModel, vars, report
  <2>3. pc = "install" => at \in 1..Last
    BY DEF LoopInv
  <2>4. QED  BY <2>1, <2>2, <2>3
<1>3. (runs \in 0..MaxRuns)'
  <2>1. runs' = runs \/ (runs < MaxRuns /\ runs' = runs + 1)
    BY DEF Next, StartRun, Crash, InstallWorkloads, SkipComponent, BeginComponent, CallSucceeds,
           CallFails, InstallReturns, PostReturns, EndOfPlan, OAuthReturns, Cluster,
           SyncSecrets, StartKeycloakPod, StartGrafanaPod, RestartAPIServer,
                PullModel, vars
  <2>2. QED  BY <2>1 DEF CountInv
<1>4. (faults \in 0..MaxFaults)'
  <2>1. faults' = faults \/ (faults < MaxFaults /\ faults' = faults + 1)
    BY DEF Next, StartRun, Crash, InstallWorkloads, SkipComponent, BeginComponent, CallSucceeds,
           CallFails, Fault, InstallReturns, PostReturns, EndOfPlan, OAuthReturns, Cluster,
           SyncSecrets, StartKeycloakPod, StartGrafanaPod, RestartAPIServer,
                PullModel, vars
  <2>2. QED  BY <2>1 DEF CountInv
<1>5. QED  BY <1>1, <1>2, <1>3, <1>4 DEF CountInv

LEMMA OpAlways == Spec => []OpInv
<1>1. Init => LoopInv /\ OpInv
  BY LoopInit, OpInit
<1>2. (LoopInv /\ OpInv) /\ [Next]_vars => (LoopInv /\ OpInv)'
  BY LoopStep, OpStep
<1>3. QED  BY <1>1, <1>2, PTL DEF Spec

\* The state always has its type, and the next call is one of the running function's.
THEOREM TypeCorrect == Spec => []TypeOK
<1>1. Spec => [](cfg \in Configs)
  BY ConfigInit, ConfigStep, PTL DEF Spec
<1>2. Spec => []CountInv
  BY LoopAlways, CountInit, CountStep, PTL DEF Spec
<1>3. cfg \in Configs /\ LoopInv /\ OpInv /\ CountInv => TypeOK
  BY DEF TypeOK, LoopInv, OpInv, CountInv
<1>4. QED  BY <1>1, <1>2, <1>3, LoopAlways, OpAlways, PTL

=============================================================================
