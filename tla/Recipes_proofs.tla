--------------------------- MODULE Recipes_proofs ---------------------------
(***************************************************************************)
(* What holds of every recipe of the plan, in every configuration and over *)
(* every cluster: which facts its calls may take away, that the cluster it *)
(* is walked over changes nothing in it that later steps depend on, that   *)
(* each call needs only what an earlier call or an earlier step makes, and *)
(* that the error of a call never skips one whose own error would be       *)
(* returned. Completion_proofs follows a run with these lemmas.            *)
(***************************************************************************)
EXTENDS Workloads_proofs

ConfigMap == {Source(d) : d \in Sources}
Loading == {Shown(d) : d \in Sources}
Labels == {Injected(n) : n \in {"keycloak", "monitoring", "ollama"}}

\* What a call from place i of the plan on, or the cluster by itself, may take away.
Volatile(i) ==
    {Sidecar, Edited, CniToken} \cup Loading
    \cup (IF i <= 7 THEN {Class("nfs-storage")} ELSE {})
    \cup (IF i <= 9 THEN Labels ELSE {})
    \cup (IF i <= 12 THEN ConfigMap ELSE {})
    \cup (IF i <= 15 THEN {Keyed, Deployed("model-job")} ELSE {})
    \cup (IF i <= 16 THEN {Deployed("karpor-kubeconfig")} ELSE {})

\* What the calls of the step at place i may take away.
Drops(i) ==
    IF i = 7 THEN {Class("nfs-storage")}
    ELSE IF i = 9 THEN Labels
    ELSE IF i = 10 THEN ConfigMap
    ELSE IF i \in {11, 12} THEN ConfigMap \cup Loading
    ELSE IF i = 14 THEN {Edited, CniToken}
    ELSE IF i = 15 THEN {Keyed, Deployed("model-job")}
    ELSE IF i = 16 THEN {Deployed("karpor-kubeconfig")}
    ELSE {}

LEMMA DropsVolatile == ASSUME NEW i \in Nat PROVE Drops(i) \subseteq Volatile(i)
  BY DEF Drops, Volatile

\* The later a place, the less may still be taken away.
LEMMA VolatileShrinks ==
    ASSUME NEW i \in Nat, NEW k \in Nat, i <= k
    PROVE  Volatile(k) \subseteq Volatile(i)
  BY DEF Volatile

-----------------------------------------------------------------------------
(* A recipe as it is walked, and as it is listed *)

\* Two calls that differ in nothing a later step can depend on.
Twins(a, b) ==
    /\ a.makes \ (Loading \cup {Edited}) = b.makes \ (Loading \cup {Edited})
    /\ a.needs \ Awaited = b.needs \ Awaited

\* r is s, over another cluster; its calls take away only facts of V, and an
\* error that is not returned skips no call whose error would be.
FitsAt(j, r, s, n, V) ==
    /\ Twins(r[j].call, s[j].call) /\ r[j].call.drops \subseteq V
    /\ r[j].policy = s[j].policy /\ r[j].skip = s[j].skip
    /\ s[j].skip \in 0..(n - j)
    /\ \A k \in (j + 1)..(j + s[j].skip) : s[k].policy # "abort"
    /\ s[j].policy = "ignore" => s[j].skip = 0 /\ s[j].call.makes = {}

Fits(r, s, n, V) ==
    /\ IsSeq(r, n) /\ IsSeq(s, n)
    /\ \A j \in 1..n : FitsAt(j, r, s, n, V)

\* Where the parts of a recipe are found in the whole.
Parts(w, r, n, s, m) ==
    /\ IsSeq(w, n + m)
    /\ \A i \in 1..n : w[i] = r[i]
    /\ \A i \in (n + 1)..(n + m) : w[i] = s[i - n]

LEMMA Joined ==
    ASSUME NEW n \in Nat, NEW m \in Nat, NEW r, NEW s, NEW w, w = r \o s,
           IsSeq(r, n), IsSeq(s, m)
    PROVE  Parts(w, r, n, s, m)
<1>1. PICK S : r \in Seq(S)
  BY DEF IsSeq
<1>2. PICK T : s \in Seq(T)
  BY DEF IsSeq
<1>3. r \in Seq(S \cup T) /\ s \in Seq(S \cup T) /\ Len(r) = n /\ Len(s) = m
  BY <1>1, <1>2 DEF IsSeq
<1>4. IsSeq(w, n + m)
  BY SeqBoth
<1>5. QED  BY <1>3, <1>4 DEF Parts

LEMMA FitsBoth ==
    ASSUME NEW n \in Nat, NEW m \in Nat, NEW V, NEW q, NEW r, NEW s, NEW t,
           Fits(q, s, n, V), Fits(r, t, m, V)
    PROVE  Fits(q \o r, s \o t, n + m, V)
<1>1. IsSeq(q, n) /\ IsSeq(r, m) /\ IsSeq(s, n) /\ IsSeq(t, m)
  BY DEF Fits
<1> DEFINE w == q \o r
           l == s \o t
<1>whole. w = q \o r /\ l = s \o t
  OBVIOUS
<1> HIDE DEF w, l
<1>2. Parts(w, q, n, r, m)
  BY <1>whole, <1>1, Joined, Zenon
<1>3. Parts(l, s, n, t, m)
  BY <1>whole, <1>1, Joined, Zenon
<1>4. ASSUME NEW j \in 1..(n + m) PROVE FitsAt(j, w, l, n + m, V)
  <2>1. CASE j \in 1..n
    <3>1. w[j] = q[j] /\ l[j] = s[j]
      BY <1>2, <1>3, <2>1 DEF Parts
    <3>2. FitsAt(j, q, s, n, V)
      BY <2>1 DEF Fits
    <3>3. \A k \in (j + 1)..(j + l[j].skip) : k \in 1..n /\ k \in (j + 1)..(j + s[j].skip)
      BY <2>1, <3>1, <3>2 DEF FitsAt
    <3>4. \A k \in (j + 1)..(j + l[j].skip) : l[k].policy # "abort"
      BY <1>3, <3>1, <3>2, <3>3 DEF FitsAt, Parts
    <3>5. l[j].skip \in 0..(n + m - j)
      BY <2>1, <3>1, <3>2 DEF FitsAt
    <3>6. QED  BY <3>1, <3>2, <3>4, <3>5 DEF FitsAt
  <2>2. CASE j \in (n + 1)..(n + m)
    <3>1. w[j] = r[j - n] /\ l[j] = t[j - n] /\ j - n \in 1..m
      BY <1>2, <1>3, <2>2 DEF Parts
    <3>2. FitsAt(j - n, r, t, m, V)
      BY <3>1 DEF Fits
    <3>3. \A k \in (j + 1)..(j + l[j].skip) :
              k \in (n + 1)..(n + m) /\ k - n \in (j - n + 1)..(j - n + t[j - n].skip)
      BY <2>2, <3>1, <3>2 DEF FitsAt
    <3>4. \A k \in (j + 1)..(j + l[j].skip) : l[k].policy # "abort"
      BY <1>3, <3>2, <3>3 DEF FitsAt, Parts
    <3>5. l[j].skip \in 0..(n + m - j)
      BY <2>2, <3>1, <3>2 DEF FitsAt
    <3>6. QED  BY <3>1, <3>2, <3>4, <3>5 DEF FitsAt
  <2>3. j \in 1..n \/ j \in (n + 1)..(n + m)
    OBVIOUS
  <2>4. QED  BY <2>1, <2>2, <2>3
<1>5. Fits(w, l, n + m, V)
  BY <1>2, <1>3, <1>4 DEF Fits, Parts
<1>6. QED  BY <1>whole, <1>5, Zenon

LEMMA GroupIsSeq ==
    ASSUME NEW n \in Nat, NEW calls, Len(calls) = n
    PROVE  IsSeq(Must(calls), n) /\ IsSeq(May(calls), n) /\ IsSeq(Try(calls), n)
  BY ShapeCalls DEF Shape

LEMMA FitsMust ==
    ASSUME NEW n \in Nat, NEW V, NEW a, NEW b, Len(a) = n, Len(b) = n,
           \A j \in 1..n : Twins(a[j], b[j]) /\ a[j].drops \subseteq V
    PROVE  Fits(Must(a), Must(b), n, V)
<1>1. IsSeq(Must(a), n) /\ IsSeq(Must(b), n)
  BY GroupIsSeq
<1>2. \A j \in 1..n : /\ Must(a)[j].call = a[j] /\ Must(a)[j].policy = "abort" /\ Must(a)[j].skip = 0
                      /\ Must(b)[j].call = b[j] /\ Must(b)[j].policy = "abort" /\ Must(b)[j].skip = 0
  BY DEF Must
<1>3. ASSUME NEW j \in 1..n PROVE FitsAt(j, Must(a), Must(b), n, V)
  BY <1>2 DEF FitsAt
<1>4. QED  BY <1>1, <1>3 DEF Fits

LEMMA FitsMay ==
    ASSUME NEW n \in Nat, NEW V, NEW a, NEW b, Len(a) = n, Len(b) = n,
           \A j \in 1..n : Twins(a[j], b[j]) /\ a[j].drops \subseteq V
    PROVE  Fits(May(a), May(b), n, V)
<1>1. IsSeq(May(a), n) /\ IsSeq(May(b), n)
  BY GroupIsSeq
<1>2. \A j \in 1..n : /\ May(a)[j].call = a[j] /\ May(a)[j].policy = "warn" /\ May(a)[j].skip = n - j
                      /\ May(b)[j].call = b[j] /\ May(b)[j].policy = "warn" /\ May(b)[j].skip = n - j
  BY DEF May
<1>3. \A j \in 1..n : \A k \in (j + 1)..(j + (n - j)) : k \in 1..n
  OBVIOUS
<1>4. ASSUME NEW j \in 1..n PROVE FitsAt(j, May(a), May(b), n, V)
  <2>1. May(b)[j].skip = n - j /\ May(b)[j].skip \in 0..(n - j)
    BY <1>2
  <2>2. \A k \in (j + 1)..(j + May(b)[j].skip) : May(b)[k].policy # "abort"
    BY <1>2, <1>3, <2>1
  <2>3. QED  BY <1>2, <2>1, <2>2 DEF FitsAt
<1>5. QED  BY <1>1, <1>4 DEF Fits

LEMMA FitsTry ==
    ASSUME NEW n \in Nat, NEW V, NEW a, Len(a) = n,
           \A j \in 1..n : a[j].makes = {} /\ a[j].drops \subseteq V
    PROVE  Fits(Try(a), Try(a), n, V)
<1>1. IsSeq(Try(a), n)
  BY GroupIsSeq
<1>2. \A j \in 1..n : /\ Try(a)[j].call = a[j] /\ Try(a)[j].policy = "ignore" /\ Try(a)[j].skip = 0
  BY DEF Try
<1>3. ASSUME NEW j \in 1..n PROVE FitsAt(j, Try(a), Try(a), n, V)
  BY <1>2 DEF FitsAt, Twins
<1>4. QED  BY <1>1, <1>3 DEF Fits

LEMMA FitsNone == ASSUME NEW V PROVE Fits(<<>>, <<>>, 0, V)
  BY ShapeNone DEF Fits, Shape

LEMMA FitsIf ==
    ASSUME NEW n \in Nat, NEW V, NEW feature, NEW c, NEW r, NEW s, Fits(r, s, n, V)
    PROVE  Fits(If(feature, c, r), If(feature, c, s), Length(feature, c, n), V)
           /\ Length(feature, c, n) \in Nat
  BY FitsNone DEF If, Length

\* The same for some number of calls.
Listing(r) == \E n \in Nat : IsSeq(r, n)
Fitting(r, s, V) == \E n \in Nat : Fits(r, s, n, V)

LEMMA ListingBoth ==
    ASSUME NEW r, NEW s, Listing(r), Listing(s)
    PROVE  Listing(r \o s)
<1>1. PICK n \in Nat : IsSeq(r, n)
  BY DEF Listing
<1>2. PICK m \in Nat : IsSeq(s, m)
  BY DEF Listing
<1>3. n + m \in Nat /\ IsSeq(r \o s, n + m)
  BY <1>1, <1>2, SeqBoth
<1>4. QED  BY <1>3 DEF Listing

LEMMA ListingCalls ==
    ASSUME NEW calls, Len(calls) \in Nat
    PROVE  Listing(Must(calls)) /\ Listing(May(calls)) /\ Listing(Try(calls))
  BY GroupIsSeq DEF Listing

LEMMA ListingIf ==
    ASSUME NEW feature, NEW c, NEW r, Listing(r)
    PROVE  Listing(If(feature, c, r))
<1>1. Listing(<<>>)
  BY ShapeNone DEF Listing, Shape
<1>2. QED  BY <1>1 DEF If

LEMMA FittingBoth ==
    ASSUME NEW V, NEW q, NEW r, NEW s, NEW t, Fitting(q, s, V), Fitting(r, t, V)
    PROVE  Fitting(q \o r, s \o t, V)
<1>1. PICK n \in Nat : Fits(q, s, n, V)
  BY DEF Fitting
<1>2. PICK m \in Nat : Fits(r, t, m, V)
  BY DEF Fitting
<1>3. n + m \in Nat /\ Fits(q \o r, s \o t, n + m, V)
  BY <1>1, <1>2, FitsBoth
<1>4. QED  BY <1>3 DEF Fitting

LEMMA FittingIf ==
    ASSUME NEW V, NEW feature, NEW c, NEW r, NEW s, Fitting(r, s, V)
    PROVE  Fitting(If(feature, c, r), If(feature, c, s), V)
<1>1. PICK n \in Nat : Fits(r, s, n, V)
  BY DEF Fitting
<1>2. QED  BY <1>1, FitsIf DEF Fitting

\* Groups whose calls do not depend on the cluster.
Spared(calls, V) == Len(calls) \in Nat /\ \A j \in 1..Len(calls) : calls[j].drops \subseteq V

LEMMA FittingCalls ==
    ASSUME NEW V, NEW calls, Spared(calls, V)
    PROVE  Fitting(Must(calls), Must(calls), V) /\ Fitting(May(calls), May(calls), V)
<1>1. \A j \in 1..Len(calls) : Twins(calls[j], calls[j]) /\ calls[j].drops \subseteq V
  BY DEF Spared, Twins
<1>2. QED  BY <1>1, FitsMust, FitsMay DEF Fitting, Spared

LEMMA MustBoth ==
    ASSUME NEW n \in Nat, NEW m \in Nat, NEW a, NEW b, IsSeq(a, n), IsSeq(b, m)
    PROVE  Must(a \o b) = Must(a) \o Must(b)
<1> DEFINE c == a \o b
           w == Must(c)
           l == Must(a) \o Must(b)
<1>whole. c = a \o b /\ l = Must(a) \o Must(b)
  OBVIOUS
<1> HIDE DEF c, l
<1>1. Parts(c, a, n, b, m)
  BY <1>whole, Joined, Zenon
<1>2. IsSeq(Must(a), n) /\ IsSeq(Must(b), m) /\ Len(a) = n /\ Len(b) = m /\ Len(c) = n + m
  BY <1>1, GroupIsSeq DEF IsSeq, Parts
<1>3. Parts(l, Must(a), n, Must(b), m)
  BY <1>whole, <1>2, Joined, Zenon
<1>4. w = [i \in 1..(n + m) |-> [call |-> c[i], policy |-> "abort", skip |-> 0]]
  BY <1>2 DEF Must
<1>5. l = [i \in 1..(n + m) |-> l[i]]
  BY <1>3 DEF Parts, IsSeq
<1>6. \A i \in 1..n : Must(a)[i] = [call |-> a[i], policy |-> "abort", skip |-> 0]
  BY <1>2 DEF Must
<1>7. \A i \in 1..m : Must(b)[i] = [call |-> b[i], policy |-> "abort", skip |-> 0]
  BY <1>2 DEF Must
<1> HIDE DEF w
<1>8. ASSUME NEW i \in 1..(n + m)
      PROVE  [call |-> c[i], policy |-> "abort", skip |-> 0] = l[i]
  <2>1. CASE i \in 1..n
    BY <1>1, <1>3, <1>6, <2>1 DEF Parts
  <2>2. CASE i \in (n + 1)..(n + m)
    <3>1. i - n \in 1..m
      BY <2>2
    <3>2. QED  BY <1>1, <1>3, <1>7, <2>2, <3>1 DEF Parts
  <2>3. i \in 1..n \/ i \in (n + 1)..(n + m)
    OBVIOUS
  <2>4. QED  BY <2>1, <2>2, <2>3
<1>9. w = l
  BY <1>4, <1>5, <1>8
<1>10. QED  BY <1>9, <1>whole DEF w

LEMMA FittingTry ==
    ASSUME NEW V, NEW calls, Spared(calls, V), \A j \in 1..Len(calls) : calls[j].makes = {}
    PROVE  Fitting(Try(calls), Try(calls), V)
  BY FitsTry DEF Fitting, Spared

\* Two groups of one call each.
LEMMA FittingOne ==
    ASSUME NEW V, NEW a, NEW b, Twins(a, b), a.drops \subseteq V
    PROVE  Fitting(Must(<<a>>), Must(<<b>>), V) /\ Fitting(May(<<a>>), May(<<b>>), V)
<1> DEFINE k == <<a>>
           l == <<b>>
<1>1. /\ Len(k) = 1 /\ Len(l) = 1 /\ 1 \in Nat
      /\ \A j \in 1..1 : Twins(k[j], l[j]) /\ k[j].drops \subseteq V
  OBVIOUS
<1> HIDE DEF k, l
<1>2. Fits(Must(k), Must(l), 1, V) /\ Fits(May(k), May(l), 1, V)
  BY <1>1, FitsMust, FitsMay
<1>3. QED  BY <1>1, <1>2 DEF Fitting, k, l

-----------------------------------------------------------------------------
(* What the recipes take away *)

\* Most take nothing away.
LEMMA PlainFits ==
    ASSUME NEW V
    PROVE  /\ Fitting(MetalLB, MetalLB, V) /\ Fitting(Istio, Istio, V)
           /\ Fitting(CertManager, CertManager, V) /\ Fitting(MetricsServer, MetricsServer, V)
           /\ Fitting(VPA, VPA, V) /\ Fitting(KEDA, KEDA, V)
           /\ Fitting(VaultInstaller, VaultInstaller, V)
<1>1. Fitting(MetalLB, MetalLB, V) /\ Fitting(Istio, Istio, V)
  BY FittingCalls DEF MetalLB, Istio, Spared, Call
<1>2. Fitting(CertManager, CertManager, V)
  BY FittingCalls DEF CertManager, CreateIssuer, CreateCertificates, Spared, Call
<1>3. Fitting(MetricsServer, MetricsServer, V) /\ Fitting(VaultInstaller, VaultInstaller, V)
  BY FittingCalls DEF MetricsServer, VaultInstaller, Spared, Call
<1>4. Fitting(VPA, VPA, V) /\ Fitting(KEDA, KEDA, V)
  BY FittingCalls DEF VPA, KEDA, InstallHelm, Spared, Call
<1>5. QED  BY <1>1, <1>2, <1>3, <1>4

LEMMA KialiFits == ASSUME NEW V PROVE Fitting(Kiali, Kiali, V)
<1>1. Fitting(May(<<Call("grafanaPassword", {Secret("grafana-admin")}, {})>>),
              May(<<Call("grafanaPassword", {Secret("grafana-admin")}, {})>>), V)
  BY FittingCalls DEF Spared, Call
<1>2. Fitting(Must(<<InstallKiali>>), Must(<<InstallKiali>>), V)
  BY FittingCalls DEF InstallKiali, Spared, Call
<1>3. Fitting(May(<<ConfigureKialiIngress>>), May(<<ConfigureKialiIngress>>), V)
  BY FittingCalls DEF ConfigureKialiIngress, Spared, Call
<1>4. QED  BY <1>1, <1>2, <1>3, FittingBoth DEF Kiali

LEMMA NFSFits ==
    ASSUME NEW V, Class("nfs-storage") \in V
    PROVE  Fitting(NFSProvisioner, NFSProvisioner, V)
<1>1. Fitting(Must(<<InstallHelm>>), Must(<<InstallHelm>>), V)
  BY FittingCalls DEF InstallHelm, Spared, Call
<1>2. Fitting(CreateStaticStorageClass, CreateStaticStorageClass, V)
  <2> DEFINE delete == <<Replacing(Call("deleteNfsStorage", {}, {}), {Class("nfs-storage")})>>
             create == <<Call("nfsStatic", {}, {Class("nfs-static")})>>
  <2>1. Fitting(Try(delete), Try(delete), V)
    BY FittingTry DEF Spared, Call, Replacing
  <2>2. Fitting(Must(create), Must(create), V)
    BY FittingCalls DEF Spared, Call
  <2>3. QED  BY <2>1, <2>2, FittingBoth DEF CreateStaticStorageClass
<1>3. Fitting(Must(<<InstallDynamicProvisioner>>), Must(<<InstallDynamicProvisioner>>), V)
  BY FittingCalls DEF InstallDynamicProvisioner, Spared, Call
<1>4. QED  BY <1>1, <1>2, <1>3, FittingBoth DEF NFSProvisioner

LEMMA VsoFits ==
    ASSUME NEW V, NEW n, Injected(n) \in V
    PROVE  Fitting(VsoResources(n), VsoResources(n), V)
<1> DEFINE namespace == <<Replacing(Call("vsoNamespace", {}, {Namespace(n)}), {Injected(n)})>>
           secrets == <<Call("vsoSecrets", {Crds("vso"), Namespace(n)}, {Wanted(n)})>>
<1>1. Fitting(May(namespace), May(namespace), V)
  BY FittingCalls DEF Spared, Call, Replacing
<1>2. Fitting(May(secrets), May(secrets), V)
  BY FittingCalls DEF Spared, Call
<1>3. QED  BY <1>1, <1>2, FittingBoth DEF VsoResources

LEMMA SecretsOperatorFits ==
    ASSUME NEW V, NEW c, Labels \subseteq V
    PROVE  Fitting(VaultSecretsOperator(c), VaultSecretsOperator(c), V)
<1> DEFINE operator == <<InstallHelm, Call("vso", {Deployed("helm")}, {Crds("vso")})>>
           wait == <<WaitForSecrets(c)>>
<1>1. Fitting(Must(operator), Must(operator), V)
  BY FittingCalls DEF InstallHelm, Spared, Call
<1>2. /\ Fitting(VsoResources("keycloak"), VsoResources("keycloak"), V)
      /\ Fitting(VsoResources("monitoring"), VsoResources("monitoring"), V)
      /\ Fitting(VsoResources("ollama"), VsoResources("ollama"), V)
  BY VsoFits DEF Labels
<1>3. Fitting(If("ollama_key", c, VsoResources("ollama")),
              If("ollama_key", c, VsoResources("ollama")), V)
  BY <1>2, FittingIf
<1>4. Fitting(May(wait), May(wait), V)
  BY FittingCalls DEF WaitForSecrets, Spared, Call
<1>5. QED  BY <1>1, <1>2, <1>3, <1>4, FittingBoth DEF VaultSecretsOperator

\* The ConfigMap is replaced as a whole.
LEMMA DatasourcesDrop ==
    \A name, ds : Datasources(name, ds).drops = ConfigMap
  BY DEF Datasources, Replacing, Call, ConfigMap

\* What Grafana loads is all that depends on the cluster.
LEMMA RestartTwins ==
    ASSUME NEW f
    PROVE  Twins(RestartGrafana(f), RestartGrafana({})) /\ RestartGrafana(f).drops = Loading
<1>1. RestartGrafana(f).makes \subseteq Loading /\ RestartGrafana({}).makes \subseteq Loading
  BY DEF RestartGrafana, Replacing, Call, Loading
<1>2. RestartGrafana(f).needs = RestartGrafana({}).needs
  BY DEF RestartGrafana, Replacing, Call
<1>3. RestartGrafana(f).drops = Loading
  BY DEF RestartGrafana, Replacing, Call, Loading
<1>4. QED  BY <1>1, <1>2, <1>3 DEF Twins

\* The list of calls of Monitoring, in three parts.
MonitoringFirst == <<MonitoringNamespace, CreateNFSStorage, InstallPrometheusOperator,
                     InstallPrometheus, CreateGrafanaSecret>>
MonitoringLast == <<InstallNodeExporter, InstallKubeStateMetrics, InstallAlertmanager>>

LEMMA MonitoringParts ==
    Must(MonitoringFirst \o InstallGrafana \o MonitoringLast)
    = Must(MonitoringFirst) \o Must(InstallGrafana) \o Must(MonitoringLast)
<1>1. IsSeq(MonitoringFirst, 5) /\ IsSeq(InstallGrafana, 2) /\ IsSeq(MonitoringLast, 3)
  BY SeqTwo, SeqThree, SeqFive DEF MonitoringFirst, InstallGrafana, MonitoringLast
<1>2. IsSeq(MonitoringFirst \o InstallGrafana, 5 + 2) /\ 5 + 2 \in Nat
  BY <1>1, SeqBoth
<1>3. Must(MonitoringFirst \o InstallGrafana) = Must(MonitoringFirst) \o Must(InstallGrafana)
  BY <1>1, MustBoth
<1>4. ASSUME NEW before, IsSeq(before, 5 + 2)
      PROVE  Must(before \o MonitoringLast) = Must(before) \o Must(MonitoringLast)
  BY <1>1, <1>4, MustBoth
<1>5. Must((MonitoringFirst \o InstallGrafana) \o MonitoringLast)
      = Must(MonitoringFirst \o InstallGrafana) \o Must(MonitoringLast)
  BY <1>2, <1>4
<1>6. QED  BY <1>3, <1>5

LEMMA MonitoringIs ==
    ASSUME NEW c
    PROVE  Monitoring(c) =
             Must(MonitoringFirst) \o Must(InstallGrafana) \o Must(MonitoringLast)
             \o May(<<InstallCertManagerMonitoring>>)
             \o If("service_mesh", c,
                   May(<<CreateMonitoringGateways>>) \o May(<<InstallIstioMonitoring>>))
  BY MonitoringParts DEF Monitoring, MonitoringFirst, MonitoringLast

LEMMA MonitoringFits ==
    ASSUME NEW V, NEW c, ConfigMap \subseteq V
    PROVE  Fitting(Monitoring(c), Monitoring(c), V)
<1>1. Fitting(Must(MonitoringFirst), Must(MonitoringFirst), V)
  <2>1. Spared(MonitoringFirst, V)
    BY DEF Spared, MonitoringFirst, MonitoringNamespace, CreateNFSStorage,
           InstallPrometheusOperator, InstallPrometheus, CreateGrafanaSecret, Call
  <2>2. QED  BY <2>1, FittingCalls
<1>2. Fitting(Must(InstallGrafana), Must(InstallGrafana), V)
  <2>1. Spared(InstallGrafana, V)
    BY DatasourcesDrop DEF Spared, InstallGrafana, Call
  <2>2. QED  BY <2>1, FittingCalls
<1>3. Fitting(Must(MonitoringLast), Must(MonitoringLast), V)
  <2>1. Spared(MonitoringLast, V)
    BY DEF Spared, MonitoringLast, InstallNodeExporter, InstallKubeStateMetrics,
           InstallAlertmanager, Call
  <2>2. QED  BY <2>1, FittingCalls
<1>4. Fitting(May(<<InstallCertManagerMonitoring>>), May(<<InstallCertManagerMonitoring>>), V)
  BY FittingCalls DEF InstallCertManagerMonitoring, Spared, Call
<1>5. Fitting(May(<<CreateMonitoringGateways>>) \o May(<<InstallIstioMonitoring>>),
              May(<<CreateMonitoringGateways>>) \o May(<<InstallIstioMonitoring>>), V)
  <2>1. Fitting(May(<<CreateMonitoringGateways>>), May(<<CreateMonitoringGateways>>), V)
    BY FittingCalls DEF CreateMonitoringGateways, Spared, Call
  <2>2. Fitting(May(<<InstallIstioMonitoring>>), May(<<InstallIstioMonitoring>>), V)
    BY FittingCalls DEF InstallIstioMonitoring, Spared, Call
  <2>3. QED  BY <2>1, <2>2, FittingBoth
<1>6. Fitting(Must(MonitoringFirst) \o Must(InstallGrafana) \o Must(MonitoringLast),
              Must(MonitoringFirst) \o Must(InstallGrafana) \o Must(MonitoringLast), V)
  BY <1>1, <1>2, <1>3, FittingBoth
<1>7. QED  BY <1>4, <1>5, <1>6, FittingBoth, FittingIf, MonitoringIs

\* A new ConfigMap and a restart, of which the first is the same in every cluster.
LEMMA DatasourceFits ==
    ASSUME NEW V, NEW f, NEW a, a.drops \subseteq V, Loading \subseteq V
    PROVE  Fitting(May(<<a, RestartGrafana(f)>>), May(<<a, RestartGrafana({})>>), V)
<1> DEFINE b == RestartGrafana(f)
           d == RestartGrafana({})
           k == <<a, b>>
           l == <<a, d>>
<1>1. Twins(b, d) /\ b.drops \subseteq V /\ Twins(a, a)
  BY RestartTwins DEF Twins
<1> HIDE DEF b, d
<1>2. /\ Len(k) = 2 /\ Len(l) = 2 /\ 2 \in Nat
      /\ \A j \in 1..2 : Twins(k[j], l[j]) /\ k[j].drops \subseteq V
  BY <1>1
<1> HIDE DEF k, l
<1>3. Fits(May(k), May(l), 2, V)
  BY <1>2, FitsMay
<1>4. QED  BY <1>2, <1>3 DEF Fitting, k, l, b, d

LEMMA LokiFits ==
    ASSUME NEW V, NEW f, ConfigMap \cup Loading \subseteq V
    PROVE  Fitting(Loki(f), Loki({}), V)
<1>1. Fitting(Must(<<InstallLoki, InstallAlloy>>), Must(<<InstallLoki, InstallAlloy>>), V)
  BY FittingCalls DEF InstallLoki, InstallAlloy, Spared, Call
<1>2. Fitting(ConfigureLokiDatasource(f), ConfigureLokiDatasource({}), V)
  BY DatasourceFits, DatasourcesDrop DEF ConfigureLokiDatasource
<1>3. QED  BY <1>1, <1>2, FittingBoth DEF Loki

LEMMA TempoFits ==
    ASSUME NEW V, NEW f, ConfigMap \cup Loading \subseteq V
    PROVE  Fitting(Tempo(f), Tempo({}), V)
<1>1. Fitting(Must(<<InstallTempo, InstallOtelCollector>>),
              Must(<<InstallTempo, InstallOtelCollector>>), V)
  BY FittingCalls DEF InstallTempo, InstallOtelCollector, Spared, Call
<1>2. Fitting(ConfigureTempoDataSource(f), ConfigureTempoDataSource({}), V)
  BY DatasourceFits, DatasourcesDrop DEF ConfigureTempoDataSource
<1>3. Fitting(May(<<ConfigureIstioTracing>>), May(<<ConfigureIstioTracing>>), V)
  BY FittingCalls DEF ConfigureIstioTracing, Spared, Call
<1>4. QED  BY <1>1, <1>2, <1>3, FittingBoth DEF Tempo

LEMMA OAuthFits ==
    ASSUME NEW V, NEW c, NEW f, Loading \subseteq V
    PROVE  Fitting(ConfigureGrafanaOAuth(c, f), ConfigureGrafanaOAuth(c, {}), V)
<1> DEFINE a == Call("oauthConfig", {Secret("monitoring"), LabCA, Namespace("monitoring")}, {})
           e == Call("oauthPatch", {Deployed("grafana")}, {OAuth})
           b == RestartGrafana(f)
           d == RestartGrafana({})
           k == <<a, e, b>>
           l == <<a, e, d>>
<1>1. Twins(b, d) /\ b.drops \subseteq V
  BY RestartTwins
<1>2. a.drops \subseteq V /\ e.drops \subseteq V /\ Twins(a, a) /\ Twins(e, e)
  BY DEF Twins, Call
<1> HIDE DEF a, e, b, d
<1>3. /\ Len(k) = 3 /\ Len(l) = 3 /\ 3 \in Nat
      /\ \A j \in 1..3 : Twins(k[j], l[j]) /\ k[j].drops \subseteq V
  BY <1>1, <1>2
<1> HIDE DEF k, l
<1>4. Fits(May(k), May(l), 3, V)
  BY <1>3, FitsMay
<1>5. Fitting(May(k), May(l), V)
  BY <1>3, <1>4 DEF Fitting
<1>6. QED  BY <1>5, FittingIf DEF ConfigureGrafanaOAuth, k, l, a, e, b, d

\* Keycloak's pod is awaited, with its sidecar or without.
LEMMA WaitTwins ==
    ASSUME NEW f
    PROVE  Twins(WaitForKeycloak(f), WaitForKeycloak({})) /\ WaitForKeycloak(f).drops = {}
<1>1. WaitForKeycloak(f).makes = {} /\ WaitForKeycloak({}).makes = {}
      /\ WaitForKeycloak(f).drops = {}
  BY DEF WaitForKeycloak, Call
<1>2. \A g : WaitForKeycloak(g).needs \ Awaited = {}
  BY DEF WaitForKeycloak, Call, Awaited
<1>3. QED  BY <1>1, <1>2 DEF Twins

LEMMA PatchHas ==
    ASSUME NEW f
    PROVE  /\ IsSeq(PatchAPIServer(f), 5)
           /\ \A j \in 1..5 : /\ PatchAPIServer(f)[j].call = PatchCalls(f)[j]
                             /\ PatchAPIServer(f)[j].policy = "warn"
                             /\ PatchAPIServer(f)[j].skip = IF j = 4 THEN 0 ELSE 5 - j
<1>1. IsSeq(PatchAPIServer(f), 5)
  BY PatchShape DEF Shape
<1>2. QED  BY <1>1, PatchIs

LEMMA ListingPatch == ASSUME NEW f PROVE Listing(PatchAPIServer(f))
<1>1. 5 \in Nat
  OBVIOUS
<1>2. QED  BY <1>1, PatchHas DEF Listing

\* Whether an edit is still to be made is all that depends on the cluster.
LEMMA PatchTwins ==
    ASSUME NEW f, NEW j \in 1..5
    PROVE  /\ Twins(PatchCalls(f)[j], PatchCalls({})[j])
           /\ PatchCalls(f)[j].drops \subseteq {Edited, CniToken}
<1>1. \A g : /\ PatchCalls(g)[1] = Call("authConfig", {LabCA}, {})
             /\ PatchCalls(g)[2] = EditManifest("hostAlias", Alias, g)
             /\ PatchCalls(g)[3] = EditManifest("authFlag", Oidc, g)
             /\ PatchCalls(g)[4] = WaitForAPIServer(g)
             /\ PatchCalls(g)[5] = Call("oidcRoles", {}, {Deployed("oidc-roles")})
  BY DEF PatchCalls
<1>2. \A name, edit : /\ Twins(EditManifest(name, edit, f), EditManifest(name, edit, {}))
                      /\ EditManifest(name, edit, f).drops = {}
  BY DEF EditManifest, Call, Twins
<1>3. /\ Twins(WaitForAPIServer(f), WaitForAPIServer({}))
      /\ WaitForAPIServer(f).drops \subseteq {Edited, CniToken}
  BY DEF WaitForAPIServer, Restarted, Replacing, Call, Twins
<1>4. \A name, needs, makes : Call(name, needs, makes).drops = {}
  BY DEF Call
<1>5. \A a : Twins(a, a)
  BY DEF Twins
<1>6. j = 1 \/ j = 2 \/ j = 3 \/ j = 4 \/ j = 5
  OBVIOUS
<1>7. QED  BY <1>1, <1>2, <1>3, <1>4, <1>5, <1>6

LEMMA PatchFits ==
    ASSUME NEW V, NEW f, {Edited, CniToken} \subseteq V
    PROVE  Fitting(PatchAPIServer(f), PatchAPIServer({}), V)
<1> DEFINE r == PatchAPIServer(f)
           s == PatchAPIServer({})
<1>1. /\ IsSeq(r, 5) /\ IsSeq(s, 5)
      /\ \A j \in 1..5 : r[j].call = PatchCalls(f)[j] /\ s[j].call = PatchCalls({})[j]
      /\ \A j \in 1..5 : r[j].policy = "warn" /\ s[j].policy = "warn"
      /\ \A j \in 1..5 : r[j].skip = s[j].skip /\ s[j].skip \in 0..(5 - j)
  BY PatchHas
<1> HIDE DEF r, s
<1>2. ASSUME NEW j \in 1..5 PROVE FitsAt(j, r, s, 5, V)
  <2>1. Twins(r[j].call, s[j].call) /\ r[j].call.drops \subseteq V
    BY <1>1, PatchTwins
  <2>2. \A k \in (j + 1)..(j + s[j].skip) : k \in 1..5
    BY <1>1
  <2>3. QED  BY <1>1, <2>1, <2>2 DEF FitsAt
<1>3. 5 \in Nat /\ Fits(r, s, 5, V)
  BY <1>1, <1>2 DEF Fits
<1>4. QED  BY <1>3 DEF Fitting, r, s

\* The list of calls that Keycloak returns the errors of, in three parts.
LEMMA KeycloakParts ==
    ASSUME NEW f
    PROVE  Must(DeployKeycloak \o <<WaitForKeycloak(f)>> \o ConfigureRealm)
           = Must(DeployKeycloak) \o Must(<<WaitForKeycloak(f)>>) \o Must(ConfigureRealm)
<1> DEFINE wait == <<WaitForKeycloak(f)>>
<1>1. IsSeq(DeployKeycloak, 2) /\ IsSeq(wait, 1) /\ IsSeq(ConfigureRealm, 3)
  BY SeqOne, SeqTwo, SeqThree DEF DeployKeycloak, ConfigureRealm
<1> HIDE DEF wait
<1>2. IsSeq(DeployKeycloak \o wait, 2 + 1) /\ 2 + 1 \in Nat
  BY <1>1, SeqBoth
<1>3. Must(DeployKeycloak \o wait) = Must(DeployKeycloak) \o Must(wait)
  BY <1>1, MustBoth
<1>4. Must(DeployKeycloak \o wait \o ConfigureRealm)
      = Must(DeployKeycloak \o wait) \o Must(ConfigureRealm)
  BY <1>1, <1>2, MustBoth
<1>5. QED  BY <1>3, <1>4 DEF wait

LEMMA KeycloakIs ==
    ASSUME NEW c, NEW f
    PROVE  Keycloak(c, f) =
             Must(<<Call("resolveCredentials", {}, {})>>)
             \o May(<<WaitForAdminSecret>>)
             \o If("service_mesh", c, May(<<CreatePostgresMTLS>>))
             \o (Must(DeployKeycloak) \o Must(<<WaitForKeycloak(f)>>) \o Must(ConfigureRealm))
             \o PatchAPIServer(f)
             \o If("service_mesh", c, May(<<CreateGateway>>))
             \o May(<<StoreKubeconfigInVault>>)
  BY KeycloakParts DEF Keycloak

LEMMA KeycloakFits ==
    ASSUME NEW V, NEW c, NEW f, {Edited, CniToken} \subseteq V
    PROVE  Fitting(Keycloak(c, f), Keycloak(c, {}), V)
<1> DEFINE credentials == Must(<<Call("resolveCredentials", {}, {})>>)
           admin == May(<<WaitForAdminSecret>>)
           mtls == May(<<CreatePostgresMTLS>>)
           gateway == May(<<CreateGateway>>)
           store == May(<<StoreKubeconfigInVault>>)
           deploy(g) == Must(DeployKeycloak) \o Must(<<WaitForKeycloak(g)>>)
                        \o Must(ConfigureRealm)
           patch(g) == PatchAPIServer(g)
<1>1. Fitting(credentials, credentials, V) /\ Fitting(admin, admin, V)
      /\ Fitting(mtls, mtls, V) /\ Fitting(gateway, gateway, V) /\ Fitting(store, store, V)
  <2>1. /\ Spared(<<Call("resolveCredentials", {}, {})>>, V) /\ Spared(<<WaitForAdminSecret>>, V)
        /\ Spared(<<CreatePostgresMTLS>>, V) /\ Spared(<<CreateGateway>>, V)
        /\ Spared(<<StoreKubeconfigInVault>>, V)
    BY DEF WaitForAdminSecret, CreatePostgresMTLS, CreateGateway, StoreKubeconfigInVault,
           Spared, Call
  <2>2. QED  BY <2>1, FittingCalls
<1>2. Fitting(deploy(f), deploy({}), V)
  <2>1. Fitting(Must(DeployKeycloak), Must(DeployKeycloak), V)
    BY FittingCalls DEF DeployKeycloak, Spared, Call
  <2>2. Fitting(Must(<<WaitForKeycloak(f)>>), Must(<<WaitForKeycloak({})>>), V)
    BY WaitTwins, FittingOne
  <2>3. Fitting(Must(ConfigureRealm), Must(ConfigureRealm), V)
    BY FittingCalls DEF ConfigureRealm, Spared, Call, Once
  <2>4. QED  BY <2>1, <2>2, <2>3, FittingBoth
<1>3. Fitting(patch(f), patch({}), V)
  BY PatchFits
<1>4. Fitting(If("service_mesh", c, mtls), If("service_mesh", c, mtls), V)
      /\ Fitting(If("service_mesh", c, gateway), If("service_mesh", c, gateway), V)
  BY <1>1, FittingIf
<1> DEFINE whole(g) == credentials \o admin \o If("service_mesh", c, mtls) \o deploy(g)
                       \o patch(g) \o If("service_mesh", c, gateway) \o store
<1>5. Keycloak(c, f) = whole(f) /\ Keycloak(c, {}) = whole({})
  BY KeycloakIs
<1> HIDE DEF credentials, admin, mtls, gateway, store, deploy, patch
<1>6. Fitting(whole(f), whole({}), V)
  BY <1>1, <1>2, <1>3, <1>4, FittingBoth
<1> HIDE DEF whole
<1>7. QED  BY <1>5, <1>6

LEMMA OllamaFits ==
    ASSUME NEW V, NEW c, Keyed \in V, Deployed("model-job") \in V
    PROVE  Fitting(Ollama(c), Ollama(c), V)
<1> DEFINE namespace == Must(<<Call("ollamaNamespace", {}, {Namespace("ollama")})>>)
           secret == Must(<<CreateAPIKeySecret>>)
           storage == Must(<<CreateOllamaStorage>>)
           deploy == Must(<<BuildDeployment(c)>>)
<1>1. /\ Fitting(namespace, namespace, V) /\ Fitting(secret, secret, V)
      /\ Fitting(storage, storage, V)
  BY FittingCalls DEF CreateAPIKeySecret, CreateOllamaStorage, Spared, Call
<1>2. Fitting(deploy, deploy, V)
  <2>1. BuildDeployment(c).drops \subseteq V
    BY DEF BuildDeployment, Replacing, Call
  <2>2. QED  BY <2>1, FittingCalls DEF Spared
<1>3. Fitting(CreateModelPullJob, CreateModelPullJob, V)
  <2> DEFINE old == <<Replacing(Call("deleteModelJob", {}, {}), {Deployed("model-job")})>>
             new == <<Once(Call("modelPull", {Namespace("ollama")}, {Deployed("model-job")}),
                           {Deployed("model-job")})>>
  <2>1. Fitting(Try(old), Try(old), V)
    BY FittingTry DEF Spared, Call, Replacing
  <2>2. Fitting(May(new), May(new), V)
    BY FittingCalls DEF Spared, Call, Once
  <2>3. QED  BY <2>1, <2>2, FittingBoth DEF CreateModelPullJob
<1>4. /\ Fitting(If("ollama_key", c, secret), If("ollama_key", c, secret), V)
      /\ Fitting(If("local_model", c, storage), If("local_model", c, storage), V)
      /\ Fitting(If("local_model", c, If("named_model", c, CreateModelPullJob)),
                 If("local_model", c, If("named_model", c, CreateModelPullJob)), V)
  BY <1>1, <1>3, FittingIf
<1>5. QED  BY <1>1, <1>2, <1>4, FittingBoth DEF Ollama

\* The calls of Karpor that have to succeed.
KarporFirst == <<InstallHelm,
                 Call("karporNamespace", {}, {Namespace("karpor")}),
                 CreateKarporStorage,
                 Call("karpor", {Deployed("helm"), Namespace("karpor"), Class("nfs-static")},
                      {Deployed("karpor")})>>

LEMMA KarporFits ==
    ASSUME NEW V, NEW c, Deployed("karpor-kubeconfig") \in V
    PROVE  Fitting(Karpor(c), Karpor(c), V)
<1>1. Fitting(Must(KarporFirst), Must(KarporFirst), V)
  BY FittingCalls DEF KarporFirst, InstallHelm, CreateKarporStorage, Spared, Call
<1>2. Fitting(CreateKubeconfig, CreateKubeconfig, V)
  <2> DEFINE old == <<Replacing(Call("deleteKubeconfig", {}, {}),
                                {Deployed("karpor-kubeconfig")})>>
             new == <<Once(Call("karporKubeconfig", {Namespace("karpor")},
                                {Deployed("karpor-kubeconfig")}),
                           {Deployed("karpor-kubeconfig")})>>
  <2>1. Fitting(Try(old), Try(old), V)
    BY FittingTry DEF Spared, Call, Replacing
  <2>2. Fitting(May(new), May(new), V)
    BY FittingCalls DEF Spared, Call, Once
  <2>3. QED  BY <2>1, <2>2, FittingBoth DEF CreateKubeconfig
<1>3. Fitting(If("service_mesh", c, May(<<CreateKarporGateway>>)),
              If("service_mesh", c, May(<<CreateKarporGateway>>)), V)
  BY FittingCalls, FittingIf DEF CreateKarporGateway, Spared, Call
<1>4. Fitting(EnableAI(c), EnableAI(c), V)
  BY FittingCalls, FittingIf DEF EnableAI, WaitForOllamaModel, Spared, Call
<1>5. QED  BY <1>1, <1>2, <1>3, <1>4, FittingBoth DEF Karpor, KarporFirst

LEMMA PlaceNames ==
    /\ WorkloadSteps[1].name = "MetalLB" /\ WorkloadSteps[2].name = "Istio"
    /\ WorkloadSteps[3].name = "CertManager" /\ WorkloadSteps[4].name = "MetricsServer"
    /\ WorkloadSteps[5].name = "VPA" /\ WorkloadSteps[6].name = "KEDA"
    /\ WorkloadSteps[7].name = "NFSProvisioner" /\ WorkloadSteps[8].name = "VaultInstaller"
    /\ WorkloadSteps[9].name = "VaultSecretsOperator" /\ WorkloadSteps[10].name = "Monitoring"
    /\ WorkloadSteps[11].name = "Loki" /\ WorkloadSteps[12].name = "Tempo"
    /\ WorkloadSteps[13].name = "Kiali" /\ WorkloadSteps[14].name = "Keycloak"
    /\ WorkloadSteps[15].name = "Ollama" /\ WorkloadSteps[16].name = "Karpor"
  BY DEF WorkloadSteps, Component

\* The places, one by one.
LEMMA PlaceCases ==
    ASSUME NEW i \in 1..Last
    PROVE  \/ i = 1 \/ i = 2 \/ i = 3 \/ i = 4 \/ i = 5 \/ i = 6 \/ i = 7 \/ i = 8
           \/ i = 9 \/ i = 10 \/ i = 11 \/ i = 12 \/ i = 13 \/ i = 14 \/ i = 15 \/ i = 16
  BY LastIs

\* A recipe does not depend on the cluster it is walked over but in what Grafana
\* loads, and takes away only what is said of its place.
LEMMA PlaceFits ==
    ASSUME NEW i \in 1..Last, NEW c, NEW f
    PROVE  Fitting(Recipe(WorkloadSteps[i].name, c, f), Recipe(WorkloadSteps[i].name, c, {}),
                   Drops(i))
<1>1. CASE i \in {1, 2, 3, 4, 5, 6, 8}
  <2>1. WorkloadSteps[i].name \in {"MetalLB", "Istio", "CertManager", "MetricsServer", "VPA",
                                   "KEDA", "VaultInstaller"}
    BY <1>1, PlaceNames
  <2>2. QED  BY <2>1, PlainFits DEF Recipe
<1>2. CASE i = 7
  BY <1>2, PlaceNames, NFSFits DEF Recipe, Drops
<1>3. CASE i = 9
  BY <1>3, PlaceNames, SecretsOperatorFits DEF Recipe, Drops
<1>4. CASE i = 10
  BY <1>4, PlaceNames, MonitoringFits DEF Recipe, Drops
<1>5. CASE i = 11
  BY <1>5, PlaceNames, LokiFits DEF Recipe, Drops
<1>6. CASE i = 12
  BY <1>6, PlaceNames, TempoFits DEF Recipe, Drops
<1>7. CASE i = 13
  BY <1>7, PlaceNames, KialiFits DEF Recipe
<1>8. CASE i = 14
  BY <1>8, PlaceNames, KeycloakFits DEF Recipe, Drops
<1>9. CASE i = 15
  BY <1>9, PlaceNames, OllamaFits DEF Recipe, Drops
<1>10. CASE i = 16
  BY <1>10, PlaceNames, KarporFits DEF Recipe, Drops
<1>11. QED
  BY <1>1, <1>2, <1>3, <1>4, <1>5, <1>6, <1>7, <1>8, <1>9, <1>10, PlaceCases

-----------------------------------------------------------------------------
(* What the recipes leave *)

\* Some call of the recipe with one of these meanings of its error makes x.
Gives(r, x, P) == \E j \in 1..Len(r) : r[j].policy \in P /\ x \in r[j].call.makes

Essential == {"abort"}
Whatever == {"abort", "warn"}

LEMMA GivesBoth ==
    ASSUME NEW r, NEW s, NEW x, NEW P, Listing(r), Listing(s), Gives(r, x, P) \/ Gives(s, x, P)
    PROVE  Gives(r \o s, x, P)
<1> DEFINE w == r \o s
<1>whole. w = r \o s
  OBVIOUS
<1> HIDE DEF w
<1>1. PICK n \in Nat : IsSeq(r, n)
  BY DEF Listing
<1>2. PICK m \in Nat : IsSeq(s, m)
  BY DEF Listing
<1>3. Parts(w, r, n, s, m)
  BY <1>whole, <1>1, <1>2, Joined, Zenon
<1>4. Len(r) = n /\ Len(s) = m /\ Len(w) = n + m
  BY <1>1, <1>2, <1>3 DEF IsSeq, Parts
<1>5. CASE Gives(r, x, P)
  <2>1. PICK j \in 1..n : r[j].policy \in P /\ x \in r[j].call.makes
    BY <1>4, <1>5 DEF Gives
  <2>2. j \in 1..(n + m) /\ w[j] = r[j]
    BY <1>3 DEF Parts
  <2>3. QED  BY <1>4, <1>whole, <2>1, <2>2 DEF Gives
<1>6. CASE Gives(s, x, P)
  <2>1. PICK j \in 1..m : s[j].policy \in P /\ x \in s[j].call.makes
    BY <1>4, <1>6 DEF Gives
  <2>2. n + j \in (n + 1)..(n + m) /\ n + j \in 1..(n + m) /\ (n + j) - n = j
    OBVIOUS
  <2>3. w[n + j] = s[j]
    BY <1>3, <2>2 DEF Parts
  <2>4. QED  BY <1>4, <1>whole, <2>1, <2>2, <2>3 DEF Gives
<1>7. QED  BY <1>5, <1>6

LEMMA GivesMust ==
    ASSUME NEW calls, NEW x, NEW P, Len(calls) \in Nat,
           "abort" \in P, \E j \in 1..Len(calls) : x \in calls[j].makes
    PROVE  Gives(Must(calls), x, P)
<1>1. Len(Must(calls)) = Len(calls)
  BY GroupIsSeq DEF IsSeq
<1>2. \A j \in 1..Len(calls) : Must(calls)[j].policy = "abort" /\ Must(calls)[j].call = calls[j]
  BY DEF Must
<1>3. QED  BY <1>1, <1>2 DEF Gives

LEMMA GivesMay ==
    ASSUME NEW calls, NEW x, NEW P, Len(calls) \in Nat,
           "warn" \in P, \E j \in 1..Len(calls) : x \in calls[j].makes
    PROVE  Gives(May(calls), x, P)
<1>1. Len(May(calls)) = Len(calls)
  BY GroupIsSeq DEF IsSeq
<1>2. \A j \in 1..Len(calls) : May(calls)[j].policy = "warn" /\ May(calls)[j].call = calls[j]
  BY DEF May
<1>3. QED  BY <1>1, <1>2 DEF Gives

LEMMA MetalLBGives == Gives(MetalLB, Deployed("pool"), Essential)
<1> DEFINE calls == <<Call("metallb", {}, {Deployed("metallb")}),
                      Call("addressPool", {Deployed("metallb")}, {Deployed("pool")})>>
<1>1. Len(calls) = 2 /\ Deployed("pool") \in calls[2].makes
  BY DEF Call
<1>2. QED  BY <1>1, GivesMust DEF MetalLB, Essential

LEMMA IstioGives ==
    \A x \in {Crds("istio"), Namespace("istio-system"), Injected("default")} :
        Gives(Istio, x, Essential)
<1> DEFINE calls == <<Call("istioctl", {}, {Crds("istio"), Namespace("istio-system")}),
                      Call("labelDefault", {}, {Injected("default")})>>
<1>1. /\ Len(calls) = 2 /\ Injected("default") \in calls[2].makes
      /\ Crds("istio") \in calls[1].makes /\ Namespace("istio-system") \in calls[1].makes
  BY DEF Call
<1>2. QED  BY <1>1, GivesMust DEF Istio, Essential

LEMMA CertManagerGives == Gives(CertManager, LabCA, Essential)
<1> DEFINE calls == <<Call("certManager", {}, {Crds("cert-manager")}),
                      CreateIssuer, CreateCertificates>>
<1>1. Len(calls) = 3 /\ LabCA \in calls[2].makes
  BY DEF CreateIssuer, Call
<1>2. QED  BY <1>1, GivesMust DEF CertManager, Essential

LEMMA VaultGives == Gives(VaultInstaller, Deployed("vault"), Essential)
<1> DEFINE calls == <<Call("vault", {}, {Deployed("vault")})>>
<1>1. Len(calls) = 1 /\ Deployed("vault") \in calls[1].makes
  BY DEF Call
<1>2. QED  BY <1>1, GivesMust DEF VaultInstaller, Essential

LEMMA NFSGives ==
    \A x \in {Class("nfs-static"), Class("nfs-dynamic")} : Gives(NFSProvisioner, x, Essential)
<1> DEFINE delete == <<Replacing(Call("deleteNfsStorage", {}, {}), {Class("nfs-storage")})>>
           create == <<Call("nfsStatic", {}, {Class("nfs-static")})>>
           dynamic == <<InstallDynamicProvisioner>>
           helm == <<InstallHelm>>
<1>1. /\ Len(delete) = 1 /\ Len(create) = 1 /\ Len(dynamic) = 1 /\ Len(helm) = 1
      /\ Class("nfs-static") \in create[1].makes /\ Class("nfs-dynamic") \in dynamic[1].makes
  BY DEF InstallDynamicProvisioner, Call
<1>2. NFSProvisioner = Must(helm) \o (Try(delete) \o Must(create)) \o Must(dynamic)
  BY DEF NFSProvisioner, CreateStaticStorageClass
<1> HIDE DEF delete, create, dynamic, helm
<1>3. Listing(Must(helm)) /\ Listing(Try(delete)) /\ Listing(Must(create))
      /\ Listing(Must(dynamic))
  BY <1>1, ListingCalls
<1>4. Listing(Try(delete) \o Must(create))
      /\ Listing(Must(helm) \o (Try(delete) \o Must(create)))
  BY <1>3, ListingBoth
<1>5. Gives(Must(create), Class("nfs-static"), Essential)
      /\ Gives(Must(dynamic), Class("nfs-dynamic"), Essential)
  BY <1>1, GivesMust DEF Essential
<1>6. Gives(Try(delete) \o Must(create), Class("nfs-static"), Essential)
  BY <1>3, <1>5, GivesBoth
<1>7. Gives(Must(helm) \o (Try(delete) \o Must(create)), Class("nfs-static"), Essential)
  BY <1>3, <1>4, <1>6, GivesBoth
<1>8. QED  BY <1>2, <1>3, <1>4, <1>5, <1>7, GivesBoth

\* The parts of a recipe are lists of calls.
LEMMA ListingVso == ASSUME NEW n PROVE Listing(VsoResources(n))
  BY ListingCalls, ListingBoth, Tuples DEF VsoResources

LEMMA VsoGives == ASSUME NEW n PROVE Gives(VsoResources(n), Namespace(n), Whatever)
<1> DEFINE namespace == <<Replacing(Call("vsoNamespace", {}, {Namespace(n)}), {Injected(n)})>>
           secrets == <<Call("vsoSecrets", {Crds("vso"), Namespace(n)}, {Wanted(n)})>>
<1>1. Len(namespace) = 1 /\ Len(secrets) = 1 /\ Namespace(n) \in namespace[1].makes
  BY DEF Replacing, Call
<1>2. VsoResources(n) = May(namespace) \o May(secrets)
  BY DEF VsoResources
<1> HIDE DEF namespace, secrets
<1>3. Gives(May(namespace), Namespace(n), Whatever)
  BY <1>1, GivesMay DEF Whatever
<1>4. Listing(May(namespace)) /\ Listing(May(secrets))
  BY <1>1, ListingCalls
<1>5. QED  BY <1>2, <1>3, <1>4, GivesBoth

LEMMA SecretsOperatorGives ==
    ASSUME NEW c
    PROVE  Gives(VaultSecretsOperator(c), Namespace("keycloak"), Whatever)
<1> DEFINE operator == Must(<<InstallHelm, Call("vso", {Deployed("helm")}, {Crds("vso")})>>)
           ollama == If("ollama_key", c, VsoResources("ollama"))
           wait == May(<<WaitForSecrets(c)>>)
<1>1. Listing(operator) /\ Listing(wait) /\ Listing(ollama)
      /\ Listing(VsoResources("keycloak")) /\ Listing(VsoResources("monitoring"))
  BY ListingCalls, ListingIf, ListingVso, Tuples
<1>2. VaultSecretsOperator(c) = operator \o VsoResources("keycloak")
                                \o VsoResources("monitoring") \o ollama \o wait
  BY DEF VaultSecretsOperator
<1> HIDE DEF operator, ollama, wait
<1>3. /\ Listing(operator \o VsoResources("keycloak"))
      /\ Listing(operator \o VsoResources("keycloak") \o VsoResources("monitoring"))
      /\ Listing(operator \o VsoResources("keycloak") \o VsoResources("monitoring") \o ollama)
  BY <1>1, ListingBoth
<1>4. Gives(operator \o VsoResources("keycloak"), Namespace("keycloak"), Whatever)
  BY <1>1, VsoGives, GivesBoth
<1>5. Gives(operator \o VsoResources("keycloak") \o VsoResources("monitoring"),
            Namespace("keycloak"), Whatever)
  BY <1>1, <1>3, <1>4, GivesBoth
<1>6. Gives(operator \o VsoResources("keycloak") \o VsoResources("monitoring") \o ollama,
            Namespace("keycloak"), Whatever)
  BY <1>1, <1>3, <1>5, GivesBoth
<1>7. QED  BY <1>1, <1>2, <1>3, <1>6, GivesBoth

LEMMA MonitoringGives ==
    ASSUME NEW c,
           NEW x \in {Namespace("monitoring"), Injected("monitoring"), Class("nfs-storage"),
                      Crds("prometheus"), Deployed("prometheus"), Secret("grafana-admin"),
                      Deployed("grafana")}
    PROVE  Gives(Monitoring(c), x, Essential)
<1> DEFINE first == Must(MonitoringFirst)
           grafana == Must(InstallGrafana)
           last == Must(MonitoringLast)
           cert == May(<<InstallCertManagerMonitoring>>)
           mesh == If("service_mesh", c,
                      May(<<CreateMonitoringGateways>>) \o May(<<InstallIstioMonitoring>>))
<1>1. Len(MonitoringFirst) = 5 /\ Len(InstallGrafana) = 2 /\ Len(MonitoringLast) = 3
  BY DEF MonitoringFirst, InstallGrafana, MonitoringLast
<1>2. /\ Namespace("monitoring") \in MonitoringFirst[1].makes
      /\ Injected("monitoring") \in MonitoringFirst[1].makes
      /\ Class("nfs-storage") \in MonitoringFirst[2].makes
      /\ Crds("prometheus") \in MonitoringFirst[3].makes
      /\ Deployed("prometheus") \in MonitoringFirst[4].makes
      /\ Secret("grafana-admin") \in MonitoringFirst[5].makes
  BY DEF MonitoringFirst, MonitoringNamespace, CreateNFSStorage, InstallPrometheusOperator,
         InstallPrometheus, CreateGrafanaSecret, Call
<1>3. Deployed("grafana") \in InstallGrafana[2].makes
  BY DEF InstallGrafana, Call
<1>4. Listing(first) /\ Listing(grafana) /\ Listing(last) /\ Listing(cert) /\ Listing(mesh)
  <2>1. Listing(May(<<CreateMonitoringGateways>>) \o May(<<InstallIstioMonitoring>>))
    BY ListingCalls, ListingBoth, Tuples
  <2>2. QED  BY <1>1, <2>1, ListingCalls, ListingIf, Tuples
<1>5. Gives(first, x, Essential) \/ Gives(grafana, x, Essential)
  <2>1. CASE x = Deployed("grafana")
    <3>1. \E j \in 1..Len(InstallGrafana) : x \in InstallGrafana[j].makes
      BY <1>1, <1>3, <2>1
    <3>2. QED  BY <1>1, <3>1, GivesMust DEF Essential
  <2>2. CASE x # Deployed("grafana")
    <3>1. \E j \in 1..Len(MonitoringFirst) : x \in MonitoringFirst[j].makes
      BY <1>1, <1>2, <2>2
    <3>2. QED  BY <1>1, <3>1, GivesMust DEF Essential
  <2>3. QED  BY <2>1, <2>2
<1>6. Monitoring(c) = first \o grafana \o last \o cert \o mesh
  BY MonitoringIs
<1> HIDE DEF first, grafana, last, cert, mesh
<1>7. Listing(first \o grafana) /\ Listing(first \o grafana \o last)
      /\ Listing(first \o grafana \o last \o cert)
  BY <1>4, ListingBoth
<1>8. Gives(first \o grafana, x, Essential)
  BY <1>4, <1>5, GivesBoth
<1>9. Gives(first \o grafana \o last, x, Essential)
  BY <1>4, <1>7, <1>8, GivesBoth
<1>10. Gives(first \o grafana \o last \o cert, x, Essential)
  BY <1>4, <1>7, <1>9, GivesBoth
<1>11. QED  BY <1>4, <1>6, <1>7, <1>10, GivesBoth

LEMMA KarporGives == ASSUME NEW c PROVE Gives(Karpor(c), Deployed("karpor"), Essential)
<1> DEFINE first == Must(KarporFirst)
           gateway == If("service_mesh", c, May(<<CreateKarporGateway>>))
<1>1. Len(KarporFirst) = 4 /\ Deployed("karpor") \in KarporFirst[4].makes
  BY DEF KarporFirst, Call
<1>2. Gives(first, Deployed("karpor"), Essential)
  BY <1>1, GivesMust DEF Essential
<1>3. Listing(first) /\ Listing(CreateKubeconfig) /\ Listing(gateway) /\ Listing(EnableAI(c))
  <2>1. Listing(CreateKubeconfig)
    BY ListingCalls, ListingBoth, Tuples DEF CreateKubeconfig
  <2>2. Listing(EnableAI(c))
    BY ListingCalls, ListingIf, Tuples DEF EnableAI
  <2>3. QED  BY <1>1, <2>1, <2>2, ListingCalls, ListingIf, Tuples
<1>4. Karpor(c) = first \o CreateKubeconfig \o gateway \o EnableAI(c)
  BY DEF Karpor, KarporFirst
<1> HIDE DEF first, gateway
<1>5. Listing(first \o CreateKubeconfig) /\ Listing(first \o CreateKubeconfig \o gateway)
  BY <1>3, ListingBoth
<1>6. Gives(first \o CreateKubeconfig, Deployed("karpor"), Essential)
  BY <1>2, <1>3, GivesBoth
<1>7. Gives(first \o CreateKubeconfig \o gateway, Deployed("karpor"), Essential)
  BY <1>3, <1>5, <1>6, GivesBoth
<1>8. QED  BY <1>3, <1>4, <1>5, <1>7, GivesBoth

\* Keycloak as it is listed, in parts.
LEMMA KeycloakGives ==
    ASSUME NEW c
    PROVE  /\ Gives(Keycloak(c, {}), Injected("keycloak"), Essential)
           /\ Gives(Keycloak(c, {}), Filled, Essential)
           /\ Gives(Keycloak(c, {}), Oidc, Whatever)
<1> DEFINE credentials == Must(<<Call("resolveCredentials", {}, {})>>)
           admin == May(<<WaitForAdminSecret>>)
           mtls == If("service_mesh", c, May(<<CreatePostgresMTLS>>))
           deploy == Must(DeployKeycloak)
           wait == Must(<<WaitForKeycloak({})>>)
           realm == Must(ConfigureRealm)
           patch == PatchAPIServer({})
           gateway == If("service_mesh", c, May(<<CreateGateway>>))
           store == May(<<StoreKubeconfigInVault>>)
<1>1. Len(DeployKeycloak) = 2 /\ Len(ConfigureRealm) = 3
  BY DEF DeployKeycloak, ConfigureRealm
<1>2. Injected("keycloak") \in DeployKeycloak[1].makes /\ Filled \in ConfigureRealm[3].makes
  BY DEF DeployKeycloak, ConfigureRealm, Call
<1>3. Gives(patch, Oidc, Whatever)
  <2>1. Oidc \in PatchCalls({})[3].makes
    BY DEF PatchCalls, EditManifest, Call
  <2>2. /\ Len(patch) = 5 /\ 3 \in 1..5
        /\ patch[3].call = PatchCalls({})[3] /\ patch[3].policy = "warn"
    BY PatchHas DEF IsSeq
  <2> HIDE DEF patch
  <2>3. QED  BY <2>1, <2>2 DEF Gives, Whatever
<1>4. Gives(deploy, Injected("keycloak"), Essential) /\ Gives(realm, Filled, Essential)
  BY <1>1, <1>2, GivesMust DEF Essential
<1>5. /\ Listing(credentials) /\ Listing(admin) /\ Listing(mtls) /\ Listing(deploy)
      /\ Listing(wait) /\ Listing(realm) /\ Listing(patch) /\ Listing(gateway)
      /\ Listing(store)
  BY <1>1, ListingCalls, ListingIf, ListingPatch, Tuples
<1>6. Keycloak(c, {}) = credentials \o admin \o mtls \o (deploy \o wait \o realm) \o patch
                        \o gateway \o store
  BY KeycloakIs
<1> HIDE DEF credentials, admin, mtls, deploy, wait, realm, patch, gateway, store
<1> DEFINE before == credentials \o admin \o mtls
           deployed == deploy \o wait \o realm
<1>7. Listing(before) /\ Listing(deploy \o wait) /\ Listing(deployed)
  BY <1>5, ListingBoth
<1>8. Gives(deployed, Injected("keycloak"), Essential) /\ Gives(deployed, Filled, Essential)
  <2>1. Gives(deploy \o wait, Injected("keycloak"), Essential)
    BY <1>4, <1>5, GivesBoth
  <2>2. QED  BY <1>4, <1>5, <1>7, <2>1, GivesBoth
<1>9. Keycloak(c, {}) = before \o deployed \o patch \o gateway \o store
  BY <1>6
<1> HIDE DEF before, deployed
<1>10. /\ Listing(before \o deployed) /\ Listing(before \o deployed \o patch)
       /\ Listing(before \o deployed \o patch \o gateway)
  BY <1>5, <1>7, ListingBoth
<1>11. /\ Gives(before \o deployed, Injected("keycloak"), Essential)
       /\ Gives(before \o deployed, Filled, Essential)
  BY <1>7, <1>8, GivesBoth
<1>12. /\ Gives(before \o deployed \o patch, Injected("keycloak"), Essential)
       /\ Gives(before \o deployed \o patch, Filled, Essential)
       /\ Gives(before \o deployed \o patch, Oidc, Whatever)
  BY <1>3, <1>5, <1>10, <1>11, GivesBoth
<1>13. /\ Gives(before \o deployed \o patch \o gateway, Injected("keycloak"), Essential)
       /\ Gives(before \o deployed \o patch \o gateway, Filled, Essential)
       /\ Gives(before \o deployed \o patch \o gateway, Oidc, Whatever)
  BY <1>5, <1>10, <1>12, GivesBoth
<1>14. QED  BY <1>5, <1>9, <1>10, <1>13, GivesBoth

-----------------------------------------------------------------------------
(* What the recipes need *)

\* Once the storage classes are set up, x is never taken away.
Lasting(x) == x \notin Volatile(8)

\* What the j-th call needs lasts, and is in A or made by a call before it, unless
\* the cluster brings it about by itself.
Met(r, j, A) ==
    \A x \in r[j].call.needs \ Awaited :
        Lasting(x) /\ (x \in A \/ \E k \in 1..(j - 1) : x \in r[k].call.makes)

Ordered(r, A) == \E n \in Nat : IsSeq(r, n) /\ \A j \in 1..n : Met(r, j, A)

Makes(r, x) == \E k \in 1..Len(r) : x \in r[k].call.makes

LEMMA OrderedIsListing == ASSUME NEW r, NEW A, Ordered(r, A) PROVE Listing(r)
  BY DEF Ordered, Listing

\* What the second part needs may be made by the first one.
LEMMA OrderedBoth ==
    ASSUME NEW r, NEW s, NEW A, NEW B, Ordered(r, A), Ordered(s, B),
           \A x \in B : x \in A \/ Makes(r, x)
    PROVE  Ordered(r \o s, A)
<1> DEFINE w == r \o s
<1>whole. w = r \o s
  OBVIOUS
<1> HIDE DEF w
<1>1. PICK n \in Nat : IsSeq(r, n) /\ \A j \in 1..n : Met(r, j, A)
  BY DEF Ordered
<1>2. PICK m \in Nat : IsSeq(s, m) /\ \A j \in 1..m : Met(s, j, B)
  BY DEF Ordered
<1>3. Parts(w, r, n, s, m)
  BY <1>whole, <1>1, <1>2, Joined, Zenon
<1>4. Len(r) = n
  BY <1>1 DEF IsSeq
<1>5. ASSUME NEW j \in 1..(n + m), NEW x \in w[j].call.needs \ Awaited
      PROVE  Lasting(x) /\ (x \in A \/ \E k \in 1..(j - 1) : x \in w[k].call.makes)
  <2>1. CASE j \in 1..n
    <3>1. w[j] = r[j]
      BY <1>3, <2>1 DEF Parts
    <3>2. Lasting(x) /\ (x \in A \/ \E k \in 1..(j - 1) : x \in r[k].call.makes)
      BY <1>1, <1>5, <2>1, <3>1 DEF Met
    <3>3. \A k \in 1..(j - 1) : w[k] = r[k]
      BY <1>3, <2>1 DEF Parts
    <3>4. QED  BY <3>2, <3>3
  <2>2. CASE j \in (n + 1)..(n + m)
    <3>1. w[j] = s[j - n] /\ j - n \in 1..m
      BY <1>3, <2>2 DEF Parts
    <3>2. Met(s, j - n, B)
      BY <1>2, <3>1
    <3>3. Lasting(x) /\ (x \in B \/ \E k \in 1..((j - n) - 1) : x \in s[k].call.makes)
      BY <1>5, <3>1, <3>2 DEF Met
    <3>4. CASE x \in B
      <4>1. CASE x \in A
        BY <3>3, <4>1
      <4>2. CASE Makes(r, x)
        <5>1. PICK k \in 1..n : x \in r[k].call.makes
          BY <1>4, <4>2 DEF Makes
        <5>2. k \in 1..(j - 1) /\ w[k] = r[k]
          BY <1>3, <2>2 DEF Parts
        <5>3. QED  BY <3>3, <5>1, <5>2
      <4>3. QED  BY <3>4, <4>1, <4>2
    <3>5. CASE \E k \in 1..((j - n) - 1) : x \in s[k].call.makes
      <4>1. PICK k \in 1..((j - n) - 1) : x \in s[k].call.makes
        BY <3>5
      <4>2. n + k \in 1..(j - 1) /\ n + k \in (n + 1)..(n + m) /\ (n + k) - n = k
        BY <2>2
      <4>3. w[n + k] = s[k]
        BY <1>3, <4>2 DEF Parts
      <4>4. QED  BY <3>3, <4>1, <4>2, <4>3
    <3>6. QED  BY <3>3, <3>4, <3>5
  <2>3. j \in 1..n \/ j \in (n + 1)..(n + m)
    OBVIOUS
  <2>4. QED  BY <2>1, <2>2, <2>3
<1>6. \A j \in 1..(n + m) : Met(w, j, A)
  BY <1>5 DEF Met
<1>7. IsSeq(w, n + m) /\ n + m \in Nat
  BY <1>3 DEF Parts
<1>8. QED  BY <1>6, <1>7, <1>whole DEF Ordered

LEMMA OrderedIf ==
    ASSUME NEW feature, NEW c, NEW r, NEW A, Ordered(r, A)
    PROVE  Ordered(If(feature, c, r), A)
<1>1. Ordered(<<>>, A)
  BY ShapeNone DEF Ordered, Shape
<1>2. QED  BY <1>1 DEF If

\* The calls of a group.
Orderly(calls, A) ==
    /\ Len(calls) \in Nat
    /\ \A j \in 1..Len(calls) : \A x \in calls[j].needs \ Awaited :
          Lasting(x) /\ (x \in A \/ \E k \in 1..(j - 1) : x \in calls[k].makes)

LEMMA OrderedCalls ==
    ASSUME NEW calls, NEW A, Orderly(calls, A)
    PROVE  Ordered(Must(calls), A) /\ Ordered(May(calls), A) /\ Ordered(Try(calls), A)
<1> DEFINE n == Len(calls)
<1>1. n \in Nat /\ IsSeq(Must(calls), n) /\ IsSeq(May(calls), n) /\ IsSeq(Try(calls), n)
  BY GroupIsSeq DEF Orderly
<1>2. \A j \in 1..n : /\ Must(calls)[j].call = calls[j] /\ May(calls)[j].call = calls[j]
                      /\ Try(calls)[j].call = calls[j]
  BY DEF Must, May, Try
<1>3. \A j \in 1..n : \A k \in 1..(j - 1) : k \in 1..n
  BY <1>1
<1>4. \A j \in 1..n : \A x \in calls[j].needs \ Awaited :
          Lasting(x) /\ (x \in A \/ \E k \in 1..(j - 1) : x \in calls[k].makes)
  BY DEF Orderly
<1> HIDE DEF n
<1>5. \A j \in 1..n : Met(Must(calls), j, A)
  BY <1>2, <1>3, <1>4 DEF Met
<1>6. \A j \in 1..n : Met(May(calls), j, A)
  BY <1>2, <1>3, <1>4 DEF Met
<1>7. \A j \in 1..n : Met(Try(calls), j, A)
  BY <1>2, <1>3, <1>4 DEF Met
<1>8. QED  BY <1>1, <1>5, <1>6, <1>7 DEF Ordered

\* Groups whose calls need nothing, or only what was there before.
Within(call, A) == \A x \in call.needs \ Awaited : Lasting(x) /\ x \in A

LEMMA OrderlyWithin ==
    ASSUME NEW calls, NEW A, Len(calls) \in Nat, \A j \in 1..Len(calls) : Within(calls[j], A)
    PROVE  Orderly(calls, A)
  BY DEF Orderly, Within

LEMMA MakesMust ==
    ASSUME NEW calls, NEW x, Len(calls) \in Nat, \E j \in 1..Len(calls) : x \in calls[j].makes
    PROVE  Makes(Must(calls), x) /\ Makes(May(calls), x)
<1>1. Len(Must(calls)) = Len(calls) /\ Len(May(calls)) = Len(calls)
  BY GroupIsSeq DEF IsSeq
<1>2. \A j \in 1..Len(calls) : Must(calls)[j].call = calls[j] /\ May(calls)[j].call = calls[j]
  BY DEF Must, May
<1>3. QED  BY <1>1, <1>2 DEF Makes

LEMMA MakesOne ==
    ASSUME NEW a, NEW x, x \in a.makes
    PROVE  Makes(Must(<<a>>), x) /\ Makes(May(<<a>>), x)
<1>1. Len(<<a>>) \in Nat /\ 1 \in 1..Len(<<a>>) /\ x \in <<a>>[1].makes
  OBVIOUS
<1>2. QED  BY <1>1, MakesMust

LEMMA MakesBoth ==
    ASSUME NEW r, NEW s, NEW x, Listing(r), Listing(s), Makes(r, x) \/ Makes(s, x)
    PROVE  Makes(r \o s, x)
<1> DEFINE P == {r[j].policy : j \in 1..Len(r)} \cup {s[j].policy : j \in 1..Len(s)}
<1>1. Makes(r, x) => Gives(r, x, P)
  BY DEF Makes, Gives
<1>2. Makes(s, x) => Gives(s, x, P)
  BY DEF Makes, Gives
<1> HIDE DEF P
<1>3. Gives(r \o s, x, P)
  BY <1>1, <1>2, GivesBoth
<1>4. QED  BY <1>3 DEF Gives, Makes

LEMMA LastingKinds ==
    /\ \A n : Lasting(Namespace(n)) /\ Lasting(Crds(n)) /\ Lasting(Class(n))
    /\ \A n \in {"helm", "metallb", "prometheus", "grafana", "keycloak", "vault"} :
           Lasting(Deployed(n))
    /\ Lasting(LabCA) /\ Lasting(Secret("grafana-admin")) /\ Lasting(Realm) /\ Lasting(Clients)
  BY DEF Lasting, Volatile, Sidecar, Loading, Labels, ConfigMap, CniToken, Edited, Keyed,
         Namespace, Crds, Deployed, Class, Injected, Source, Shown, LabCA, Secret, Realm, Clients

\* A call that needs nothing, and one that needs what is there.
LEMMA WithinCalls ==
    ASSUME NEW A
    PROVE  \A name, needs, makes :
             (\A x \in needs : Lasting(x) /\ x \in A) => Within(Call(name, needs, makes), A)
  BY DEF Within, Call

LEMMA OrderedOne ==
    ASSUME NEW a, NEW A, Within(a, A)
    PROVE  Ordered(Must(<<a>>), A) /\ Ordered(May(<<a>>), A) /\ Ordered(Try(<<a>>), A)
<1>1. Len(<<a>>) = 1 /\ <<a>>[1] = a
  OBVIOUS
<1>2. Orderly(<<a>>, A)
  BY <1>1, OrderlyWithin
<1>3. QED  BY <1>2, OrderedCalls

\* A second call that needs what the first one makes.
LEMMA OrderedTwo ==
    ASSUME NEW a, NEW b, NEW A, Within(a, A), Within(b, A \cup a.makes)
    PROVE  Ordered(Must(<<a, b>>), A) /\ Ordered(May(<<a, b>>), A)
<1>1. Len(<<a, b>>) = 2 /\ <<a, b>>[1] = a /\ <<a, b>>[2] = b
  OBVIOUS
<1>2. Orderly(<<a, b>>, A)
  BY <1>1 DEF Orderly, Within
<1>3. QED  BY <1>2, OrderedCalls

LEMMA OrderedThree ==
    ASSUME NEW a, NEW b, NEW d, NEW A, Within(a, A), Within(b, A \cup a.makes),
           Within(d, A \cup a.makes \cup b.makes)
    PROVE  Ordered(Must(<<a, b, d>>), A) /\ Ordered(May(<<a, b, d>>), A)
<1> DEFINE k == <<a, b, d>>
<1>1. Len(k) = 3 /\ k[1] = a /\ k[2] = b /\ k[3] = d
  OBVIOUS
<1> HIDE DEF k
<1>2. Orderly(k, A)
  <2>1. \A x \in k[2].needs \ Awaited :
            Lasting(x) /\ (x \in A \/ \E i \in 1..1 : x \in k[i].makes)
    BY <1>1 DEF Within
  <2>2. ASSUME NEW x \in k[3].needs \ Awaited
        PROVE  Lasting(x) /\ (x \in A \/ \E i \in 1..2 : x \in k[i].makes)
    <3>1. Lasting(x) /\ (x \in A \/ x \in k[1].makes \/ x \in k[2].makes)
      BY <1>1, <2>2 DEF Within
    <3>2. 1 \in 1..2 /\ 2 \in 1..2
      OBVIOUS
    <3>3. QED  BY <3>1, <3>2
  <2>3. \A x \in k[1].needs \ Awaited : Lasting(x) /\ x \in A
    BY <1>1 DEF Within
  <2>4. \A j \in 1..3 : j = 1 \/ (j = 2 /\ j - 1 = 1) \/ (j = 3 /\ j - 1 = 2)
    OBVIOUS
  <2>5. QED  BY <1>1, <2>1, <2>2, <2>3, <2>4 DEF Orderly
<1>3. QED  BY <1>2, OrderedCalls DEF k

LEMMA MetalLBOrdered == ASSUME NEW A PROVE Ordered(MetalLB, A)
<1>1. Within(Call("metallb", {}, {Deployed("metallb")}), A)
  BY WithinCalls
<1>2. Within(Call("addressPool", {Deployed("metallb")}, {Deployed("pool")}),
             A \cup Call("metallb", {}, {Deployed("metallb")}).makes)
  BY LastingKinds DEF Within, Call
<1>3. QED  BY <1>1, <1>2, OrderedTwo DEF MetalLB

LEMMA IstioOrdered == ASSUME NEW A PROVE Ordered(Istio, A)
  BY OrderedTwo DEF Istio, Within, Call

LEMMA CertManagerOrdered ==
    ASSUME NEW A, Namespace("istio-system") \in A
    PROVE  Ordered(CertManager, A)
<1> DEFINE install == Call("certManager", {}, {Crds("cert-manager")})
<1>1. Within(install, A) /\ install.makes = {Crds("cert-manager")}
  BY DEF Within, Call
<1>2. Within(CreateIssuer, A \cup install.makes)
  BY <1>1, LastingKinds DEF Within, CreateIssuer, Call
<1>3. Within(CreateCertificates, A \cup install.makes \cup CreateIssuer.makes)
  BY <1>1, LastingKinds DEF Within, CreateCertificates, Call
<1> HIDE DEF install
<1>4. Ordered(Must(<<install, CreateIssuer, CreateCertificates>>), A)
  BY <1>1, <1>2, <1>3, OrderedThree
<1>5. QED  BY <1>4 DEF CertManager, install

LEMMA SimpleOrdered ==
    ASSUME NEW A
    PROVE  Ordered(MetricsServer, A) /\ Ordered(VaultInstaller, A)
<1>1. Within(Call("metricsServer", {}, {Deployed("metrics-server")}), A)
      /\ Within(Call("vault", {}, {Deployed("vault")}), A)
  BY WithinCalls
<1>2. QED  BY <1>1, OrderedOne DEF MetricsServer, VaultInstaller

\* A chart that needs Helm.
LEMMA WithHelm ==
    ASSUME NEW A
    PROVE  /\ Within(InstallHelm, A) /\ Deployed("helm") \in InstallHelm.makes
           /\ \A name, makes : Within(Call(name, {Deployed("helm")}, makes), A \cup InstallHelm.makes)
  BY LastingKinds DEF InstallHelm, Within, Call

LEMMA ChartsOrdered == ASSUME NEW A PROVE Ordered(VPA, A) /\ Ordered(KEDA, A)
  BY WithHelm, OrderedTwo DEF VPA, KEDA

LEMMA NFSOrdered == ASSUME NEW A PROVE Ordered(NFSProvisioner, A)
<1> DEFINE delete == Replacing(Call("deleteNfsStorage", {}, {}), {Class("nfs-storage")})
           create == Call("nfsStatic", {}, {Class("nfs-static")})
           B == {Deployed("helm")}
<1>1. Within(delete, A) /\ Within(create, A)
  BY DEF Within, Replacing, Call
<1>2. Within(InstallDynamicProvisioner, B)
  BY LastingKinds DEF Within, InstallDynamicProvisioner, Call
<1>3. NFSProvisioner = Must(<<InstallHelm>>) \o (Try(<<delete>>) \o Must(<<create>>))
                       \o Must(<<InstallDynamicProvisioner>>)
  BY DEF NFSProvisioner, CreateStaticStorageClass
<1> HIDE DEF delete, create, B
<1>4. Ordered(Try(<<delete>>), A) /\ Ordered(Must(<<create>>), A)
      /\ Ordered(Must(<<InstallHelm>>), A) /\ Ordered(Must(<<InstallDynamicProvisioner>>), B)
  BY <1>1, <1>2, WithHelm, OrderedOne
<1>5. Ordered(Try(<<delete>>) \o Must(<<create>>), A)
  BY <1>4, OrderedBoth
<1>6. Ordered(Must(<<InstallHelm>>) \o (Try(<<delete>>) \o Must(<<create>>)), A)
  BY <1>4, <1>5, OrderedBoth
<1>7. Makes(Must(<<InstallHelm>>), Deployed("helm"))
  BY WithHelm, MakesOne
<1>8. Makes(Must(<<InstallHelm>>) \o (Try(<<delete>>) \o Must(<<create>>)), Deployed("helm"))
  BY <1>4, <1>5, <1>7, MakesBoth, OrderedIsListing
<1>9. \A x \in B : Makes(Must(<<InstallHelm>>) \o (Try(<<delete>>) \o Must(<<create>>)), x)
  BY <1>8 DEF B
<1>10. QED  BY <1>3, <1>4, <1>6, <1>9, OrderedBoth

LEMMA VsoOrdered ==
    ASSUME NEW n, NEW A, Crds("vso") \in A
    PROVE  Ordered(VsoResources(n), A)
<1> DEFINE namespace == Replacing(Call("vsoNamespace", {}, {Namespace(n)}), {Injected(n)})
           secrets == Call("vsoSecrets", {Crds("vso"), Namespace(n)}, {Wanted(n)})
           B == {Crds("vso"), Namespace(n)}
<1>1. Within(namespace, A) /\ Namespace(n) \in namespace.makes
  BY DEF Within, Replacing, Call
<1>2. Within(secrets, B)
  BY LastingKinds DEF Within, Call
<1>3. VsoResources(n) = May(<<namespace>>) \o May(<<secrets>>)
  BY DEF VsoResources
<1> HIDE DEF namespace, secrets
<1>4. Makes(May(<<namespace>>), Namespace(n))
  BY <1>1, MakesOne
<1>5. \A x \in B : x \in A \/ Makes(May(<<namespace>>), x)
  BY <1>4
<1> HIDE DEF B
<1>6. Ordered(May(<<namespace>>), A) /\ Ordered(May(<<secrets>>), B)
  BY <1>1, <1>2, OrderedOne
<1>7. QED  BY <1>3, <1>5, <1>6, OrderedBoth

LEMMA SecretsOperatorOrdered == ASSUME NEW c, NEW A PROVE Ordered(VaultSecretsOperator(c), A)
<1> DEFINE chart == Call("vso", {Deployed("helm")}, {Crds("vso")})
           operator == Must(<<InstallHelm, chart>>)
           ollama == If("ollama_key", c, VsoResources("ollama"))
           wait == May(<<WaitForSecrets(c)>>)
           B == {Crds("vso")}
<1>1. Ordered(operator, A)
  BY WithHelm, OrderedTwo
<1>2. Makes(operator, Crds("vso"))
  <2>1. Crds("vso") \in chart.makes
    BY DEF Call
  <2> HIDE DEF chart
  <2>2. Len(<<InstallHelm, chart>>) = 2 /\ Crds("vso") \in <<InstallHelm, chart>>[2].makes
    BY <2>1
  <2>3. QED  BY <2>2, MakesMust
<1>3. Ordered(VsoResources("keycloak"), B) /\ Ordered(VsoResources("monitoring"), B)
      /\ Ordered(ollama, B)
  BY VsoOrdered, OrderedIf
<1>4. Ordered(wait, B)
  <2>1. Within(WaitForSecrets(c), B)
    BY DEF Within, WaitForSecrets, Call, Awaited
  <2>2. QED  BY <2>1, OrderedOne
<1>5. VaultSecretsOperator(c) = operator \o VsoResources("keycloak")
                                \o VsoResources("monitoring") \o ollama \o wait
  BY DEF VaultSecretsOperator
<1> HIDE DEF chart, operator, ollama, wait
<1>6. Listing(operator) /\ Listing(VsoResources("keycloak"))
      /\ Listing(VsoResources("monitoring")) /\ Listing(ollama)
  BY <1>1, <1>3, OrderedIsListing
<1>7. Ordered(operator \o VsoResources("keycloak"), A)
      /\ Makes(operator \o VsoResources("keycloak"), Crds("vso"))
  BY <1>1, <1>2, <1>3, <1>6, OrderedBoth, MakesBoth
<1> DEFINE two == operator \o VsoResources("keycloak")
<1>8. Listing(two)
  BY <1>7, OrderedIsListing
<1> HIDE DEF two
<1>9. Ordered(two \o VsoResources("monitoring"), A)
      /\ Makes(two \o VsoResources("monitoring"), Crds("vso"))
  BY <1>2, <1>3, <1>6, <1>7, <1>8, OrderedBoth, MakesBoth DEF two
<1> DEFINE three == two \o VsoResources("monitoring")
<1>10. Listing(three)
  BY <1>9, OrderedIsListing
<1> HIDE DEF three
<1>11. Ordered(three \o ollama, A) /\ Makes(three \o ollama, Crds("vso"))
  BY <1>3, <1>6, <1>9, <1>10, OrderedBoth, MakesBoth DEF three
<1>12. Ordered(three \o ollama \o wait, A)
  BY <1>4, <1>11, OrderedBoth
<1>13. QED  BY <1>5, <1>12 DEF two, three

\* r needs only A, and after it what is in B is there.
Leads(r, A, B) == Ordered(r, A) /\ \A x \in B : x \in A \/ Makes(r, x)

LEMMA LeadsOn ==
    ASSUME NEW r, NEW s, NEW A, NEW B, Leads(r, A, B), Ordered(s, B)
    PROVE  Leads(r \o s, A, B) /\ Ordered(r \o s, A)
<1>1. Ordered(r \o s, A)
  BY OrderedBoth DEF Leads
<1>2. \A x \in B : x \in A \/ Makes(r \o s, x)
  BY MakesBoth, OrderedIsListing DEF Leads
<1>3. QED  BY <1>1, <1>2 DEF Leads

LEMMA LeadsSelf == ASSUME NEW r, NEW A, Ordered(r, A) PROVE Leads(r, A, A)
  BY DEF Leads

LEMMA OrderedWithin ==
    ASSUME NEW calls, NEW A, Len(calls) \in Nat, \A j \in 1..Len(calls) : Within(calls[j], A)
    PROVE  Ordered(Must(calls), A) /\ Ordered(May(calls), A)
  BY OrderlyWithin, OrderedCalls

LEMMA MonitoringFirstOrdered ==
    ASSUME NEW A
    PROVE  /\ Ordered(Must(MonitoringFirst), A)
           /\ \A x \in {Namespace("monitoring"), Crds("prometheus"), Deployed("prometheus")} :
                 Makes(Must(MonitoringFirst), x)
<1> DEFINE k == MonitoringFirst
<1>1. Len(k) = 5 /\ Len(k) \in Nat
  BY DEF MonitoringFirst
<1>2. k[1].needs = {} /\ k[2].needs = {} /\ k[3].needs = {Namespace("monitoring")}
      /\ k[4].needs = {Namespace("monitoring"), Crds("prometheus"), Class("nfs-storage")}
      /\ k[5].needs = {Namespace("monitoring")}
  BY DEF MonitoringFirst, MonitoringNamespace, CreateNFSStorage, InstallPrometheusOperator,
         InstallPrometheus, CreateGrafanaSecret, Call
<1>3. Namespace("monitoring") \in k[1].makes /\ Class("nfs-storage") \in k[2].makes
      /\ Crds("prometheus") \in k[3].makes /\ Deployed("prometheus") \in k[4].makes
  BY DEF MonitoringFirst, MonitoringNamespace, CreateNFSStorage, InstallPrometheusOperator,
         InstallPrometheus, Call
<1> HIDE DEF k
<1>4. /\ Lasting(Namespace("monitoring")) /\ Lasting(Crds("prometheus"))
      /\ Lasting(Class("nfs-storage"))
  BY LastingKinds
<1>5. ASSUME NEW j \in 1..5, NEW x \in k[j].needs
      PROVE  Lasting(x) /\ \E i \in 1..(j - 1) : x \in k[i].makes
  <2>1. j = 1 \/ j = 2 \/ j = 3 \/ j = 4 \/ j = 5
    OBVIOUS
  <2>2. x = Namespace("monitoring") \/ x = Crds("prometheus") \/ x = Class("nfs-storage")
    BY <1>2, <1>5, <2>1
  <2>3. x = Namespace("monitoring") => 1 \in 1..(j - 1)
    BY <1>2, <1>5, <2>1
  <2>4. x # Namespace("monitoring") => 2 \in 1..(j - 1) /\ 3 \in 1..(j - 1)
    BY <1>2, <1>5, <2>1
  <2>5. QED  BY <1>3, <1>4, <2>2, <2>3, <2>4
<1>6. Orderly(k, A)
  BY <1>1, <1>5 DEF Orderly
<1>7. 1 \in 1..5 /\ 3 \in 1..5 /\ 4 \in 1..5
  OBVIOUS
<1>8. \A x \in {Namespace("monitoring"), Crds("prometheus"), Deployed("prometheus")} :
          \E j \in 1..Len(k) : x \in k[j].makes
  BY <1>1, <1>3, <1>7
<1>9. QED  BY <1>1, <1>6, <1>8, OrderedCalls, MakesMust DEF k

LEMMA MonitoringOrdered ==
    ASSUME NEW c, NEW A, Crds("istio") \in A
    PROVE  Ordered(Monitoring(c), A)
<1> DEFINE B == {Namespace("monitoring"), Crds("prometheus"), Deployed("prometheus"), Crds("istio")}
           first == Must(MonitoringFirst)
           grafana == Must(InstallGrafana)
           last == Must(MonitoringLast)
           cert == May(<<InstallCertManagerMonitoring>>)
           gateways == May(<<CreateMonitoringGateways>>)
           istio == May(<<InstallIstioMonitoring>>)
           mesh == If("service_mesh", c, gateways \o istio)
<1>1. Leads(first, A, B)
  BY MonitoringFirstOrdered DEF Leads
<1>2. Ordered(grafana, B)
  <2>1. Len(InstallGrafana) = 2
        /\ InstallGrafana[1] = Datasources("grafanaDatasources", {"prometheus"})
        /\ InstallGrafana[2] = Call("grafana", {Namespace("monitoring")}, {Deployed("grafana")})
    BY DEF InstallGrafana
  <2>2. Within(InstallGrafana[1], B) /\ Within(InstallGrafana[2], B)
    BY <2>1, LastingKinds DEF Within, Datasources, Replacing, Call
  <2>3. QED  BY <2>1, <2>2, OrderedWithin
<1>3. Ordered(last, B)
  <2>1. Len(MonitoringLast) = 3 /\ MonitoringLast[1] = InstallNodeExporter
        /\ MonitoringLast[2] = InstallKubeStateMetrics /\ MonitoringLast[3] = InstallAlertmanager
    BY DEF MonitoringLast
  <2>2. Within(InstallNodeExporter, B) /\ Within(InstallKubeStateMetrics, B)
        /\ Within(InstallAlertmanager, B)
    BY LastingKinds DEF Within, InstallNodeExporter, InstallKubeStateMetrics,
                        InstallAlertmanager, Call
  <2>3. QED  BY <2>1, <2>2, OrderedWithin
<1>4. Ordered(cert, B) /\ Ordered(gateways, B) /\ Ordered(istio, B)
  <2>1. Within(InstallCertManagerMonitoring, B) /\ Within(CreateMonitoringGateways, B)
        /\ Within(InstallIstioMonitoring, B)
    BY LastingKinds DEF Within, InstallCertManagerMonitoring, CreateMonitoringGateways,
                        InstallIstioMonitoring, Call
  <2>2. QED  BY <2>1, OrderedOne
<1>5. Monitoring(c) = first \o grafana \o last \o cert \o mesh
  BY MonitoringIs
<1> HIDE DEF first, grafana, last, cert, gateways, istio, B
<1>6. Ordered(gateways \o istio, B)
  BY <1>4, LeadsSelf, LeadsOn
<1>7. Ordered(mesh, B)
  BY <1>6, OrderedIf
<1> HIDE DEF mesh
<1>8. Leads(first \o grafana, A, B)
  BY <1>1, <1>2, LeadsOn
<1>9. Leads(first \o grafana \o last, A, B)
  BY <1>3, <1>8, LeadsOn
<1>10. Leads(first \o grafana \o last \o cert, A, B)
  BY <1>4, <1>9, LeadsOn
<1>11. QED  BY <1>5, <1>7, <1>10, LeadsOn

\* Grafana's ConfigMap and its restart.
LEMMA DatasourceOrdered ==
    ASSUME NEW f, NEW A, {Namespace("monitoring"), Deployed("grafana")} \subseteq A
    PROVE  \A name, ds : Ordered(May(<<Datasources(name, ds), RestartGrafana(f)>>), A)
<1>1. \A name, ds : Within(Datasources(name, ds), A)
  BY LastingKinds DEF Within, Datasources, Replacing, Call
<1>2. \A B : A \subseteq B => Within(RestartGrafana(f), B)
  BY LastingKinds DEF Within, RestartGrafana, Replacing, Call
<1>3. QED  BY <1>1, <1>2, OrderedTwo

LEMMA LokiOrdered ==
    ASSUME NEW f, NEW A,
           {Namespace("monitoring"), Deployed("grafana"), Class("nfs-dynamic")} \subseteq A
    PROVE  Ordered(Loki(f), A)
<1>1. Within(InstallLoki, A) /\ \A B : A \subseteq B => Within(InstallAlloy, B)
  BY LastingKinds DEF Within, InstallLoki, InstallAlloy, Call
<1>2. Ordered(Must(<<InstallLoki, InstallAlloy>>), A)
  BY <1>1, OrderedTwo
<1>3. Ordered(ConfigureLokiDatasource(f), A)
  BY DatasourceOrdered DEF ConfigureLokiDatasource
<1>4. QED  BY <1>2, <1>3, LeadsSelf, LeadsOn DEF Loki

LEMMA TempoOrdered ==
    ASSUME NEW f, NEW A,
           {Namespace("monitoring"), Deployed("grafana"), Namespace("istio-system"),
            Crds("istio"), Class("nfs-dynamic")} \subseteq A
    PROVE  Ordered(Tempo(f), A)
<1>1. Within(InstallTempo, A) /\ \A B : A \subseteq B => Within(InstallOtelCollector, B)
  BY LastingKinds DEF Within, InstallTempo, InstallOtelCollector, Call
<1>2. Ordered(Must(<<InstallTempo, InstallOtelCollector>>), A)
  BY <1>1, OrderedTwo
<1>3. Ordered(ConfigureTempoDataSource(f), A)
  BY DatasourceOrdered DEF ConfigureTempoDataSource
<1>4. Within(ConfigureIstioTracing, A)
  BY LastingKinds DEF Within, ConfigureIstioTracing, Call
<1>5. Ordered(May(<<ConfigureIstioTracing>>), A)
  BY <1>4, OrderedOne
<1>6. QED  BY <1>2, <1>3, <1>5, LeadsSelf, LeadsOn DEF Tempo

LEMMA KialiOrdered ==
    ASSUME NEW A,
           {Secret("grafana-admin"), Namespace("istio-system"), Crds("istio")} \subseteq A
    PROVE  Ordered(Kiali, A)
<1> DEFINE password == Call("grafanaPassword", {Secret("grafana-admin")}, {})
<1>1. Within(password, A) /\ Within(InstallKiali, A) /\ Within(ConfigureKialiIngress, A)
  BY LastingKinds DEF Within, InstallKiali, ConfigureKialiIngress, Call
<1>2. Kiali = May(<<password>>) \o Must(<<InstallKiali>>) \o May(<<ConfigureKialiIngress>>)
  BY DEF Kiali
<1> HIDE DEF password
<1>3. /\ Ordered(May(<<password>>), A) /\ Ordered(Must(<<InstallKiali>>), A)
      /\ Ordered(May(<<ConfigureKialiIngress>>), A)
  BY <1>1, OrderedOne
<1>4. QED  BY <1>2, <1>3, LeadsSelf, LeadsOn

LEMMA RealmOrdered ==
    ASSUME NEW A, Deployed("keycloak") \in A
    PROVE  Ordered(Must(ConfigureRealm), A)
<1> DEFINE realm == Call("createRealm", {Deployed("keycloak")}, {Realm})
           clients == Once(Call("createClients", {Realm}, {Clients}), {Clients})
           users == Call("createUsers", {Clients}, {Filled})
<1>1. Within(realm, A) /\ realm.makes = {Realm}
  BY LastingKinds DEF Within, Call
<1>2. Within(clients, A \cup realm.makes) /\ clients.makes = {Clients}
  BY LastingKinds DEF Within, Once, Call
<1>3. Within(users, A \cup realm.makes \cup clients.makes)
  BY <1>2, LastingKinds DEF Within, Call
<1>4. ConfigureRealm = <<realm, clients, users>>
  BY DEF ConfigureRealm
<1> HIDE DEF realm, clients, users
<1>5. QED  BY <1>1, <1>2, <1>3, <1>4, OrderedThree

LEMMA PatchOrdered ==
    ASSUME NEW f, NEW A, LabCA \in A
    PROVE  Ordered(PatchAPIServer(f), A)
<1> DEFINE k == PatchCalls(f)
           r == PatchAPIServer(f)
<1>1. /\ k[1] = Call("authConfig", {LabCA}, {})
      /\ k[2] = EditManifest("hostAlias", Alias, f) /\ k[3] = EditManifest("authFlag", Oidc, f)
      /\ k[4] = WaitForAPIServer(f)
      /\ k[5] = Call("oidcRoles", {}, {Deployed("oidc-roles")})
  BY DEF PatchCalls
<1>2. /\ Within(Call("authConfig", {LabCA}, {}), A)
      /\ Within(Call("oidcRoles", {}, {Deployed("oidc-roles")}), A)
      /\ Within(WaitForAPIServer(f), A)
      /\ \A name, edit : Within(EditManifest(name, edit, f), A)
  BY LastingKinds DEF Within, EditManifest, WaitForAPIServer, Replacing, Call
<1> HIDE DEF k
<1>3. \A j \in 1..5 : Within(k[j], A)
  <2>1. \A j \in 1..5 : j = 1 \/ j = 2 \/ j = 3 \/ j = 4 \/ j = 5
    OBVIOUS
  <2>2. QED  BY <1>1, <1>2, <2>1
<1>4. 5 \in Nat /\ IsSeq(r, 5) /\ \A j \in 1..5 : r[j].call = k[j]
  BY PatchHas DEF k
<1> HIDE DEF r
<1>5. \A j \in 1..5 : Met(r, j, A)
  BY <1>3, <1>4 DEF Met, Within
<1>6. QED  BY <1>4, <1>5 DEF Ordered, r

LEMMA KeycloakOrdered ==
    ASSUME NEW c, NEW A,
           {Namespace("keycloak"), Crds("istio"), LabCA, Deployed("vault"),
            Class("nfs-dynamic")} \subseteq A
    PROVE  Ordered(Keycloak(c, {}), A)
<1> DEFINE resolve == Call("resolveCredentials", {}, {})
           credentials == Must(<<resolve>>)
           admin == May(<<WaitForAdminSecret>>)
           mtls == If("service_mesh", c, May(<<CreatePostgresMTLS>>))
           deploy == Must(DeployKeycloak)
           wait == Must(<<WaitForKeycloak({})>>)
           realm == Must(ConfigureRealm)
           patch == PatchAPIServer({})
           gateway == If("service_mesh", c, May(<<CreateGateway>>))
           store == May(<<StoreKubeconfigInVault>>)
           B == A \cup {Deployed("keycloak")}
<1>1. Ordered(credentials, A) /\ Ordered(admin, A) /\ Ordered(wait, B) /\ Ordered(mtls, A)
      /\ Ordered(gateway, A) /\ Ordered(store, A)
  <2>1. Within(resolve, A) /\ Within(WaitForAdminSecret, A) /\ Within(WaitForKeycloak({}), B)
    BY DEF Within, WaitForAdminSecret, WaitForKeycloak, Call, Awaited
  <2>2. Within(CreatePostgresMTLS, A) /\ Within(CreateGateway, A)
        /\ Within(StoreKubeconfigInVault, A)
    BY LastingKinds DEF Within, CreatePostgresMTLS, CreateGateway, StoreKubeconfigInVault, Call
  <2> HIDE DEF resolve, B
  <2>3. QED  BY <2>1, <2>2, OrderedOne, OrderedIf
<1>2. Leads(deploy, A, B)
  <2> DEFINE namespace == Call("keycloakNamespace", {},
                               {Namespace("keycloak"), Injected("keycloak")})
             keycloakd == Call("deployKeycloak", {Namespace("keycloak"), Class("nfs-dynamic")},
                               {Deployed("keycloak")})
             k == <<namespace, keycloakd>>
  <2>1. Within(namespace, A) /\ \A D : A \subseteq D => Within(keycloakd, D)
    BY LastingKinds DEF Within, Call
  <2>2. Deployed("keycloak") \in keycloakd.makes
    BY DEF Call
  <2>3. DeployKeycloak = k
    BY DEF DeployKeycloak
  <2> HIDE DEF namespace, keycloakd
  <2>4. Ordered(Must(k), A)
    BY <2>1, OrderedTwo
  <2>5. Len(k) = 2 /\ Deployed("keycloak") \in k[2].makes
    BY <2>2
  <2>6. Makes(Must(k), Deployed("keycloak"))
    BY <2>5, MakesMust
  <2>7. QED  BY <2>3, <2>4, <2>6 DEF Leads
<1>3. Ordered(realm, B) /\ Ordered(patch, A)
  BY RealmOrdered, PatchOrdered
<1>4. Keycloak(c, {}) = credentials \o admin \o mtls \o (deploy \o wait \o realm) \o patch
                        \o gateway \o store
  BY KeycloakIs
<1> HIDE DEF resolve, credentials, admin, mtls, deploy, wait, realm, patch, gateway, store, B
<1> DEFINE deployed == deploy \o wait \o realm
<1>5. Ordered(deployed, A)
  BY <1>1, <1>2, <1>3, LeadsOn
<1> HIDE DEF deployed
<1>6. Leads(credentials \o admin \o mtls, A, A)
  BY <1>1, LeadsSelf, LeadsOn
<1>7. Leads(credentials \o admin \o mtls \o deployed \o patch, A, A)
  BY <1>3, <1>5, <1>6, LeadsOn
<1>8. Ordered(credentials \o admin \o mtls \o deployed \o patch \o gateway \o store, A)
  BY <1>1, <1>7, LeadsOn
<1>9. QED  BY <1>4, <1>8 DEF deployed

LEMMA OllamaOrdered ==
    ASSUME NEW c, NEW A, Class("nfs-static") \in A
    PROVE  Ordered(Ollama(c), A)
<1> DEFINE make == Call("ollamaNamespace", {}, {Namespace("ollama")})
           namespace == Must(<<make>>)
           secret == If("ollama_key", c, Must(<<CreateAPIKeySecret>>))
           storage == If("local_model", c, Must(<<CreateOllamaStorage>>))
           deploy == Must(<<BuildDeployment(c)>>)
           delete == Replacing(Call("deleteModelJob", {}, {}), {Deployed("model-job")})
           create == Once(Call("modelPull", {Namespace("ollama")}, {Deployed("model-job")}),
                          {Deployed("model-job")})
           job == If("local_model", c, If("named_model", c, Try(<<delete>>) \o May(<<create>>)))
           B == A \cup {Namespace("ollama")}
<1>1. Leads(namespace, A, B)
  <2>1. Within(make, A) /\ Namespace("ollama") \in make.makes
    BY DEF Within, Call
  <2> HIDE DEF make
  <2>2. QED  BY <2>1, OrderedOne, MakesOne DEF Leads
<1>2. Ordered(secret, B) /\ Ordered(storage, B) /\ Ordered(deploy, B)
  <2>1. Within(CreateAPIKeySecret, B) /\ Within(CreateOllamaStorage, B)
    BY LastingKinds DEF Within, CreateAPIKeySecret, CreateOllamaStorage, Call
  <2>2. Within(BuildDeployment(c), B)
    BY LastingKinds DEF Within, BuildDeployment, Replacing, Call
  <2> HIDE DEF B
  <2>3. QED  BY <2>1, <2>2, OrderedOne, OrderedIf
<1>3. Ordered(job, B)
  <2>1. Within(delete, B) /\ Within(create, B)
    BY LastingKinds DEF Within, Replacing, Once, Call
  <2> HIDE DEF delete, create, B
  <2>2. Ordered(Try(<<delete>>), B) /\ Ordered(May(<<create>>), B)
    BY <2>1, OrderedOne
  <2>3. Ordered(Try(<<delete>>) \o May(<<create>>), B)
    BY <2>2, LeadsSelf, LeadsOn
  <2>4. QED  BY <2>3, OrderedIf
<1>4. Ollama(c) = namespace \o secret \o storage \o deploy \o job
  BY DEF Ollama, CreateModelPullJob
<1> HIDE DEF make, namespace, secret, storage, deploy, delete, create, job, B
<1>5. QED  BY <1>1, <1>2, <1>3, <1>4, LeadsOn

LEMMA KarporOrdered ==
    ASSUME NEW c, NEW A, {Crds("istio"), Class("nfs-static")} \subseteq A
    PROVE  Ordered(Karpor(c), A)
<1> DEFINE k == KarporFirst
           first == Must(k)
           delete == Replacing(Call("deleteKubeconfig", {}, {}), {Deployed("karpor-kubeconfig")})
           create == Once(Call("karporKubeconfig", {Namespace("karpor")},
                               {Deployed("karpor-kubeconfig")}), {Deployed("karpor-kubeconfig")})
           kubeconfig == Try(<<delete>>) \o May(<<create>>)
           gateway == If("service_mesh", c, May(<<CreateKarporGateway>>))
           model == If("ai", c, If("ollama", c, May(<<WaitForOllamaModel>>)))
           B == A \cup {Namespace("karpor")}
<1>1. Leads(first, A, B)
  <2>1. /\ Len(k) = 4 /\ k[1].needs = {} /\ k[2].needs = {} /\ k[3].needs = {}
        /\ k[4].needs = {Deployed("helm"), Namespace("karpor"), Class("nfs-static")}
        /\ Deployed("helm") \in k[1].makes /\ Namespace("karpor") \in k[2].makes
    BY DEF KarporFirst, InstallHelm, CreateKarporStorage, Call
  <2> HIDE DEF k
  <2>2. ASSUME NEW j \in 1..4, NEW x \in k[j].needs
        PROVE  Lasting(x) /\ (x \in A \/ \E i \in 1..(j - 1) : x \in k[i].makes)
    <3>1. j = 1 \/ j = 2 \/ j = 3 \/ j = 4
      OBVIOUS
    <3>2. j = 4 /\ (x = Deployed("helm") \/ x = Namespace("karpor") \/ x = Class("nfs-static"))
      BY <2>1, <2>2, <3>1
    <3>3. 1 \in 1..(j - 1) /\ 2 \in 1..(j - 1)
      BY <3>2
    <3>4. QED  BY <2>1, <3>2, <3>3, LastingKinds
  <2>3. Orderly(k, A)
    BY <2>1, <2>2 DEF Orderly
  <2>4. Len(k) \in Nat /\ 2 \in 1..Len(k)
    BY <2>1
  <2>5. Makes(Must(k), Namespace("karpor"))
    BY <2>1, <2>4, MakesMust
  <2>6. QED  BY <2>3, <2>5, OrderedCalls DEF Leads
<1>2. Ordered(kubeconfig, B) /\ Ordered(gateway, B) /\ Ordered(model, B)
  <2>1. Within(delete, B) /\ Within(create, B) /\ Within(CreateKarporGateway, B)
    BY LastingKinds DEF Within, CreateKarporGateway, Replacing, Once, Call
  <2>2. Within(WaitForOllamaModel, B)
    BY DEF Within, WaitForOllamaModel, Call, Awaited
  <2> HIDE DEF delete, create, B
  <2>3. /\ Ordered(Try(<<delete>>), B) /\ Ordered(May(<<create>>), B)
        /\ Ordered(May(<<CreateKarporGateway>>), B) /\ Ordered(May(<<WaitForOllamaModel>>), B)
    BY <2>1, <2>2, OrderedOne
  <2>4. QED  BY <2>3, LeadsSelf, LeadsOn, OrderedIf
<1>3. Karpor(c) = first \o kubeconfig \o gateway \o model
  BY DEF Karpor, KarporFirst, CreateKubeconfig, EnableAI
<1> HIDE DEF k, first, delete, create, kubeconfig, gateway, model, B
<1>4. QED  BY <1>1, <1>2, <1>3, LeadsOn

\* What Grafana's login needs, none of it is made by its own calls.
LEMMA OAuthNeeds ==
    ASSUME NEW c, NEW f, NEW j \in 1..Len(ConfigureGrafanaOAuth(c, f))
    PROVE  /\ "monitoring" \in c
           /\ ConfigureGrafanaOAuth(c, f)[j].call.needs \ Awaited
                \subseteq {LabCA, Namespace("monitoring"), Deployed("grafana")}
<1> DEFINE config == Call("oauthConfig", {Secret("monitoring"), LabCA, Namespace("monitoring")}, {})
           patch == Call("oauthPatch", {Deployed("grafana")}, {OAuth})
           restart == RestartGrafana(f)
           k == <<config, patch, restart>>
<1>1. "monitoring" \in c
  BY DEF ConfigureGrafanaOAuth, If
<1>2. ConfigureGrafanaOAuth(c, f) = May(k)
  BY <1>1 DEF ConfigureGrafanaOAuth, If
<1>3. /\ config.needs \ Awaited \subseteq {LabCA, Namespace("monitoring")}
      /\ patch.needs = {Deployed("grafana")} /\ restart.needs = {Deployed("grafana")}
  BY DEF Call, Awaited, RestartGrafana, Replacing
<1> HIDE DEF config, patch, restart
<1>4. Len(k) = 3 /\ k[1] = config /\ k[2] = patch /\ k[3] = restart
  OBVIOUS
<1> HIDE DEF k
<1>5. Len(May(k)) = 3
  BY <1>4, GroupIsSeq DEF IsSeq
<1>6. j \in 1..3 /\ May(k)[j].call = k[j]
  BY <1>2, <1>4, <1>5 DEF May
<1>7. j = 1 \/ j = 2 \/ j = 3
  BY <1>6
<1>8. QED  BY <1>1, <1>2, <1>3, <1>4, <1>6, <1>7

-----------------------------------------------------------------------------
(* The plan's order *)

\* What earlier steps make for the step at place i, in a configuration with
\* features c: "Dependency order" (provisioner.go).
Provided(i, c) ==
    (IF i > 2 THEN {Namespace("istio-system"), Crds("istio")} ELSE {})
    \cup (IF i > 3 THEN {LabCA} ELSE {})
    \cup (IF i > 7 THEN {Class("nfs-static"), Class("nfs-dynamic")} ELSE {})
    \cup (IF i > 8 THEN {Deployed("vault")} ELSE {})
    \cup (IF i > 9 THEN {Namespace("keycloak")} ELSE {})
    \cup (IF i > 10 /\ "monitoring" \in c
          THEN {Namespace("monitoring"), Deployed("grafana"), Secret("grafana-admin")} ELSE {})

\* In every configuration a component that is enabled needs only what earlier
\* steps and its own earlier calls make, and what the cluster brings about.
LEMMA PlaceOrdered ==
    ASSUME NEW i \in 1..Last, NEW c, WorkloadSteps[i].requires \subseteq c
    PROVE  Ordered(Recipe(WorkloadSteps[i].name, c, {}), Provided(i, c))
<1>1. CASE i \in {1, 2, 4, 5, 6, 7, 8, 9}
  <2>1. \A A : /\ Ordered(MetalLB, A) /\ Ordered(Istio, A) /\ Ordered(MetricsServer, A)
               /\ Ordered(VPA, A) /\ Ordered(KEDA, A) /\ Ordered(NFSProvisioner, A)
               /\ Ordered(VaultInstaller, A) /\ Ordered(VaultSecretsOperator(c), A)
    BY MetalLBOrdered, IstioOrdered, SimpleOrdered, ChartsOrdered, NFSOrdered,
       SecretsOperatorOrdered
  <2>2. QED  BY <1>1, <2>1, PlaceNames DEF Recipe
<1>2. CASE i = 3
  <2>1. Namespace("istio-system") \in Provided(3, c)
    BY DEF Provided
  <2>2. QED  BY <1>2, <2>1, PlaceNames, CertManagerOrdered DEF Recipe
<1>3. CASE i = 10
  <2>1. Crds("istio") \in Provided(10, c)
    BY DEF Provided
  <2>2. QED  BY <1>3, <2>1, PlaceNames, MonitoringOrdered DEF Recipe
<1>4. CASE i \in {11, 12, 13}
  <2>1. "monitoring" \in c
    BY <1>4 DEF WorkloadSteps, Component
  <2>2. {Namespace("monitoring"), Deployed("grafana"), Secret("grafana-admin"),
         Namespace("istio-system"), Crds("istio"), Class("nfs-dynamic")} \subseteq Provided(i, c)
    BY <1>4, <2>1 DEF Provided
  <2>3. Ordered(Loki({}), Provided(i, c)) /\ Ordered(Tempo({}), Provided(i, c))
        /\ Ordered(Kiali, Provided(i, c))
    BY <2>2, LokiOrdered, TempoOrdered, KialiOrdered
  <2>4. QED  BY <1>4, <2>3, PlaceNames DEF Recipe
<1>5. CASE i = 14
  <2>1. {Namespace("keycloak"), Crds("istio"), LabCA, Deployed("vault"),
         Class("nfs-dynamic")} \subseteq Provided(14, c)
    BY DEF Provided
  <2>2. QED  BY <1>5, <2>1, PlaceNames, KeycloakOrdered DEF Recipe
<1>6. CASE i = 15
  <2>1. Class("nfs-static") \in Provided(15, c)
    BY DEF Provided
  <2>2. QED  BY <1>6, <2>1, PlaceNames, OllamaOrdered DEF Recipe
<1>7. CASE i = 16
  <2>1. {Crds("istio"), Class("nfs-static")} \subseteq Provided(16, c)
    BY DEF Provided
  <2>2. QED  BY <1>7, <2>1, PlaceNames, KarporOrdered DEF Recipe
<1>8. QED  BY <1>1, <1>2, <1>3, <1>4, <1>5, <1>6, <1>7, PlaceCases

-----------------------------------------------------------------------------
(* Where single calls are in a recipe *)

LEMMA GroupHas ==
    ASSUME NEW k, Len(k) \in Nat, NEW j \in 1..Len(k)
    PROVE  /\ Must(k)[j].call = k[j] /\ Must(k)[j].policy = "abort"
           /\ May(k)[j].call = k[j] /\ May(k)[j].policy = "warn"
           /\ Try(k)[j].call = k[j] /\ Try(k)[j].policy = "ignore" /\ Try(k)[j].skip = 0
  BY DEF Must, May, Try

\* Parts, with the second one counted from its own beginning.
Pasted(w, r, n, s, m) ==
    /\ IsSeq(w, n + m)
    /\ \A j \in 1..n : w[j] = r[j]
    /\ \A j \in 1..m : w[n + j] = s[j]

LEMMA PartsAre ==
    ASSUME NEW n \in Nat, NEW m \in Nat, NEW r, NEW s, NEW w, w = r \o s,
           IsSeq(r, n), IsSeq(s, m)
    PROVE  Pasted(w, r, n, s, m)
<1>1. Parts(w, r, n, s, m)
  BY Joined
<1>2. ASSUME NEW j \in 1..m PROVE w[n + j] = s[j]
  <2>1. n + j \in (n + 1)..(n + m) /\ (n + j) - n = j
    OBVIOUS
  <2>2. QED  BY <1>1, <2>1 DEF Parts
<1>3. QED  BY <1>1, <1>2 DEF Parts, Pasted

LEMMA LokiAt ==
    ASSUME NEW f
    PROVE  /\ IsSeq(Loki(f), 4)
           /\ Loki(f)[1].policy = "abort" /\ Loki(f)[2].policy = "abort"
           /\ Loki(f)[1].call = InstallLoki /\ Loki(f)[2].call = InstallAlloy
           /\ Loki(f)[3].policy = "warn" /\ Loki(f)[4].policy = "warn"
           /\ Loki(f)[3].call = Datasources("lokiDatasource", {"prometheus", "loki"})
           /\ Loki(f)[4].call = RestartGrafana(f)
<1> DEFINE a == <<InstallLoki, InstallAlloy>>
           b == <<Datasources("lokiDatasource", {"prometheus", "loki"}), RestartGrafana(f)>>
           r == Must(a)
           s == May(b)
           w == Loki(f)
<1>1. Len(a) = 2 /\ Len(b) = 2 /\ a[1] = InstallLoki /\ a[2] = InstallAlloy
      /\ b[1] = Datasources("lokiDatasource", {"prometheus", "loki"})
      /\ b[2] = RestartGrafana(f)
  OBVIOUS
<1>2. w = r \o s
  BY DEF Loki, ConfigureLokiDatasource
<1> HIDE DEF a, b, w
<1>3. IsSeq(r, 2) /\ IsSeq(s, 2)
  BY <1>1, GroupIsSeq
<1>4. /\ r[1].policy = "abort" /\ r[2].policy = "abort" /\ r[1].call = a[1] /\ r[2].call = a[2]
      /\ s[1].policy = "warn" /\ s[2].policy = "warn" /\ s[1].call = b[1] /\ s[2].call = b[2]
  BY <1>1, GroupHas
<1> HIDE DEF r, s
<1>5. Pasted(w, r, 2, s, 2)
  BY <1>2, <1>3, PartsAre
<1>6. IsSeq(w, 4) /\ w[1] = r[1] /\ w[2] = r[2] /\ w[2 + 1] = s[1] /\ w[2 + 2] = s[2]
  BY <1>5 DEF Pasted
<1>7. w[3] = s[1] /\ w[4] = s[2]
  BY <1>6
<1>8. QED  BY <1>1, <1>4, <1>6, <1>7 DEF w

LEMMA TempoAt ==
    ASSUME NEW f
    PROVE  /\ IsSeq(Tempo(f), 5)
           /\ Tempo(f)[1].policy = "abort" /\ Tempo(f)[2].policy = "abort"
           /\ \A j \in 3..5 : Tempo(f)[j].policy = "warn"
           /\ Tempo(f)[1].call = InstallTempo /\ Tempo(f)[2].call = InstallOtelCollector
           /\ Tempo(f)[3].call = Datasources("tempoDatasource", Sources)
           /\ Tempo(f)[4].call = RestartGrafana(f) /\ Tempo(f)[5].call = ConfigureIstioTracing
<1> DEFINE a == <<InstallTempo, InstallOtelCollector>>
           b == <<Datasources("tempoDatasource", Sources), RestartGrafana(f)>>
           d == <<ConfigureIstioTracing>>
           r == Must(a)
           s == May(b)
           t == May(d)
           v == r \o s
           w == Tempo(f)
<1>1. /\ Len(a) = 2 /\ Len(b) = 2 /\ Len(d) = 1 /\ a[1] = InstallTempo
      /\ a[2] = InstallOtelCollector /\ b[1] = Datasources("tempoDatasource", Sources)
      /\ b[2] = RestartGrafana(f) /\ d[1] = ConfigureIstioTracing
  OBVIOUS
<1>2. w = v \o t
  BY DEF Tempo, ConfigureTempoDataSource
<1> HIDE DEF a, b, d, w
<1>3. IsSeq(r, 2) /\ IsSeq(s, 2) /\ IsSeq(t, 1)
  BY <1>1, GroupIsSeq
<1>4. /\ r[1].policy = "abort" /\ r[2].policy = "abort" /\ r[1].call = a[1] /\ r[2].call = a[2]
      /\ s[1].policy = "warn" /\ s[2].policy = "warn" /\ s[1].call = b[1] /\ s[2].call = b[2]
      /\ t[1].policy = "warn" /\ t[1].call = d[1]
  BY <1>1, GroupHas
<1> HIDE DEF r, s, t
<1>whole. v = r \o s
  OBVIOUS
<1> HIDE DEF v
<1>5. Pasted(v, r, 2, s, 2)
  BY <1>whole, <1>3, PartsAre
<1>6. v[1] = r[1] /\ v[2] = r[2] /\ v[3] = s[1] /\ v[4] = s[2] /\ IsSeq(v, 4)
  <2>1. v[1] = r[1] /\ v[2] = r[2] /\ v[2 + 1] = s[1] /\ v[2 + 2] = s[2]
    BY <1>5 DEF Pasted
  <2>2. QED  BY <1>5, <2>1 DEF Pasted
<1>7. Pasted(w, v, 4, t, 1)
  BY <1>2, <1>3, <1>6, PartsAre
<1>8. /\ IsSeq(w, 5) /\ w[1] = r[1] /\ w[2] = r[2] /\ w[3] = s[1] /\ w[4] = s[2]
      /\ w[5] = t[1]
  <2>1. w[4 + 1] = t[1]
    BY <1>7 DEF Pasted
  <2>2. QED  BY <1>6, <1>7, <2>1 DEF Pasted
<1>9. \A j \in 3..5 : j = 3 \/ j = 4 \/ j = 5
  OBVIOUS
<1>10. QED  BY <1>1, <1>4, <1>8, <1>9 DEF w

LEMMA OAuthAt ==
    ASSUME NEW c, NEW f, "monitoring" \in c
    PROVE  LET r == ConfigureGrafanaOAuth(c, f)
           IN  /\ IsSeq(r, 3) /\ \A j \in 1..3 : r[j].policy = "warn"
               /\ r[1].call.drops = {} /\ r[2].call.drops = {} /\ r[2].call.makes = {OAuth}
               /\ r[3].call = RestartGrafana(f)
<1> DEFINE k == <<Call("oauthConfig", {Secret("monitoring"), LabCA, Namespace("monitoring")}, {}),
                  Call("oauthPatch", {Deployed("grafana")}, {OAuth}),
                  RestartGrafana(f)>>
<1>1. ConfigureGrafanaOAuth(c, f) = May(k)
  BY DEF ConfigureGrafanaOAuth, If
<1>2. Len(k) = 3 /\ k[1].drops = {} /\ k[2].drops = {} /\ k[2].makes = {OAuth}
      /\ k[3] = RestartGrafana(f)
  BY DEF Call
<1> HIDE DEF k
<1>3. IsSeq(May(k), 3) /\ \A j \in 1..3 : May(k)[j].call = k[j] /\ May(k)[j].policy = "warn"
  <2>1. IsSeq(May(k), 3)
    BY <1>2, GroupIsSeq
  <2>2. ASSUME NEW j \in 1..3 PROVE May(k)[j].call = k[j] /\ May(k)[j].policy = "warn"
    <3>1. Len(k) \in Nat /\ j \in 1..Len(k)
      BY <1>2
    <3>2. QED  BY <3>1, GroupHas
  <2>3. QED  BY <2>1, <2>2
<1>4. 1 \in 1..3 /\ 2 \in 1..3 /\ 3 \in 1..3
  OBVIOUS
<1>5. QED  BY <1>1, <1>2, <1>3, <1>4

\* Karpor deletes its ConfigMap, makes it, and leaves it alone.
LEMMA KarporAt ==
    ASSUME NEW c
    PROVE  \E n \in Nat :
               /\ IsSeq(Karpor(c), n) /\ n >= 6
               /\ \A j \in 1..4 : Karpor(c)[j].policy = "abort"
               /\ Karpor(c)[5].policy = "ignore" /\ Karpor(c)[5].skip = 0
               /\ Karpor(c)[6].policy = "warn"
               /\ Karpor(c)[6].call.makes = {Deployed("karpor-kubeconfig")}
               /\ \A j \in 7..n : Karpor(c)[j].call.drops = {}
<1> DEFINE a == <<Replacing(Call("deleteKubeconfig", {}, {}), {Deployed("karpor-kubeconfig")})>>
           b == <<Once(Call("karporKubeconfig", {Namespace("karpor")},
                            {Deployed("karpor-kubeconfig")}), {Deployed("karpor-kubeconfig")})>>
           r == Must(KarporFirst)
           s == Try(a)
           t == May(b)
           gateway == If("service_mesh", c, May(<<CreateKarporGateway>>))
           model == EnableAI(c)
           u == s \o t
           v == r \o u
           x == v \o gateway
           w == Karpor(c)
<1>1. Len(a) = 1 /\ Len(b) = 1 /\ Len(KarporFirst) = 4
      /\ b[1].makes = {Deployed("karpor-kubeconfig")}
  BY DEF KarporFirst, Once, Call
<1>2. w = x \o model
  BY DEF Karpor, KarporFirst, CreateKubeconfig
<1> HIDE DEF a, b, w
<1>3. IsSeq(r, 4) /\ IsSeq(s, 1) /\ IsSeq(t, 1)
  BY <1>1, GroupIsSeq
<1>4. /\ \A j \in 1..4 : r[j].policy = "abort"
      /\ s[1].policy = "ignore" /\ s[1].skip = 0 /\ t[1].policy = "warn" /\ t[1].call = b[1]
  <2>1. ASSUME NEW j \in 1..4 PROVE r[j].policy = "abort"
    <3>1. Len(KarporFirst) \in Nat /\ j \in 1..Len(KarporFirst)
      BY <1>1
    <3>2. QED  BY <3>1, GroupHas
  <2>2. s[1].policy = "ignore" /\ s[1].skip = 0
    BY <1>1, GroupHas
  <2>3. t[1].policy = "warn" /\ t[1].call = b[1]
    BY <1>1, GroupHas
  <2>4. QED  BY <2>1, <2>2, <2>3
<1>5. PICK m \in Nat : Fits(gateway, gateway, m, {})
  <2>1. Fitting(gateway, gateway, {})
    BY FittingCalls, FittingIf DEF CreateKarporGateway, Spared, Call
  <2>2. QED  BY <2>1 DEF Fitting
<1>6. PICK l \in Nat : Fits(model, model, l, {})
  <2>1. Fitting(model, model, {})
    BY FittingCalls, FittingIf DEF EnableAI, WaitForOllamaModel, Spared, Call
  <2>2. QED  BY <2>1 DEF Fitting
<1> HIDE DEF r, s, t, gateway, model
<1>7. IsSeq(gateway, m) /\ IsSeq(model, l) /\ (\A j \in 1..m : gateway[j].call.drops = {})
      /\ \A j \in 1..l : model[j].call.drops = {}
  BY <1>5, <1>6 DEF Fits, FitsAt
<1>parts. u = s \o t /\ v = r \o u /\ x = v \o gateway
  OBVIOUS
<1> HIDE DEF u, v, x
<1>8. Pasted(u, s, 1, t, 1)
  BY <1>parts, <1>3, PartsAre
<1>9. IsSeq(u, 2) /\ u[1] = s[1] /\ u[2] = t[1]
  <2>1. u[1] = s[1] /\ u[1 + 1] = t[1]
    BY <1>8 DEF Pasted
  <2>2. QED  BY <1>8, <2>1 DEF Pasted
<1>10. Pasted(v, r, 4, u, 2)
  BY <1>parts, <1>3, <1>9, PartsAre
<1>11. IsSeq(v, 6) /\ (\A j \in 1..4 : v[j] = r[j]) /\ v[5] = u[1] /\ v[6] = u[2]
  <2>1. v[4 + 1] = u[1] /\ v[4 + 2] = u[2]
    BY <1>10 DEF Pasted
  <2>2. QED  BY <1>10, <2>1 DEF Pasted
<1>12. Pasted(x, v, 6, gateway, m)
  BY <1>parts, <1>7, <1>11, PartsAre
<1>13. \A j \in 7..(6 + m) : x[j].call.drops = {}
  <2>1. ASSUME NEW j \in 7..(6 + m) PROVE x[j].call.drops = {}
    <3>1. j - 6 \in 1..m /\ 6 + (j - 6) = j
      OBVIOUS
    <3>2. QED  BY <1>7, <1>12, <3>1 DEF Pasted
  <2>2. QED  BY <2>1
<1>total. 6 + m \in Nat /\ IsSeq(x, 6 + m)
  BY <1>12 DEF Pasted
<1>14. Pasted(w, x, 6 + m, model, l)
  BY <1>total, <1>2, <1>7, PartsAre
<1>15. (\A j \in 1..6 : w[j] = v[j]) /\ \A j \in 7..(6 + m + l) : w[j].call.drops = {}
  <2>1. \A j \in 1..6 : j \in 1..(6 + m)
    OBVIOUS
  <2>2. \A j \in 1..6 : w[j] = v[j]
    BY <1>12, <1>14, <2>1 DEF Pasted
  <2>3. ASSUME NEW j \in 7..(6 + m + l) PROVE w[j].call.drops = {}
    <3>1. CASE j \in 7..(6 + m)
      <4>1. j \in 1..(6 + m)
        BY <3>1
      <4>2. QED  BY <1>13, <1>14, <3>1, <4>1 DEF Pasted
    <3>2. CASE j > 6 + m
      <4>1. j - (6 + m) \in 1..l /\ 6 + m + (j - (6 + m)) = j
        BY <3>2
      <4>2. QED  BY <1>7, <1>14, <4>1 DEF Pasted
    <3>3. QED  BY <3>1, <3>2
  <2>4. QED  BY <2>2, <2>3
<1>16. 6 + m + l \in Nat /\ 6 + m + l >= 6
  OBVIOUS
<1>17. \A j \in 1..4 : w[j].policy = "abort"
  BY <1>4, <1>11, <1>15
<1>18. w[5] = s[1] /\ w[6] = t[1]
  BY <1>9, <1>11, <1>15
<1>19. QED  BY <1>1, <1>4, <1>14, <1>15, <1>16, <1>17, <1>18 DEF w, Pasted

-----------------------------------------------------------------------------
(* What only Keycloak makes *)

\* No call of the recipe makes Keycloak's Deployment or its pod, or edits the API
\* server's manifest.
Shuns(r) ==
    Listing(r) /\ ~Makes(r, Deployed("keycloak")) /\ ~Makes(r, Pod) /\ ~Makes(r, Edited)

\* They are no facts of another kind, nor another Deployment.
LEMMA Apart ==
    /\ \A n : n # "keycloak" => Deployed(n) # Deployed("keycloak")
    /\ \A n : /\ Deployed("keycloak") \notin {Crds(n), Namespace(n), Injected(n), Class(n),
                                              Secret(n), Source(n), Wanted(n), LabCA, Keyed}
              /\ Pod \notin {Crds(n), Namespace(n), Injected(n), Class(n), Secret(n), Source(n),
                             Wanted(n), LabCA, Keyed, Deployed(n)}
              /\ Edited \notin {Crds(n), Namespace(n), Injected(n), Class(n), Secret(n), Source(n),
                                Wanted(n), LabCA, Keyed, Deployed(n)}
  BY DEF Deployed, Crds, Namespace, Injected, Class, Secret, Source, Wanted, LabCA, Keyed, Pod,
         Edited

LEMMA MakesEither ==
    ASSUME NEW r, NEW s, NEW x, Listing(r), Listing(s), Makes(r \o s, x)
    PROVE  Makes(r, x) \/ Makes(s, x)
<1> DEFINE w == r \o s
<1>whole. w = r \o s
  OBVIOUS
<1> HIDE DEF w
<1>1. PICK n \in Nat : IsSeq(r, n)
  BY DEF Listing
<1>2. PICK m \in Nat : IsSeq(s, m)
  BY DEF Listing
<1>3. Parts(w, r, n, s, m)
  BY <1>whole, <1>1, <1>2, Joined, Zenon
<1>4. Len(r) = n /\ Len(s) = m /\ Len(w) = n + m
  BY <1>1, <1>2, <1>3 DEF IsSeq, Parts
<1>5. PICK j \in 1..(n + m) : x \in w[j].call.makes
  BY <1>4, <1>whole DEF Makes
<1>6. CASE j \in 1..n
  BY <1>3, <1>4, <1>5, <1>6 DEF Parts, Makes
<1>7. CASE j \in (n + 1)..(n + m)
  <2>1. j - n \in 1..m
    BY <1>7
  <2>2. QED  BY <1>3, <1>4, <1>5, <1>7, <2>1 DEF Parts, Makes
<1>8. j \in 1..n \/ j \in (n + 1)..(n + m)
  OBVIOUS
<1>9. QED  BY <1>6, <1>7, <1>8

LEMMA ShunsBoth ==
    ASSUME NEW r, NEW s, Shuns(r), Shuns(s)
    PROVE  Shuns(r \o s)
  BY MakesEither, ListingBoth DEF Shuns

LEMMA ShunsCalls ==
    ASSUME NEW calls, Len(calls) \in Nat,
           \A j \in 1..Len(calls) : /\ Deployed("keycloak") \notin calls[j].makes
                                    /\ Pod \notin calls[j].makes /\ Edited \notin calls[j].makes
    PROVE  Shuns(Must(calls)) /\ Shuns(May(calls)) /\ Shuns(Try(calls))
<1>1. Len(Must(calls)) = Len(calls) /\ Len(May(calls)) = Len(calls)
      /\ Len(Try(calls)) = Len(calls)
  BY GroupIsSeq DEF IsSeq
<1>2. \A j \in 1..Len(calls) : /\ Must(calls)[j].call = calls[j]
                               /\ May(calls)[j].call = calls[j]
                               /\ Try(calls)[j].call = calls[j]
  BY DEF Must, May, Try
<1>3. QED  BY <1>1, <1>2, ListingCalls DEF Makes, Shuns

Plain(call) ==
    Deployed("keycloak") \notin call.makes /\ Pod \notin call.makes /\ Edited \notin call.makes

LEMMA ShunsOne ==
    ASSUME NEW a, Plain(a)
    PROVE  Shuns(Must(<<a>>)) /\ Shuns(May(<<a>>)) /\ Shuns(Try(<<a>>))
<1> DEFINE calls == <<a>>
<1>1. Len(calls) = 1 /\ calls[1] = a
  OBVIOUS
<1> HIDE DEF calls
<1>2. \A j \in 1..Len(calls) : j = 1
  BY <1>1
<1>3. Shuns(Must(calls)) /\ Shuns(May(calls)) /\ Shuns(Try(calls))
  BY <1>1, <1>2, ShunsCalls DEF Plain
<1>4. QED  BY <1>3 DEF calls

LEMMA ShunsTwo ==
    ASSUME NEW a, NEW b, Plain(a), Plain(b)
    PROVE  Shuns(Must(<<a, b>>)) /\ Shuns(May(<<a, b>>))
<1> DEFINE calls == <<a, b>>
<1>1. Len(calls) = 2 /\ calls[1] = a /\ calls[2] = b
  OBVIOUS
<1> HIDE DEF calls
<1>2. \A j \in 1..Len(calls) : j = 1 \/ j = 2
  BY <1>1
<1>3. Shuns(Must(calls)) /\ Shuns(May(calls))
  BY <1>1, <1>2, ShunsCalls DEF Plain
<1>4. QED  BY <1>3 DEF calls

LEMMA ShunsThree ==
    ASSUME NEW a, NEW b, NEW d, Plain(a), Plain(b), Plain(d)
    PROVE  Shuns(Must(<<a, b, d>>)) /\ Shuns(May(<<a, b, d>>))
<1> DEFINE calls == <<a, b, d>>
<1>1. Len(calls) = 3 /\ calls[1] = a /\ calls[2] = b /\ calls[3] = d
  OBVIOUS
<1> HIDE DEF calls
<1>2. \A j \in 1..Len(calls) : j = 1 \/ j = 2 \/ j = 3
  BY <1>1
<1>3. Shuns(Must(calls)) /\ Shuns(May(calls))
  BY <1>1, <1>2, ShunsCalls DEF Plain
<1>4. QED  BY <1>3 DEF calls

LEMMA ShunsFour ==
    ASSUME NEW a, NEW b, NEW d, NEW e, Plain(a), Plain(b), Plain(d), Plain(e)
    PROVE  Shuns(Must(<<a, b, d, e>>))
<1> DEFINE calls == <<a, b, d, e>>
<1>1. Len(calls) = 4 /\ calls[1] = a /\ calls[2] = b /\ calls[3] = d /\ calls[4] = e
  OBVIOUS
<1> HIDE DEF calls
<1>2. \A j \in 1..Len(calls) : j = 1 \/ j = 2 \/ j = 3 \/ j = 4
  BY <1>1
<1>3. Shuns(Must(calls))
  BY <1>1, <1>2, ShunsCalls DEF Plain
<1>4. QED  BY <1>3 DEF calls

LEMMA ShunsFive ==
    ASSUME NEW a, NEW b, NEW d, NEW e, NEW g,
           Plain(a), Plain(b), Plain(d), Plain(e), Plain(g)
    PROVE  Shuns(Must(<<a, b, d, e, g>>))
<1> DEFINE calls == <<a, b, d, e, g>>
<1>1. Len(calls) = 5 /\ calls[1] = a /\ calls[2] = b /\ calls[3] = d /\ calls[4] = e
      /\ calls[5] = g
  OBVIOUS
<1> HIDE DEF calls
<1>2. \A j \in 1..Len(calls) : j = 1 \/ j = 2 \/ j = 3 \/ j = 4 \/ j = 5
  BY <1>1
<1>3. Shuns(Must(calls))
  BY <1>1, <1>2, ShunsCalls DEF Plain
<1>4. QED  BY <1>3 DEF calls

LEMMA ShunsNone == Shuns(<<>>)
<1>1. Listing(<<>>) /\ Len(<<>>) = 0
  BY ShapeNone DEF Listing, Shape
<1>2. QED  BY <1>1 DEF Shuns, Makes

LEMMA ShunsIf ==
    ASSUME NEW feature, NEW c, NEW r, Shuns(r)
    PROVE  Shuns(If(feature, c, r))
  BY ShunsNone DEF If

LEMMA PlainShuns ==
    /\ Shuns(MetalLB) /\ Shuns(Istio) /\ Shuns(CertManager) /\ Shuns(MetricsServer)
    /\ Shuns(VPA) /\ Shuns(KEDA) /\ Shuns(VaultInstaller)
<1>1. Shuns(MetalLB) /\ Shuns(MetricsServer) /\ Shuns(VaultInstaller)
  <2>1. /\ Plain(Call("metallb", {}, {Deployed("metallb")}))
        /\ Plain(Call("addressPool", {Deployed("metallb")}, {Deployed("pool")}))
        /\ Plain(Call("metricsServer", {}, {Deployed("metrics-server")}))
        /\ Plain(Call("vault", {}, {Deployed("vault")}))
    BY Apart DEF Plain, Call
  <2>2. QED  BY <2>1, ShunsOne, ShunsTwo DEF MetalLB, MetricsServer, VaultInstaller
<1>istio. Shuns(Istio)
  <2>1. /\ Plain(Call("istioctl", {}, {Crds("istio"), Namespace("istio-system")}))
        /\ Plain(Call("labelDefault", {}, {Injected("default")}))
    BY Apart DEF Plain, Call
  <2>2. QED  BY <2>1, ShunsTwo DEF Istio
<1>2. Shuns(CertManager)
  <2>1. /\ Plain(Call("certManager", {}, {Crds("cert-manager")}))
        /\ Plain(CreateIssuer) /\ Plain(CreateCertificates)
    BY Apart DEF Plain, Call, CreateIssuer, CreateCertificates
  <2>2. QED  BY <2>1, ShunsThree DEF CertManager
<1>3. Shuns(VPA) /\ Shuns(KEDA)
  <2>1. /\ Plain(InstallHelm)
        /\ Plain(Call("vpa", {Deployed("helm")}, {Deployed("vpa")}))
        /\ Plain(Call("keda", {Deployed("helm")}, {Deployed("keda")}))
    BY Apart DEF InstallHelm, Plain, Call
  <2>2. QED  BY <2>1, ShunsTwo DEF VPA, KEDA
<1>4. QED  BY <1>1, <1>istio, <1>2, <1>3

LEMMA StorageShuns == Shuns(NFSProvisioner)
<1>1. Shuns(Must(<<InstallHelm>>)) /\ Shuns(Must(<<InstallDynamicProvisioner>>))
  <2>1. Plain(InstallHelm) /\ Plain(InstallDynamicProvisioner)
    BY Apart DEF InstallHelm, InstallDynamicProvisioner, Call, Plain
  <2>2. QED  BY <2>1, ShunsOne
<1>2. Shuns(CreateStaticStorageClass)
  <2>1. /\ Plain(Replacing(Call("deleteNfsStorage", {}, {}), {Class("nfs-storage")}))
        /\ Plain(Call("nfsStatic", {}, {Class("nfs-static")}))
    BY Apart DEF Plain, Call, Replacing
  <2>2. QED  BY <2>1, ShunsOne, ShunsBoth DEF CreateStaticStorageClass
<1>3. QED  BY <1>1, <1>2, ShunsBoth DEF NFSProvisioner

LEMMA SecretsOperatorShuns == ASSUME NEW c PROVE Shuns(VaultSecretsOperator(c))
<1>1. Shuns(Must(<<InstallHelm, Call("vso", {Deployed("helm")}, {Crds("vso")})>>))
  <2>1. Plain(InstallHelm) /\ Plain(Call("vso", {Deployed("helm")}, {Crds("vso")}))
    BY Apart DEF InstallHelm, Plain, Call
  <2>2. QED  BY <2>1, ShunsTwo
<1>2. ASSUME NEW n PROVE Shuns(VsoResources(n))
  <2>1. /\ Plain(Replacing(Call("vsoNamespace", {}, {Namespace(n)}), {Injected(n)}))
        /\ Plain(Call("vsoSecrets", {Crds("vso"), Namespace(n)}, {Wanted(n)}))
    BY Apart DEF Plain, Call, Replacing
  <2>2. QED  BY <2>1, ShunsOne, ShunsBoth DEF VsoResources
<1>3. Shuns(May(<<WaitForSecrets(c)>>))
  <2>1. Plain(WaitForSecrets(c))
    BY DEF WaitForSecrets, Call, Plain
  <2>2. QED  BY <2>1, ShunsOne
<1>4. QED  BY <1>1, <1>2, <1>3, ShunsBoth, ShunsIf DEF VaultSecretsOperator

LEMMA MonitoringShuns == ASSUME NEW c PROVE Shuns(Monitoring(c))
<1>1. Shuns(Must(MonitoringFirst))
  <2>1. /\ Plain(MonitoringNamespace) /\ Plain(CreateNFSStorage)
        /\ Plain(InstallPrometheusOperator) /\ Plain(InstallPrometheus)
        /\ Plain(CreateGrafanaSecret)
    BY Apart DEF MonitoringNamespace, CreateNFSStorage, InstallPrometheusOperator,
                 InstallPrometheus, CreateGrafanaSecret, Plain, Call
  <2>2. QED  BY <2>1, ShunsFive DEF MonitoringFirst
<1>2. Shuns(Must(InstallGrafana))
  <2>1. Plain(Datasources("grafanaDatasources", {"prometheus"}))
        /\ Plain(Call("grafana", {Namespace("monitoring")}, {Deployed("grafana")}))
    BY Apart DEF Datasources, Replacing, Plain, Call
  <2>2. QED  BY <2>1, ShunsTwo DEF InstallGrafana
<1>3. Shuns(Must(MonitoringLast))
  <2>1. Plain(InstallNodeExporter) /\ Plain(InstallKubeStateMetrics) /\ Plain(InstallAlertmanager)
    BY Apart DEF InstallNodeExporter, InstallKubeStateMetrics, InstallAlertmanager, Call, Plain
  <2>2. QED  BY <2>1, ShunsThree DEF MonitoringLast
<1>4. Shuns(May(<<InstallCertManagerMonitoring>>)) /\ Shuns(May(<<CreateMonitoringGateways>>))
      /\ Shuns(May(<<InstallIstioMonitoring>>))
  <2>1. /\ Plain(InstallCertManagerMonitoring) /\ Plain(CreateMonitoringGateways)
        /\ Plain(InstallIstioMonitoring)
    BY Apart DEF InstallCertManagerMonitoring, CreateMonitoringGateways, InstallIstioMonitoring,
                 Call, Plain
  <2>2. QED  BY <2>1, ShunsOne
<1>5. Shuns(If("service_mesh", c,
               May(<<CreateMonitoringGateways>>) \o May(<<InstallIstioMonitoring>>)))
  BY <1>4, ShunsBoth, ShunsIf
<1>6. Shuns(Must(MonitoringFirst) \o Must(InstallGrafana) \o Must(MonitoringLast))
  BY <1>1, <1>2, <1>3, ShunsBoth
<1>7. QED  BY <1>4, <1>5, <1>6, ShunsBoth, MonitoringIs

LEMMA GrafanaShuns ==
    ASSUME NEW f
    PROVE  Shuns(May(<<RestartGrafana(f)>>)) /\ Shuns(Loki(f)) /\ Shuns(Tempo(f)) /\ Shuns(Kiali)
<1> DEFINE restart == RestartGrafana(f)
<1>1. restart.makes \subseteq Loading
  BY DEF RestartGrafana, Replacing, Call, Loading
<1>2. Plain(restart)
  BY <1>1 DEF Loading, Shown, Deployed, Pod, Edited, Plain
<1> HIDE DEF restart
<1>3. ASSUME NEW a, NEW ds \in SUBSET Sources, a.makes = {Source(d) : d \in ds}
      PROVE  Shuns(May(<<a, restart>>))
  <2>1. Plain(a)
    BY <1>3 DEF Source, Deployed, Pod, Edited, Plain
  <2>2. QED  BY <1>2, <2>1, ShunsTwo
<1>4. Shuns(May(<<restart>>))
  BY <1>2, ShunsOne
<1>5. Shuns(Loki(f))
  <2>1. Shuns(Must(<<InstallLoki, InstallAlloy>>))
    <3>1. Plain(InstallLoki) /\ Plain(InstallAlloy)
      BY Apart DEF InstallLoki, InstallAlloy, Call, Plain
    <3>2. QED  BY <3>1, ShunsTwo
  <2>2. Datasources("lokiDatasource", {"prometheus", "loki"}).makes
          = {Source(d) : d \in {"prometheus", "loki"}}
        /\ {"prometheus", "loki"} \in SUBSET Sources
    BY DEF Datasources, Replacing, Call, Sources
  <2>3. Shuns(ConfigureLokiDatasource(f))
    BY <1>3, <2>2 DEF ConfigureLokiDatasource, restart
  <2>4. QED  BY <2>1, <2>3, ShunsBoth DEF Loki
<1>6. Shuns(Tempo(f))
  <2>1. /\ Shuns(Must(<<InstallTempo, InstallOtelCollector>>))
        /\ Shuns(May(<<ConfigureIstioTracing>>))
    <3>1. Plain(InstallTempo) /\ Plain(InstallOtelCollector) /\ Plain(ConfigureIstioTracing)
      BY Apart DEF InstallTempo, InstallOtelCollector, ConfigureIstioTracing, Call, Plain
    <3>2. QED  BY <3>1, ShunsOne, ShunsTwo
  <2>2. Datasources("tempoDatasource", Sources).makes = {Source(d) : d \in Sources}
    BY DEF Datasources, Replacing, Call
  <2>3. Shuns(ConfigureTempoDataSource(f))
    BY <1>3, <2>2 DEF ConfigureTempoDataSource, restart
  <2>4. QED  BY <2>1, <2>3, ShunsBoth DEF Tempo
<1>7. Shuns(Kiali)
  <2>1. /\ Shuns(May(<<Call("grafanaPassword", {Secret("grafana-admin")}, {})>>))
        /\ Shuns(Must(<<InstallKiali>>)) /\ Shuns(May(<<ConfigureKialiIngress>>))
    <3>1. /\ Plain(Call("grafanaPassword", {Secret("grafana-admin")}, {}))
          /\ Plain(InstallKiali) /\ Plain(ConfigureKialiIngress)
      BY Apart DEF InstallKiali, ConfigureKialiIngress, Call, Plain
    <3>2. QED  BY <3>1, ShunsOne
  <2>2. QED  BY <2>1, ShunsBoth DEF Kiali
<1>8. QED  BY <1>4, <1>5, <1>6, <1>7 DEF restart

LEMMA AIShuns == ASSUME NEW c PROVE Shuns(Ollama(c)) /\ Shuns(Karpor(c))
<1>1. Shuns(Ollama(c))
  <2>1. Shuns(Must(<<Call("ollamaNamespace", {}, {Namespace("ollama")})>>))
        /\ Shuns(Must(<<CreateAPIKeySecret>>)) /\ Shuns(Must(<<CreateOllamaStorage>>))
    <3>1. /\ Plain(Call("ollamaNamespace", {}, {Namespace("ollama")}))
          /\ Plain(CreateAPIKeySecret) /\ Plain(CreateOllamaStorage)
      BY Apart DEF CreateAPIKeySecret, CreateOllamaStorage, Call, Plain
    <3>2. QED  BY <3>1, ShunsOne
  <2>2. Shuns(Must(<<BuildDeployment(c)>>))
    <3>1. Plain(BuildDeployment(c))
      BY Apart DEF BuildDeployment, Replacing, Call, Plain
    <3>2. QED  BY <3>1, ShunsOne
  <2>3. Shuns(CreateModelPullJob)
    <3>1. /\ Plain(Replacing(Call("deleteModelJob", {}, {}), {Deployed("model-job")}))
          /\ Plain(Once(Call("modelPull", {Namespace("ollama")}, {Deployed("model-job")}),
                        {Deployed("model-job")}))
      BY Apart DEF Call, Replacing, Once, Plain
    <3>2. QED  BY <3>1, ShunsOne, ShunsBoth DEF CreateModelPullJob
  <2>4. QED  BY <2>1, <2>2, <2>3, ShunsBoth, ShunsIf DEF Ollama
<1>2. Shuns(Karpor(c))
  <2>1. Shuns(Must(KarporFirst))
    <3>1. /\ Plain(InstallHelm) /\ Plain(CreateKarporStorage)
          /\ Plain(Call("karporNamespace", {}, {Namespace("karpor")}))
          /\ Plain(Call("karpor", {Deployed("helm"), Namespace("karpor"), Class("nfs-static")},
                        {Deployed("karpor")}))
      BY Apart DEF InstallHelm, CreateKarporStorage, Plain, Call
    <3>2. QED  BY <3>1, ShunsFour DEF KarporFirst
  <2>2. Shuns(CreateKubeconfig)
    <3>1. /\ Plain(Replacing(Call("deleteKubeconfig", {}, {}), {Deployed("karpor-kubeconfig")}))
          /\ Plain(Once(Call("karporKubeconfig", {Namespace("karpor")},
                             {Deployed("karpor-kubeconfig")}), {Deployed("karpor-kubeconfig")}))
      BY Apart DEF Call, Replacing, Once, Plain
    <3>2. QED  BY <3>1, ShunsOne, ShunsBoth DEF CreateKubeconfig
  <2>3. Shuns(If("service_mesh", c, May(<<CreateKarporGateway>>)))
    <3>1. Plain(CreateKarporGateway)
      BY Apart DEF CreateKarporGateway, Call, Plain
    <3>2. QED  BY <3>1, ShunsOne, ShunsIf
  <2>4. Shuns(EnableAI(c))
    <3>1. Plain(WaitForOllamaModel)
      BY DEF WaitForOllamaModel, Call, Plain
    <3>2. QED  BY <3>1, ShunsOne, ShunsIf DEF EnableAI
  <2>5. QED  BY <2>1, <2>2, <2>3, <2>4, ShunsBoth DEF Karpor, KarporFirst
<1>3. QED  BY <1>1, <1>2

\* No component but Keycloak makes them.
LEMMA PlaceShuns ==
    ASSUME NEW i \in 1..Last, i # 14, NEW c, NEW f
    PROVE  Shuns(Recipe(WorkloadSteps[i].name, c, f))
<1>1. CASE i \in {1, 2, 3, 4, 5, 6, 8}
  <2>1. WorkloadSteps[i].name \in {"MetalLB", "Istio", "CertManager", "MetricsServer", "VPA",
                                   "KEDA", "VaultInstaller"}
    BY <1>1, PlaceNames
  <2>2. QED  BY <2>1, PlainShuns DEF Recipe
<1>2. CASE i = 7
  BY <1>2, PlaceNames, StorageShuns DEF Recipe
<1>3. CASE i = 9
  BY <1>3, PlaceNames, SecretsOperatorShuns DEF Recipe
<1>4. CASE i = 10
  BY <1>4, PlaceNames, MonitoringShuns DEF Recipe
<1>5. CASE i \in {11, 12, 13}
  <2>1. WorkloadSteps[i].name \in {"Loki", "Tempo", "Kiali"}
    BY <1>5, PlaceNames
  <2>2. QED  BY <2>1, GrafanaShuns DEF Recipe
<1>6. CASE i \in {15, 16}
  <2>1. WorkloadSteps[i].name \in {"Ollama", "Karpor"}
    BY <1>6, PlaceNames
  <2>2. QED  BY <2>1, AIShuns DEF Recipe
<1>7. QED  BY <1>1, <1>2, <1>3, <1>4, <1>5, <1>6, PlaceCases

\* So do the two functions that are called apart from an Install.
LEMMA OthersShun ==
    ASSUME NEW name, NEW c, NEW f
    PROVE  Shuns(PostRecipe(name)) /\ Shuns(ConfigureGrafanaOAuth(c, f))
<1>1. Shuns(PostRecipe(name))
  <2>1. Plain(Call("refreshCalico", {}, {CniToken}))
    BY DEF Call, CniToken, Deployed, Pod, Edited, Plain
  <2>2. QED  BY <2>1, ShunsOne, ShunsNone DEF PostRecipe, RefreshCalico
<1>2. Shuns(ConfigureGrafanaOAuth(c, f))
  <2> DEFINE config == Call("oauthConfig", {Secret("monitoring"), LabCA, Namespace("monitoring")}, {})
             patch == Call("oauthPatch", {Deployed("grafana")}, {OAuth})
             restart == RestartGrafana(f)
  <2>1. Plain(config) /\ Plain(patch)
    BY DEF Plain, Call, OAuth, Deployed, Pod, Edited
  <2>2. Plain(restart)
    BY DEF RestartGrafana, Replacing, Call, Shown, Deployed, Pod, Edited, Plain
  <2>3. ConfigureGrafanaOAuth(c, f) = If("monitoring", c, May(<<config, patch, restart>>))
    BY DEF ConfigureGrafanaOAuth
  <2> HIDE DEF config, patch, restart
  <2>4. QED  BY <2>1, <2>2, <2>3, ShunsThree, ShunsIf
<1>3. QED  BY <1>1, <1>2

\* What makes Keycloak's Deployment comes after a call that gives its namespace the
\* label and whose error would have ended Install; the pod is the cluster's to make.
Labelled(r) ==
    /\ Listing(r) /\ ~Makes(r, Pod)
    /\ \A j \in 1..Len(r) :
           Deployed("keycloak") \in r[j].call.makes =>
               \E k \in 1..(j - 1) : /\ r[k].policy = "abort"
                                     /\ Injected("keycloak") \in r[k].call.makes

LEMMA ShunsIsLabelled == ASSUME NEW r, Shuns(r) PROVE Labelled(r)
  BY DEF Shuns, Labelled, Makes

LEMMA LabelledBoth ==
    ASSUME NEW r, NEW s, Labelled(r), Labelled(s)
    PROVE  Labelled(r \o s)
<1> DEFINE w == r \o s
<1>whole. w = r \o s
  OBVIOUS
<1>0. Listing(w) /\ ~Makes(w, Pod)
  BY MakesEither, ListingBoth DEF Labelled
<1> HIDE DEF w
<1>1. PICK n \in Nat : IsSeq(r, n)
  BY DEF Labelled, Listing
<1>2. PICK m \in Nat : IsSeq(s, m)
  BY DEF Labelled, Listing
<1>3. Parts(w, r, n, s, m)
  BY <1>whole, <1>1, <1>2, Joined, Zenon
<1>4. Len(r) = n /\ Len(s) = m /\ Len(w) = n + m
  BY <1>1, <1>2, <1>3 DEF IsSeq, Parts
<1>5. ASSUME NEW j \in 1..(n + m), Deployed("keycloak") \in w[j].call.makes
      PROVE  \E k \in 1..(j - 1) : /\ w[k].policy = "abort"
                                   /\ Injected("keycloak") \in w[k].call.makes
  <2>1. CASE j \in 1..n
    <3>1. w[j] = r[j]
      BY <1>3, <2>1 DEF Parts
    <3>2. PICK k \in 1..(j - 1) : r[k].policy = "abort" /\ Injected("keycloak") \in r[k].call.makes
      BY <1>4, <1>5, <2>1, <3>1 DEF Labelled
    <3>3. w[k] = r[k]
      BY <1>3, <2>1 DEF Parts
    <3>4. QED  BY <3>2, <3>3
  <2>2. CASE j \in (n + 1)..(n + m)
    <3>1. j - n \in 1..m /\ w[j] = s[j - n]
      BY <1>3, <2>2 DEF Parts
    <3>2. PICK k \in 1..(j - n - 1) : s[k].policy = "abort" /\ Injected("keycloak") \in s[k].call.makes
      BY <1>4, <1>5, <3>1 DEF Labelled
    <3>3. n + k \in (n + 1)..(n + m) /\ (n + k) - n = k /\ n + k \in 1..(j - 1)
      BY <2>2
    <3>4. w[n + k] = s[k]
      BY <1>3, <3>3 DEF Parts
    <3>5. QED  BY <3>2, <3>3, <3>4
  <2>3. j \in 1..n \/ j \in (n + 1)..(n + m)
    OBVIOUS
  <2>4. QED  BY <2>1, <2>2, <2>3
<1>6. Labelled(w)
  BY <1>0, <1>4, <1>5 DEF Labelled
<1>7. QED  BY <1>6, <1>whole

LEMMA KeycloakLabels == ASSUME NEW c PROVE Labelled(Keycloak(c, {}))
<1> DEFINE credentials == Must(<<Call("resolveCredentials", {}, {})>>)
           admin == May(<<WaitForAdminSecret>>)
           mtls == If("service_mesh", c, May(<<CreatePostgresMTLS>>))
           deploy == Must(DeployKeycloak)
           wait == Must(<<WaitForKeycloak({})>>)
           realm == Must(ConfigureRealm)
           patch == PatchAPIServer({})
           gateway == If("service_mesh", c, May(<<CreateGateway>>))
           store == May(<<StoreKubeconfigInVault>>)
<1>1. Shuns(credentials) /\ Shuns(admin) /\ Shuns(wait) /\ Shuns(store)
  <2>1. /\ Plain(Call("resolveCredentials", {}, {}))
        /\ Plain(WaitForAdminSecret) /\ Plain(StoreKubeconfigInVault)
    BY Apart DEF WaitForAdminSecret, StoreKubeconfigInVault, Call, Plain
  <2>2. Plain(WaitForKeycloak({}))
    BY DEF WaitForKeycloak, Call, Plain
  <2>3. QED  BY <2>1, <2>2, ShunsOne
<1>2. Shuns(mtls) /\ Shuns(gateway)
  <2>1. Plain(CreatePostgresMTLS) /\ Plain(CreateGateway)
    BY DEF CreatePostgresMTLS, CreateGateway, Call, Strict, Deployed, Pod, Edited, Plain
  <2>2. QED  BY <2>1, ShunsOne, ShunsIf
<1>3. Shuns(realm)
  <2> DEFINE one == Call("createRealm", {Deployed("keycloak")}, {Realm})
             two == Once(Call("createClients", {Realm}, {Clients}), {Clients})
             three == Call("createUsers", {Clients}, {Filled})
  <2>1. Plain(one) /\ Plain(two) /\ Plain(three)
    BY DEF Plain, Call, Once, Realm, Clients, Filled, Deployed, Pod, Edited
  <2>2. ConfigureRealm = <<one, two, three>>
    BY DEF ConfigureRealm
  <2> HIDE DEF one, two, three
  <2>3. QED  BY <2>1, <2>2, ShunsThree
<1>4. Labelled(patch)
  <2>1. \A j \in 1..5 : Pod \notin PatchCalls({})[j].makes
                       /\ Deployed("keycloak") \notin PatchCalls({})[j].makes
    <3>1. /\ PatchCalls({})[1].makes = {} /\ PatchCalls({})[2].makes \subseteq {Alias, Edited}
          /\ PatchCalls({})[3].makes \subseteq {Oidc, Edited} /\ PatchCalls({})[4].makes = {}
          /\ PatchCalls({})[5].makes = {Deployed("oidc-roles")}
      BY DEF PatchCalls, EditManifest, WaitForAPIServer, Replacing, Call
    <3>2. /\ Pod \notin {Alias, Oidc, Edited, Deployed("oidc-roles")}
          /\ Deployed("keycloak") \notin {Alias, Oidc, Edited, Deployed("oidc-roles")}
      BY DEF Pod, Alias, Oidc, Edited, Deployed
    <3>3. \A j \in 1..5 : j = 1 \/ j = 2 \/ j = 3 \/ j = 4 \/ j = 5
      OBVIOUS
    <3>4. QED  BY <3>1, <3>2, <3>3
  <2>2. Len(patch) = 5 /\ Listing(patch) /\ \A j \in 1..5 : patch[j].call = PatchCalls({})[j]
    BY PatchHas, ListingPatch DEF IsSeq
  <2> HIDE DEF patch
  <2>3. QED  BY <2>1, <2>2 DEF Labelled, Makes
<1>5. Labelled(deploy)
  <2>1. /\ Len(DeployKeycloak) = 2 /\ Injected("keycloak") \in DeployKeycloak[1].makes
        /\ Deployed("keycloak") \notin DeployKeycloak[1].makes
        /\ Pod \notin DeployKeycloak[1].makes /\ Pod \notin DeployKeycloak[2].makes
    BY DEF DeployKeycloak, Call, Injected, Namespace, Deployed, Pod
  <2>2. Len(deploy) = 2 /\ Listing(deploy)
    <3>1. IsSeq(Must(DeployKeycloak), 2) /\ 2 \in Nat
      BY <2>1, GroupIsSeq
    <3>2. QED  BY <3>1 DEF IsSeq, Listing
  <2>3. \A j \in 1..2 : deploy[j].policy = "abort" /\ deploy[j].call = DeployKeycloak[j]
    BY <2>1 DEF Must
  <2>4. \A j \in 1..2 : j = 1 \/ j = 2
    OBVIOUS
  <2> HIDE DEF deploy
  <2>5. QED  BY <2>1, <2>2, <2>3, <2>4 DEF Labelled, Makes
<1>6. Keycloak(c, {}) = credentials \o admin \o mtls \o (deploy \o wait \o realm) \o patch
                        \o gateway \o store
  BY KeycloakIs
<1>7. /\ Labelled(credentials) /\ Labelled(admin) /\ Labelled(mtls) /\ Labelled(wait)
      /\ Labelled(realm) /\ Labelled(gateway) /\ Labelled(store)
  BY <1>1, <1>2, <1>3, ShunsIsLabelled
<1> HIDE DEF credentials, admin, mtls, deploy, wait, realm, patch, gateway, store
<1>8. QED  BY <1>4, <1>5, <1>6, <1>7, LabelledBoth

LEMMA PlaceLabels ==
    ASSUME NEW i \in 1..Last, NEW c
    PROVE  Labelled(Recipe(WorkloadSteps[i].name, c, {}))
<1>1. CASE i = 14
  BY <1>1, PlaceNames, KeycloakLabels DEF Recipe
<1>2. CASE i # 14
  BY <1>2, PlaceShuns, ShunsIsLabelled
<1>3. QED  BY <1>1, <1>2

-----------------------------------------------------------------------------
(* Where the API server's manifest is edited *)

Unedited(r) == Listing(r) /\ ~Makes(r, Edited)

LEMMA UneditedBoth ==
    ASSUME NEW r, NEW s, Unedited(r), Unedited(s)
    PROVE  Unedited(r \o s)
  BY MakesEither, ListingBoth DEF Unedited

LEMMA UneditedAt ==
    ASSUME NEW r, NEW n \in Nat, IsSeq(r, n), Unedited(r)
    PROVE  \A j \in 1..n : Edited \notin r[j].call.makes
  BY DEF Unedited, Makes, IsSeq

\* The calls of PatchAPIServer follow the n-th call of Keycloak; no other edits.
PatchedAfter(c, f, n) ==
    \E m \in Nat :
        /\ IsSeq(Keycloak(c, f), n + 5 + m)
        /\ \A j \in 1..5 : Keycloak(c, f)[n + j] = PatchAPIServer(f)[j]
        /\ \A j \in 1..(n + 5 + m) :
              j \notin (n + 1)..(n + 5) => Edited \notin Keycloak(c, f)[j].call.makes

\* They do so at the same place over every cluster.
LEMMA KeycloakAt == ASSUME NEW c PROVE \E n \in Nat : \A f : PatchedAfter(c, f, n)
<1> DEFINE credentials == Must(<<Call("resolveCredentials", {}, {})>>)
           admin == May(<<WaitForAdminSecret>>)
           mtls == If("service_mesh", c, May(<<CreatePostgresMTLS>>))
           deploy(f) == Must(DeployKeycloak) \o Must(<<WaitForKeycloak(f)>>)
                        \o Must(ConfigureRealm)
           gateway == If("service_mesh", c, May(<<CreateGateway>>))
           store == May(<<StoreKubeconfigInVault>>)
           before == credentials \o admin \o mtls
<1>1. /\ Unedited(credentials) /\ Unedited(admin) /\ Unedited(mtls) /\ Unedited(gateway)
      /\ Unedited(store)
  <2>1. /\ Plain(Call("resolveCredentials", {}, {}))
        /\ Plain(WaitForAdminSecret) /\ Plain(StoreKubeconfigInVault)
    BY Apart DEF WaitForAdminSecret, StoreKubeconfigInVault, Call, Plain
  <2>2. Plain(CreatePostgresMTLS) /\ Plain(CreateGateway)
    BY DEF CreatePostgresMTLS, CreateGateway, Call, Strict, Deployed, Pod, Edited, Plain
  <2>3. QED  BY <2>1, <2>2, ShunsOne, ShunsIf DEF Shuns, Unedited
<1>2. \A f : IsSeq(deploy(f), 6)
  <2>1. /\ IsSeq(Must(DeployKeycloak), 2) /\ IsSeq(Must(ConfigureRealm), 3)
        /\ \A f : IsSeq(Must(<<WaitForKeycloak(f)>>), 1)
    <3>1. Len(DeployKeycloak) = 2 /\ Len(ConfigureRealm) = 3
      BY DEF DeployKeycloak, ConfigureRealm
    <3>2. \A a : Len(<<a>>) = 1
      OBVIOUS
    <3>3. QED  BY <3>1, <3>2, GroupIsSeq
  <2>2. \A f : IsSeq(Must(DeployKeycloak) \o Must(<<WaitForKeycloak(f)>>), 2 + 1)
    BY <2>1, SeqBoth
  <2>3. 2 + 1 = 3 /\ 3 + 3 = 6
    OBVIOUS
  <2>4. QED  BY <2>1, <2>2, <2>3, SeqBoth
<1>3. \A f : Unedited(deploy(f))
  <2>1. Unedited(Must(ConfigureRealm))
    <3> DEFINE one == Call("createRealm", {Deployed("keycloak")}, {Realm})
               two == Once(Call("createClients", {Realm}, {Clients}), {Clients})
               three == Call("createUsers", {Clients}, {Filled})
    <3>1. Plain(one) /\ Plain(two) /\ Plain(three)
      BY DEF Plain, Call, Once, Realm, Clients, Filled, Deployed, Pod, Edited
    <3>2. ConfigureRealm = <<one, two, three>>
      BY DEF ConfigureRealm
    <3> HIDE DEF one, two, three
    <3>3. QED  BY <3>1, <3>2, ShunsThree DEF Shuns, Unedited
  <2>2. \A f : Unedited(Must(<<WaitForKeycloak(f)>>))
    <3>1. \A f : Plain(WaitForKeycloak(f))
      BY DEF WaitForKeycloak, Call, Plain
    <3>2. QED  BY <3>1, ShunsOne DEF Shuns, Unedited
  <2>3. Unedited(Must(DeployKeycloak))
    <3>1. /\ Len(DeployKeycloak) = 2
          /\ \A j \in 1..2 : Edited \notin DeployKeycloak[j].makes
      <4>1. /\ Len(DeployKeycloak) = 2 /\ Edited \notin DeployKeycloak[1].makes
            /\ Edited \notin DeployKeycloak[2].makes
        BY DEF DeployKeycloak, Call, Injected, Namespace, Deployed, Edited
      <4>2. \A j \in 1..2 : j = 1 \/ j = 2
        OBVIOUS
      <4>3. QED  BY <4>1, <4>2
    <3>2. Len(Must(DeployKeycloak)) = 2 /\ Listing(Must(DeployKeycloak))
      <4>1. 2 \in Nat /\ IsSeq(Must(DeployKeycloak), 2)
        BY <3>1, GroupIsSeq
      <4>2. QED  BY <4>1 DEF IsSeq, Listing
    <3>3. \A j \in 1..2 : Must(DeployKeycloak)[j].call = DeployKeycloak[j]
      BY <3>1 DEF Must
    <3>4. QED  BY <3>1, <3>2, <3>3 DEF Unedited, Makes
  <2>4. QED  BY <2>1, <2>2, <2>3, UneditedBoth
<1>4. \A f : Keycloak(c, f) = before \o deploy(f) \o PatchAPIServer(f) \o gateway \o store
  BY KeycloakIs
<1> HIDE DEF credentials, admin, mtls, deploy, gateway, store
<1>5. Unedited(before)
  BY <1>1, UneditedBoth
<1> HIDE DEF before
<1>6. PICK n \in Nat : IsSeq(before, n)
  BY <1>5 DEF Unedited, Listing
<1>7. PICK g \in Nat : IsSeq(gateway, g)
  BY <1>1 DEF Unedited, Listing
<1>8. PICK k \in Nat : IsSeq(store, k)
  BY <1>1 DEF Unedited, Listing
<1>9. ASSUME NEW f PROVE PatchedAfter(c, f, n + 6)
  <2> DEFINE u == before \o deploy(f)
             v == u \o PatchAPIServer(f)
             x == v \o gateway
             w == x \o store
  <2>1. Unedited(u)
    BY <1>3, <1>5, UneditedBoth
  <2>2. IsSeq(u, n + 6) /\ n + 6 \in Nat
    BY <1>2, <1>6, SeqBoth
  <2>parts. v = u \o PatchAPIServer(f) /\ x = v \o gateway /\ w = x \o store
    OBVIOUS
  <2>3. Keycloak(c, f) = w
    BY <1>4
  <2> HIDE DEF u, v, x, w
  <2>4. Pasted(v, u, n + 6, PatchAPIServer(f), 5)
    BY <2>2, <2>parts, PatchHas, PartsAre
  <2>5. Pasted(x, v, n + 6 + 5, gateway, g) /\ n + 6 + 5 \in Nat
    <3>1. IsSeq(v, n + 6 + 5) /\ n + 6 + 5 \in Nat
      BY <2>4 DEF Pasted
    <3>2. QED  BY <3>1, <1>7, <2>parts, PartsAre
  <2>6. Pasted(w, x, n + 6 + 5 + g, store, k) /\ n + 6 + 5 + g \in Nat
    <3>1. IsSeq(x, n + 6 + 5 + g) /\ n + 6 + 5 + g \in Nat
      BY <2>5 DEF Pasted
    <3>2. QED  BY <3>1, <1>8, <2>parts, PartsAre
  <2>7. \A j \in 1..(n + 6) : w[j] = u[j]
    BY <2>4, <2>5, <2>6 DEF Pasted
  <2>8. ASSUME NEW j \in 1..5 PROVE w[n + 6 + j] = PatchAPIServer(f)[j]
    <3>1. n + 6 + j \in 1..(n + 6 + 5) /\ n + 6 + j \in 1..(n + 6 + 5 + g)
      OBVIOUS
    <3>2. QED  BY <3>1, <2>4, <2>5, <2>6 DEF Pasted
  <2>9. ASSUME NEW j \in 1..(n + 6 + 5 + (g + k)), j \notin (n + 6 + 1)..(n + 6 + 5)
        PROVE  Edited \notin w[j].call.makes
    <3>1. CASE j \in 1..(n + 6)
      BY <3>1, <2>1, <2>2, <2>7, UneditedAt
    <3>2. CASE j \in (n + 6 + 5 + 1)..(n + 6 + 5 + g)
      <4>1. j - (n + 6 + 5) \in 1..g /\ n + 6 + 5 + (j - (n + 6 + 5)) = j
            /\ j \in 1..(n + 6 + 5 + g)
        BY <3>2
      <4>2. w[j] = gateway[j - (n + 6 + 5)]
        BY <4>1, <2>5, <2>6 DEF Pasted
      <4>3. QED  BY <4>1, <4>2, <1>1, <1>7, UneditedAt
    <3>3. CASE j > n + 6 + 5 + g
      <4>1. j - (n + 6 + 5 + g) \in 1..k /\ n + 6 + 5 + g + (j - (n + 6 + 5 + g)) = j
        BY <3>3
      <4>2. w[j] = store[j - (n + 6 + 5 + g)]
        BY <4>1, <2>6 DEF Pasted
      <4>3. QED  BY <4>1, <4>2, <1>1, <1>8, UneditedAt
    <3>4. QED  BY <2>9, <3>1, <3>2, <3>3
  <2>10. g + k \in Nat /\ IsSeq(w, n + 6 + 5 + (g + k))
    <3>1. n + 6 + 5 + g + k = n + 6 + 5 + (g + k)
      OBVIOUS
    <3>2. QED  BY <3>1, <2>6 DEF Pasted
  <2>11. QED  BY <2>3, <2>8, <2>9, <2>10 DEF PatchedAfter
<1>10. QED  BY <1>9

-----------------------------------------------------------------------------
(* Before the storage classes are set up *)

\* No call claims storage of the class that is deleted then.
Early(r) == Listing(r) /\ \A j \in 1..Len(r) : Class("nfs-storage") \notin r[j].call.needs

LEMMA EarlyBoth ==
    ASSUME NEW r, NEW s, Early(r), Early(s)
    PROVE  Early(r \o s)
<1> DEFINE w == r \o s
<1>whole. w = r \o s
  OBVIOUS
<1> HIDE DEF w
<1>1. PICK n \in Nat : IsSeq(r, n)
  BY DEF Early, Listing
<1>2. PICK m \in Nat : IsSeq(s, m)
  BY DEF Early, Listing
<1>3. Parts(w, r, n, s, m)
  BY <1>whole, <1>1, <1>2, Joined, Zenon
<1>4. Len(r) = n /\ Len(s) = m /\ Len(w) = n + m
  BY <1>1, <1>2, <1>3 DEF IsSeq, Parts
<1>5. ASSUME NEW j \in 1..(n + m) PROVE Class("nfs-storage") \notin w[j].call.needs
  <2>1. CASE j \in 1..n
    BY <1>3, <1>4, <2>1 DEF Parts, Early
  <2>2. CASE j \in (n + 1)..(n + m)
    <3>1. j - n \in 1..m
      BY <2>2
    <3>2. QED  BY <1>3, <1>4, <2>2, <3>1 DEF Parts, Early
  <2>3. QED  BY <2>1, <2>2
<1>6. Listing(w)
  BY <1>whole, ListingBoth DEF Early
<1>7. QED  BY <1>4, <1>5, <1>6, <1>whole DEF Early

Unclaimed(calls) ==
    Len(calls) \in Nat /\ \A j \in 1..Len(calls) : Class("nfs-storage") \notin calls[j].needs

LEMMA UnclaimedTwo ==
    ASSUME NEW a, NEW b,
           Class("nfs-storage") \notin a.needs, Class("nfs-storage") \notin b.needs
    PROVE  Unclaimed(<<a, b>>)
<1> DEFINE w == <<a, b>>
<1>1. Len(w) = 2 /\ w[1] = a /\ w[2] = b
  OBVIOUS
<1> HIDE DEF w
<1>2. \A j \in 1..2 : Class("nfs-storage") \notin w[j].needs
  <2>1. \A j \in 1..2 : j = 1 \/ j = 2
    OBVIOUS
  <2>2. QED  BY <1>1, <2>1
<1>3. Unclaimed(w)
  BY <1>1, <1>2 DEF Unclaimed
<1>4. QED  BY <1>3 DEF w

LEMMA UnclaimedThree ==
    ASSUME NEW a, NEW b, NEW c, Class("nfs-storage") \notin a.needs,
           Class("nfs-storage") \notin b.needs, Class("nfs-storage") \notin c.needs
    PROVE  Unclaimed(<<a, b, c>>)
<1> DEFINE w == <<a, b, c>>
<1>1. Len(w) = 3 /\ w[1] = a /\ w[2] = b /\ w[3] = c
  OBVIOUS
<1> HIDE DEF w
<1>2. \A j \in 1..3 : Class("nfs-storage") \notin w[j].needs
  <2>1. \A j \in 1..3 : j = 1 \/ j = 2 \/ j = 3
    OBVIOUS
  <2>2. QED  BY <1>1, <2>1
<1>3. Unclaimed(w)
  BY <1>1, <1>2 DEF Unclaimed
<1>4. QED  BY <1>3 DEF w

LEMMA EarlyCalls ==
    ASSUME NEW calls, Unclaimed(calls)
    PROVE  Early(Must(calls)) /\ Early(Try(calls))
<1>1. Len(Must(calls)) = Len(calls) /\ Len(Try(calls)) = Len(calls)
  BY GroupIsSeq DEF IsSeq, Unclaimed
<1>2. \A j \in 1..Len(calls) : Must(calls)[j].call = calls[j] /\ Try(calls)[j].call = calls[j]
  BY DEF Must, Try
<1>3. QED  BY <1>1, <1>2, ListingCalls DEF Early, Unclaimed

LEMMA PlaceEarly ==
    ASSUME NEW i \in 1..7, NEW c
    PROVE  Early(Recipe(WorkloadSteps[i].name, c, {}))
<1>kinds. Class("nfs-storage") \notin {Deployed("metallb"), Deployed("helm"), Crds("cert-manager"),
                                      Namespace("istio-system")}
  BY DEF Class, Deployed, Crds, Namespace
<1>1. Early(MetalLB) /\ Early(Istio)
  <2>1. Early(Must(<<Call("metallb", {}, {Deployed("metallb")}),
                     Call("addressPool", {Deployed("metallb")}, {Deployed("pool")})>>))
    BY <1>kinds, UnclaimedTwo, EarlyCalls DEF Call
  <2>2. Early(Must(<<Call("istioctl", {}, {Crds("istio"), Namespace("istio-system")}),
                     Call("labelDefault", {}, {Injected("default")})>>))
    BY UnclaimedTwo, EarlyCalls DEF Call
  <2>3. QED  BY <2>1, <2>2 DEF MetalLB, Istio
<1>2. Early(CertManager)
  <2>1. Early(Must(<<Call("certManager", {}, {Crds("cert-manager")}),
                     CreateIssuer, CreateCertificates>>))
    BY <1>kinds, UnclaimedThree, EarlyCalls DEF CreateIssuer, CreateCertificates, Call
  <2>2. QED  BY <2>1 DEF CertManager
<1>3. Early(MetricsServer) /\ Early(VPA) /\ Early(KEDA)
  <2>1. Early(Must(<<Call("metricsServer", {}, {Deployed("metrics-server")})>>))
    BY EarlyCalls DEF Unclaimed, Call
  <2>2. /\ Early(Must(<<InstallHelm, Call("vpa", {Deployed("helm")}, {Deployed("vpa")})>>))
        /\ Early(Must(<<InstallHelm, Call("keda", {Deployed("helm")}, {Deployed("keda")})>>))
    BY <1>kinds, UnclaimedTwo, EarlyCalls DEF InstallHelm, Call
  <2>3. QED  BY <2>1, <2>2 DEF MetricsServer, VPA, KEDA
<1>4. Early(NFSProvisioner)
  <2>1. Early(Must(<<InstallHelm>>)) /\ Early(Must(<<InstallDynamicProvisioner>>))
    BY <1>kinds, EarlyCalls DEF Unclaimed, InstallHelm, InstallDynamicProvisioner, Call
  <2>2. Early(Try(<<Replacing(Call("deleteNfsStorage", {}, {}), {Class("nfs-storage")})>>))
    BY EarlyCalls DEF Unclaimed, Replacing, Call
  <2>3. Early(Must(<<Call("nfsStatic", {}, {Class("nfs-static")})>>))
    BY EarlyCalls DEF Unclaimed, Call
  <2>4. QED  BY <2>1, <2>2, <2>3, EarlyBoth DEF NFSProvisioner, CreateStaticStorageClass
<1>5. WorkloadSteps[i].name \in {"MetalLB", "Istio", "CertManager", "MetricsServer", "VPA", "KEDA",
                                "NFSProvisioner"}
  BY PlaceNames
<1>6. QED  BY <1>1, <1>2, <1>3, <1>4, <1>5 DEF Recipe

=============================================================================
