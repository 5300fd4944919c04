----------------------------- MODULE Inventory -----------------------------
(***************************************************************************)
(* The objects one MetricsOperator resource owns on the three clusters it   *)
(* touches, as createObjectManager and the packages it calls register them: *)
(* their order, their dependencies, the namespaces they live in, and what   *)
(* the three orphan cleaners list and keep.  Everything here is a pure      *)
(* function of the desired state, the part of a ProviderConfig version that *)
(* decides which objects exist.                                             *)
(***************************************************************************)
EXTENDS Naturals, Sequences

CONSTANTS
    SecretName,        \* pull secrets a ProviderConfig can name
    NoSecret,          \* chartPullSecret == ""
    PrefixSecretName,  \* secret name -> name of its copy in the tenant namespace
    Namespace,         \* namespaces metrics-operator may use on the ControlPlane
    Version,           \* values of MetricsOperator.spec.version
    NotOffered,        \* the ProviderConfig has no entry for a version
    Malformed,         \* it has one whose Helm values cannot be read
    Bystander          \* objects of other owners in the namespaces the cleaners list

Obj(cluster, kind, name) == [cluster |-> cluster, kind |-> kind, name |-> name]

----------------------------------------------------------------------------
(* The desired state one ProviderConfig version stands for.                 *)

Desired == [chart     : SecretName \cup {NoSecret},
            images    : Seq(SecretName),
            namespace : Namespace,
            ca        : BOOLEAN]

(* What a ProviderConfig offers, version by version; the CA bundle is one   *)
(* for all of them.                                                         *)
ProviderConfig ==
    {c \in [Version -> Desired \cup {NotOffered, Malformed}] :
        \A v, w \in Version : {c[v], c[w]} \subseteq Desired => c[v].ca = c[w].ca}

selectMetricsOperatorVersion(requestedVersion, config) == config[requestedVersion]

----------------------------------------------------------------------------
(* Platform cluster, tenant namespace.                                      *)

ChartSecret(s) == Obj("Platform", "Secret", PrefixSecretName[s])

OCIRepository == Obj("Platform", "OCIRepository", "metrics-operator")
HelmRelease   == Obj("Platform", "HelmRelease", "metrics-operator")

(* Workload cluster: the instance namespace and what lies in it.            *)

InstanceNamespace == Obj("Workload", "Namespace", "metrics-operator-instance")
TokenSecret ==
    Obj("Workload", "Secret", "kube-api-access-metrics-operator-server")
ImageSecret(s) == Obj("Workload", "Secret", s)
CaConfigMap    == Obj("Workload", "ConfigMap", "custom-ca-bundle")

(* ControlPlane.  A service account is named by the namespace it lives in.  *)

CpNamespace(n)     == Obj("ControlPlane", "Namespace", n)
ServiceAccount(n)  == Obj("ControlPlane", "ServiceAccount", n)
ClusterRoleBinding ==
    Obj("ControlPlane", "ClusterRoleBinding", "metrics-operator-server")

OwnObject ==
    {OCIRepository, HelmRelease, InstanceNamespace, TokenSecret, CaConfigMap,
     ClusterRoleBinding}
    \cup {ChartSecret(s)    : s \in SecretName}
    \cup {ImageSecret(s)    : s \in SecretName}
    \cup {CpNamespace(n)    : n \in Namespace}
    \cup {ServiceAccount(n) : n \in Namespace}

Object == OwnObject \cup Bystander

Flux == {OCIRepository, HelmRelease}

----------------------------------------------------------------------------
(* The order in which a pass visits the objects: cluster by cluster as      *)
(* AddCluster was called, and in each cluster as AddObject was called.      *)

PlatformObjects(d) ==
    (IF d.chart = NoSecret THEN << >> ELSE <<ChartSecret(d.chart)>>)
        \o <<OCIRepository, HelmRelease>>

WorkloadObjects(d) ==
    <<InstanceNamespace, TokenSecret>>
        \o [i \in 1..Len(d.images) |-> ImageSecret(d.images[i])]
        \o (IF d.ca THEN <<CaConfigMap>> ELSE << >>)

ControlPlaneObjects(d) ==
    <<CpNamespace(d.namespace), ServiceAccount(d.namespace), ClusterRoleBinding>>

ManagedObjects(d) ==
    PlatformObjects(d) \o WorkloadObjects(d) \o ControlPlaneObjects(d)

InInventory(d, o) == \E i \in 1..Len(ManagedObjects(d)) : ManagedObjects(d)[i] = o

(* <<dependent, dependency>>: the dependency is deleted after the dependent. *)
DependsOn(n) ==
    {<<HelmRelease, OCIRepository>>,
     <<TokenSecret, ServiceAccount(n)>>,
     <<ServiceAccount(n), CpNamespace(n)>>}

Dependencies(d, o) == {e[2] : e \in {x \in DependsOn(d.namespace) : x[1] = o}}
Dependents(d, o) == {e[1] : e \in {x \in DependsOn(d.namespace) : x[2] = o}}

----------------------------------------------------------------------------
(* Namespaces: deleting one deletes everything in it.                       *)

IsContentOf(o, ns) ==
    /\ o.cluster = ns.cluster
    /\ \/ /\ ns = InstanceNamespace
          /\ o.kind # "Namespace"
       \/ /\ ns.cluster = "ControlPlane"
          /\ o.kind = "ServiceAccount"
          /\ o.name = ns.name

ManagedNamespace == {InstanceNamespace} \cup {CpNamespace(n) : n \in Namespace}

(* Objects the API server keeps, with a deletion timestamp, until their own *)
(* controller lets them go.                                                 *)
HasFinalizer(o) == o.kind \in {"Namespace", "OCIRepository", "HelmRelease"}

----------------------------------------------------------------------------
(* The cleaners, in the order createObjectManager adds them: ConfigMaps and *)
(* Secrets of the instance namespace, Secrets of the tenant namespace.      *)

WorkloadCleanersOnly == 2
NumCleaners == 3

CleanerScope(i) ==
    {o \in Object : \/ i = 1 /\ o.cluster = "Workload" /\ o.kind = "ConfigMap"
                    \/ i = 2 /\ o.cluster = "Workload" /\ o.kind = "Secret"
                    \/ i = 3 /\ o.cluster = "Platform" /\ o.kind = "Secret"}

(* What they keep: the names the pass registered for each of them.          *)
CopiesToKeep(d) ==
    (IF d.ca THEN {CaConfigMap} ELSE {})
    \cup {ImageSecret(d.images[i]) : i \in 1..Len(d.images)}
    \cup (IF d.chart = NoSecret THEN {} ELSE {ChartSecret(d.chart)})
KeepNoToken(d) == CopiesToKeep(d)
Keep(d) == CopiesToKeep(d) \cup {TokenSecret}

(* All they are there to reach.                                             *)
Swept == {o \in Object : /\ o.kind \in {"Secret", "ConfigMap"}
                         /\ o.cluster \in {"Platform", "Workload"}}

ASSUME PrefixAssumption ==
    \A s, t \in SecretName : PrefixSecretName[s] = PrefixSecretName[t] => s = t

ASSUME BystanderAssumption ==
    /\ Bystander \cap OwnObject = {}
    /\ \A b \in Bystander : b = Obj(b.cluster, b.kind, b.name)

ASSUME ValueAssumption ==
    /\ NoSecret \notin SecretName
    /\ NotOffered \notin Desired
    /\ Malformed \notin Desired
    /\ NotOffered # Malformed
=============================================================================
