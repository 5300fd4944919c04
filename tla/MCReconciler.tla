---------------------------- MODULE MCReconciler ----------------------------
(* Instances of Reconciler for TLC.                                         *)
EXTENDS Reconciler, TLC

CONSTANTS none, notOffered, malformed

MCSecretName == {"regcred"}
MCPrefix     == [s \in MCSecretName |-> "sp-mo-" \o s]
MCNamespace1 == {"metrics-operator"}
MCNamespace2 == {"metrics-operator", "monitoring"}

(* A secret of another service provider in the tenant namespace, named like *)
(* the source of the chart pull secret, and the storage of the Helm release.*)
MCBystander == {Obj("Platform", "Secret", "regcred"),
                Obj("Workload", "Secret", "sh.helm.release.v1")}

Full(ns) == [chart |-> "regcred", images |-> <<"regcred">>, namespace |-> ns,
             ca |-> TRUE]
Bare(ns) == [chart |-> none, images |-> << >>, namespace |-> ns, ca |-> FALSE]
Lean(ns) == [chart |-> none, images |-> << >>, namespace |-> ns, ca |-> TRUE]

TwoKinds == <<"Metric", "ManagedMetric">>
OneKind  == <<"Metric">>

(* One version needs pull secrets, the other does not.                      *)
RolloutConfigs == {[v1 |-> Full("metrics-operator"), v2 |-> Lean("metrics-operator")]}

(* The provider's settings of the one version move: everything dropped and  *)
(* taken back, unreadable values, the version withdrawn; objects may vanish *)
(* under the controller.                                                    *)
SettingsConfigs == {[v1 |-> Full("metrics-operator")], [v1 |-> Bare("metrics-operator")],
                    [v1 |-> malformed], [v1 |-> notOffered]}
SettingsDrifters == {ImageSecret("regcred"), ServiceAccount("metrics-operator")}

(* Liveness: the same, on a smaller inventory.                              *)
Small == [chart |-> none, images |-> <<"regcred">>, namespace |-> "metrics-operator",
          ca |-> FALSE]
LivenessConfigs == {[v1 |-> Small], [v1 |-> malformed]}
LivenessDrifters == {ServiceAccount("metrics-operator")}

(* The namespace on the ControlPlane moves.                                 *)
NamespaceConfigs == {[v1 |-> Bare("metrics-operator")], [v1 |-> Bare("monitoring")]}

(* The version is withdrawn.                                                *)
WithdrawnConfigs == {[v1 |-> Bare("metrics-operator")], [v1 |-> notOffered]}
=============================================================================
