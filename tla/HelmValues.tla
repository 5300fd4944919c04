----------------------------- MODULE HelmValues -----------------------------
(***************************************************************************)
(* What createObjectManager does to the Helm values of a version before it  *)
(* hands them to the HelmRelease: it mounts the token of the ControlPlane   *)
(* into both containers of the pod, points them to its API server, names    *)
(* the configuration namespace, and mounts the CA bundle if there is one.   *)
(* The values come from a ProviderConfig and may hold anything, the same    *)
(* names and paths included.                                                *)
(***************************************************************************)
EXTENDS Naturals, SequencesExt

CONSTANTS
    Missing,        \* the key is not there
    Null,           \* it is, with the JSON value null
    Malformed,      \* its value has not the expected JSON type
    Volumes,        \* lists of extraVolumes a ProviderConfig holds
    InitSections,   \* values of the key init it holds
    ManagerSections \* values of the key manager it holds

VARIABLES
    given,   \* the values in the ProviderConfig
    caRef,   \* its caBundleRef
    values,  \* the values so far
    stage    \* the next thing to do to them

vars == <<given, caRef, values, stage>>

Volume(name, source) == [name |-> name, source |-> source]
Mount(name, path)    == [name |-> name, path |-> path]
Env(name, value)     == [name |-> name, value |-> value]

AuthVolume == Volume("kube-api-access", "token-secret")
AuthMount  == Mount("kube-api-access", "/var/run/secrets/kubernetes.io/serviceaccount")
CaVolume   == Volume("custom-ca-bundle", "ca-config-map")
CaMount    == Mount("custom-ca-bundle", "/etc/open-control-plane/custom-ca")
HostEnv    == Env("KUBERNETES_SERVICE_HOST", "ControlPlane")
PortEnv    == Env("KUBERNETES_SERVICE_PORT", "ControlPlane")
CaEnv      == Env("SSL_CERT_DIR", "system and custom-ca")
ConfigEnv  == Env("OPERATOR_CONFIG_NAMESPACE", "metricsNamespace")

(* A list or a section is what its JSON decodes to; the markers are neither.*)
AVolume  == [name : STRING, source : STRING]
AMount   == [name : STRING, path : STRING]
AnEnv    == [name : STRING, value : STRING]
ASection == [mounts : Seq(AMount), envs : Seq(AnEnv)]

ASSUME HelmValuesAssumption ==
    /\ Volumes \subseteq {Malformed} \cup Seq(AVolume)
    /\ InitSections \subseteq {Missing, Null, Malformed} \cup ASection
    /\ ManagerSections \subseteq {Missing, Null, Malformed} \cup ASection
    /\ {Missing, Null, Malformed} \cap ASection = {}

(* What is injected is made of strings: a fact, which TLC evaluates and the *)
(* provers do not know of string literals.                                  *)
ASSUME InjectedAssumption ==
    /\ {AuthVolume, CaVolume} \subseteq AVolume
    /\ {AuthMount, CaMount} \subseteq AMount
    /\ {HostEnv, PortEnv, CaEnv, ConfigEnv} \subseteq AnEnv

----------------------------------------------------------------------------
(* Lists: the injected entry replaces those it collides with.  Keeping is   *)
(* the loop of every upsert: one pass over the list that appends to the     *)
(* result the entries of S (written as a function over the prefixes of the  *)
(* list rather than with SelectSeq, to be reasoned about).                  *)

Keeping(list, S) ==
    LET kept[i \in 0..Len(list)] ==
            IF i = 0 THEN << >>
            ELSE IF list[i] \in S THEN Append(kept[i - 1], list[i])
            ELSE kept[i - 1]
    IN  kept[Len(list)]

upsertVolume(list, v) ==
    Append(Keeping(list, {item \in ToSet(list) : item.name # v.name}), v)

upsertVolumeMountByName(list, vm) ==
    Append(Keeping(list, {item \in ToSet(list) : item.name # vm.name}), vm)
upsertVolumeMount(list, vm) ==
    Append(Keeping(list, {item \in ToSet(list) :
                              item.name # vm.name /\ item.path # vm.path}), vm)

upsertEnvVar(list, e) ==
    Append(Keeping(list, {item \in ToSet(list) : item.name # e.name}), e)

upsertEnvVars(list, envVars) ==
    LET upserted[i \in 0..Len(envVars)] ==
            IF i = 0 THEN list ELSE upsertEnvVar(upserted[i - 1], envVars[i])
    IN  upserted[Len(envVars)]

(* Sections: one container's mounts and environment.                        *)

EmptySection == [mounts |-> << >>, envs |-> << >>]
SectionOf(raw) == IF raw = Missing THEN EmptySection ELSE raw

patchEnvVars(raw, envVars) ==
    [SectionOf(raw) EXCEPT !.envs = upsertEnvVars(@, envVars)]

patchContainerSectionAnew(raw, mount, envVars) ==
    [mounts |-> <<mount>>, envs |-> upsertEnvVars(SectionOf(raw).envs, envVars)]
patchContainerSection(raw, mount, envVars) ==
    [patchEnvVars(raw, envVars) EXCEPT !.mounts = upsertVolumeMount(@, mount)]

----------------------------------------------------------------------------
Init ==
    /\ given \in [extraVolumes : Volumes, init : InitSections,
                  manager : ManagerSections, serviceAccount : {"user"}] \cup {Null}
    /\ caRef \in {"none", "complete", "incomplete"}
    /\ values = given
    /\ stage = "auth"

(* The first key that cannot be patched decides.  A null section decodes    *)
(* to a nil map, and so do values that are null as a whole: assigning to    *)
(* one panics.                                                              *)
Panics ==
    IF values = Null THEN TRUE
    ELSE /\ values.extraVolumes # Malformed
         /\ \/ values.init = Null
            \/ values.init # Malformed /\ values.manager = Null

Rejects ==
    /\ ~Panics
    /\ Malformed \in {values.extraVolumes, values.init, values.manager}

AuthPanics ==
    /\ stage = "auth" /\ Panics
    /\ stage' = "panicked"
    /\ UNCHANGED <<given, caRef, values>>

AuthRejected ==
    /\ stage = "auth" /\ Rejects
    /\ stage' = "rejected"
    /\ UNCHANGED <<given, caRef, values>>

AddAuthToManagerOnly ==
    /\ stage = "auth" /\ ~Panics /\ ~Rejects
    /\ values' = [values EXCEPT
           !.extraVolumes = upsertVolume(@, AuthVolume),
           !.manager = patchContainerSection(@, AuthMount, <<HostEnv, PortEnv>>)]
    /\ stage' = "default"
    /\ UNCHANGED <<given, caRef>>
AddAuthToHelmValues ==
    /\ stage = "auth" /\ ~Panics /\ ~Rejects
    /\ values' = [values EXCEPT
           !.extraVolumes = upsertVolume(@, AuthVolume),
           !.init = patchContainerSection(@, AuthMount, <<HostEnv, PortEnv>>),
           !.manager = patchContainerSection(@, AuthMount, <<HostEnv, PortEnv>>)]
    /\ stage' = "default"
    /\ UNCHANGED <<given, caRef>>

AddDefaultHelmValues ==
    /\ stage = "default"
    /\ values' = [values EXCEPT
           !.manager = patchEnvVars(@, <<ConfigEnv>>),
           !.serviceAccount = "neither created nor mounted"]
    /\ stage' = IF caRef = "none" THEN "done" ELSE "ca"
    /\ UNCHANGED <<given, caRef>>

CaRejected ==
    /\ stage = "ca" /\ caRef = "incomplete"
    /\ stage' = "rejected"
    /\ UNCHANGED <<given, caRef, values>>

AddCAHelmValues ==
    /\ stage = "ca" /\ caRef = "complete"
    /\ values' = [values EXCEPT
           !.extraVolumes = upsertVolume(@, CaVolume),
           !.init = patchContainerSection(@, CaMount, <<CaEnv>>),
           !.manager = patchContainerSection(@, CaMount, <<CaEnv>>)]
    /\ stage' = "done"
    /\ UNCHANGED <<given, caRef>>

Settled == stage \in {"done", "rejected", "panicked"} /\ UNCHANGED vars

Next ==
    \/ AuthPanics \/ AuthRejected \/ AddAuthToHelmValues
    \/ AddDefaultHelmValues \/ CaRejected \/ AddCAHelmValues
    \/ Settled

Spec == Init /\ [][Next]_vars

----------------------------------------------------------------------------
(* Properties.                                                              *)

Names(list) == [i \in DOMAIN list |-> list[i].name]
Paths(list) == [i \in DOMAIN list |-> list[i].path]
Containers(v) == {SectionOf(v.init), SectionOf(v.manager)}

(* What the API server asks of a pod with these volumes and containers:     *)
(* volume names and, in a container, mount paths are unique, and what is    *)
(* mounted is there (the chart itself adds neither).                        *)
ValidPod(v) ==
    /\ IsInjective(Names(v.extraVolumes))
    /\ \A c \in Containers(v) :
          /\ IsInjective(Paths(c.mounts))
          /\ ToSet(Names(c.mounts)) \subseteq ToSet(Names(v.extraVolumes))

(* Values that make a valid pod still do after the patches: no combination  *)
(* of the user's names and paths with the injected ones leaves two mounts   *)
(* at a path or a mount without its volume.                                 *)
PodStaysValid == stage = "done" /\ ValidPod(given) => ValidPod(values)

(* Whatever the ProviderConfig holds, both containers end up with the       *)
(* volume of the token where client libraries look for it, and with the     *)
(* address of the ControlPlane and of nothing else; the CA does not undo it.*)
OnlyNamed(list, e)  == Keeping(list, {x \in ToSet(list) : x.name = e.name}) = <<e>>
OnlyAtPath(list, m) == Keeping(list, {x \in ToSet(list) : x.path = m.path}) = <<m>>
BothConnected ==
    stage = "done" =>
        /\ OnlyNamed(values.extraVolumes, AuthVolume)
        /\ \A c \in Containers(values) :
              /\ OnlyAtPath(c.mounts, AuthMount)
              /\ \A e \in {HostEnv, PortEnv} : OnlyNamed(c.envs, e)

(* What the ProviderConfig asks for and no injected entry collides with is  *)
(* kept, in its order: volumes and variables of other names, mounts of      *)
(* other names and paths; the configuration namespace is the manager's only.*)
InjectedVolumes == {AuthVolume} \cup (IF caRef = "none" THEN {} ELSE {CaVolume})
InjectedMounts  == {AuthMount} \cup (IF caRef = "none" THEN {} ELSE {CaMount})
InjectedEnvs    == {HostEnv, PortEnv} \cup (IF caRef = "none" THEN {} ELSE {CaEnv})

OfOtherNames(list, entries) ==
    Keeping(list, {x \in ToSet(list) : \A e \in entries : x.name # e.name})
AtOtherPaths(list, mounts) ==
    Keeping(list, {x \in ToSet(list) :
                       \A m \in mounts : x.name # m.name /\ x.path # m.path})
UserEntries(v) ==
    [volumes       |-> OfOtherNames(v.extraVolumes, InjectedVolumes),
     initMounts    |-> AtOtherPaths(SectionOf(v.init).mounts, InjectedMounts),
     managerMounts |-> AtOtherPaths(SectionOf(v.manager).mounts, InjectedMounts),
     initEnvs      |-> OfOtherNames(SectionOf(v.init).envs, InjectedEnvs),
     managerEnvs   |-> OfOtherNames(SectionOf(v.manager).envs,
                                    InjectedEnvs \cup {ConfigEnv})]
UserEntriesKept == stage = "done" => UserEntries(values) = UserEntries(given)
=============================================================================
