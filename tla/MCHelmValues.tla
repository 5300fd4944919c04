---------------------------- MODULE MCHelmValues ----------------------------
(* Instance of HelmValues for TLC: every list of up to two volumes and      *)
(* mounts that collide with the injected ones by name, by path, by both or  *)
(* not at all, and of one variable.                                         *)
EXTENDS HelmValues

MCVolume == {Volume(n, "user") : n \in {"kube-api-access", "custom-ca-bundle", "extra"}}
MCMount  == {Mount("kube-api-access", "/extra"), Mount("extra", AuthMount.path),
             Mount("custom-ca-bundle", AuthMount.path), Mount("extra", "/extra"),
             Mount("custom-ca-bundle", CaMount.path)}
MCEnv    == {Env("KUBERNETES_SERVICE_HOST", "user"), Env("SSL_CERT_DIR", "user"),
             Env("OPERATOR_CONFIG_NAMESPACE", "user")}

MCVolumes == BoundedSeq(MCVolume, 2) \cup {Malformed}
MCSection(mounts, envs) ==
    [mounts : BoundedSeq(MCMount, mounts), envs : BoundedSeq(MCEnv, envs)]
        \cup {Missing, Null, Malformed}
MCInitSections    == MCSection(2, 1)
MCManagerSections == MCSection(1, 1)
=============================================================================
