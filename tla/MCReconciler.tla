---------------------------- MODULE MCReconciler ----------------------------
(* Instances of Reconciler for TLC: the specs, the platform ConfigMaps and *)
(* the manifests each run uses.                                            *)
EXTENDS Reconciler

MCSpec(state, platform, v2, contract, valid) ==
    [managementState |-> state, platform |-> platform, v2 |-> v2,
     contract |-> contract, valid |-> valid]

Plain    == MCSpec("Managed", OpenDataHub, FALSE, "", TRUE)
WithV2   == MCSpec("Managed", OpenDataHub, TRUE, "c1", TRUE)
Gone     == MCSpec("Removed", OpenDataHub, FALSE, "", TRUE)
Broken   == MCSpec("Managed", OpenDataHub, FALSE, "", FALSE)
Rhoai    == MCSpec("Managed", SelfManagedRhoai, FALSE, "", TRUE)
RhoaiOff == MCSpec("Removed", SelfManagedRhoai, FALSE, "", TRUE)

LifecycleSpecs == {WithV2, Gone, Plain}
MovingSpecs    == {Plain, Gone, RhoaiOff, Broken}
PlatformSpecs  == {Plain, Rhoai, RhoaiOff}
OneSpec        == {Plain}

MCConfig(name, ver, platformVersion) ==
    [present |-> TRUE, name |-> name, version |-> ver, platformVersion |-> platformVersion]
NoConfig == [present |-> FALSE, name |-> "", version |-> "", platformVersion |-> ""]

StandaloneOnly == {NoConfig}
Handshakes     == {MCConfig(OpenDataHub, "1", "1"), MCConfig("", "1", "2"),
                   MCConfig(OpenDataHub, "1", "")}

\* An ImageStream beside the ingress ConfigMap; v2 adds a deployment and a
\* cluster-scoped WorkspaceKind.
FullManifests ==
    [g \in {<<"notebooks", "odh">>, <<"workspaces-controller", "gateway">>,
            <<"workspacekinds", "odh">>} |->
        CASE g[1] = "notebooks" -> <<"imagestream">>
          [] g[1] = "workspaces-controller" -> <<"workspaces-controller">>
          [] g[1] = "workspacekinds" -> <<"workspacekind">>]

TinyManifests == [g \in {} |-> <<>>]

\* A ServiceMonitor beside the ingress ConfigMap, on OpenDataHub.
MonitorManifests ==
    [g \in {<<"odh-notebook-controller", "odh">>} |-> <<"servicemonitor">>]

SmallManifests ==
    [g \in {<<"kf-notebook-controller", "openshift">>} |-> <<"controller">>]

MCClusterScoped == {"workspacekind"}
MCUncollected   == {"imagestream", "servicemonitor"}
MCUnowned       == {"imagestream"}
MCUnwatched     == {"workspacekind", "servicemonitor"}
=============================================================================
