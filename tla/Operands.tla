------------------------------ MODULE Operands ------------------------------
(***************************************************************************)
(* The objects the operator applies: which manifest groups a spec selects, *)
(* which object references they render to, and which of them the garbage   *)
(* collection and the cleanup may delete (internal/controller/manifests.go)*)
(*                                                                         *)
(* What kustomize renders for a group is the constant Rendered, a sequence *)
(* of object names in apply order; a group outside its domain has no       *)
(* directory in the image and is skipped.  The content of an applied       *)
(* object is the spec it was rendered from.                                *)
(***************************************************************************)
EXTENDS Naturals, Sequences, PlatformConfig

CONSTANTS
    Rendered,       \* [manifest group -> Seq(object names)]
    ClusterScoped,  \* the names whose kind is in clusterScopedKinds
    Uncollected,    \* the names whose kind is in neither cleanup list: ImageStream, CRD,
                    \* ServiceMonitor
    Unowned,        \* the names whose kind is in skipOwnerRefKinds: ImageStream, CRD
    Unwatched,      \* the names whose kind SetupWithManager does not watch: CRD,
                    \* WorkspaceKind, ServiceMonitor
    ApplicationsNamespace   \* APPLICATIONS_NAMESPACE, "" when unset or invalid

NotebookControllerConfigMap == "odh-notebook-controller-config"

\* The object names that can ever exist.
Names == {NotebookControllerConfigMap}
           \cup UNION {{Rendered[g][i] : i \in DOMAIN Rendered[g]} : g \in DOMAIN Rendered}

ASSUME OperandsAssumption ==
    /\ \A g \in DOMAIN Rendered : Rendered[g] \in Seq(STRING)
    /\ ClusterScoped \cup Uncollected \cup Unwatched \subseteq STRING
    /\ Unowned \subseteq Uncollected
    /\ NotebookControllerConfigMap \notin ClusterScoped \cup Uncollected
    /\ ApplicationsNamespace \in STRING

AppNamespaces == {ResolveOperandNamespace(ApplicationsNamespace, p) :
                    p \in {OpenDataHub, SelfManagedRhoai}}

OperandNamespace(spec) == ResolveOperandNamespace(ApplicationsNamespace, spec.platform)

----------------------------------------------------------------------------
ManifestGroupsForPlatform(platform, v2) ==
    LET overlay == IF platform = SelfManagedRhoai THEN "rhoai" ELSE "odh"
    IN  << <<"kf-notebook-controller", "openshift">>,
           <<"odh-notebook-controller", overlay>>,
           <<"notebooks", overlay>> >>
        \o IF v2 THEN << <<"workspaces-controller", "gateway">>,
                         <<"workspacekinds", overlay>> >>
           ELSE <<>>

RenderGroup(g) == IF g \in DOMAIN Rendered THEN Rendered[g] ELSE <<>>

\* The names renderAndApply applies for a spec, in order: the ingress
\* ConfigMap first, then every group.
DesiredNames(spec) ==
    LET groups == ManifestGroupsForPlatform(spec.platform, spec.v2)
    IN  <<NotebookControllerConfigMap>>
        \o RenderGroup(groups[1]) \o RenderGroup(groups[2]) \o RenderGroup(groups[3])
        \o IF spec.v2 THEN RenderGroup(groups[4]) \o RenderGroup(groups[5]) ELSE <<>>

\* objectRefFrom: cluster-scoped objects have no namespace.
ObjectRef(name, ns) == [name |-> name, ns |-> IF name \in ClusterScoped THEN "" ELSE ns]

Refs == UNION {{ObjectRef(n, ns) : n \in Names} : ns \in AppNamespaces}

DesiredRefs(spec) ==
    {ObjectRef(DesiredNames(spec)[i], OperandNamespace(spec)) : i \in DOMAIN DesiredNames(spec)}

\* Faulty variants: ConfigMap is missing from cleanupGVKs; the cluster pass
\* is skipped.
CleanupKeepsConfigMaps(ns) ==
    {r \in Refs : r.ns = ns /\ r.name \notin Uncollected \cup {NotebookControllerConfigMap}}
CleanupSkipsCluster == {}

\* The labelled objects the namespaced pass and the cluster pass may delete.
CleanupNamespaced(ns) == {r \in Refs : r.ns = ns /\ r.name \notin Uncollected}
CleanupCluster        == CleanupNamespaced("")
=============================================================================
