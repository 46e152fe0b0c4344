---------------------------- MODULE ModuleStatus ----------------------------
(***************************************************************************)
(* The status subresource of the Workbenches CR and the functions that     *)
(* compute it: ComputePhase (internal/status) and the condition setters of *)
(* internal/controller.                                                    *)
(*                                                                         *)
(* Kept are the fields and conditions on which control or a consumer's     *)
(* decision depends.  "Error" stands for every reason setErrorStatus is    *)
(* called with.  Left out: messages, timestamps, and the three conditions  *)
(* nothing reads (WorkbenchesV2Ready, ReleaseMetadataAvailable,            *)
(* ImageStreamsAvailable).  Contracts are strings, "" is a nil contract.   *)
(***************************************************************************)
EXTENDS Naturals, PlatformConfig

Phases  == {"", "Pending", "Initializing", "Ready", "Upgrading", "Degraded", "Failed"}
Reasons == {"", "ReconcileSuccess", "DeploymentsNotReady", "DistributionNotAligned",
            "PlatformVersionPending", "Removed", "Error"}
ContractOutcomes == {"NotProjected", "ProjectionPending", "RolloutPending", "Ready"}

Statuses ==
    [phase                 : Phases,
     observedGeneration    : Nat,
     ready                 : BOOLEAN,    \* Ready condition: status
     reason                : Reasons,    \* Ready condition: reason
     degraded              : BOOLEAN,
     provisioned           : BOOLEAN,    \* ProvisioningSucceeded
     available             : BOOLEAN,    \* DeploymentsAvailable
     contractReady         : BOOLEAN,    \* IngressContractReady
     contract              : STRING,     \* status.ingressContract evidence
     distribution          : Distributions,
     platformVersion       : STRING,     \* the "platform" entry of status.releases
     applicationsNamespace : STRING]

\* A new CR has an empty status.
InitStatus ==
    [phase |-> "", observedGeneration |-> 0, ready |-> FALSE, reason |-> "",
     degraded |-> FALSE, provisioned |-> FALSE, available |-> FALSE,
     contractReady |-> FALSE, contract |-> "", distribution |-> NoDistribution,
     platformVersion |-> "", applicationsNamespace |-> ""]

----------------------------------------------------------------------------
\* The phase by priority, for a reconcile that neither failed nor removed the
\* component; those two are "Failed" in SetErrorStatus and RemovedStatus.
ComputePhase(ctx) ==
    LET upgrading == /\ ctx.wasReady
                     /\ ctx.generation > ctx.previous
                     /\ ctx.previous > 0
    IN  IF ctx.ready THEN "Ready"
        ELSE IF upgrading THEN "Upgrading"
        ELSE IF ctx.degraded THEN "Degraded"
        ELSE IF ctx.previous = 0 /\ ~ctx.provisioned THEN "Pending"
        ELSE "Initializing"

SetStatusNamespaces(st, ns) == [st EXCEPT !.applicationsNamespace = ns]

\* syncIngressContractStatus: evidence is published from the moment the
\* projected ConfigMap agrees with the spec; the condition is True only once
\* the rollout is complete too.
SyncIngressContractStatus(st, contract, outcome) ==
    [st EXCEPT !.contractReady = (outcome = "Ready"),
               !.contract = IF outcome \in {"RolloutPending", "Ready"} THEN contract ELSE ""]

\* The platform version is recorded at once on a first install or a
\* Standalone cluster; otherwise only after PlatformVersionPending was published.
RecordPlatformVersion(st, deploymentsReady, desired, version) ==
    IF /\ deploymentsReady
       /\ version # ""
       /\ st.platformVersion # version
       /\ \/ st.platformVersion = ""
          \/ st.reason = "PlatformVersionPending"
          \/ ~HandshakeRequired(desired)
    THEN [st EXCEPT !.platformVersion = version]
    ELSE st

HandshakeDone(st, desired, version) ==
    ~HandshakeRequired(desired) \/ HandshakeComplete(version, st.platformVersion)

\* Degraded is raised when a ready component loses its deployments; it is
\* cleared by Ready and by PlatformVersionPending, and by nothing else.
SetReadyCondition(st, deploymentsReady, wasReady, desired, version) ==
    LET aligned == DistributionAligned(desired, st.distribution)
        done    == HandshakeDone(st, desired, version)
        ready   == deploymentsReady /\ aligned /\ done
        reason  == CASE ready -> "ReconcileSuccess"
                     [] deploymentsReady /\ ~aligned -> "DistributionNotAligned"
                     [] deploymentsReady /\ aligned /\ ~done -> "PlatformVersionPending"
                     [] ~deploymentsReady -> "DeploymentsNotReady"
    IN  [st EXCEPT !.ready = ready,
                   !.reason = reason,
                   !.degraded = IF reason \in {"ReconcileSuccess", "PlatformVersionPending"}
                                THEN FALSE
                                ELSE @ \/ (~deploymentsReady /\ wasReady)]

----------------------------------------------------------------------------
\* What reconcileManaged has set by the time the manifests are applied and
\* the deployments and the contract are observed.
ObservedStatus(st, deploymentsReady, contract, outcome) ==
    SyncIngressContractStatus(
        [st EXCEPT !.provisioned = TRUE, !.available = deploymentsReady],
        contract, outcome)

\* The rest of reconcileManaged: distribution, handshake, Ready, phase.  old
\* is the status the reconcile started from.
ManagedStatus(st, old, generation, deploymentsReady, desired, version) ==
    LET dist == IF deploymentsReady /\ st.provisioned
                THEN [st EXCEPT !.distribution = desired] ELSE st
        rec  == RecordPlatformVersion(dist, deploymentsReady, desired, version)
        rdy  == SetReadyCondition(rec, deploymentsReady, old.ready, desired, version)
        ctx  == [ready |-> rdy.ready, wasReady |-> old.ready,
                 generation |-> generation, previous |-> old.observedGeneration,
                 degraded |-> rdy.degraded, provisioned |-> rdy.provisioned]
    IN  [rdy EXCEPT !.observedGeneration = generation, !.phase = ComputePhase(ctx)]

\* Faulty variant: nothing schedules the second half of the handshake.
RequeueForgetsHandshake(st, deploymentsReady, contract, desired, version) ==
    ~deploymentsReady \/ (contract # "" /\ ~st.contractReady)

\* reconcileManaged asks for another pass in 30 seconds.
RequeueNeeded(st, deploymentsReady, contract, desired, version) ==
    \/ ~deploymentsReady
    \/ contract # "" /\ ~st.contractReady
    \/ ~DistributionAligned(desired, st.distribution)
    \/ ~HandshakeDone(st, desired, version)

\* Faulty variants: a phase outside the CRD's enumeration; evidence of an
\* earlier generation is kept.
ErrorStatusUnknownPhase(st, generation) ==
    [st EXCEPT !.ready = FALSE, !.reason = "Error", !.phase = "Error",
               !.observedGeneration = generation,
               !.contractReady = FALSE, !.contract = ""]
ErrorStatusKeepsEvidence(st, generation) ==
    [st EXCEPT !.ready = FALSE, !.reason = "Error", !.phase = "Failed",
               !.observedGeneration = generation]

\* setErrorStatus: every other condition keeps the value it had.
SetErrorStatus(st, generation) ==
    [st EXCEPT !.ready = FALSE, !.reason = "Error", !.phase = "Failed",
               !.observedGeneration = generation,
               !.contractReady = FALSE, !.contract = ""]

\* Faulty variant: the removal is not recorded as observed.
RemovedStatusUnobserved(st, generation) ==
    [st EXCEPT !.ready = FALSE, !.reason = "Removed", !.phase = "Failed"]

\* reconcileRemoved after a successful cleanup: Degraded and
\* DeploymentsAvailable keep the value they had.
RemovedStatus(st, generation) ==
    [st EXCEPT !.ready = FALSE, !.reason = "Removed", !.provisioned = FALSE,
               !.contractReady = FALSE, !.contract = "", !.phase = "Failed",
               !.distribution = NoDistribution, !.platformVersion = "",
               !.observedGeneration = generation]
=============================================================================
