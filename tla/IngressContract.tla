--------------------------- MODULE IngressContract ---------------------------
(***************************************************************************)
(* The ingress contract (internal/controller/ingress_contract.go): how     *)
(* spec.ingressContract is projected into the ConfigMap                    *)
(* odh-notebook-controller-config and stamped on the notebook controller   *)
(* deployments, and how the status becomes evidence that the rollout of    *)
(* exactly this contract is complete.                                      *)
(*                                                                         *)
(* Module Reconciler takes what the rollout looks like as an input; here   *)
(* it is the subject.  A reconcile is reduced to the steps that touch the  *)
(* contract.  Typed reads come from informer caches, one per kind, that    *)
(* lag by any amount; the unstructured read of a Deployment before it is   *)
(* applied, and all writes, go to the API server.                          *)
(*                                                                         *)
(* A contract is its sourceGeneration; 0 is a nil spec.ingressContract.    *)
(***************************************************************************)
EXTENDS Naturals, Sequences, FiniteSetsExt

CONSTANTS
    Components,      \* notebookControllerComponentNames, in the order they are applied
    Reassigns,       \* the platform may assign a contract again after withdrawing it
    MaxContract,     \* bound: sourceGenerations the platform assigns
    MaxGeneration,   \* bound: edits of spec.ingressContract
    MaxDisturb,      \* bound: user scalings, lost pods, writes of the key by others
    MaxFaults        \* bound: failed requests

ASSUME ContractAssumption ==
    /\ Components \in Seq(STRING) /\ Components # <<>>
    /\ Reassigns \in BOOLEAN
    /\ {MaxContract, MaxGeneration, MaxDisturb, MaxFaults} \subseteq Nat

Stamps == 0..MaxContract
Names  == {Components[i] : i \in DOMAIN Components}

VARIABLES
    cr,          \* the CR: [generation, contract]
    source,      \* the highest sourceGeneration assigned so far
    status,      \* what the CR's status says of the contract
    config,      \* the ConfigMap's key: [contract, foreign], foreign: owned by others too
    dep,         \* [Names -> the live Deployment]
    pods,        \* [Names -> [Stamps -> the pod of that template]]
    crCache, configCache, depCache,   \* what the informers hold
    queued,      \* a reconcile is due, by an event or by RequeueAfter
    pc, wb,      \* the reconcile at work and the version of the CR it holds
    next,        \* index of the deployment to apply
    replicas,    \* the live spec.replicas it read
    st,          \* the evidence being built in memory
    disturbs, faults

clusterVars == <<cr, source, status, config, dep, pods>>
cacheVars   == <<crCache, configCache, depCache>>
workerVars  == <<pc, wb, next, replicas, st>>
vars == <<clusterVars, cacheVars, queued, workerVars, disturbs, faults>>

CRs      == [generation : Nat, contract : Stamps]
Configs  == [contract : Stamps, foreign : BOOLEAN]
Evidence == [ready : BOOLEAN, contract : Stamps, rollout : Nat, observed : Nat]
\* generation 0: the deployment does not exist.  template is the stamp of the
\* generation the deployment controller has observed.
Deployments == [generation : Nat, stamp : Stamps, desired : {0, 1}, observed : Nat, template : Stamps]
PodSets     == [Stamps -> {"none", "starting", "ready"}]
\* A Deployment as the cache holds it: total, updated and ready are its status.
Views == [generation : Nat, stamp : Stamps, desired : {0, 1}, observed : Nat,
          total : Nat, updated : Nat, ready : Nat]
Pcs == {"idle", "applyConfig", "clear", "merge", "apply", "observeConfig", "observeRollout",
        "writeStatus", "writeError"}

NoDeployment == [generation |-> 0, stamp |-> 0, desired |-> 1, observed |-> 0, template |-> 0]
NewCR      == [generation |-> 1, contract |-> 0]
NoEvidence == [ready |-> FALSE, contract |-> 0, rollout |-> 0, observed |-> 0]

TypeOK ==
    /\ cr \in CRs /\ crCache \in CRs /\ wb \in CRs
    /\ source \in Stamps
    /\ status \in Evidence
    /\ config \in Configs /\ configCache \in Configs
    /\ dep \in [Names -> Deployments] /\ depCache \in [Names -> Views]
    /\ pods \in [Names -> PodSets]
    /\ queued \in BOOLEAN /\ st \in Evidence
    /\ pc \in Pcs
    /\ next \in DOMAIN Components
    /\ replicas \in {0, 1}
    /\ disturbs \in Nat /\ faults \in Nat

Up(d, s) == pods[d][s] # "none"

\* What a reader of deployment d gets: its status counts the pods, those of
\* the observed template as updated.  (That a status lags the pods is the
\* same as a cache that lags the status.)
View(d) ==
    [generation |-> dep[d].generation, stamp |-> dep[d].stamp, desired |-> dep[d].desired,
     observed |-> dep[d].observed,
     total   |-> Cardinality({s \in Stamps : Up(d, s)}),
     updated |-> IF Up(d, dep[d].template) THEN 1 ELSE 0,
     ready   |-> Cardinality({s \in Stamps : pods[d][s] = "ready"})]

Init ==
    /\ cr = NewCR /\ crCache = cr /\ source = 0
    /\ status = NoEvidence
    /\ config = [contract |-> 0, foreign |-> FALSE] /\ configCache = config
    /\ dep = [d \in Names |-> NoDeployment]
    /\ pods = [d \in Names |-> [s \in Stamps |-> "none"]]
    /\ depCache = [d \in Names |-> View(d)]
    /\ queued = TRUE
    /\ pc = "idle" /\ wb = NewCR /\ next = 1 /\ replicas = 1 /\ st = NoEvidence
    /\ disturbs = 0 /\ faults = 0

----------------------------------------------------------------------------
(* The environment *)

Disturb == disturbs < MaxDisturb /\ disturbs' = disturbs + 1

\* The platform assigns the contract of a newer GatewayConfig generation,
\* withdraws the contract, or, if Reassigns, brings a withdrawn one back.
AssignContract(c) ==
    /\ cr.generation < MaxGeneration
    /\ c = 0 \/ c > source \/ (Reassigns /\ cr.contract = 0 /\ c = source)
    /\ c # cr.contract
    /\ cr' = [generation |-> cr.generation + 1, contract |-> c]
    /\ source' = IF c = 0 THEN source ELSE c
    /\ UNCHANGED <<status, config, dep, pods, cacheVars, queued, workerVars, disturbs, faults>>

\* Another field manager writes the contract key of the ConfigMap.
ForeignWrite(c) ==
    /\ Disturb
    /\ config' = [contract |-> c, foreign |-> TRUE]
    /\ UNCHANGED <<cr, source, status, dep, pods, cacheVars, queued, workerVars, faults>>

Scale(d) ==
    /\ Disturb
    /\ dep[d].generation > 0
    /\ dep' = [dep EXCEPT ![d].generation = @ + 1, ![d].desired = 1 - @]
    /\ UNCHANGED <<cr, source, status, config, pods, cacheVars, queued, workerVars, faults>>

\* Each template's ReplicaSet runs at most one pod here; a rolling update
\* starts the new one (a surge of one) before it stops an old one that serves.
StartPod(d) ==
    /\ dep[d].observed > 0 /\ dep[d].observed = dep[d].generation /\ dep[d].desired = 1
    /\ ~Up(d, dep[d].stamp) /\ View(d).total <= 1
    /\ pods' = [pods EXCEPT ![d][dep[d].stamp] = "starting"]
    /\ UNCHANGED <<cr, source, status, config, dep, cacheVars, queued, workerVars, disturbs, faults>>

PodReady(d, s) ==
    /\ pods[d][s] = "starting"
    /\ pods' = [pods EXCEPT ![d][s] = "ready"]
    /\ UNCHANGED <<cr, source, status, config, dep, cacheVars, queued, workerVars, disturbs, faults>>

PodFails(d, s) ==
    /\ Disturb
    /\ pods[d][s] = "ready"
    /\ pods' = [pods EXCEPT ![d][s] = "starting"]
    /\ UNCHANGED <<cr, source, status, config, dep, cacheVars, queued, workerVars, faults>>

StopPod(d, s) ==
    /\ Up(d, s)
    /\ dep[d].observed = dep[d].generation
    /\ \/ dep[d].desired = 0
       \/ /\ s # dep[d].stamp
          /\ pods[d][s] = "starting" \/ pods[d][dep[d].stamp] = "ready"
    /\ pods' = [pods EXCEPT ![d][s] = "none"]
    /\ UNCHANGED <<cr, source, status, config, dep, cacheVars, queued, workerVars, disturbs, faults>>

\* The deployment controller takes note of a new generation.
ObserveGeneration(d) ==
    /\ dep[d].observed # dep[d].generation
    /\ dep' = [dep EXCEPT ![d].observed = dep[d].generation, ![d].template = dep[d].stamp]
    /\ UNCHANGED <<cr, source, status, config, pods, cacheVars, queued, workerVars, disturbs, faults>>

----------------------------------------------------------------------------
(* The informers *)

SyncCR ==
    /\ crCache # cr
    /\ crCache' = cr
    /\ queued' = TRUE
    /\ UNCHANGED <<clusterVars, configCache, depCache, workerVars, disturbs, faults>>

SyncConfig ==
    /\ configCache # config
    /\ configCache' = config
    /\ queued' = TRUE
    /\ UNCHANGED <<clusterVars, crCache, depCache, workerVars, disturbs, faults>>

\* Faulty variant: only what the availability check reads wakes the operator.
AvailabilityOnlyPredicate(old, new) == old.generation = 0 \/ old.ready # new.ready

\* deploymentAvailabilityChangedPredicate (the label never changes here;
\* AvailableReplicas follows ReadyReplicas).
DeploymentAvailabilityChanged(old, new) ==
    \/ old.generation = 0
    \/ old.ready # new.ready
    \/ old.observed # new.observed
    \/ old.updated # new.updated
    \/ old.total # new.total
    \/ old.desired # new.desired

SyncDeployment(d) ==
    /\ depCache[d] # View(d)
    /\ depCache' = [depCache EXCEPT ![d] = View(d)]
    /\ queued' = (queued \/ DeploymentAvailabilityChanged(depCache[d], View(d)))
    /\ UNCHANGED <<clusterVars, crCache, configCache, workerVars, disturbs, faults>>

----------------------------------------------------------------------------
(* The worker *)

\* A reconcile returns; requeue covers RequeueAfter and an error.
Return(requeue) ==
    /\ queued' = (queued \/ requeue)
    /\ pc' = "idle" /\ wb' = NewCR /\ next' = 1 /\ replicas' = 1 /\ st' = NoEvidence

Request(ok) == IF ok THEN UNCHANGED faults ELSE faults < MaxFaults /\ faults' = faults + 1

Start ==
    /\ pc = "idle" /\ queued
    /\ queued' = FALSE
    /\ wb' = crCache
    /\ pc' = "applyConfig"
    /\ UNCHANGED <<clusterVars, cacheVars, next, replicas, st, disturbs, faults>>

\* Server-side apply of the key: the operator's value wins; without one, the
\* key goes unless another manager owns it too.
AppliedConfig(c) ==
    IF c = 0 THEN IF config.foreign THEN config ELSE [config EXCEPT !.contract = 0]
    ELSE [contract |-> c, foreign |-> config.foreign /\ config.contract = c]

\* applyIngressConfig up to the apply.
ApplyConfig ==
    /\ pc = "applyConfig"
    /\ \E ok \in BOOLEAN :
        /\ Request(ok)
        /\ config' \in IF ok THEN {AppliedConfig(wb.contract)} ELSE {config, AppliedConfig(wb.contract)}
        /\ pc' = IF ~ok THEN "writeError" ELSE IF wb.contract = 0 THEN "clear" ELSE "merge"
    /\ next' = 1
    /\ UNCHANGED <<cr, source, status, dep, pods, cacheVars, queued, wb, replicas, st, disturbs>>


\* clearIngressContract patches only if the cached ConfigMap has the key.
ClearNeeded == configCache.contract # 0

ClearIngressContract ==
    /\ pc = "clear"
    /\ \E ok \in BOOLEAN :
        /\ Request(ok)
        /\ config' = IF ok /\ ClearNeeded THEN [contract |-> 0, foreign |-> FALSE] ELSE config
        /\ pc' = IF ok THEN "merge" ELSE "writeError"
    /\ UNCHANGED <<cr, source, status, dep, pods, cacheVars, queued, wb, next, replicas, st,
                   disturbs>>

\* preserveDeploymentCustomizations: the live replicas win over the manifest's.
MergeReplicas ==
    /\ pc = "merge"
    /\ \E ok \in BOOLEAN :
        /\ Request(ok)
        /\ replicas' = IF ok THEN dep[Components[next]].desired ELSE replicas
        /\ pc' = IF ok THEN "apply" ELSE "writeError"
    /\ UNCHANGED <<clusterVars, cacheVars, queued, wb, next, st, disturbs>>

\* The apply of a rendered deployment with its stamp.  The operator owns the
\* stamp, so an apply without one removes it.
AppliedDeployment(d) ==
    LET changed == [dep[d] EXCEPT !.stamp = wb.contract, !.desired = replicas]
    IN  IF changed = dep[d] /\ dep[d].generation > 0 THEN changed
        ELSE [changed EXCEPT !.generation = @ + 1]

\* Faulty variant: one deployment too many.
AfterApplyOffByOne == IF next <= Len(Components) THEN "merge" ELSE "observeConfig"

AfterApply == IF next < Len(Components) THEN "merge" ELSE "observeConfig"

ApplyDeployment ==
    /\ pc = "apply"
    /\ LET d == Components[next]
       IN  \/ /\ Request(TRUE)
              /\ dep' = [dep EXCEPT ![d] = AppliedDeployment(d)]
              /\ pc' = AfterApply
              /\ next' = IF AfterApply = "merge" THEN next + 1 ELSE 1
              /\ replicas' = 1
           \/ /\ Request(FALSE)
              /\ dep' \in {dep, [dep EXCEPT ![d] = AppliedDeployment(d)]}
              /\ pc' = "writeError"
              /\ next' = 1 /\ replicas' = 1
    /\ UNCHANGED <<cr, source, status, config, pods, cacheVars, queued, wb, st, disturbs>>

\* observeIngressContract; nothing is read for a nil contract, and a failed
\* read is a pending projection.
ObserveConfig ==
    /\ pc = "observeConfig"
    /\ \E ok \in BOOLEAN :
        /\ Request(ok)
        /\ st' = [NoEvidence EXCEPT
                    !.contract = IF ok /\ configCache.contract = wb.contract THEN wb.contract ELSE 0,
                    !.observed = wb.generation]
    /\ pc' = "observeRollout"
    /\ UNCHANGED <<clusterVars, cacheVars, queued, wb, next, replicas, disturbs>>

\* Faulty variant: old pods beside the new ones are overlooked.
RolledOutDespiteSurge(d) ==
    /\ d.generation > 0 /\ d.desired >= 1 /\ d.stamp = wb.contract
    /\ d.observed >= d.generation
    /\ d.updated >= d.desired /\ d.ready >= d.desired

\* The gate of ingressContractRolloutGeneration on one cached deployment.
RolledOut(d) ==
    /\ d.generation > 0
    /\ d.desired >= 1
    /\ d.stamp = wb.contract
    /\ d.observed >= d.generation
    /\ d.updated >= d.desired /\ d.ready >= d.desired /\ d.total = d.desired

\* ingressContractRolloutGeneration, on the one List of the deployments; a
\* failed List is a pending rollout.
ObserveRollout ==
    /\ pc = "observeRollout"
    /\ \E ok \in BOOLEAN :
        /\ Request(ok)
        /\ st' = IF ok /\ st.contract # 0 /\ \A d \in Names : RolledOut(depCache[d])
                 THEN [st EXCEPT !.ready = TRUE,
                                 !.rollout = Max({depCache[d].generation : d \in Names})]
                 ELSE st
    /\ pc' = "writeStatus"
    /\ UNCHANGED <<clusterVars, cacheVars, queued, wb, next, replicas, disturbs>>

\* Status().Update: a spec edit since the read is a conflict.
Update(v, ok) ==
    \/ ok /\ wb.generation = cr.generation /\ status' = v /\ UNCHANGED faults
    \/ ~ok /\ wb.generation # cr.generation /\ UNCHANGED <<status, faults>>
    \/ ~ok /\ Request(FALSE) /\ status' \in {status, IF wb.generation = cr.generation THEN v ELSE status}

\* Faulty variant: unconfirmed evidence is not polled for.
NeverPending == FALSE

\* ingressContractPending.
IngressContractPending == wb.contract # 0 /\ ~st.ready

WriteStatus ==
    /\ pc = "writeStatus"
    /\ \E ok \in BOOLEAN : Update(st, ok) /\ Return(~ok \/ IngressContractPending)
    /\ UNCHANGED <<cr, source, config, dep, pods, cacheVars, disturbs>>

\* setErrorStatus withdraws the evidence; its own failure is swallowed, the
\* reconcile is retried either way.
WriteError ==
    /\ pc = "writeError"
    /\ \E ok \in BOOLEAN : Update([NoEvidence EXCEPT !.observed = wb.generation], ok)
    /\ Return(TRUE)
    /\ UNCHANGED <<cr, source, config, dep, pods, cacheVars, disturbs>>

----------------------------------------------------------------------------
Environment ==
    \/ \E c \in Stamps : AssignContract(c) \/ ForeignWrite(c)
    \/ \E d \in Names :
          \/ Scale(d) \/ StartPod(d) \/ ObserveGeneration(d)
          \/ \E s \in Stamps : PodReady(d, s) \/ PodFails(d, s) \/ StopPod(d, s)

Informers == SyncCR \/ SyncConfig \/ \E d \in Names : SyncDeployment(d)

Worker ==
    \/ Start \/ ApplyConfig \/ ClearIngressContract \/ MergeReplicas \/ ApplyDeployment
    \/ ObserveConfig \/ ObserveRollout \/ WriteStatus \/ WriteError

Next == Environment \/ Informers \/ Worker

\* Each informer delivers and the worker keeps going.  Nothing is assumed of
\* the deployment controller, the pods or the platform.
Fairness ==
    /\ WF_vars(SyncCR) /\ WF_vars(SyncConfig)
    /\ \A d \in Names : WF_vars(SyncDeployment(d))
    /\ WF_vars(Worker)

Spec == Init /\ [][Next]_vars /\ Fairness

----------------------------------------------------------------------------
(* Properties *)

\* When the status is about the current generation and carries the evidence,
\* the evidence names the contract of the spec, the ConfigMap holds it unless
\* somebody else overwrote it, every notebook controller has its template and
\* no pod of another template runs: not during a surge, not by the status of
\* an older generation, not by what a lagging cache still shows.  This is
\* what ingress_contract.go:90-91 says of the condition ("operand deployment
\* rollout incomplete for the projected contract: condition False"), and it
\* holds when every assignment is a new one; run contract_reassign has the rest.
EvidenceSound ==
    status.ready /\ status.observed = cr.generation =>
        /\ status.contract = cr.contract
        /\ config.contract = cr.contract \/ config.foreign
        /\ \A d \in Names :
              /\ dep[d].stamp = cr.contract
              /\ \A s \in Stamps : Up(d, s) => s = cr.contract

\* The rollout of contract c is complete in the cluster.
Complete(c) ==
    /\ cr.contract = c
    /\ config.contract = c
    /\ \A d \in Names :
          /\ dep[d].generation > 0 /\ dep[d].stamp = c /\ dep[d].desired = 1
          /\ dep[d].observed = dep[d].generation
          /\ View(d).updated = 1 /\ View(d).ready = 1 /\ View(d).total = 1

\* Once a rollout is complete for good, the evidence is published for good,
\* with the generation of the deployments that completed it, whatever was
\* missed, failed or conflicted before.
EvidenceConfirmed ==
    \A c \in Stamps \ {0} :
        <>[]Complete(c) =>
            <>[](status = [ready |-> TRUE, contract |-> c, observed |-> cr.generation,
                           rollout |-> Max({dep[d].generation : d \in Names})])

\* Evidence does not outlive what it is about: while a controller stays scaled
\* to zero the platform's gate is eventually closed, by the event alone, since
\* a confirmed contract is not polled.
EvidenceWithdrawn ==
    <>[](\E d \in Names : dep[d].generation > 0 /\ dep[d].desired = 0) => <>[](~status.ready)

=============================================================================
