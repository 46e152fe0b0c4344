----------------------------- MODULE Reconciler -----------------------------
(***************************************************************************)
(* The Workbenches reconciler (internal/controller/workbenches_controller  *)
(* and manifests.go) against an API server, an informer cache that lags    *)
(* it, a work queue, and an environment that edits the CR, the platform    *)
(* ConfigMap and the operands.                                             *)
(*                                                                         *)
(* One action is one request the worker sends, or one event outside it.    *)
(* Every request may fail, with or without having taken effect, and the    *)
(* process may crash and restart between any two requests.                 *)
(*                                                                         *)
(* Resource versions are not counted.  fresh says that the version the     *)
(* worker holds is the one the API server holds, which is what an Update   *)
(* with a resourceVersion tests; any other write of the CR falsifies it.   *)
(***************************************************************************)
EXTENDS Naturals, Sequences, ModuleStatus, Operands

CONSTANTS
    Specs,              \* the specs users write: [managementState, platform, v2, contract, valid]
    PlatformConfigs,    \* the contents odh-workbenches-config may have
    MaxUid,             \* bound: how often the CR is created
    MaxGeneration,      \* bound: generations of one CR reached by spec edits
    MaxLag,             \* bound: CR versions the cache has not yet received
    MaxFaults,          \* bound: failed requests and crashes
    MaxDrift,           \* bound: operands deleted by someone else
    NoCR,               \* the CR does not exist
    Absent              \* the operand does not exist

SpecRecords == [managementState : {"Managed", "Removed"},
                platform : {OpenDataHub, SelfManagedRhoai},
                v2 : BOOLEAN, contract : STRING, valid : BOOLEAN]
ConfigRecords == [present : BOOLEAN, name : STRING, version : STRING, platformVersion : STRING]
Versions == [uid : Nat, generation : Nat, spec : Specs, finalizer : BOOLEAN,
             deleting : BOOLEAN, status : Statuses]

ASSUME ReconcilerAssumption ==
    /\ Specs \subseteq SpecRecords
    /\ PlatformConfigs \subseteq ConfigRecords /\ PlatformConfigs # {}
    /\ {MaxUid, MaxGeneration, MaxLag, MaxFaults, MaxDrift} \subseteq Nat
    /\ NoCR \notin Versions
    /\ Absent \notin Specs

VARIABLES
    \* the cluster
    cr,         \* the CR in the API server, or NoCR
    uids,       \* how many CRs have been created
    live,       \* [Refs -> Specs \cup {Absent}], the operands
    namespaces, \* the namespaces ensured so far
    pcm,        \* odh-workbenches-config per namespace, as the informer sees it
    avail,      \* the cached deployments exist and have their desired replicas ready
    faults, drifts,
    \* the informer and the work queue
    cache,      \* the version of the CR the cache holds
    watch,      \* the versions on their way to the cache, oldest first
    queued,     \* the CR's key is in the queue
    timer,      \* a RequeueAfter or a rate-limited retry is pending
    \* the worker
    pc,
    wb,         \* the version this reconcile works on
    fresh,      \* wb is still what the API server holds
    st,         \* the status being built in memory
    todo,       \* the object names not yet applied
    errs,       \* the cleanup or the GC met an error
    desired,    \* the desired distribution read in this reconcile
    version,    \* the platform version read in this reconcile
    again       \* reconcileManaged will ask for a requeue

clusterVars == <<cr, uids, live, namespaces, pcm, avail, faults, drifts>>
queueVars   == <<cache, watch, queued, timer>>
localVars   == <<wb, fresh, st, todo, errs, desired, version, again>>
vars        == <<clusterVars, queueVars, pc, localVars>>

Pcs == {"idle", "addFinalizer", "cleanupNamespaced", "cleanupCluster", "removeFinalizer",
        "writePending", "readDistribution", "readVersion", "ensureNamespaces", "apply",
        "gcNamespaced", "gcCluster", "observe", "writeStatus", "writeError"}

AllNamespaces == AppNamespaces \cup {"opendatahub", "rhods-notebooks"}

TypeOK ==
    /\ cr \in Versions \cup {NoCR}
    /\ uids \in Nat
    /\ live \in [Refs -> Specs \cup {Absent}]
    /\ namespaces \in SUBSET AllNamespaces
    /\ pcm \in [AppNamespaces -> PlatformConfigs]
    /\ avail \in BOOLEAN
    /\ faults \in Nat /\ drifts \in Nat
    /\ cache \in Versions \cup {NoCR}
    /\ watch \in Seq(Versions \cup {NoCR})
    /\ queued \in BOOLEAN /\ timer \in BOOLEAN
    /\ pc \in Pcs
    /\ wb \in Versions \cup {NoCR}
    /\ pc # "idle" => wb # NoCR
    /\ fresh \in BOOLEAN
    /\ st \in Statuses
    /\ todo \in Seq(Names)
    /\ pc = "apply" => todo # <<>>
    /\ errs \in BOOLEAN
    /\ desired \in Distributions /\ version \in STRING /\ again \in BOOLEAN

Init ==
    /\ cr = NoCR /\ uids = 0
    /\ live = [r \in Refs |-> Absent]
    /\ namespaces = {}
    /\ pcm \in [AppNamespaces -> PlatformConfigs]
    /\ avail = FALSE
    /\ faults = 0 /\ drifts = 0
    /\ cache = NoCR /\ watch = <<>> /\ queued = FALSE /\ timer = FALSE
    /\ pc = "idle" /\ wb = NoCR /\ fresh = FALSE /\ st = InitStatus
    /\ todo = <<>> /\ errs = FALSE /\ desired = NoDistribution /\ version = "" /\ again = FALSE

----------------------------------------------------------------------------
(* The API server *)

\* A write that changes the CR publishes the new version to the watch; one
\* that changes nothing leaves the resource version alone.
Publish(v) ==
    /\ Len(watch) < MaxLag
    /\ cr' = v
    /\ watch' = IF v = cr THEN watch ELSE Append(watch, v)

NoPublish == UNCHANGED <<cr, watch>>

Fault == faults < MaxFaults /\ faults' = faults + 1

\* Faulty variant: the write carries no resourceVersion.
BlindWrite(v, ok) ==
    \/ ok /\ cr # NoCR /\ Publish(v) /\ UNCHANGED faults
    \/ ~ok /\ (cr = NoCR \/ faults < MaxFaults) /\ NoPublish
           /\ faults' = IF cr = NoCR THEN faults ELSE faults + 1

\* An Update or Status().Update of the worker: ok says what the worker is
\* told.  A stale resourceVersion is a conflict; a fault may hide a success.
Write(v, ok) ==
    \/ ok /\ fresh /\ Publish(v) /\ UNCHANGED faults
    \/ ~ok /\ ~fresh /\ NoPublish /\ UNCHANGED faults
    \/ ~ok /\ Fault /\ (NoPublish \/ (fresh /\ Publish(v)))

\* A request without a resourceVersion, or a read: it fails only by a fault.
Request(ok) == IF ok THEN UNCHANGED faults ELSE Fault

----------------------------------------------------------------------------
(* The environment *)

\* Any write of the CR by somebody else makes the worker's copy stale.
Interfere == fresh' = FALSE

CreateCR(spec) ==
    /\ cr = NoCR
    /\ uids < MaxUid
    /\ uids' = uids + 1
    /\ Publish([uid |-> uids + 1, generation |-> 1, spec |-> spec, finalizer |-> FALSE,
                deleting |-> FALSE, status |-> InitStatus])
    /\ Interfere
    /\ UNCHANGED <<live, namespaces, pcm, avail, faults, drifts, cache, queued, timer, pc,
                   wb, st, todo, errs, desired, version, again>>

UpdateSpec(spec) ==
    /\ cr # NoCR
    /\ spec # cr.spec
    /\ cr.generation < MaxGeneration
    /\ Publish([cr EXCEPT !.spec = spec, !.generation = @ + 1])
    /\ Interfere
    /\ UNCHANGED <<uids, live, namespaces, pcm, avail, faults, drifts, cache, queued, timer, pc,
                   wb, st, todo, errs, desired, version, again>>

\* Without a finalizer the CR is gone at once; with one it gets a
\* deletionTimestamp, which is a new generation.
DeleteCR ==
    /\ cr # NoCR
    /\ ~cr.deleting
    /\ Publish(IF cr.finalizer THEN [cr EXCEPT !.deleting = TRUE, !.generation = @ + 1] ELSE NoCR)
    /\ Interfere
    /\ UNCHANGED <<uids, live, namespaces, pcm, avail, faults, drifts, cache, queued, timer, pc,
                   wb, st, todo, errs, desired, version, again>>

\* mapPlatformConfigToWorkbenches: the event is mapped by the platform of the
\* cached CR, and dropped for another namespace.
PlatformConfigWakes(ns) == cache = NoCR \/ OperandNamespace(cache.spec) = ns

\* The orchestrator rewrites odh-workbenches-config.
ChangePlatformConfig(ns, config) ==
    /\ config # pcm[ns]
    /\ pcm' = [pcm EXCEPT ![ns] = config]
    /\ queued' = (queued \/ PlatformConfigWakes(ns))
    /\ UNCHANGED <<cr, uids, live, namespaces, avail, faults, drifts, cache, watch, timer, pc,
                   localVars>>

\* Replicas of the operand deployments become ready or are lost.
ChangeAvailability ==
    /\ avail' = ~avail
    /\ queued' = TRUE
    /\ UNCHANGED <<cr, uids, live, namespaces, pcm, faults, drifts, cache, watch, timer, pc,
                   localVars>>

\* Somebody deletes an operand; the watches on owned objects and ImageStreams
\* enqueue the CR, unless the kind is not watched.
Drift(r) ==
    /\ drifts < MaxDrift
    /\ live[r] # Absent
    /\ drifts' = drifts + 1
    /\ live' = [live EXCEPT ![r] = Absent]
    /\ queued' = (queued \/ r.name \notin Unwatched)
    /\ UNCHANGED <<cr, uids, namespaces, pcm, avail, faults, cache, watch, timer, pc, localVars>>

\* Kubernetes deletes an owned object whose owner is gone.
CascadeDelete(r) ==
    /\ cr = NoCR
    /\ live[r] # Absent
    /\ r.name \notin Unowned
    /\ live' = [live EXCEPT ![r] = Absent]
    /\ UNCHANGED <<cr, uids, namespaces, pcm, avail, faults, drifts, queueVars, pc, localVars>>

----------------------------------------------------------------------------
(* The informer and the work queue *)

\* The cache receives the next version.  GenerationChangedPredicate filters
\* the updates that leave the generation alone.
CacheSync ==
    /\ watch # <<>>
    /\ cache' = Head(watch)
    /\ watch' = Tail(watch)
    /\ queued' = \/ queued
                 \/ cache = NoCR
                 \/ Head(watch) = NoCR
                 \/ Head(watch).generation # cache.generation
    /\ UNCHANGED <<clusterVars, timer, pc, localVars>>

TimerFires ==
    /\ timer
    /\ timer' = FALSE
    /\ queued' = TRUE
    /\ UNCHANGED <<clusterVars, cache, watch, pc, localVars>>

\* Events that need no state of their own: resyncs, and the echo of the
\* operator's own writes through the watches on owned objects.
Resync ==
    /\ ~queued
    /\ queued' = TRUE
    /\ UNCHANGED <<clusterVars, cache, watch, timer, pc, localVars>>

----------------------------------------------------------------------------
(* The worker *)

ResetLocals ==
    /\ pc' = "idle" /\ wb' = NoCR /\ fresh' = FALSE /\ st' = InitStatus
    /\ todo' = <<>> /\ errs' = FALSE /\ desired' = NoDistribution /\ version' = "" /\ again' = FALSE

\* Faulty variant: an error or a RequeueAfter is dropped.
ReturnWithoutRetry(requeue) == ResetLocals /\ UNCHANGED timer

\* Reconcile returns; requeue covers both RequeueAfter and an error.
Return(requeue) == ResetLocals /\ timer' = (timer \/ requeue)

\* The worker goes on to its next request.
Goto(next) == pc' = next /\ UNCHANGED timer

\* Where Reconcile goes once v carries the finalizer.
Dispatch(v) ==
    IF v.spec.managementState = "Removed" THEN "cleanupNamespaced"
    ELSE IF v.status.phase = "" /\ v.status.observedGeneration = 0 THEN "writePending"
    ELSE IF ~v.spec.valid THEN "writeError"
    ELSE "readDistribution"

\* The status in memory at that point: the Pending write happens before the
\* namespaces are recorded.
DispatchStatus(v) ==
    IF Dispatch(v) = "writePending" THEN [v.status EXCEPT !.phase = "Pending"]
    ELSE SetStatusNamespaces(v.status, OperandNamespace(v.spec))

\* Reconcile reads the CR from the cache.  No CR, or one being deleted
\* without the finalizer: nothing to do.
StartReconcile ==
    /\ pc = "idle"
    /\ queued
    /\ queued' = FALSE
    /\ IF cache = NoCR \/ (cache.deleting /\ ~cache.finalizer)
       THEN UNCHANGED <<pc, localVars>>
       ELSE /\ wb' = cache
            /\ fresh' = (watch = <<>>)
            /\ pc' = IF cache.deleting THEN "cleanupNamespaced"
                     ELSE IF ~cache.finalizer THEN "addFinalizer"
                     ELSE Dispatch(cache)
            /\ st' = IF cache.deleting \/ ~cache.finalizer THEN cache.status
                     ELSE DispatchStatus(cache)
            /\ UNCHANGED <<todo, errs, desired, version, again>>
    /\ UNCHANGED <<clusterVars, cache, watch, timer>>

AddFinalizer ==
    /\ pc = "addFinalizer"
    /\ LET v == [wb EXCEPT !.finalizer = TRUE]
       IN  \/ /\ Write(v, TRUE)
              /\ wb' = v
              /\ st' = DispatchStatus(v)
              /\ Goto(Dispatch(v))
              /\ UNCHANGED <<fresh, todo, errs, desired, version, again>>
           \/ Write(v, FALSE) /\ Return(TRUE)
    /\ UNCHANGED <<uids, live, namespaces, pcm, avail, drifts, cache, queued>>

----------------------------------------------------------------------------
(* Best-effort deletion, shared by the cleanup and the garbage collection *)

\* One pass over a set of kinds: each object is deleted or fails; err is
\* also the answer when only a List failed.
DeletePass(refs, err) ==
    \E failed \in SUBSET {r \in refs : live[r] # Absent} :
        /\ failed # {} => err
        /\ live' = [r \in Refs |-> IF r \in refs \ failed THEN Absent ELSE live[r]]
        /\ Request(~err)

\* cleanupManagedResources, namespaced kinds.
CleanNamespaced ==
    /\ pc = "cleanupNamespaced"
    /\ \E err \in BOOLEAN :
        /\ DeletePass(CleanupNamespaced(OperandNamespace(wb.spec)), err)
        /\ errs' = err
    /\ Goto("cleanupCluster")
    /\ UNCHANGED <<cr, uids, namespaces, pcm, avail, drifts, cache, watch, queued,
                   wb, fresh, st, todo, desired, version, again>>

\* cleanupManagedResources, cluster-scoped kinds, and what its two callers
\* do with the joined error: deletion keeps the finalizer and retries,
\* Removed publishes the error.
CleanCluster ==
    /\ pc = "cleanupCluster"
    /\ \E err \in BOOLEAN :
        /\ DeletePass(CleanupCluster, err)
        /\ CASE wb.deleting /\ (errs \/ err) -> Return(TRUE)
             [] wb.deleting /\ ~(errs \/ err) ->
                  Goto("removeFinalizer") /\ UNCHANGED localVars
             [] ~wb.deleting /\ (errs \/ err) ->
                  /\ Goto("writeError") /\ errs' = FALSE
                  /\ UNCHANGED <<wb, fresh, st, todo, desired, version, again>>
             [] ~wb.deleting /\ ~(errs \/ err) ->
                  /\ Goto("writeStatus") /\ st' = RemovedStatus(st, wb.generation)
                  /\ UNCHANGED <<wb, fresh, todo, errs, desired, version, again>>
    /\ UNCHANGED <<cr, uids, namespaces, pcm, avail, drifts, cache, watch, queued>>

\* The last finalizer goes, and the CR with it.
RemoveFinalizer ==
    /\ pc = "removeFinalizer"
    /\ \E ok \in BOOLEAN : Write(NoCR, ok) /\ Return(~ok)
    /\ UNCHANGED <<uids, live, namespaces, pcm, avail, drifts, cache, queued>>

----------------------------------------------------------------------------
(* reconcileManaged *)

WritePending ==
    /\ pc = "writePending"
    /\ \E ok \in BOOLEAN : Write([wb EXCEPT !.status = st], ok)
    /\ Return(TRUE)
    /\ UNCHANGED <<uids, live, namespaces, pcm, avail, drifts, cache, queued>>

\* The first of two separate reads of odh-workbenches-config.
ReadDistribution ==
    /\ pc = "readDistribution"
    /\ \E ok \in BOOLEAN :
        /\ Request(ok)
        /\ LET cm == pcm[OperandNamespace(wb.spec)]
           IN  IF ok /\ (cm.present => ValidDistributionFields(cm))
               THEN /\ desired' = ResolveDesiredDistribution(ReadDesiredDistribution(cm),
                                                             wb.spec.platform)
                    /\ Goto("readVersion")
               ELSE Goto("writeError") /\ UNCHANGED desired
    /\ UNCHANGED <<cr, uids, live, namespaces, pcm, avail, drifts, cache, watch, queued,
                   wb, fresh, st, todo, errs, version, again>>

\* The second read: the ConfigMap may have changed in between.
ReadVersion ==
    /\ pc = "readVersion"
    /\ \E ok \in BOOLEAN :
        /\ Request(ok)
        /\ IF ok
           THEN /\ version' = ReadPlatformVersion(pcm[OperandNamespace(wb.spec)])
                /\ Goto("ensureNamespaces")
           ELSE Goto("writeError") /\ UNCHANGED version
    /\ UNCHANGED <<cr, uids, live, namespaces, pcm, avail, drifts, cache, watch, queued,
                   wb, fresh, st, todo, errs, desired, again>>

\* Faulty variant: the groups of a component that is Ready are not rendered.
NamesUnlessReady(v) ==
    IF v.status.ready THEN <<NotebookControllerConfigMap>> ELSE DesiredNames(v.spec)

\* What renderAndApply is about to apply.
NamesToApply(v) == DesiredNames(v.spec)

\* configureDependencies: the applications namespace, then the legacy one
\* (its platform default: spec.workbenchNamespace is not modelled).
EnsureNamespaces ==
    /\ pc = "ensureNamespaces"
    /\ LET apps   == OperandNamespace(wb.spec)
           legacy == DefaultLegacyWorkbenchNamespace(wb.spec.platform)
       IN  \/ /\ Request(TRUE)
              /\ namespaces' = namespaces \cup {apps, legacy}
              /\ todo' = NamesToApply(wb)
              /\ Goto("apply")
           \/ /\ Request(FALSE)
              /\ \E done \in {{}, {apps}, {apps, legacy}} : namespaces' = namespaces \cup done
              /\ Goto("writeError") /\ UNCHANGED todo
    /\ UNCHANGED <<cr, uids, live, pcm, avail, drifts, cache, watch, queued,
                   wb, fresh, st, errs, desired, version, again>>

\* Server-side apply of the next object: no resourceVersion, last writer
\* wins.  The first failure ends renderAndApply; earlier objects stay.
ApplyObject ==
    /\ pc = "apply"
    /\ LET ref     == ObjectRef(Head(todo), OperandNamespace(wb.spec))
           applied == [live EXCEPT ![ref] = wb.spec]
       IN  \/ /\ Request(TRUE)
              /\ ref.ns \in namespaces \cup {""}
              /\ live' = applied
              /\ todo' = Tail(todo)
              /\ Goto(IF Tail(todo) = <<>> THEN "gcNamespaced" ELSE "apply")
           \/ /\ Request(FALSE)
              /\ live' \in {live, applied}
              /\ todo' = <<>>
              /\ Goto("writeError")
    /\ UNCHANGED <<cr, uids, namespaces, pcm, avail, drifts, cache, watch, queued,
                   wb, fresh, st, errs, desired, version, again>>

\* gcOrphanedResources, namespaced kinds: labelled objects of the current
\* namespace that the current spec does not render.
GCNamespaced ==
    /\ pc = "gcNamespaced"
    /\ \E err \in BOOLEAN :
        /\ DeletePass(CleanupNamespaced(OperandNamespace(wb.spec)) \ DesiredRefs(wb.spec), err)
        /\ errs' = err
    /\ Goto("gcCluster")
    /\ UNCHANGED <<cr, uids, namespaces, pcm, avail, drifts, cache, watch, queued,
                   wb, fresh, st, todo, desired, version, again>>

GCCluster ==
    /\ pc = "gcCluster"
    /\ \E err \in BOOLEAN :
        /\ DeletePass(CleanupCluster \ DesiredRefs(wb.spec), err)
        /\ Goto(IF errs \/ err THEN "writeError" ELSE "observe")
    /\ errs' = FALSE
    /\ UNCHANGED <<cr, uids, namespaces, pcm, avail, drifts, cache, watch, queued,
                   wb, fresh, st, todo, desired, version, again>>

\* checkDeployments, syncIngressContractStatus, syncImageStreamsAvailable
\* (whose failure is an error status) and the status computation.  A failed
\* List of the deployments counts as not ready.  What the contract's rollout
\* looks like in the cache is up to the environment.
ObserveWith(listed, ok, outcome) ==
    /\ (outcome = "NotProjected") = (wb.spec.contract = "")
    /\ Request(listed /\ ok)
    /\ LET ready == listed /\ avail
           seen  == ObservedStatus(st, ready, wb.spec.contract, outcome)
           full  == ManagedStatus(seen, wb.status, wb.generation, ready, desired, version)
       IN  IF ok
           THEN /\ st' = full
                /\ again' = RequeueNeeded(full, ready, wb.spec.contract, desired, version)
                /\ Goto("writeStatus")
           ELSE st' = seen /\ Goto("writeError") /\ UNCHANGED again

Observe ==
    /\ pc = "observe"
    /\ \E listed, ok \in BOOLEAN, outcome \in ContractOutcomes : ObserveWith(listed, ok, outcome)
    /\ UNCHANGED <<cr, uids, live, namespaces, pcm, avail, drifts, cache, watch, queued,
                   wb, fresh, todo, errs, desired, version>>

\* The final Status().Update of reconcileManaged and reconcileRemoved.
WriteStatus ==
    /\ pc = "writeStatus"
    /\ \E ok \in BOOLEAN : Write([wb EXCEPT !.status = st], ok) /\ Return(again \/ ~ok)
    /\ UNCHANGED <<uids, live, namespaces, pcm, avail, drifts, cache, queued>>

\* setErrorStatus: a failed write is swallowed, the reconcile error is
\* returned and retried either way.
WriteError ==
    /\ pc = "writeError"
    /\ \E ok \in BOOLEAN :
        Write([wb EXCEPT !.status = SetErrorStatus(st, wb.generation)], ok)
    /\ Return(TRUE)
    /\ UNCHANGED <<uids, live, namespaces, pcm, avail, drifts, cache, queued>>

\* The process dies and its successor lists the CR afresh.  Leader election
\* keeps it from starting while the old one works.
Crash ==
    /\ Fault
    /\ ResetLocals
    /\ timer' = FALSE
    /\ cache' = cr /\ watch' = <<>> /\ queued' = (cr # NoCR)
    /\ UNCHANGED <<cr, uids, live, namespaces, pcm, avail, drifts>>

----------------------------------------------------------------------------
Environment ==
    \/ \E spec \in Specs : CreateCR(spec) \/ UpdateSpec(spec)
    \/ DeleteCR
    \/ \E ns \in AppNamespaces, config \in PlatformConfigs : ChangePlatformConfig(ns, config)
    \/ ChangeAvailability
    \/ \E r \in Refs : Drift(r) \/ CascadeDelete(r)
    \/ Crash

Queue == CacheSync \/ TimerFires \/ Resync

Worker ==
    \/ StartReconcile \/ AddFinalizer
    \/ CleanNamespaced \/ CleanCluster \/ RemoveFinalizer
    \/ WritePending \/ ReadDistribution \/ ReadVersion \/ EnsureNamespaces
    \/ ApplyObject \/ GCNamespaced \/ GCCluster \/ Observe
    \/ WriteStatus \/ WriteError

Next == Environment \/ Queue \/ Worker

Spec == Init /\ [][Next]_vars

\* What the code's scheduling guarantees: the informer delivers, timers fire,
\* and the worker goroutine, once started, keeps going.  Nothing obliges the
\* environment, faults or resyncs to happen.
Fairness == WF_vars(CacheSync) /\ WF_vars(TimerFires) /\ WF_vars(Worker)

FairSpec == Spec /\ Fairness

----------------------------------------------------------------------------
(* Safety *)

Operand(r) == live[r] # Absent /\ r.name \notin Uncollected

\* No operand is left without a CR whose finalizer promises its removal:
\* Reconcile adds the finalizer before it applies anything, and
\* reconcileDelete removes it only after a clean sweep, whatever the cache
\* lags and wherever requests fail.  Promised only when APPLICATIONS_NAMESPACE
\* is set: otherwise an edit of spec.platform moves the cleanup elsewhere.
NoOrphans ==
    ApplicationsNamespace # "" /\ (\E r \in Refs : Operand(r)) => cr # NoCR /\ cr.finalizer

\* A version on the strength of which the worker applies operands.
Held(v) == v # NoCR /\ v.finalizer /\ ~v.deleting

Backed == cr # NoCR /\ cr.finalizer

\* The delete path of the worker.
DeletePcs == {"cleanupNamespaced", "cleanupCluster", "removeFinalizer"}

\* The last version published is the one the API server holds.
WatchInv == IF watch = <<>> THEN cache = cr ELSE watch[Len(watch)] = cr

\* A fresh copy is the CR itself, and on the delete path the cache has nothing
\* older to offer to the next reconcile.
FreshInv ==
    fresh => /\ pc # "idle"
             /\ wb = cr
             /\ wb.deleting => watch = <<>> /\ cache = cr

\* What each stage of a reconcile knows of the version it works on.
StageInv ==
    pc # "idle" =>
        /\ wb.finalizer = (pc # "addFinalizer")
        /\ wb.deleting => pc \in DeletePcs
        /\ pc = "removeFinalizer" => wb.deleting

\* Every version that could make the worker apply is backed by the finalizer
\* of the live CR.
HeldInv ==
    /\ Held(cache) => Backed
    /\ \A i \in DOMAIN watch : Held(watch[i]) => Backed
    /\ pc # "idle" /\ Held(wb) => Backed

\* How far the cleanup has come.
SweepInv ==
    /\ pc = "cleanupCluster" /\ ~errs =>
          \A r \in Refs : Operand(r) => r.ns # OperandNamespace(wb.spec)
    /\ pc = "removeFinalizer" /\ ApplicationsNamespace # "" => \A r \in Refs : ~Operand(r)

\* The inductive strengthening of NoOrphans: the order of the finalizer's two
\* writes against apply and cleanup survives a lagging cache, lost answers and
\* crashes because reads of the cache never go back and Updates are versioned.
FinalizerInv == WatchInv /\ FreshInv /\ StageInv /\ HeldInv /\ SweepInv /\ NoOrphans

\* The status the platform sees is about the current generation.
Current == cr # NoCR /\ cr.status.observedGeneration = cr.generation

\* When the status says Removed for the current generation, the namespace the
\* operator deploys to and the cluster scope hold no operand: reconcileRemoved
\* publishes only after an error-free cleanup, and no stale read re-applies.
RemovedIsClean ==
    Current /\ cr.status.reason = "Removed" =>
        \A r \in Refs : Operand(r) => r.ns \notin {"", OperandNamespace(cr.spec)}

\* Exactly the operands of spec are live in its namespace and cluster-wide.
Applied(spec) ==
    /\ \A r \in DesiredRefs(spec) : live[r] = spec
    /\ \A r \in Refs \ DesiredRefs(spec) : Operand(r) => r.ns \notin {"", OperandNamespace(spec)}

\* Ready for the current generation means the whole of the current spec was
\* applied and what it no longer renders was collected: no mix of an old and
\* a new spec after a partial apply, a crash or a stale read is ever Ready.
\* Holds until somebody else deletes an operand.
ReadyMeansApplied == drifts = 0 /\ Current /\ cr.status.ready => Applied(cr.spec)

\* The evidence the platform gates ingresses on: for the current generation it
\* names the contract of the spec, and the live ConfigMap and notebook
\* controllers were rendered from that spec.
EvidenceBacked ==
    drifts = 0 /\ Current /\ cr.status.contractReady =>
        cr.status.contract = cr.spec.contract /\ Applied(cr.spec)

\* Ready comes with a distribution and, where the handshake is required, with
\* a platform version.
Handshaken(s) ==
    s.ready => /\ s.distribution # NoDistribution
               /\ HandshakeRequired(s.distribution) => s.platformVersion # ""

\* Ready on a platform-managed cluster means the handshake took place: the
\* status carries a platform version and the distribution it is for.
ReadyMeansHandshaken == cr # NoCR => Handshaken(cr.status)

\* What a published status may say of the version it is part of.
SoundReport(v) ==
    LET s == v.status
    IN  /\ v.generation >= 1 /\ s.observedGeneration <= v.generation
        /\ Handshaken(s)
        /\ s.observedGeneration = v.generation =>
              /\ ~v.deleting
              /\ s.reason = "Removed" => v.spec.managementState = "Removed"
              /\ s.ready \/ s.contractReady => v.spec.managementState = "Managed"
              /\ s.contractReady => s.contract = v.spec.contract

ReportInv == cr # NoCR => SoundReport(cr)

\* v asks of the worker what the CR asks of it.
SameRequest(v) == v # NoCR /\ v.spec = cr.spec /\ v.deleting = cr.deleting

\* Once the worker holds the CR itself, or has reported on its current
\* generation, no older request is left on its way to the worker.
LagInv ==
    /\ fresh \/ Current => SameRequest(cache) /\ \A i \in DOMAIN watch : SameRequest(watch[i])
    /\ Current /\ pc # "idle" => SameRequest(wb)

\* Until it is complete, the status in memory says nothing new on what the
\* platform decides by.
MemoryInv ==
    pc \notin {"idle", "writeStatus"} =>
        /\ st.ready = wb.status.ready /\ st.reason = wb.status.reason
        /\ st.distribution = wb.status.distribution
        /\ st.platformVersion = wb.status.platformVersion
        /\ pc = "writePending" => st.observedGeneration = 0

\* The namespace of spec and the cluster scope hold no operand.
Clean(spec) == \A r \in Refs : Operand(r) => r.ns \notin {"", OperandNamespace(spec)}

\* On a platform-managed cluster a recorded platform version is replaced only
\* after PlatformVersionPending was published.
Announced(old, new) ==
    /\ old.platformVersion # ""
    /\ new.platformVersion \notin {"", old.platformVersion}
    /\ HandshakeRequired(new.distribution)
    => old.reason = "PlatformVersionPending"

\* A complete status: what it says of the operands and of the handshake.
CompleteStatus ==
    /\ st.observedGeneration = wb.generation
    /\ Handshaken(st) /\ Announced(wb.status, st)
    /\ st.reason = "Removed" => wb.spec.managementState = "Removed" /\ Clean(wb.spec)
    /\ st.ready \/ st.contractReady =>
          /\ wb.spec.managementState = "Managed"
          /\ fresh /\ drifts = 0 => Applied(wb.spec)
    /\ st.contractReady => st.contract = wb.spec.contract

\* How far a pass over the operands has come.  What a copy that is no longer
\* the CR has applied may have been cascaded away since.
WorkInv ==
    LET spec == wb.spec
        ns   == OperandNamespace(spec)
        left == {ObjectRef(todo[i], ns) : i \in DOMAIN todo}
    IN  /\ pc \in {"cleanupNamespaced", "cleanupCluster"} =>
              wb.deleting \/ spec.managementState = "Removed"
        /\ pc \in {"writePending", "readDistribution", "readVersion", "ensureNamespaces",
                   "apply", "gcNamespaced", "gcCluster", "observe"} =>
              spec.managementState = "Managed"
        /\ pc = "apply" =>
              /\ left \subseteq DesiredRefs(spec)
              /\ fresh /\ drifts = 0 => \A r \in DesiredRefs(spec) \ left : live[r] = spec
        /\ pc \in {"gcNamespaced", "gcCluster"} /\ fresh /\ drifts = 0 =>
              \A r \in DesiredRefs(spec) : live[r] = spec
        /\ pc = "gcCluster" /\ ~errs =>
              \A r \in Refs \ DesiredRefs(spec) : Operand(r) => r.ns # ns
        /\ pc = "observe" /\ fresh /\ drifts = 0 => Applied(spec)
        /\ pc = "writeStatus" => CompleteStatus

\* What makes the promises of the status inductive.  A reconcile that works on
\* a stale copy cannot undo what a Current status reports, because the copies
\* that are left after that report all carry the spec it is about.
StatusInv == ReportInv /\ LagInv /\ MemoryInv /\ WorkInv

----------------------------------------------------------------------------
(* Action properties *)

SameCR == cr # NoCR /\ cr' # NoCR /\ cr'.uid = cr.uid

\* The worker's Update sends the whole object it read from the cache: no such
\* write takes back a spec edit or a deletion the worker has not seen, and none
\* brings a deleted CR back.
NoLostUpdate ==
    [][/\ SameCR => /\ cr'.generation >= cr.generation
                    /\ cr'.generation = cr.generation =>
                          cr'.spec = cr.spec /\ cr'.deleting = cr.deleting
       /\ cr = NoCR /\ cr' # NoCR => uids' > uids]_vars

\* No step replaces a recorded platform version unannounced: the orchestrator
\* sees the upgrade begin before it sees it end (workbenches_controller.go:539-553).
VersionChangeAnnounced == [][SameCR => Announced(cr.status, cr'.status)]_vars

----------------------------------------------------------------------------
(* Refinement *)

\* The CR as the owner of its operands.
Owner ==
    IF cr = NoCR THEN "none"
    ELSE IF ~cr.finalizer THEN "unguarded"
    ELSE IF cr.deleting THEN "deleting" ELSE "guarded"

Ownership == INSTANCE OperandOwnership WITH
                 Things   <- Refs,
                 Confined <- ApplicationsNamespace # "",
                 owner    <- Owner,
                 held     <- {r \in Refs : Operand(r)}

\* The reconciler implements the ownership protocol step by step: AddFinalizer
\* before the first apply, every apply under a finalizer that is still there,
\* a deletion never skipped, and RemoveFinalizer only after an error-free
\* cleanup, with stale caches, lost answers and crashes in between.
ImplementsOwnership == Ownership!Spec

----------------------------------------------------------------------------
(* Liveness *)

\* A CR that is being deleted goes away: a failed or interrupted cleanup is
\* retried until the finalizer can be removed.  Nothing takes a deletion back,
\* so it is enough that no CR stays in deletion for ever.
DeletionCompletes == []<>(cr = NoCR \/ ~cr.deleting)

\* Once the edits of the spec end, and a run has at most MaxGeneration of them,
\* the last one is reported on: no wake-up is lost between the watch predicate,
\* the queue and a conflicting status write.
SpecObserved == []<>(cr = NoCR \/ Current)

\* The spec is installable, the platform's request is well formed and the
\* deployments are up.
Installable(config) ==
    /\ cr # NoCR /\ ~cr.deleting /\ cr.spec.managementState = "Managed" /\ cr.spec.valid
    /\ avail
    /\ pcm[OperandNamespace(cr.spec)] = config
    /\ config.present => ValidDistributionFields(config)
    /\ LET dist == ResolveDesiredDistribution(ReadDesiredDistribution(config), cr.spec.platform)
       IN  HandshakeRequired(dist) => ReadPlatformVersion(config) # ""

\* Applied, but for what somebody else has deleted of the kinds that no watch
\* covers.
Restored(spec) ==
    /\ \A r \in DesiredRefs(spec) :
          live[r] = spec \/ (drifts > 0 /\ r.name \in Unwatched /\ live[r] = Absent)
    /\ \A r \in Refs \ DesiredRefs(spec) : Operand(r) => r.ns \notin {"", OperandNamespace(spec)}

\* Ready, with the distribution and the version the platform asks for.
Converged(config) ==
    LET dist == ResolveDesiredDistribution(ReadDesiredDistribution(config), cr.spec.platform)
    IN  /\ Current /\ cr.status.ready /\ Restored(cr.spec)
        /\ cr.status.distribution = dist
        /\ HandshakeRequired(dist) => cr.status.platformVersion = config.platformVersion

\* Once the spec, the platform's request and the deployments settle, the
\* component becomes and stays Ready for exactly that request: torn reads of
\* the ConfigMap, failed requests, crashes and the loss of a watched operand
\* are healed.  A lost ServiceMonitor, WorkspaceKind or CRD is excepted: no
\* Owns names these kinds (workbenches_controller.go:158-204), so it comes back
\* with the next event for another reason, which need not come.
EventuallyReady ==
    \A config \in PlatformConfigs :
        <>[]Installable(config) => <>[](cr # NoCR /\ Converged(config))

----------------------------------------------------------------------------
(* What the README says and the code does not do *)

\* README.md:22: "On `Removed` or CR deletion, the operator deletes operand
\* resources identified by component labels".  The kinds manifests.go:690-700
\* and 770-787 leave on the cluster on purpose are excepted.
RemovedLeavesNothing ==
    Current /\ cr.status.reason = "Removed" =>
        \A r \in Refs : live[r] # Absent => r.name \in Unowned
=============================================================================
