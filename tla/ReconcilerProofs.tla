-------------------------- MODULE ReconcilerProofs --------------------------
(***************************************************************************)
(* The type invariant of Reconciler, for every set of specs, manifests and *)
(* ConfigMaps and every bound: first what the pure operators return, then  *)
(* one step per action.                                                    *)
(***************************************************************************)
EXTENDS Reconciler, TLAPS

\* What the two readers of the platform ConfigMap and the resolution return.
LEMMA DesiredDistributionType ==
    ASSUME NEW cm \in ConfigRecords, NEW platform
    PROVE  /\ ReadDesiredDistribution(cm) \in Distributions
           /\ ReadPlatformVersion(cm) \in STRING
           /\ ResolveDesiredDistribution(ReadDesiredDistribution(cm), platform) \in Distributions
BY LiteralsAssumption
   DEF ConfigRecords, Distributions, ReadDesiredDistribution, ReadPlatformVersion,
       ResolveDesiredDistribution, NoDistribution, StandaloneDistribution,
       DistributionNameFromPlatform, Standalone, SelfManagedRhoai, SelfManagedRHOAI, OpenDataHub

\* A new CR's status is a status.
LEMMA InitStatusType == InitStatus \in Statuses
BY LiteralsAssumption DEF InitStatus, Statuses, Phases, Reasons, Distributions, NoDistribution

\* setErrorStatus and reconcileRemoved produce statuses.
LEMMA ErrorStatusType ==
    ASSUME NEW s \in Statuses, NEW g \in Nat
    PROVE  SetErrorStatus(s, g) \in Statuses /\ RemovedStatus(s, g) \in Statuses
BY LiteralsAssumption DEF SetErrorStatus, RemovedStatus, Statuses, Phases, Reasons, Distributions, NoDistribution

\* So does recording the namespaces or the Pending phase.
LEMMA DispatchStatusType ==
    ASSUME NEW v \in Versions
    PROVE  DispatchStatus(v) \in Statuses
<1>1. OperandNamespace(v.spec) \in STRING
  BY OperandsAssumption, LiteralsAssumption DEF OperandNamespace, ResolveOperandNamespace, DefaultApplicationsNamespace
<1>. QED BY <1>1 DEF Versions, DispatchStatus, Dispatch, SetStatusNamespaces, Statuses, Phases

\* So does observing the deployments and the contract.
LEMMA ObservedStatusType ==
    ASSUME NEW s \in Statuses, NEW b \in BOOLEAN, NEW c \in STRING, NEW o \in ContractOutcomes
    PROVE  ObservedStatus(s, b, c, o) \in Statuses
BY LiteralsAssumption DEF ObservedStatus, SyncIngressContractStatus, Statuses

\* So does the rest of reconcileManaged: the phase is always one of the CRD's.
LEMMA ManagedStatusType ==
    ASSUME NEW s \in Statuses, NEW old \in Statuses, NEW g \in Nat, NEW b \in BOOLEAN,
           NEW d \in Distributions, NEW ver \in STRING
    PROVE  ManagedStatus(s, old, g, b, d, ver) \in Statuses
<1> DEFINE dist == IF b /\ s.provisioned THEN [s EXCEPT !.distribution = d] ELSE s
           rec  == RecordPlatformVersion(dist, b, d, ver)
           rdy  == SetReadyCondition(rec, b, old.ready, d, ver)
           ctx  == [ready |-> rdy.ready, wasReady |-> old.ready,
                    generation |-> g, previous |-> old.observedGeneration,
                    degraded |-> rdy.degraded, provisioned |-> rdy.provisioned]
<1>1. dist \in Statuses
  BY DEF Statuses
<1>2. rec \in Statuses
  <2>. HIDE DEF dist
  <2>. QED BY <1>1 DEF RecordPlatformVersion, Statuses
<1>3. rdy \in Statuses
  <2>. HIDE DEF rec
  <2>. QED BY <1>2 DEF SetReadyCondition, Statuses, Reasons, HandshakeDone, DistributionAligned
<1>4. ComputePhase(ctx) \in Phases
  BY DEF ComputePhase, Phases
<1>5. ManagedStatus(s, old, g, b, d, ver)
        = [rdy EXCEPT !.observedGeneration = g, !.phase = ComputePhase(ctx)]
  BY DEF ManagedStatus
<1>. HIDE DEF rdy, ctx
<1>. QED BY <1>3, <1>4, <1>5 DEF Statuses

-----------------------------------------------------------------------------
(* What the helpers of the actions do to the types *)

\* A version of the CR carries one of the specs users write.
LEMMA SpecType ==
    ASSUME NEW v \in Versions
    PROVE  /\ v.spec \in SpecRecords
           /\ v.spec \in Specs
           /\ OperandNamespace(v.spec) \in AppNamespaces
           /\ v.status \in Statuses
           /\ v.generation \in Nat
           /\ v.deleting \in BOOLEAN /\ v.finalizer \in BOOLEAN
BY ReconcilerAssumption DEF Versions, SpecRecords, OperandNamespace, AppNamespaces

\* A manifest group renders to names of operands.
LEMMA RenderGroupType ==
    ASSUME NEW g
    PROVE  RenderGroup(g) \in Seq(Names)
<1>1. CASE g \in DOMAIN Rendered
  <2>1. Rendered[g] \in Seq(STRING)
    BY <1>1, OperandsAssumption
  <2>2. \A i \in DOMAIN Rendered[g] : Rendered[g][i] \in Names
    BY <1>1 DEF Names
  <2>3. Rendered[g] \in Seq(Names)
    BY <2>1, <2>2
  <2>. QED BY <1>1, <2>3 DEF RenderGroup
<1>2. CASE g \notin DOMAIN Rendered
  BY <1>2 DEF RenderGroup
<1>. QED BY <1>1, <1>2

\* Every spec renders at least the ingress ConfigMap, and only operands.
LEMMA DesiredNamesType ==
    ASSUME NEW spec
    PROVE  DesiredNames(spec) \in Seq(Names) /\ DesiredNames(spec) # <<>>
<1> DEFINE groups == ManifestGroupsForPlatform(spec.platform, spec.v2)
           more   == IF spec.v2 THEN RenderGroup(groups[4]) \o RenderGroup(groups[5]) ELSE <<>>
<1>1. <<NotebookControllerConfigMap>> \in Seq(Names)
  BY DEF Names
<1>2. more \in Seq(Names)
  <2>1. RenderGroup(groups[4]) \in Seq(Names) /\ RenderGroup(groups[5]) \in Seq(Names)
    BY RenderGroupType
  <2>. QED BY <2>1
<1>3. /\ RenderGroup(groups[1]) \in Seq(Names)
      /\ RenderGroup(groups[2]) \in Seq(Names)
      /\ RenderGroup(groups[3]) \in Seq(Names)
  BY RenderGroupType
<1>4. DesiredNames(spec) = <<NotebookControllerConfigMap>>
        \o RenderGroup(groups[1]) \o RenderGroup(groups[2]) \o RenderGroup(groups[3]) \o more
  BY DEF DesiredNames
<1>. HIDE DEF groups, more
<1>. QED BY <1>1, <1>2, <1>3, <1>4

\* The reference of an operand in an applications namespace.
LEMMA ObjectRefType ==
    ASSUME NEW n \in Names, NEW ns \in AppNamespaces
    PROVE  ObjectRef(n, ns) \in Refs
BY DEF Refs

\* Publishing a version keeps the types of the CR and its watch.
LEMMA PublishType ==
    ASSUME TypeOK, NEW v \in Versions \cup {NoCR}, Publish(v)
    PROVE  /\ cr' \in Versions \cup {NoCR}
           /\ watch' \in Seq(Versions \cup {NoCR})
BY DEF TypeOK, Publish

\* A write of the worker, refused, lost or done, keeps them too.
LEMMA WriteType ==
    ASSUME TypeOK, NEW v \in Versions \cup {NoCR}, NEW ok \in BOOLEAN, Write(v, ok)
    PROVE  /\ cr' \in Versions \cup {NoCR}
           /\ watch' \in Seq(Versions \cup {NoCR})
           /\ faults' \in Nat
BY PublishType DEF TypeOK, Write, NoPublish, Fault

\* Counting a fault.
LEMMA RequestType ==
    ASSUME TypeOK, NEW ok, Request(ok)
    PROVE  faults' \in Nat
BY DEF TypeOK, Request, Fault

\* A deletion pass keeps the type of the operands.
LEMMA DeletePassType ==
    ASSUME TypeOK, NEW refs, NEW err, DeletePass(refs, err)
    PROVE  live' \in [Refs -> Specs \cup {Absent}] /\ faults' \in Nat
BY RequestType DEF DeletePass, TypeOK

\* The worker's own variables are typed.
LocalsOK ==
    /\ timer \in BOOLEAN
    /\ pc \in Pcs
    /\ wb \in Versions \cup {NoCR}
    /\ pc # "idle" => wb # NoCR
    /\ fresh \in BOOLEAN
    /\ st \in Statuses
    /\ todo \in Seq(Names)
    /\ pc = "apply" => todo # <<>>
    /\ errs \in BOOLEAN
    /\ desired \in Distributions /\ version \in STRING /\ again \in BOOLEAN

\* The end of a reconcile leaves well-typed locals.
LEMMA ResetLocalsType ==
    ASSUME ResetLocals, timer' \in BOOLEAN
    PROVE  LocalsOK'
<1>1. NoDistribution \in Distributions /\ "" \in STRING
  BY LiteralsAssumption DEF NoDistribution, Distributions
<1>2. "idle" \in Pcs
  BY DEF Pcs
<1>3. <<>> \in Seq(Names)
  OBVIOUS
<1>4. fresh' \in BOOLEAN /\ errs' \in BOOLEAN /\ again' \in BOOLEAN
  BY DEF ResetLocals
<1>. QED BY <1>1, <1>2, <1>3, <1>4, InitStatusType, Zenon DEF ResetLocals, LocalsOK

\* Reconcile returns, with or without a requeue.
LEMMA ReturnType ==
    ASSUME TypeOK, NEW requeue \in BOOLEAN, Return(requeue)
    PROVE  LocalsOK'
<1>1. ResetLocals /\ timer' \in BOOLEAN
  BY DEF Return, TypeOK
<1>. QED BY <1>1, ResetLocalsType

-----------------------------------------------------------------------------
(* Type correctness *)

\* The initial states are well typed.
LEMMA TypeInit == Init => TypeOK
<1>. SUFFICES ASSUME Init PROVE TypeOK
  OBVIOUS
<1>1. NoDistribution \in Distributions /\ "" \in STRING
  BY LiteralsAssumption DEF NoDistribution, Distributions
<1>2. "idle" \in Pcs
  BY DEF Pcs
<1>3. <<>> \in Seq(Names) /\ <<>> \in Seq(Versions \cup {NoCR}) /\ 0 \in Nat
  OBVIOUS
<1>4. live \in [Refs -> Specs \cup {Absent}]
  BY DEF Init
<1>. QED BY <1>1, <1>2, <1>3, <1>4, InitStatusType, Zenon DEF Init, TypeOK

\* The environment keeps the types.
LEMMA TypeEnvironment == TypeOK /\ Environment => TypeOK'
<1>. SUFFICES ASSUME TypeOK, Environment PROVE TypeOK'
  OBVIOUS
<1>1. ASSUME NEW spec \in Specs, CreateCR(spec) PROVE TypeOK'
  <2> DEFINE v == [uid |-> uids + 1, generation |-> 1, spec |-> spec, finalizer |-> FALSE,
                   deleting |-> FALSE, status |-> InitStatus]
  <2>1. uids + 1 \in Nat
    BY DEF TypeOK
  <2>2. v \in Versions
    BY <2>1, InitStatusType DEF Versions
  <2>3. Publish(v)
    BY <1>1 DEF CreateCR
  <2>4. cr' \in Versions \cup {NoCR} /\ watch' \in Seq(Versions \cup {NoCR})
    BY <2>2, <2>3, PublishType
  <2>. QED BY <1>1, <2>1, <2>4 DEF CreateCR, Interfere, TypeOK
<1>2. ASSUME NEW spec \in Specs, UpdateSpec(spec) PROVE TypeOK'
  <2> DEFINE v == [cr EXCEPT !.spec = spec, !.generation = @ + 1]
  <2>a. cr \in Versions
    BY <1>2 DEF TypeOK, UpdateSpec
  <2>b. cr.generation + 1 \in Nat /\ spec \in Specs
    BY <1>2, <2>a DEF Versions
  <2>1. v \in Versions
    BY <2>a, <2>b DEF Versions
  <2>2. cr' \in Versions \cup {NoCR} /\ watch' \in Seq(Versions \cup {NoCR})
    BY <1>2, <2>1, PublishType DEF UpdateSpec
  <2>. QED BY <1>2, <2>2 DEF UpdateSpec, Interfere, TypeOK
<1>3. CASE DeleteCR
  <2> DEFINE v == IF cr.finalizer THEN [cr EXCEPT !.deleting = TRUE, !.generation = @ + 1] ELSE NoCR
  <2>a. cr \in Versions
    BY <1>3 DEF TypeOK, DeleteCR
  <2>b. cr.generation + 1 \in Nat
    BY <2>a DEF Versions
  <2>1. v \in Versions \cup {NoCR}
    BY <2>a, <2>b DEF Versions
  <2>2. cr' \in Versions \cup {NoCR} /\ watch' \in Seq(Versions \cup {NoCR})
    BY <1>3, <2>1, PublishType DEF DeleteCR
  <2>. QED BY <1>3, <2>2 DEF DeleteCR, Interfere, TypeOK
<1>4. ASSUME NEW ns \in AppNamespaces, NEW config \in PlatformConfigs,
             ChangePlatformConfig(ns, config)
      PROVE  TypeOK'
  <2>1. queued' \in BOOLEAN
    BY <1>4 DEF ChangePlatformConfig, TypeOK
  <2>2. pcm' \in [AppNamespaces -> PlatformConfigs]
    BY <1>4 DEF ChangePlatformConfig, TypeOK
  <2>. QED BY <1>4, <2>1, <2>2 DEF ChangePlatformConfig, localVars, TypeOK
<1>5. CASE ChangeAvailability
  BY <1>5 DEF ChangeAvailability, localVars, TypeOK
<1>6. ASSUME NEW r \in Refs, Drift(r) PROVE TypeOK'
  <2>1. live' \in [Refs -> Specs \cup {Absent}] /\ drifts' \in Nat
    BY <1>6 DEF Drift, TypeOK
  <2>. QED BY <1>6, <2>1 DEF Drift, localVars, TypeOK
<1>7. ASSUME NEW r \in Refs, CascadeDelete(r) PROVE TypeOK'
  <2>1. live' \in [Refs -> Specs \cup {Absent}]
    BY <1>7 DEF CascadeDelete, TypeOK
  <2>. QED BY <1>7, <2>1 DEF CascadeDelete, localVars, queueVars, TypeOK
<1>8. CASE Crash
  <2>1. LocalsOK'
    BY <1>8, ResetLocalsType DEF Crash
  <2>2. faults' \in Nat /\ watch' \in Seq(Versions \cup {NoCR}) /\ queued' \in BOOLEAN
    BY <1>8 DEF Crash, Fault, TypeOK
  <2>. QED BY <1>8, <2>1, <2>2 DEF Crash, LocalsOK, TypeOK
<1>. QED BY <1>1, <1>2, <1>3, <1>4, <1>5, <1>6, <1>7, <1>8 DEF Environment

\* The informer and the work queue keep the types.
LEMMA TypeQueue == TypeOK /\ Queue => TypeOK'
<1>. SUFFICES ASSUME TypeOK, Queue PROVE TypeOK'
  OBVIOUS
<1>1. CASE CacheSync
  <2>1. cache' \in Versions \cup {NoCR} /\ watch' \in Seq(Versions \cup {NoCR})
    BY <1>1 DEF CacheSync, TypeOK
  <2>2. queued' \in BOOLEAN
    BY <1>1 DEF CacheSync, TypeOK
  <2>. QED BY <1>1, <2>1, <2>2 DEF CacheSync, clusterVars, localVars, TypeOK
<1>2. CASE TimerFires
  BY <1>2 DEF TimerFires, clusterVars, localVars, TypeOK
<1>3. CASE Resync
  BY <1>3 DEF Resync, clusterVars, localVars, TypeOK
<1>. QED BY <1>1, <1>2, <1>3 DEF Queue

\* Every request of the worker keeps the types.
LEMMA TypeWorker == TypeOK /\ Worker => TypeOK'
<1>. SUFFICES ASSUME TypeOK, Worker PROVE TypeOK'
  OBVIOUS
<1>wb. pc # "idle" => /\ wb \in Versions
                      /\ wb.spec \in Specs
                      /\ wb.spec \in SpecRecords
                      /\ OperandNamespace(wb.spec) \in AppNamespaces
                      /\ wb.generation \in Nat
  BY SpecType DEF TypeOK
<1>st. \A s \in Statuses : pc # "idle" => [wb EXCEPT !.status = s] \in Versions
  BY <1>wb DEF Versions
<1>1. CASE StartReconcile
  <2>1. CASE cache = NoCR \/ (cache.deleting /\ ~cache.finalizer)
    BY <1>1, <2>1 DEF StartReconcile, clusterVars, localVars, TypeOK
  <2>2. CASE ~(cache = NoCR \/ (cache.deleting /\ ~cache.finalizer))
    <3>1. cache \in Versions
      BY <2>2 DEF TypeOK
    <3>2. st' \in Statuses
      BY <1>1, <2>2, <3>1, DispatchStatusType, SpecType DEF StartReconcile
    <3>3. pc' \in Pcs /\ pc' # "apply"
      BY <1>1, <2>2 DEF StartReconcile, Dispatch, Pcs
    <3>4. wb' \in Versions \cup {NoCR} /\ wb' # NoCR
      BY <1>1, <2>2, <3>1 DEF StartReconcile
    <3>. QED BY <1>1, <2>2, <3>2, <3>3, <3>4 DEF StartReconcile, clusterVars, TypeOK
  <2>. QED BY <2>1, <2>2
<1>2. CASE AddFinalizer
  <2> DEFINE v == [wb EXCEPT !.finalizer = TRUE]
  <2>1. v \in Versions /\ v # NoCR
    BY <1>2, <1>wb, ReconcilerAssumption DEF AddFinalizer, Versions
  <2>2. CASE Write(v, TRUE) /\ wb' = v /\ st' = DispatchStatus(v) /\ Goto(Dispatch(v))
             /\ UNCHANGED <<fresh, todo, errs, desired, version, again>>
    <3>1. st' \in Statuses
      BY <2>1, <2>2, DispatchStatusType
    <3>2. pc' \in Pcs /\ pc' # "apply"
      BY <2>2 DEF Goto, Dispatch, Pcs
    <3>3. cr' \in Versions \cup {NoCR} /\ watch' \in Seq(Versions \cup {NoCR}) /\ faults' \in Nat
      BY <2>1, <2>2, WriteType
    <3>4. wb' \in Versions \cup {NoCR} /\ wb' # NoCR
      BY <2>1, <2>2
    <3>. QED BY <1>2, <2>2, <3>1, <3>2, <3>3, <3>4 DEF AddFinalizer, Goto, TypeOK
  <2>3. CASE Write(v, FALSE) /\ Return(TRUE)
    <3>1. cr' \in Versions \cup {NoCR} /\ watch' \in Seq(Versions \cup {NoCR}) /\ faults' \in Nat
      BY <2>1, <2>3, WriteType
    <3>2. LocalsOK'
      BY <2>3, ReturnType
    <3>. QED BY <1>2, <3>1, <3>2 DEF AddFinalizer, LocalsOK, TypeOK
  <2>. QED BY <1>2, <2>2, <2>3 DEF AddFinalizer
<1>3. CASE CleanNamespaced
  <2>1. live' \in [Refs -> Specs \cup {Absent}] /\ faults' \in Nat /\ errs' \in BOOLEAN
    BY <1>3, DeletePassType DEF CleanNamespaced
  <2>2. pc' \in Pcs /\ pc' # "apply" /\ wb # NoCR
    BY <1>3 DEF CleanNamespaced, Goto, Pcs, TypeOK
  <2>. QED BY <1>3, <2>1, <2>2 DEF CleanNamespaced, Goto, TypeOK
<1>4. CASE CleanCluster
  <2>1. live' \in [Refs -> Specs \cup {Absent}] /\ faults' \in Nat
    BY <1>4, DeletePassType DEF CleanCluster
  <2>2. wb # NoCR /\ RemovedStatus(st, wb.generation) \in Statuses
    BY <1>4, <1>wb, ErrorStatusType DEF CleanCluster, TypeOK
  <2>3. LocalsOK'
    <3>1. CASE Return(TRUE)
      BY <3>1, ReturnType
    <3>2. CASE Goto("removeFinalizer") /\ UNCHANGED localVars
      BY <2>2, <3>2 DEF Goto, localVars, LocalsOK, TypeOK, Pcs
    <3>3. CASE /\ Goto("writeError") /\ errs' = FALSE
               /\ UNCHANGED <<wb, fresh, st, todo, desired, version, again>>
      BY <2>2, <3>3 DEF Goto, LocalsOK, TypeOK, Pcs
    <3>4. CASE /\ Goto("writeStatus") /\ st' = RemovedStatus(st, wb.generation)
               /\ UNCHANGED <<wb, fresh, todo, errs, desired, version, again>>
      BY <2>2, <3>4 DEF Goto, LocalsOK, TypeOK, Pcs
    <3>. QED BY <1>4, <3>1, <3>2, <3>3, <3>4, Zenon DEF CleanCluster
  <2>. QED BY <1>4, <2>1, <2>3 DEF CleanCluster, LocalsOK, TypeOK
<1>5. CASE RemoveFinalizer
  <2>1. PICK ok \in BOOLEAN : Write(NoCR, ok) /\ Return(~ok)
    BY <1>5 DEF RemoveFinalizer
  <2>2. cr' \in Versions \cup {NoCR} /\ watch' \in Seq(Versions \cup {NoCR}) /\ faults' \in Nat
    BY <2>1, WriteType
  <2>3. LocalsOK'
    BY <2>1, ReturnType
  <2>. QED BY <1>5, <2>2, <2>3 DEF RemoveFinalizer, LocalsOK, TypeOK
<1>6. CASE WritePending
  <2>1. [wb EXCEPT !.status = st] \in Versions
    BY <1>6, <1>st DEF WritePending, TypeOK
  <2>2. cr' \in Versions \cup {NoCR} /\ watch' \in Seq(Versions \cup {NoCR}) /\ faults' \in Nat
    BY <1>6, <2>1, WriteType DEF WritePending
  <2>3. LocalsOK'
    BY <1>6, ReturnType DEF WritePending
  <2>. QED BY <1>6, <2>2, <2>3 DEF WritePending, LocalsOK, TypeOK
<1>7. CASE ReadDistribution
  <2>1. desired' \in Distributions
    <3>1. pcm[OperandNamespace(wb.spec)] \in ConfigRecords
      BY <1>7, <1>wb, ReconcilerAssumption DEF ReadDistribution, TypeOK
    <3>. QED BY <1>7, <3>1, DesiredDistributionType DEF ReadDistribution, TypeOK
  <2>2. pc' \in Pcs /\ pc' # "apply" /\ wb # NoCR /\ faults' \in Nat /\ UNCHANGED timer
    BY <1>7, RequestType DEF ReadDistribution, Goto, Pcs, TypeOK
  <2>. QED BY <1>7, <2>1, <2>2 DEF ReadDistribution, TypeOK
<1>8. CASE ReadVersion
  <2>1. version' \in STRING
    <3>1. pcm[OperandNamespace(wb.spec)] \in ConfigRecords
      BY <1>8, <1>wb, ReconcilerAssumption DEF ReadVersion, TypeOK
    <3>. QED BY <1>8, <3>1, LiteralsAssumption
         DEF ReadVersion, ReadPlatformVersion, ConfigRecords, TypeOK
  <2>2. pc' \in Pcs /\ pc' # "apply" /\ wb # NoCR /\ faults' \in Nat /\ UNCHANGED timer
    BY <1>8, RequestType DEF ReadVersion, Goto, Pcs, TypeOK
  <2>. QED BY <1>8, <2>1, <2>2 DEF ReadVersion, TypeOK
<1>9. CASE EnsureNamespaces
  <2>1. /\ OperandNamespace(wb.spec) \in AllNamespaces
        /\ DefaultLegacyWorkbenchNamespace(wb.spec.platform) \in AllNamespaces
    BY <1>9, <1>wb DEF EnsureNamespaces, AllNamespaces, DefaultLegacyWorkbenchNamespace
  <2>2. namespaces' \in SUBSET AllNamespaces
    BY <1>9, <2>1 DEF EnsureNamespaces, TypeOK
  <2>3. todo' \in Seq(Names) /\ (pc' = "apply" => todo' # <<>>)
    BY <1>9, DesiredNamesType DEF EnsureNamespaces, Goto, NamesToApply, TypeOK
  <2>4. pc' \in Pcs /\ wb # NoCR /\ faults' \in Nat /\ UNCHANGED timer
    BY <1>9, RequestType DEF EnsureNamespaces, Goto, Pcs, TypeOK
  <2>. QED BY <1>9, <2>2, <2>3, <2>4 DEF EnsureNamespaces, TypeOK
<1>10. CASE ApplyObject
  <2>1. live' \in [Refs -> Specs \cup {Absent}]
    BY <1>10, <1>wb DEF ApplyObject, TypeOK
  <2>2. todo' \in Seq(Names) /\ (pc' = "apply" => todo' # <<>>)
    <3>1. todo \in Seq(Names) /\ todo # <<>>
      BY <1>10 DEF ApplyObject, TypeOK
    <3>2. Tail(todo) \in Seq(Names) /\ <<>> \in Seq(Names)
      BY <3>1
    <3>. QED BY <1>10, <3>2 DEF ApplyObject, Goto
  <2>3. pc' \in Pcs /\ wb # NoCR /\ faults' \in Nat /\ UNCHANGED timer
    BY <1>10, RequestType DEF ApplyObject, Goto, Pcs, TypeOK
  <2>. QED BY <1>10, <2>1, <2>2, <2>3 DEF ApplyObject, TypeOK
<1>11. CASE GCNamespaced
  <2>1. live' \in [Refs -> Specs \cup {Absent}] /\ faults' \in Nat /\ errs' \in BOOLEAN
    BY <1>11, DeletePassType DEF GCNamespaced
  <2>2. pc' \in Pcs /\ pc' # "apply" /\ wb # NoCR
    BY <1>11 DEF GCNamespaced, Goto, Pcs, TypeOK
  <2>. QED BY <1>11, <2>1, <2>2 DEF GCNamespaced, Goto, TypeOK
<1>12. CASE GCCluster
  <2>1. live' \in [Refs -> Specs \cup {Absent}] /\ faults' \in Nat
    BY <1>12, DeletePassType DEF GCCluster
  <2>2. pc' \in Pcs /\ pc' # "apply" /\ wb # NoCR /\ UNCHANGED timer
    BY <1>12 DEF GCCluster, Goto, Pcs, TypeOK
  <2>3. errs' \in BOOLEAN
    BY <1>12 DEF GCCluster
  <2>. QED BY <1>12, <2>1, <2>2, <2>3 DEF GCCluster, TypeOK
<1>13. CASE Observe
  <2>1. PICK listed \in BOOLEAN, ok \in BOOLEAN, outcome \in ContractOutcomes :
               ObserveWith(listed, ok, outcome)
    BY <1>13 DEF Observe
  <2> DEFINE ready == listed /\ avail
             seen  == ObservedStatus(st, ready, wb.spec.contract, outcome)
             full  == ManagedStatus(seen, wb.status, wb.generation, ready, desired, version)
  <2>2. ready \in BOOLEAN /\ wb \in Versions /\ wb # NoCR
    BY <1>13, <1>wb DEF Observe, TypeOK
  <2>3. seen \in Statuses
    <3>1. wb.spec.contract \in STRING
      BY <1>13, <1>wb DEF Observe, SpecRecords
    <3>. QED BY <2>2, <3>1, ObservedStatusType DEF TypeOK
  <2>4. full \in Statuses
    BY <2>2, <2>3, SpecType, ManagedStatusType DEF TypeOK
  <2>. HIDE DEF ready, seen, full
  <2>5. st' \in Statuses /\ pc' \in Pcs /\ pc' # "apply" /\ UNCHANGED timer
    BY <2>1, <2>3, <2>4 DEF ObserveWith, Goto, Pcs, ready, seen, full
  <2>6. again' \in BOOLEAN
    BY <2>1 DEF ObserveWith, RequeueNeeded, TypeOK
  <2>7. faults' \in Nat
    BY <2>1, RequestType DEF ObserveWith
  <2>. QED BY <1>13, <2>2, <2>5, <2>6, <2>7 DEF Observe, TypeOK
<1>14. CASE WriteStatus
  <2>1. [wb EXCEPT !.status = st] \in Versions
    BY <1>14, <1>st DEF WriteStatus, TypeOK
  <2>2. PICK ok \in BOOLEAN : Write([wb EXCEPT !.status = st], ok) /\ Return(again \/ ~ok)
    BY <1>14 DEF WriteStatus
  <2>3. cr' \in Versions \cup {NoCR} /\ watch' \in Seq(Versions \cup {NoCR}) /\ faults' \in Nat
    BY <2>1, <2>2, WriteType
  <2>4. LocalsOK'
    BY <2>2, ReturnType
  <2>. QED BY <1>14, <2>3, <2>4 DEF WriteStatus, LocalsOK, TypeOK
<1>15. CASE WriteError
  <2>1. SetErrorStatus(st, wb.generation) \in Statuses
    BY <1>15, <1>wb, ErrorStatusType DEF WriteError, TypeOK
  <2>2. [wb EXCEPT !.status = SetErrorStatus(st, wb.generation)] \in Versions
    BY <1>15, <1>st, <2>1 DEF WriteError
  <2>3. cr' \in Versions \cup {NoCR} /\ watch' \in Seq(Versions \cup {NoCR}) /\ faults' \in Nat
    BY <1>15, <2>2, WriteType DEF WriteError
  <2>4. LocalsOK'
    BY <1>15, ReturnType DEF WriteError
  <2>. QED BY <1>15, <2>3, <2>4 DEF WriteError, LocalsOK, TypeOK
<1>. QED BY <1>1, <1>2, <1>3, <1>4, <1>5, <1>6, <1>7, <1>8, <1>9, <1>10, <1>11, <1>12,
            <1>13, <1>14, <1>15 DEF Worker

\* Every variable keeps its type: in particular every status the operator
\* publishes is one the CRD's enumerations admit.
THEOREM TypeCorrect == Spec => []TypeOK
<1>1. TypeOK /\ [Next]_vars => TypeOK'
  <2>. SUFFICES ASSUME TypeOK, [Next]_vars PROVE TypeOK'
    OBVIOUS
  <2>1. CASE UNCHANGED vars
    BY <2>1 DEF vars, clusterVars, queueVars, localVars, TypeOK
  <2>2. CASE Next
    BY <2>2, TypeEnvironment, TypeQueue, TypeWorker DEF Next
  <2>. QED BY <2>1, <2>2
<1>. QED BY TypeInit, <1>1, PTL DEF Spec
=============================================================================
