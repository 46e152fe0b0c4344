---------------------------- MODULE StatusProofs ----------------------------
(***************************************************************************)
(* What the status of the CR promises holds in every reachable state:      *)
(* Removed means clean, Ready means applied and handshaken, evidence is    *)
(* backed by operands, and a platform version is replaced only after the   *)
(* upgrade was announced.  The inductive invariant is StatusInv of module  *)
(* Reconciler with the promises about the operands themselves.             *)
(***************************************************************************)
EXTENDS FinalizerProofs

LiveInv == RemovedIsClean /\ ReadyMeansApplied /\ EvidenceBacked

PromiseInv == StatusInv /\ LiveInv

-----------------------------------------------------------------------------
(* The functions that compute the status *)

\* A complete status is about generation g, is Ready only for the distribution
\* it carries and after the handshake, and replaces a platform version of a
\* platform-managed cluster only when the replacement was announced.
LEMMA ManagedStatusReports ==
    ASSUME NEW s \in Statuses, s.provisioned, NEW old \in Statuses, NEW g \in Nat,
           NEW b \in BOOLEAN, NEW d \in Distributions, NEW ver \in STRING,
           NEW m \in Statuses, m = ManagedStatus(s, old, g, b, d, ver)
    PROVE  /\ m.observedGeneration = g
           /\ Handshaken(m) /\ Announced(s, m)
           /\ m.reason # "Removed"
           /\ m.contractReady = s.contractReady /\ m.contract = s.contract
<1> DEFINE dist == IF b /\ s.provisioned THEN [s EXCEPT !.distribution = d] ELSE s
           rec  == RecordPlatformVersion(dist, b, d, ver)
           rdy  == SetReadyCondition(rec, b, old.ready, d, ver)
           ctx  == [ready |-> rdy.ready, wasReady |-> old.ready,
                    generation |-> g, previous |-> old.observedGeneration,
                    degraded |-> rdy.degraded, provisioned |-> rdy.provisioned]
<1>1. /\ dist \in Statuses
      /\ b => dist.distribution = d
      /\ dist.platformVersion = s.platformVersion /\ dist.reason = s.reason
      /\ dist.contractReady = s.contractReady /\ dist.contract = s.contract
  BY DEF Statuses
<1>. HIDE DEF dist
<1>2. /\ rec \in Statuses
      /\ rec.distribution = dist.distribution
      /\ \/ rec.platformVersion = s.platformVersion
         \/ /\ b
            /\ \/ s.platformVersion = "" \/ s.reason = "PlatformVersionPending"
               \/ ~HandshakeRequired(d)
      /\ rec.contractReady = s.contractReady /\ rec.contract = s.contract
  BY <1>1 DEF RecordPlatformVersion, Statuses
<1>. HIDE DEF rec
<1>3. /\ rdy \in Statuses
      /\ rdy.distribution = rec.distribution /\ rdy.platformVersion = rec.platformVersion
      /\ rdy.contractReady = rec.contractReady /\ rdy.contract = rec.contract
      /\ rdy.reason # "Removed"
      /\ rdy.ready => b /\ DistributionAligned(d, rec.distribution) /\ HandshakeDone(rec, d, ver)
  <2> DEFINE aligned == DistributionAligned(d, rec.distribution)
             done    == HandshakeDone(rec, d, ver)
             ready   == b /\ aligned /\ done
             reason  == CASE ready -> "ReconcileSuccess"
                          [] b /\ ~aligned -> "DistributionNotAligned"
                          [] b /\ aligned /\ ~done -> "PlatformVersionPending"
                          [] ~b -> "DeploymentsNotReady"
  <2>1. aligned \in BOOLEAN /\ done \in BOOLEAN
    BY Zenon DEF DistributionAligned, HandshakeDone
  <2> DEFINE degraded == IF reason \in {"ReconcileSuccess", "PlatformVersionPending"}
                                 THEN FALSE ELSE rec.degraded \/ (~b /\ old.ready)
  <2>2. rdy = [rec EXCEPT !.ready = ready, !.reason = reason, !.degraded = degraded]
    BY DEF SetReadyCondition
  <2>. HIDE DEF aligned, done, rdy
  <2>3. reason \in {"ReconcileSuccess", "DistributionNotAligned", "PlatformVersionPending",
                    "DeploymentsNotReady"}
    BY <2>1
  <2>4. reason \in Reasons /\ reason # "Removed" /\ ready \in BOOLEAN
    BY <2>1, <2>3 DEF Reasons
  <2>5. ready => b /\ DistributionAligned(d, rec.distribution) /\ HandshakeDone(rec, d, ver)
    BY DEF aligned, done
  <2>6. degraded \in BOOLEAN
    BY <1>2 DEF Statuses
  <2>. HIDE DEF reason, ready, degraded
  <2>7. /\ rdy \in Statuses /\ rdy.ready = ready /\ rdy.reason = reason
        /\ rdy.distribution = rec.distribution /\ rdy.platformVersion = rec.platformVersion
        /\ rdy.contractReady = rec.contractReady /\ rdy.contract = rec.contract
    BY <1>2, <2>2, <2>4, <2>6 DEF Statuses
  <2>. QED BY <2>4, <2>5, <2>7
<1>. HIDE DEF rdy
<1>4. m = [rdy EXCEPT !.observedGeneration = g, !.phase = ComputePhase(ctx)]
  BY DEF ManagedStatus, rdy, rec, dist
<1>5. /\ m.observedGeneration = g /\ m.ready = rdy.ready /\ m.reason = rdy.reason
      /\ m.distribution = rdy.distribution /\ m.platformVersion = rdy.platformVersion
      /\ m.contractReady = rdy.contractReady /\ m.contract = rdy.contract
  BY <1>3, <1>4 DEF Statuses
<1>6. ASSUME m.ready
      PROVE  /\ m.distribution # NoDistribution
             /\ HandshakeRequired(m.distribution) => m.platformVersion # ""
  <2>1. d.name # "" /\ d = rec.distribution
    BY <1>3, <1>5, <1>6 DEF DistributionAligned
  <2>2. HandshakeRequired(d) => ver # "" /\ rec.platformVersion = ver
    BY <1>3, <1>5, <1>6 DEF HandshakeDone, HandshakeComplete
  <2>3. m.distribution = d /\ m.platformVersion = rec.platformVersion
    BY <1>3, <1>5, <2>1
  <2>0. NoDistribution.name = ""
    BY DEF NoDistribution
  <2>4. d # NoDistribution
    BY <2>0, <2>1
  <2>. QED BY <2>2, <2>3, <2>4
<1>7. Announced(s, m)
  BY <1>1, <1>2, <1>3, <1>5 DEF Announced
<1>. QED BY <1>3, <1>2, <1>5, <1>6, <1>7 DEF Handshaken

\* The status in memory when Reconcile dispatches on the management state.
LEMMA DispatchReports ==
    ASSUME NEW v \in Versions, NEW s, s = DispatchStatus(v)
    PROVE  /\ s.ready = v.status.ready /\ s.reason = v.status.reason
           /\ s.distribution = v.status.distribution
           /\ s.platformVersion = v.status.platformVersion
           /\ Dispatch(v) = "writePending" => s.observedGeneration = 0
<1>1. v.status \in Statuses
  BY SpecType
<1>. QED BY <1>1 DEF DispatchStatus, Dispatch, SetStatusNamespaces, Statuses

\* Which way Reconcile goes.
LEMMA DispatchStage ==
    ASSUME NEW v \in Versions
    PROVE  /\ Dispatch(v) \in {"cleanupNamespaced", "writePending", "writeError", "readDistribution"}
           /\ Dispatch(v) = "cleanupNamespaced" => v.spec.managementState = "Removed"
           /\ Dispatch(v) \in {"writePending", "readDistribution"} =>
                 v.spec.managementState = "Managed"
<1>1. v.spec.managementState \in {"Managed", "Removed"}
  BY SpecType DEF SpecRecords
<1>. QED BY <1>1 DEF Dispatch

-----------------------------------------------------------------------------
(* Operands *)

\* What a spec renders are references to operands.
LEMMA DesiredRefsType ==
    ASSUME NEW v \in Versions
    PROVE  /\ DesiredRefs(v.spec) \in SUBSET Refs
           /\ \A n \in Names : ObjectRef(n, OperandNamespace(v.spec)) \in Refs
<1>1. \A n \in Names : ObjectRef(n, OperandNamespace(v.spec)) \in Refs
  BY SpecType, ObjectRefType
<1>2. \A i \in DOMAIN DesiredNames(v.spec) : DesiredNames(v.spec)[i] \in Names
  BY DesiredNamesType
<1>. QED BY <1>1, <1>2 DEF DesiredRefs

\* A pass over references outside kept leaves the operands of kept alone.
LEMMA DeletePassKeeps ==
    ASSUME NEW refs \in SUBSET Refs, NEW err \in BOOLEAN, DeletePass(refs, err),
           NEW kept \in SUBSET Refs, refs \cap kept = {}
    PROVE  \A r \in kept : live'[r] = live[r]
<1>1. PICK failed \in SUBSET {r \in refs : live[r] # Absent} :
        live' = [r \in Refs |-> IF r \in refs \ failed THEN Absent ELSE live[r]]
  BY DEF DeletePass
<1>. QED BY <1>1

\* What stays applied: the desired operands are left alone and none is added.
LEMMA AppliedStays ==
    ASSUME NEW spec, Applied(spec),
           \A r \in DesiredRefs(spec) : live'[r] = live[r],
           \A r \in Refs : Operand(r)' => Operand(r)
    PROVE  Applied(spec)'
BY DEF Applied

\* A step that leaves the CR alone keeps the promises when it adds no operand and
\* removes none that a Ready or confirmed CR is said to have.
LEMMA LiveInvStays ==
    ASSUME LiveInv, UNCHANGED <<cr, drifts>>, \A r \in Refs : Operand(r)' => Operand(r),
           Current /\ (cr.status.ready \/ cr.status.contractReady) =>
              \A r \in DesiredRefs(cr.spec) : live'[r] = live[r]
    PROVE  LiveInv'
<1>1. Current' <=> Current
  BY DEF Current
<1>2. Clean(cr.spec) => Clean(cr.spec)'
  BY DEF Clean
<1>3. ASSUME Current, cr.status.ready \/ cr.status.contractReady, Applied(cr.spec)
      PROVE  Applied(cr.spec)'
  BY <1>3, AppliedStays DEF Applied
<1>4. RemovedIsClean'
  BY <1>1, <1>2 DEF LiveInv, RemovedIsClean, Clean
<1>5. ReadyMeansApplied' /\ EvidenceBacked'
  BY <1>1, <1>3 DEF LiveInv, ReadyMeansApplied, EvidenceBacked
<1>. QED BY <1>4, <1>5 DEF LiveInv

-----------------------------------------------------------------------------
(* The shapes of a step *)

\* A CR whose current generation was reported on is not being deleted, and
\* the worker, if it works, works on the same request.
LEMMA CurrentWork ==
    ASSUME PromiseInv, Current
    PROVE  /\ ~cr.deleting
           /\ pc # "idle" => wb.spec = cr.spec /\ wb.deleting = cr.deleting
BY DEF PromiseInv, StatusInv, ReportInv, SoundReport, LagInv, SameRequest, Current

\* Nothing the invariant speaks of changes.
LEMMA NothingStep ==
    ASSUME PromiseInv,
           UNCHANGED <<cr, live, drifts, cache, watch, pc, wb, fresh, st, todo, errs>>
    PROVE  PromiseInv'
<1>1. Current' <=> Current
  BY DEF Current
<1>2. \A r : Operand(r)' <=> Operand(r)
  BY DEF Operand
<1>3. ReportInv' /\ LagInv' /\ MemoryInv'
  BY <1>1 DEF PromiseInv, StatusInv, ReportInv, LagInv, MemoryInv, SameRequest
<1>4. \A spec : (Applied(spec)' <=> Applied(spec)) /\ (Clean(spec)' <=> Clean(spec))
  BY <1>2 DEF Applied, Clean
<1>5. WorkInv'
  BY <1>2, <1>4 DEF PromiseInv, StatusInv, WorkInv, CompleteStatus
<1>6. LiveInv'
  BY <1>2, LiveInvStays DEF PromiseInv
<1>. QED BY <1>3, <1>5, <1>6 DEF PromiseInv, StatusInv

\* Somebody else writes the CR: the new version is not reported on yet.
LEMMA SomebodyWrites ==
    ASSUME TypeOK, PromiseInv, NEW v, cr' = v, Interfere,
           v # NoCR => SoundReport(v) /\ v.status.observedGeneration # v.generation,
           UNCHANGED <<live, drifts, cache, pc, wb, st, todo, errs>>
    PROVE  PromiseInv'
<1>1. ~Current' /\ fresh' = FALSE
  BY DEF Current, Interfere
<1>2. ReportInv'
  BY DEF ReportInv
<1>3. LagInv' /\ MemoryInv'
  BY <1>1 DEF PromiseInv, StatusInv, LagInv, MemoryInv
<1>4. \A r : Operand(r)' <=> Operand(r)
  BY DEF Operand
<1>5. \A spec : Clean(spec)' <=> Clean(spec)
  BY <1>4 DEF Clean
<1>6. WorkInv'
  BY <1>1, <1>4, <1>5 DEF PromiseInv, StatusInv, WorkInv, CompleteStatus
<1>7. LiveInv'
  BY <1>1 DEF LiveInv, RemovedIsClean, ReadyMeansApplied, EvidenceBacked
<1>. QED BY <1>2, <1>3, <1>6, <1>7 DEF PromiseInv, StatusInv

\* The worker goes on within a reconcile without writing the CR.
LEMMA StageStep ==
    ASSUME PromiseInv, pc # "idle", UNCHANGED <<cr, cache, watch, wb, fresh>>,
           MemoryInv', WorkInv', LiveInv'
    PROVE  PromiseInv'
<1>1. Current' <=> Current
  BY DEF Current
<1>2. ReportInv' /\ LagInv'
  BY <1>1 DEF PromiseInv, StatusInv, ReportInv, LagInv, SameRequest
<1>. QED BY <1>2 DEF PromiseInv, StatusInv

\* A reconcile ends, or the process does, without writing the CR.
LEMMA QuietEnd ==
    ASSUME PromiseInv, ResetLocals, UNCHANGED <<cr, drifts>>, LiveInv',
           \/ UNCHANGED <<cache, watch>>
           \/ cache' = cr /\ watch' = <<>>
    PROVE  PromiseInv'
<1>1. Current' <=> Current
  BY DEF Current
<1>2. pc' = "idle" /\ fresh' = FALSE
  BY DEF ResetLocals
<1>3. ReportInv' /\ MemoryInv' /\ WorkInv'
  BY <1>2 DEF PromiseInv, StatusInv, ReportInv, MemoryInv, WorkInv
<1>4. CASE UNCHANGED <<cache, watch>>
  BY <1>1, <1>2, <1>3, <1>4 DEF PromiseInv, StatusInv, LagInv, SameRequest
<1>5. CASE cache' = cr /\ watch' = <<>>
  <2>1. \A i \in DOMAIN watch' : FALSE
    BY <1>5, EmptyDomain
  <2>2. LagInv'
    BY <1>1, <1>2, <1>5, <2>1 DEF LagInv, SameRequest, Current
  <2>. QED BY <1>3, <2>2 DEF PromiseInv, StatusInv
<1>. QED BY <1>4, <1>5

\* The worker's copy is the CR and it writes v, with the same request: every
\* copy on its way to the cache asks for what v asks for.
LEMMA OwnWriteLag ==
    ASSUME TypeOK, FinalizerInv, PromiseInv, fresh, NEW v \in Versions, Publish(v),
           UNCHANGED cache, v.spec = wb.spec, v.deleting = wb.deleting
    PROVE  /\ SameRequest(cache)'
           /\ \A i \in DOMAIN watch' : SameRequest(watch[i])'
<1>1. cr' = v /\ wb = cr /\ v # NoCR
  BY ReconcilerAssumption DEF Publish, FinalizerInv, FreshInv
<1>2. SameRequest(cache) /\ \A i \in DOMAIN watch : SameRequest(watch[i])
  BY DEF PromiseInv, StatusInv, LagInv
<1>3. \A i \in DOMAIN watch' : watch'[i] = v \/ (i \in DOMAIN watch /\ watch'[i] = watch[i])
  BY PublishWatch DEF FinalizerInv
<1>. QED BY <1>1, <1>2, <1>3 DEF SameRequest

\* A reconcile ends with a write of the status s.
LEMMA StatusWriteEnd ==
    ASSUME TypeOK, FinalizerInv, PromiseInv, pc # "idle", ~wb.deleting,
           NEW s \in Statuses, NEW ok \in BOOLEAN,
           Write([wb EXCEPT !.status = s], ok), ResetLocals, UNCHANGED <<live, drifts, cache>>,
           fresh => SoundReport([wb EXCEPT !.status = s]),
           fresh /\ s.observedGeneration = wb.generation =>
               /\ s.reason = "Removed" => Clean(wb.spec)
               /\ drifts = 0 /\ (s.ready \/ s.contractReady) => Applied(wb.spec)
    PROVE  PromiseInv'
<1> DEFINE v == [wb EXCEPT !.status = s]
<1>1. /\ v \in Versions /\ v.status = s /\ v.spec = wb.spec
      /\ v.generation = wb.generation /\ v.deleting = wb.deleting
  BY DEF TypeOK, Versions
<1>2. pc' = "idle" /\ fresh' = FALSE
  BY DEF ResetLocals
<1>3. \A r : Operand(r)' <=> Operand(r)
  BY DEF Operand
<1>4. CASE NoPublish
  <2>1. LiveInv'
    BY <1>3, <1>4, LiveInvStays DEF NoPublish, PromiseInv
  <2>. QED BY <1>4, <2>1, QuietEnd DEF NoPublish
<1>5. CASE fresh /\ Publish(v)
  <2>0. SoundReport(v)
    BY <1>5
  <2>. HIDE DEF v
  <2>1. cr' = v /\ v # NoCR
    BY <1>1, <1>5, ReconcilerAssumption DEF Publish
  <2>2. ReportInv'
    BY <2>0, <2>1 DEF ReportInv
  <2>3. LagInv'
    BY <1>1, <1>2, <1>5, OwnWriteLag DEF LagInv
  <2>4. MemoryInv' /\ WorkInv'
    BY <1>2 DEF MemoryInv, WorkInv
  <2>5. Current' <=> s.observedGeneration = wb.generation
    BY <1>1, <2>1 DEF Current
  <2>6. \A spec : (Applied(spec)' <=> Applied(spec)) /\ (Clean(spec)' <=> Clean(spec))
    BY <1>3 DEF Applied, Clean
  <2>s. PICK spec : spec = wb.spec /\ cr'.spec = spec /\ cr'.status = s
    BY <1>1, <2>1
  <2>7. RemovedIsClean'
    <3>1. s.observedGeneration = wb.generation /\ s.reason = "Removed" => Clean(spec)'
      BY <1>5, <2>6, <2>s
    <3>. QED BY <2>5, <2>s, <3>1 DEF RemovedIsClean, Clean
  <2>8. ReadyMeansApplied' /\ EvidenceBacked'
    <3>1. s.observedGeneration = wb.generation /\ s.contractReady => s.contract = spec.contract
      BY <1>1, <2>0, <2>s DEF SoundReport
    <3>2. drifts' = 0 /\ s.observedGeneration = wb.generation /\ (s.ready \/ s.contractReady)
            => Applied(spec)'
      BY <1>5, <2>6, <2>s
    <3>3. Applied(cr.spec)' <=> Applied(spec)'
      BY <2>s DEF Applied
    <3>. QED BY <2>5, <2>s, <3>1, <3>2, <3>3 DEF ReadyMeansApplied, EvidenceBacked
  <2>. QED BY <2>2, <2>3, <2>4, <2>7, <2>8 DEF PromiseInv, StatusInv, LiveInv
<1>. QED BY <1>4, <1>5 DEF Write

-----------------------------------------------------------------------------
(* PromiseInv is inductive *)

\* The invariant holds initially.
LEMMA PromiseInit == Init => PromiseInv
<1>. SUFFICES ASSUME Init PROVE PromiseInv
  OBVIOUS
<1>1. cr = NoCR /\ pc = "idle" /\ ~Current
  BY DEF Init, Current
<1>2. ~fresh
  BY Zenon DEF Init
<1>3. ReportInv /\ LagInv /\ MemoryInv /\ WorkInv
  BY <1>1, <1>2 DEF ReportInv, LagInv, MemoryInv, WorkInv
<1>4. LiveInv
  BY <1>1 DEF LiveInv, RemovedIsClean, ReadyMeansApplied, EvidenceBacked
<1>. QED BY <1>3, <1>4 DEF PromiseInv, StatusInv

\* A version of a later generation with an old status makes no new promise.
LEMMA LaterGeneration ==
    ASSUME NEW v, NEW w, SoundReport(v), v.generation \in Nat,
           v.status.observedGeneration \in Nat,
           w.status = v.status, w.generation = v.generation + 1
    PROVE  SoundReport(w) /\ w.status.observedGeneration # w.generation
<1>1. PICK g \in Nat, o \in Nat : g = v.generation /\ o = v.status.observedGeneration
  OBVIOUS
<1>2. o <= g /\ g >= 1
  BY <1>1 DEF SoundReport
<1>3. w.generation >= 1 /\ w.status.observedGeneration <= w.generation
      /\ w.status.observedGeneration # w.generation
  BY <1>1, <1>2
<1>4. Handshaken(w.status)
  BY DEF SoundReport
<1>. QED BY <1>3, <1>4 DEF SoundReport

\* Users, the orchestrator, drift, the garbage collector and crashes keep it.
LEMMA PromiseEnvironment ==
    TypeOK /\ FinalizerInv /\ PromiseInv /\ Environment => PromiseInv'
<1>. SUFFICES ASSUME TypeOK, FinalizerInv, PromiseInv, Environment PROVE PromiseInv'
  OBVIOUS
<1>g. cr # NoCR => /\ cr \in Versions /\ cr.generation \in Nat
                   /\ cr.status \in Statuses /\ cr.status.observedGeneration \in Nat
                   /\ SoundReport(cr)
  BY SpecType DEF TypeOK, PromiseInv, StatusInv, ReportInv, Statuses
<1>1. ASSUME NEW spec \in Specs, CreateCR(spec) PROVE PromiseInv'
  <2> DEFINE v == [uid |-> uids + 1, generation |-> 1, spec |-> spec, finalizer |-> FALSE,
                   deleting |-> FALSE, status |-> InitStatus]
  <2>0. v.generation = 1 /\ v.status.observedGeneration = 0 /\ Handshaken(v.status)
    BY DEF InitStatus, Handshaken
  <2>2. cr' = v
    BY <1>1 DEF CreateCR, Publish
  <2>. HIDE DEF v
  <2>3. /\ v.generation >= 1 /\ v.status.observedGeneration <= v.generation
        /\ v.status.observedGeneration # v.generation
    BY <2>0
  <2>1. SoundReport(v) /\ v.status.observedGeneration # v.generation
    BY <2>0, <2>3, Zenon DEF SoundReport
  <2>. QED BY <1>1, <2>1, <2>2, SomebodyWrites DEF CreateCR
<1>2. ASSUME NEW spec \in Specs, UpdateSpec(spec) PROVE PromiseInv'
  <2> DEFINE v == [cr EXCEPT !.spec = spec, !.generation = @ + 1]
  <2>1. cr # NoCR /\ cr' = v
    BY <1>2 DEF UpdateSpec, Publish
  <2>2. v.status = cr.status /\ v.generation = cr.generation + 1
    BY <1>g, <2>1 DEF Versions
  <2>. HIDE DEF v
  <2>3. SoundReport(v) /\ v.status.observedGeneration # v.generation
    BY <1>g, <2>1, <2>2, LaterGeneration
  <2>. QED BY <1>2, <2>1, <2>3, SomebodyWrites DEF UpdateSpec
<1>3. CASE DeleteCR
  <2> DEFINE v == [cr EXCEPT !.deleting = TRUE, !.generation = @ + 1]
  <2>1. cr # NoCR /\ cr' \in {v, NoCR}
    BY <1>3 DEF DeleteCR, Publish
  <2>2. v.status = cr.status /\ v.generation = cr.generation + 1
    BY <1>g, <2>1 DEF Versions
  <2>. HIDE DEF v
  <2>3. SoundReport(v) /\ v.status.observedGeneration # v.generation
    BY <1>g, <2>1, <2>2, LaterGeneration
  <2>4. PICK w : cr' = w /\ w \in {v, NoCR}
    BY <2>1
  <2>. QED BY <1>3, <2>3, <2>4, SomebodyWrites DEF DeleteCR
<1>4. ASSUME NEW ns \in AppNamespaces, NEW config \in PlatformConfigs,
             ChangePlatformConfig(ns, config)
      PROVE  PromiseInv'
  BY <1>4, NothingStep DEF ChangePlatformConfig, localVars
<1>5. CASE ChangeAvailability
  BY <1>5, NothingStep DEF ChangeAvailability, localVars
<1>6. ASSUME NEW r \in Refs, Drift(r) PROVE PromiseInv'
  <2>1. /\ drifts' = drifts + 1 /\ live' = [live EXCEPT ![r] = Absent]
        /\ UNCHANGED <<cr, cache, watch, pc, wb, fresh, st, todo, errs>>
    BY <1>6 DEF Drift, localVars
  <2>2. drifts' # 0
    BY <2>1 DEF TypeOK
  <2>3. \A q \in Refs : Operand(q)' => Operand(q)
    BY <2>1 DEF Operand, TypeOK
  <2>4. Current' <=> Current
    BY <2>1 DEF Current
  <2>5. ReportInv' /\ LagInv' /\ MemoryInv'
    BY <2>1, <2>4 DEF PromiseInv, StatusInv, ReportInv, LagInv, MemoryInv, SameRequest
  <2>6. WorkInv'
    BY <2>1, <2>2, <2>3 DEF PromiseInv, StatusInv, WorkInv, CompleteStatus, Clean
  <2>7. LiveInv'
    BY <2>1, <2>2, <2>3, <2>4
       DEF PromiseInv, LiveInv, RemovedIsClean, ReadyMeansApplied, EvidenceBacked
  <2>. QED BY <2>5, <2>6, <2>7 DEF PromiseInv, StatusInv
<1>7. ASSUME NEW r \in Refs, CascadeDelete(r) PROVE PromiseInv'
  <2>1. /\ cr = NoCR /\ live' = [live EXCEPT ![r] = Absent]
        /\ UNCHANGED <<cr, drifts, cache, watch, pc, wb, fresh, st, todo, errs>>
    BY <1>7 DEF CascadeDelete, queueVars, localVars
  <2>2. ~fresh /\ ~Current /\ ~Current'
    BY <2>1 DEF Current, FinalizerInv, FreshInv, TypeOK
  <2>3. \A q \in Refs : Operand(q)' => Operand(q)
    BY <2>1 DEF Operand, TypeOK
  <2>5. ReportInv' /\ LagInv' /\ MemoryInv'
    BY <2>1, <2>2 DEF PromiseInv, StatusInv, ReportInv, LagInv, MemoryInv, SameRequest
  <2>6. WorkInv'
    BY <2>1, <2>2, <2>3 DEF PromiseInv, StatusInv, WorkInv, CompleteStatus, Clean
  <2>7. LiveInv'
    BY <2>2 DEF LiveInv, RemovedIsClean, ReadyMeansApplied, EvidenceBacked
  <2>. QED BY <2>5, <2>6, <2>7 DEF PromiseInv, StatusInv
<1>8. CASE Crash
  <2>1. ResetLocals /\ UNCHANGED <<cr, live, drifts>> /\ cache' = cr /\ watch' = <<>>
    BY <1>8 DEF Crash
  <2>2. LiveInv'
    BY <2>1, LiveInvStays DEF PromiseInv, Operand
  <2>. QED BY <2>1, <2>2, QuietEnd
<1>. QED BY <1>1, <1>2, <1>3, <1>4, <1>5, <1>6, <1>7, <1>8 DEF Environment

\* The informer and the work queue keep it.
LEMMA PromiseQueue ==
    TypeOK /\ PromiseInv /\ Queue => PromiseInv'
<1>. SUFFICES ASSUME TypeOK, PromiseInv, Queue PROVE PromiseInv'
  OBVIOUS
<1>1. CASE CacheSync
  <2>1. watch \in Seq(Versions \cup {NoCR}) /\ watch # <<>>
        /\ cache' = Head(watch) /\ watch' = Tail(watch)
        /\ UNCHANGED <<cr, live, drifts, pc, wb, fresh, st, todo, errs>>
    BY <1>1 DEF CacheSync, clusterVars, localVars, TypeOK
  <2>2. /\ 1 \in DOMAIN watch /\ cache' = watch[1]
        /\ \A i \in DOMAIN watch' : i + 1 \in DOMAIN watch /\ watch'[i] = watch[i + 1]
    BY <2>1
  <2>3. Current' <=> Current
    BY <2>1 DEF Current
  <2>4. LagInv'
    BY <2>1, <2>2, <2>3 DEF PromiseInv, StatusInv, LagInv, SameRequest
  <2>5. ReportInv' /\ MemoryInv'
    BY <2>1 DEF PromiseInv, StatusInv, ReportInv, MemoryInv
  <2>6. \A r : Operand(r)' <=> Operand(r)
    BY <2>1 DEF Operand
  <2>7. \A spec : (Applied(spec)' <=> Applied(spec)) /\ (Clean(spec)' <=> Clean(spec))
    BY <2>1, <2>6 DEF Applied, Clean
  <2>8. WorkInv'
    BY <2>1, <2>6, <2>7 DEF PromiseInv, StatusInv, WorkInv, CompleteStatus
  <2>9. LiveInv'
    BY <2>1, <2>6, LiveInvStays DEF PromiseInv
  <2>. QED BY <2>4, <2>5, <2>8, <2>9 DEF PromiseInv, StatusInv
<1>2. CASE TimerFires
  BY <1>2, NothingStep DEF TimerFires, clusterVars, localVars
<1>3. CASE Resync
  BY <1>3, NothingStep DEF Resync, clusterVars, localVars
<1>. QED BY <1>1, <1>2, <1>3 DEF Queue

\* When the copy with status s is a sound report.
LEMMA ReportOn ==
    ASSUME TypeOK, pc # "idle", NEW s \in Statuses,
           wb.generation >= 1, s.observedGeneration <= wb.generation,
           Handshaken(s),
           s.observedGeneration = wb.generation =>
              /\ ~wb.deleting
              /\ s.reason = "Removed" => wb.spec.managementState = "Removed"
              /\ s.ready \/ s.contractReady => wb.spec.managementState = "Managed"
              /\ s.contractReady => s.contract = wb.spec.contract
    PROVE  SoundReport([wb EXCEPT !.status = s])
<1> DEFINE v == [wb EXCEPT !.status = s]
<1>1. /\ v.status = s /\ v.spec = wb.spec
      /\ v.generation = wb.generation /\ v.deleting = wb.deleting
  BY DEF TypeOK, Versions
<1>. HIDE DEF v
<1>2. SoundReport(v)
  BY <1>1, Zenon DEF SoundReport
<1>. QED BY <1>2 DEF v

\* The final status writes of Reconcile, reconcileManaged and reconcileRemoved.
LEMMA PromiseWrites ==
    ASSUME TypeOK, FinalizerInv, PromiseInv, WritePending \/ WriteStatus \/ WriteError
    PROVE  PromiseInv'
<1>1. /\ pc \in {"writePending", "writeStatus", "writeError"} /\ pc # "idle"
      /\ UNCHANGED <<live, drifts, cache>> /\ ResetLocals
  BY DEF WritePending, WriteStatus, WriteError, Return
<1>2. wb \in Versions /\ ~wb.deleting /\ st \in Statuses /\ wb.generation \in Nat
  BY <1>1, SpecType DEF TypeOK, FinalizerInv, StageInv, DeletePcs
<1>3. fresh => wb = cr /\ cr # NoCR /\ SoundReport(wb) /\ wb.generation >= 1
  BY <1>1, <1>2, ReconcilerAssumption
     DEF FinalizerInv, FreshInv, PromiseInv, StatusInv, ReportInv, SoundReport
<1>4. CASE WritePending
  <2>1. PICK ok \in BOOLEAN : Write([wb EXCEPT !.status = st], ok)
    BY <1>4 DEF WritePending
  <2>2. /\ st.observedGeneration = 0 /\ st.ready = wb.status.ready
        /\ st.distribution = wb.status.distribution
        /\ st.platformVersion = wb.status.platformVersion
    BY <1>4 DEF WritePending, PromiseInv, StatusInv, MemoryInv
  <2>3. ASSUME fresh PROVE SoundReport([wb EXCEPT !.status = st])
    <3>1. /\ wb.generation >= 1 /\ st.observedGeneration <= wb.generation
          /\ st.observedGeneration # wb.generation
      BY <1>2, <1>3, <2>2, <2>3
    <3>2. Handshaken(st)
      BY <1>3, <2>2, <2>3 DEF SoundReport, Handshaken
    <3>. QED BY <1>1, <1>2, <3>1, <3>2, ReportOn
  <2>4. fresh => st.observedGeneration # wb.generation
    BY <1>2, <1>3, <2>2
  <2>. QED BY <1>1, <1>2, <2>1, <2>3, <2>4, StatusWriteEnd
<1>5. CASE WriteStatus
  <2>1. PICK ok \in BOOLEAN : Write([wb EXCEPT !.status = st], ok)
    BY <1>5 DEF WriteStatus
  <2>2. CompleteStatus
    BY <1>5 DEF WriteStatus, PromiseInv, StatusInv, WorkInv
  <2>3. ASSUME fresh PROVE SoundReport([wb EXCEPT !.status = st])
    <3>1. wb.generation >= 1 /\ st.observedGeneration <= wb.generation
      <4>1. st.observedGeneration = wb.generation
        BY <2>2 DEF CompleteStatus
      <4>. QED BY <1>2, <1>3, <2>3, <4>1
    <3>. QED BY <1>1, <1>2, <2>2, <3>1, ReportOn DEF CompleteStatus
  <2>4. fresh => /\ st.reason = "Removed" => Clean(wb.spec)
                 /\ drifts = 0 /\ (st.ready \/ st.contractReady) => Applied(wb.spec)
    BY <2>2 DEF CompleteStatus
  <2>. QED BY <1>1, <1>2, <2>1, <2>3, <2>4, StatusWriteEnd
<1>6. CASE WriteError
  <2> DEFINE s == SetErrorStatus(st, wb.generation)
  <2>1. PICK ok \in BOOLEAN : Write([wb EXCEPT !.status = s], ok)
    BY <1>6 DEF WriteError
  <2>2. /\ s \in Statuses /\ ~s.ready /\ ~s.contractReady /\ s.reason = "Error"
        /\ s.observedGeneration = wb.generation /\ Handshaken(s)
    BY <1>2, ErrorStatusType DEF SetErrorStatus, Statuses, Handshaken
  <2>. HIDE DEF s
  <2>3. ASSUME fresh PROVE SoundReport([wb EXCEPT !.status = s])
    <3>1. wb.generation >= 1 /\ s.observedGeneration <= wb.generation
      BY <1>2, <1>3, <2>2, <2>3
    <3>2. s.reason # "Removed"
      BY <2>2
    <3>. QED BY <1>1, <1>2, <2>2, <3>1, <3>2, ReportOn
  <2>4. s.reason # "Removed"
    BY <2>2
  <2>. QED BY <1>1, <1>2, <2>1, <2>2, <2>3, <2>4, StatusWriteEnd
<1>. QED BY <1>4, <1>5, <1>6

\* The beginning of a reconcile: what is known of the first stage.
LEMMA FirstStage ==
    ASSUME NEW v \in Versions, wb' = v,
           pc' \in {"addFinalizer", "cleanupNamespaced", "writePending", "writeError",
                   "readDistribution"},
           pc' = "cleanupNamespaced" => v.deleting \/ v.spec.managementState = "Removed",
           pc' \in {"writePending", "readDistribution"} => v.spec.managementState = "Managed",
           /\ st'.ready = v.status.ready /\ st'.reason = v.status.reason
           /\ st'.distribution = v.status.distribution
           /\ st'.platformVersion = v.status.platformVersion
           /\ pc' = "writePending" => st'.observedGeneration = 0
    PROVE  MemoryInv' /\ WorkInv'
<1>1. MemoryInv'
  BY DEF MemoryInv
<1>2. WorkInv'
  BY DEF WorkInv
<1>. QED BY <1>1, <1>2

\* Reconcile reads the CR and dispatches, or adds the finalizer first.
LEMMA PromiseStart ==
    ASSUME TypeOK, FinalizerInv, PromiseInv, StartReconcile \/ AddFinalizer
    PROVE  PromiseInv'
<1>1. CASE StartReconcile
  <2>1. UNCHANGED <<cr, live, drifts, cache, watch>>
    BY <1>1 DEF StartReconcile, clusterVars
  <2>2. CASE cache = NoCR \/ (cache.deleting /\ ~cache.finalizer)
    BY <1>1, <2>1, <2>2, NothingStep DEF StartReconcile, localVars
  <2>3. CASE ~(cache = NoCR \/ (cache.deleting /\ ~cache.finalizer))
    <3>1. /\ wb' = cache /\ fresh' = (watch = <<>>)
          /\ pc' = IF cache.deleting THEN "cleanupNamespaced"
                   ELSE IF ~cache.finalizer THEN "addFinalizer" ELSE Dispatch(cache)
          /\ st' = IF cache.deleting \/ ~cache.finalizer THEN cache.status
                   ELSE DispatchStatus(cache)
      BY <1>1, <2>3 DEF StartReconcile
    <3>2. cache \in Versions /\ cache # NoCR
      BY <2>3 DEF TypeOK
    <3>3. MemoryInv' /\ WorkInv'
      <4>1. CASE cache.deleting \/ ~cache.finalizer
        BY <3>1, <3>2, <4>1, FirstStage
      <4>2. CASE ~(cache.deleting \/ ~cache.finalizer)
        <5>1. pc' = Dispatch(cache) /\ st' = DispatchStatus(cache)
          BY <3>1, <4>2
        <5>2. /\ st'.ready = cache.status.ready /\ st'.reason = cache.status.reason
              /\ st'.distribution = cache.status.distribution
              /\ st'.platformVersion = cache.status.platformVersion
              /\ pc' = "writePending" => st'.observedGeneration = 0
          BY <3>2, <5>1, DispatchReports
        <5>. QED BY <3>1, <3>2, <5>1, <5>2, DispatchStage, FirstStage
      <4>. QED BY <4>1, <4>2
    <3>4. Current' <=> Current
      BY <2>1 DEF Current
    <3>5. LagInv'
      <4>1. CASE watch = <<>>
        <5>1. cache = cr /\ \A i \in DOMAIN watch : FALSE
          BY <4>1, EmptyDomain DEF FinalizerInv, WatchInv
        <5>. QED BY <2>1, <3>1, <3>2, <5>1 DEF LagInv, SameRequest
      <4>2. CASE watch # <<>>
        <5>1. ~fresh'
          BY <3>1, <4>2
        <5>. QED BY <2>1, <3>1, <3>4, <5>1 DEF PromiseInv, StatusInv, LagInv, SameRequest
      <4>. QED BY <4>1, <4>2
    <3>6. ReportInv'
      BY <2>1 DEF PromiseInv, StatusInv, ReportInv
    <3>7. LiveInv'
      BY <2>1, LiveInvStays DEF PromiseInv, Operand
    <3>. QED BY <3>3, <3>5, <3>6, <3>7 DEF PromiseInv, StatusInv
  <2>. QED BY <2>2, <2>3
<1>2. CASE AddFinalizer
  <2> DEFINE v == [wb EXCEPT !.finalizer = TRUE]
  <2>1. wb \in Versions /\ pc = "addFinalizer" /\ UNCHANGED <<live, drifts, cache>>
    BY <1>2 DEF AddFinalizer, TypeOK
  <2>2. /\ v \in Versions /\ v.status = wb.status /\ v.spec = wb.spec
        /\ v.generation = wb.generation /\ v.deleting = wb.deleting
    BY <2>1 DEF Versions
  <2>3. \/ Write(v, TRUE) /\ wb' = v /\ st' = DispatchStatus(v) /\ Goto(Dispatch(v))
           /\ UNCHANGED fresh
        \/ Write(v, FALSE) /\ Return(TRUE)
    BY <1>2 DEF AddFinalizer
  <2>. HIDE DEF v
  <2>4. ASSUME fresh, Publish(v)
        PROVE  /\ ReportInv' /\ LiveInv' /\ cr' = v /\ v # NoCR
               /\ SameRequest(cache)' /\ \A i \in DOMAIN watch' : SameRequest(watch[i])'
    <3>1. cr' = v /\ wb = cr /\ v # NoCR /\ cr # NoCR
      BY <2>1, <2>2, <2>4, ReconcilerAssumption DEF Publish, FinalizerInv, FreshInv
    <3>2. ReportInv'
      BY <2>2, <3>1 DEF PromiseInv, StatusInv, ReportInv, SoundReport
    <3>3. /\ cr'.status = cr.status /\ cr'.spec = cr.spec /\ cr'.generation = cr.generation
          /\ Current' <=> Current
      BY <2>2, <3>1 DEF Current
    <3>4. \A r : Operand(r)' <=> Operand(r)
      BY <2>1 DEF Operand
    <3>5. Applied(cr.spec)' <=> Applied(cr.spec)
      BY <2>1, <3>3, <3>4 DEF Applied
    <3>6. LiveInv'
      BY <2>1, <3>3, <3>4, <3>5
         DEF PromiseInv, LiveInv, RemovedIsClean, ReadyMeansApplied, EvidenceBacked
    <3>. QED BY <2>1, <2>2, <2>4, <3>1, <3>2, <3>6, OwnWriteLag
  <2>5. CASE Write(v, TRUE) /\ wb' = v /\ st' = DispatchStatus(v) /\ Goto(Dispatch(v))
             /\ UNCHANGED fresh
    <3>1. fresh /\ Publish(v) /\ pc' = Dispatch(v) /\ wb' = v /\ st' = DispatchStatus(v)
      BY <2>5 DEF Write, Goto
    <3>2. LagInv'
      BY <2>4, <3>1 DEF LagInv, SameRequest
    <3>3. MemoryInv' /\ WorkInv'
      <4>1. /\ st'.ready = v.status.ready /\ st'.reason = v.status.reason
            /\ st'.distribution = v.status.distribution
            /\ st'.platformVersion = v.status.platformVersion
            /\ pc' = "writePending" => st'.observedGeneration = 0
        BY <2>2, <3>1, DispatchReports
      <4>. QED BY <2>2, <3>1, <4>1, DispatchStage, FirstStage
    <3>. QED BY <2>4, <3>1, <3>2, <3>3 DEF PromiseInv, StatusInv
  <2>6. CASE Write(v, FALSE) /\ Return(TRUE)
    <3>1. ResetLocals /\ pc' = "idle" /\ fresh' = FALSE
      BY <2>6 DEF Return, ResetLocals
    <3>2. CASE NoPublish
      <4>1. LiveInv'
        BY <2>1, <3>2, LiveInvStays DEF NoPublish, PromiseInv, Operand
      <4>. QED BY <2>1, <3>1, <3>2, <4>1, QuietEnd DEF NoPublish
    <3>3. CASE fresh /\ Publish(v)
      <4>1. LagInv' /\ MemoryInv' /\ WorkInv'
        BY <2>4, <3>1, <3>3 DEF LagInv, MemoryInv, WorkInv
      <4>. QED BY <2>4, <3>3, <4>1 DEF PromiseInv, StatusInv
    <3>. QED BY <2>6, <3>2, <3>3 DEF Write
  <2>. QED BY <2>3, <2>5, <2>6
<1>. QED BY <1>1, <1>2

\* The deletion passes of a cleanup keep what a Current status promises: a CR
\* that is Ready or confirmed is not the one being cleaned up.
LEMMA CleanupKeepsPromises ==
    ASSUME TypeOK, PromiseInv, pc \in {"cleanupNamespaced", "cleanupCluster"},
           NEW refs \in SUBSET Refs, NEW err \in BOOLEAN, DeletePass(refs, err),
           UNCHANGED <<cr, drifts>>
    PROVE  LiveInv'
<1>1. \A r \in Refs : Operand(r)' => Operand(r)
  BY DeletePassEffect
<1>2. ~(Current /\ (cr.status.ready \/ cr.status.contractReady))
  <2>. SUFFICES ASSUME Current, cr.status.ready \/ cr.status.contractReady PROVE FALSE
    OBVIOUS
  <2>1. wb.spec = cr.spec /\ ~wb.deleting
    BY CurrentWork
  <2>2. cr.spec.managementState = "Managed"
    BY DEF PromiseInv, StatusInv, ReportInv, SoundReport, Current
  <2>3. wb.deleting \/ wb.spec.managementState = "Removed"
    BY DEF PromiseInv, StatusInv, WorkInv
  <2>. QED BY <2>1, <2>2, <2>3
<1>. QED BY <1>1, <1>2, LiveInvStays DEF PromiseInv

\* The two passes of cleanupManagedResources and the end of a deletion.
LEMMA PromiseCleanup ==
    ASSUME TypeOK, FinalizerInv, PromiseInv, CleanNamespaced \/ CleanCluster \/ RemoveFinalizer
    PROVE  PromiseInv'
<1>1. CASE CleanNamespaced
  <2>1. PICK err \in BOOLEAN :
          DeletePass(CleanupNamespaced(OperandNamespace(wb.spec)), err)
    BY <1>1 DEF CleanNamespaced
  <2>2. /\ pc = "cleanupNamespaced" /\ pc' = "cleanupCluster"
        /\ UNCHANGED <<cr, drifts, cache, watch, wb, fresh, st, todo>>
    BY <1>1 DEF CleanNamespaced, Goto
  <2>3. CleanupNamespaced(OperandNamespace(wb.spec)) \in SUBSET Refs
    BY DEF CleanupNamespaced
  <2>4. LiveInv'
    BY <2>1, <2>2, <2>3, CleanupKeepsPromises
  <2>5. MemoryInv'
    BY <2>2 DEF PromiseInv, StatusInv, MemoryInv
  <2>6. WorkInv'
    BY <2>2 DEF PromiseInv, StatusInv, WorkInv
  <2>. QED BY <2>2, <2>4, <2>5, <2>6, StageStep
<1>2. CASE CleanCluster
  <2>1. PICK err \in BOOLEAN :
        /\ DeletePass(CleanupCluster, err)
        /\ \/ Return(TRUE)
           \/ wb.deleting /\ Goto("removeFinalizer") /\ UNCHANGED localVars
           \/ Goto("writeError") /\ UNCHANGED <<wb, fresh, st, todo>>
           \/ /\ ~wb.deleting /\ ~(errs \/ err) /\ Goto("writeStatus")
              /\ st' = RemovedStatus(st, wb.generation)
              /\ UNCHANGED <<wb, fresh, todo, errs>>
    BY <1>2, Zenon DEF CleanCluster
  <2>2. pc = "cleanupCluster" /\ UNCHANGED <<cr, drifts, cache, watch>>
    BY <1>2 DEF CleanCluster
  <2>3. CleanupCluster \in SUBSET Refs
    BY DEF CleanupCluster, CleanupNamespaced
  <2>4. LiveInv'
    BY <2>1, <2>2, <2>3, CleanupKeepsPromises
  <2>5. CASE Return(TRUE)
    BY <2>2, <2>4, <2>5, QuietEnd DEF Return
  <2>6. CASE wb.deleting /\ Goto("removeFinalizer") /\ UNCHANGED localVars
    <3>1. pc' = "removeFinalizer" /\ UNCHANGED <<wb, fresh, st, todo>>
      BY <2>6 DEF Goto, localVars
    <3>2. MemoryInv' /\ WorkInv'
      BY <2>2, <3>1 DEF PromiseInv, StatusInv, MemoryInv, WorkInv
    <3>. QED BY <2>2, <2>4, <3>1, <3>2, StageStep
  <2>7. CASE Goto("writeError") /\ UNCHANGED <<wb, fresh, st, todo>>
    <3>1. pc' = "writeError"
      BY <2>7 DEF Goto
    <3>2. MemoryInv' /\ WorkInv'
      BY <2>2, <2>7, <3>1 DEF PromiseInv, StatusInv, MemoryInv, WorkInv
    <3>. QED BY <2>2, <2>4, <2>7, <3>2, StageStep
  <2>8. CASE /\ ~wb.deleting /\ ~(errs \/ err) /\ Goto("writeStatus")
             /\ st' = RemovedStatus(st, wb.generation)
             /\ UNCHANGED <<wb, fresh, todo, errs>>
    <3>1. pc' = "writeStatus"
      BY <2>8 DEF Goto
    <3>2. /\ st'.observedGeneration = wb.generation /\ ~st'.ready /\ ~st'.contractReady
          /\ st'.platformVersion = "" /\ st'.reason = "Removed"
          /\ Handshaken(st') /\ Announced(wb.status, st')
      BY <2>8 DEF RemovedStatus, Statuses, TypeOK, Handshaken, Announced
    <3>3. wb.spec.managementState = "Removed"
      BY <2>2, <2>8 DEF PromiseInv, StatusInv, WorkInv
    <3>4. Clean(wb.spec)'
      <4>1. \A r \in Refs : Operand(r)' => Operand(r)
        BY <2>1, <2>3, DeletePassEffect
      <4>2. \A r \in CleanupCluster : ~Operand(r)'
        BY <2>1, <2>3, <2>8, DeletePassEffect
      <4>3. \A r \in Refs : Operand(r) => r.ns # OperandNamespace(wb.spec)
        BY <2>2, <2>8 DEF FinalizerInv, SweepInv
      <4>. QED BY <2>8, <4>1, <4>2, <4>3 DEF Clean, CleanupCluster, CleanupNamespaced, Operand
    <3>5. CompleteStatus'
      BY <2>8, <3>2, <3>3, <3>4 DEF CompleteStatus
    <3>6. MemoryInv' /\ WorkInv'
      BY <3>1, <3>5 DEF MemoryInv, WorkInv
    <3>. QED BY <2>2, <2>4, <2>8, <3>6, StageStep
  <2>. QED BY <2>1, <2>5, <2>6, <2>7, <2>8
<1>3. CASE RemoveFinalizer
  <2>1. PICK ok \in BOOLEAN : Write(NoCR, ok) /\ Return(~ok)
    BY <1>3 DEF RemoveFinalizer
  <2>2. ResetLocals /\ pc' = "idle" /\ fresh' = FALSE /\ UNCHANGED <<live, drifts, cache>>
    BY <1>3, <2>1 DEF RemoveFinalizer, Return, ResetLocals
  <2>3. CASE NoPublish
    <3>1. LiveInv'
      BY <2>2, <2>3, LiveInvStays DEF NoPublish, PromiseInv, Operand
    <3>. QED BY <2>2, <2>3, <3>1, QuietEnd DEF NoPublish
  <2>4. CASE cr' = NoCR
    <3>1. ~Current'
      BY <2>4 DEF Current
    <3>2. ReportInv' /\ LagInv' /\ MemoryInv' /\ WorkInv'
      BY <2>2, <2>4, <3>1 DEF ReportInv, LagInv, MemoryInv, WorkInv
    <3>3. LiveInv'
      BY <3>1 DEF LiveInv, RemovedIsClean, ReadyMeansApplied, EvidenceBacked
    <3>. QED BY <3>2, <3>3 DEF PromiseInv, StatusInv
  <2>. QED BY <2>1, <2>3, <2>4 DEF Write, Publish
<1>. QED BY <1>1, <1>2, <1>3

\* The reads and the namespaces of reconcileManaged, up to the first apply.
LEMMA PromiseReads ==
    ASSUME TypeOK, PromiseInv, ReadDistribution \/ ReadVersion \/ EnsureNamespaces
    PROVE  PromiseInv'
<1>1. /\ UNCHANGED <<cr, live, drifts, cache, watch, wb, fresh, st, errs>>
      /\ pc \in {"readDistribution", "readVersion", "ensureNamespaces"}
      /\ \/ pc' \in {"readVersion", "ensureNamespaces", "writeError"}
         \/ pc' = "apply" /\ todo' = DesiredNames(wb.spec)
  BY DEF ReadDistribution, ReadVersion, EnsureNamespaces, NamesToApply, Goto
<1>2. LiveInv'
  BY <1>1, LiveInvStays DEF PromiseInv, Operand
<1>3. MemoryInv'
  BY <1>1 DEF PromiseInv, StatusInv, MemoryInv
<1>4. wb.spec.managementState = "Managed"
  BY <1>1 DEF PromiseInv, StatusInv, WorkInv
<1>5. WorkInv'
  BY <1>1, <1>4 DEF WorkInv, DesiredRefs
<1>. QED BY <1>1, <1>2, <1>3, <1>5, StageStep

\* A Current status is never Removed while a Managed spec is applied.
LEMMA ManagedIsNotRemoved ==
    ASSUME TypeOK, PromiseInv, pc # "idle", wb.spec.managementState = "Managed"
    PROVE  ~(Current /\ cr.status.reason = "Removed")
<1>. SUFFICES ASSUME Current, cr.status.reason = "Removed" PROVE FALSE
  OBVIOUS
<1>1. wb.spec = cr.spec
  BY CurrentWork
<1>2. cr.spec.managementState = "Removed"
  BY DEF PromiseInv, StatusInv, ReportInv, SoundReport, Current
<1>. QED BY <1>1, <1>2

\* Applying a desired object of the spec keeps what is applied.
LEMMA ApplyKeeps ==
    ASSUME TypeOK, NEW spec \in Specs, NEW ref \in DesiredRefs(spec), DesiredRefs(spec) \in SUBSET Refs,
           live' = [live EXCEPT ![ref] = spec]
    PROVE  /\ Applied(spec) => Applied(spec)'
           /\ live'[ref] = spec
           /\ \A r \in DesiredRefs(spec) : live[r] = spec => live'[r] = spec
<1>1. live'[ref] = spec /\ \A r \in Refs \ {ref} : live'[r] = live[r]
  BY DEF TypeOK
<1>. QED BY <1>1 DEF Applied, Operand

\* Server-side apply of the next object.
LEMMA PromiseApply ==
    ASSUME TypeOK, PromiseInv, ApplyObject
    PROVE  PromiseInv'
<1> DEFINE ns   == OperandNamespace(wb.spec)
           ref  == ObjectRef(Head(todo), ns)
           left == {ObjectRef(todo[i], ns) : i \in DOMAIN todo}
<1>1. /\ pc = "apply" /\ pc # "idle" /\ todo # <<>> /\ todo \in Seq(Names)
      /\ UNCHANGED <<cr, drifts, cache, watch, wb, fresh, st, errs>>
      /\ wb \in Versions
  BY DEF ApplyObject, TypeOK
<1>2. /\ live' \in {live, [live EXCEPT ![ref] = wb.spec]}
      /\ \/ pc' = "writeError"
         \/ /\ live' = [live EXCEPT ![ref] = wb.spec]
            /\ todo' = Tail(todo)
            /\ pc' = IF Tail(todo) = <<>> THEN "gcNamespaced" ELSE "apply"
  BY DEF ApplyObject, Goto
<1>3. /\ wb.spec \in Specs /\ wb.spec.managementState = "Managed"
      /\ left \subseteq DesiredRefs(wb.spec)
      /\ fresh /\ drifts = 0 => \A r \in DesiredRefs(wb.spec) \ left : live[r] = wb.spec
  BY <1>1, SpecType DEF PromiseInv, StatusInv, WorkInv
<1>4. ref \in left /\ DesiredRefs(wb.spec) \in SUBSET Refs
  <2>1. 1 \in DOMAIN todo /\ Head(todo) = todo[1]
    BY <1>1
  <2>. QED BY <1>1, <2>1, DesiredRefsType
<1>5. /\ Applied(wb.spec) => Applied(wb.spec)'
      /\ \A r \in DesiredRefs(wb.spec) : live[r] = wb.spec => live'[r] = wb.spec
  <2>1. CASE live' = live
    BY <1>1, <2>1 DEF Applied, Operand
  <2>2. CASE live' = [live EXCEPT ![ref] = wb.spec]
    <3>. HIDE DEF ref
    <3>1. PICK spec \in Specs : spec = wb.spec
      BY <1>3
    <3>2. Applied(wb.spec)' <=> Applied(spec)'
      BY <1>1, <3>1
    <3>. QED BY <1>3, <1>4, <2>2, <3>1, <3>2, ApplyKeeps
  <2>. QED BY <1>2, <2>1, <2>2
<1>6. LiveInv'
  <2>1. Current' <=> Current
    BY <1>1 DEF Current
  <2>2. ~(Current /\ cr.status.reason = "Removed")
    BY <1>1, <1>3, ManagedIsNotRemoved
  <2>3. Current => cr.spec = wb.spec
    BY <1>1, CurrentWork
  <2>4. Current /\ Applied(cr.spec) => Applied(cr.spec)'
    BY <1>1, <1>5, <2>3
  <2>. QED BY <1>1, <2>1, <2>2, <2>4
       DEF PromiseInv, LiveInv, RemovedIsClean, ReadyMeansApplied, EvidenceBacked
<1>7. MemoryInv'
  BY <1>1, <1>2 DEF PromiseInv, StatusInv, MemoryInv
<1>8. WorkInv'
  <2>1. CASE pc' = "writeError"
    BY <2>1 DEF WorkInv
  <2>2. CASE /\ live' = [live EXCEPT ![ref] = wb.spec]
             /\ todo' = Tail(todo)
             /\ pc' = IF Tail(todo) = <<>> THEN "gcNamespaced" ELSE "apply"
    <3> DEFINE rest == {ObjectRef(todo'[i], ns) : i \in DOMAIN todo'}
    <3>1. \A i \in DOMAIN todo : i = 1 \/ (i - 1 \in DOMAIN todo' /\ todo[i] = todo'[i - 1])
      BY <1>1, <2>2
    <3>2. \A i \in DOMAIN todo' : i + 1 \in DOMAIN todo /\ todo'[i] = todo[i + 1]
      BY <1>1, <2>2
    <3>3. rest \subseteq left
      BY <3>2
    <3>4. left \subseteq rest \cup {ref}
      BY <1>1, <3>1
    <3>5. live'[ref] = wb.spec
      BY <1>3, <1>4, <2>2 DEF TypeOK
    <3>6. fresh /\ drifts = 0 => \A r \in DesiredRefs(wb.spec) \ rest : live'[r] = wb.spec
      BY <1>3, <1>5, <3>4, <3>5
    <3>7. CASE Tail(todo) # <<>>
      BY <1>1, <1>3, <2>2, <3>3, <3>6, <3>7 DEF WorkInv
    <3>8. CASE Tail(todo) = <<>>
      <4>1. \A i \in DOMAIN todo' : FALSE
        BY <2>2, <3>8, EmptyDomain
      <4>2. rest = {}
        BY <4>1
      <4>. QED BY <1>1, <1>3, <2>2, <3>6, <3>8, <4>2 DEF WorkInv
    <3>. QED BY <3>7, <3>8
  <2>. QED BY <1>2, <2>1, <2>2
<1>. QED BY <1>1, <1>6, <1>7, <1>8, StageStep

\* A pass of the garbage collection leaves the desired operands alone.
LEMMA CollectKeeps ==
    ASSUME TypeOK, PromiseInv, pc \in {"gcNamespaced", "gcCluster"},
           NEW refs \in SUBSET Refs, NEW err \in BOOLEAN,
           DeletePass(refs \ DesiredRefs(wb.spec), err), UNCHANGED <<cr, drifts>>
    PROVE  /\ LiveInv'
           /\ \A r \in DesiredRefs(wb.spec) : live'[r] = live[r]
           /\ \A r \in Refs : Operand(r)' => Operand(r)
           /\ ~err => \A r \in refs \ DesiredRefs(wb.spec) : ~Operand(r)'
<1>1. wb \in Versions /\ pc # "idle"
  BY DEF TypeOK
<1>2. DesiredRefs(wb.spec) \in SUBSET Refs
  BY <1>1, DesiredRefsType
<1> DEFINE kept == DesiredRefs(wb.spec)
           gone == refs \ kept
<1>3. gone \in SUBSET Refs /\ kept \in SUBSET Refs /\ gone \cap kept = {} /\ DeletePass(gone, err)
  BY <1>2
<1>. HIDE DEF kept, gone
<1>4. \A r \in kept : live'[r] = live[r]
  BY <1>3, DeletePassKeeps
<1>5. /\ \A r \in Refs : Operand(r)' => Operand(r)
      /\ ~err => \A r \in gone : ~Operand(r)'
  BY <1>3, DeletePassEffect
<1>6. Current => cr.spec = wb.spec
  BY <1>1, CurrentWork
<1>7. Current => \A r \in DesiredRefs(cr.spec) : live'[r] = live[r]
  BY <1>4, <1>6 DEF kept
<1>8. LiveInv'
  BY <1>5, <1>7, LiveInvStays DEF PromiseInv
<1>. QED BY <1>4, <1>5, <1>8 DEF kept, gone

\* gcOrphanedResources.
LEMMA PromiseCollect ==
    ASSUME TypeOK, PromiseInv, GCNamespaced \/ GCCluster
    PROVE  PromiseInv'
<1> DEFINE ns == OperandNamespace(wb.spec)
<1>1. CASE GCNamespaced
  <2>1. PICK err \in BOOLEAN :
          DeletePass(CleanupNamespaced(ns) \ DesiredRefs(wb.spec), err) /\ errs' = err
    BY <1>1 DEF GCNamespaced
  <2>2. /\ pc = "gcNamespaced" /\ pc' = "gcCluster"
        /\ UNCHANGED <<cr, drifts, cache, watch, wb, fresh, st, todo>>
    BY <1>1 DEF GCNamespaced, Goto
  <2>3. CleanupNamespaced(ns) \in SUBSET Refs
    BY DEF CleanupNamespaced
  <2>4. /\ LiveInv'
        /\ \A r \in DesiredRefs(wb.spec) : live'[r] = live[r]
        /\ \A r \in Refs : Operand(r)' => Operand(r)
        /\ ~err => \A r \in CleanupNamespaced(ns) \ DesiredRefs(wb.spec) : ~Operand(r)'
    BY <2>1, <2>2, <2>3, CollectKeeps
  <2>5. MemoryInv'
    BY <2>2 DEF PromiseInv, StatusInv, MemoryInv
  <2>6. ~errs' => \A r \in Refs \ DesiredRefs(wb.spec) : Operand(r)' => r.ns # ns
    BY <2>1, <2>4 DEF CleanupNamespaced, Operand
  <2>7. /\ wb.spec.managementState = "Managed"
        /\ fresh /\ drifts = 0 => \A r \in DesiredRefs(wb.spec) : live'[r] = wb.spec
    BY <2>2, <2>4 DEF PromiseInv, StatusInv, WorkInv
  <2>8. WorkInv'
    BY <2>2, <2>6, <2>7 DEF WorkInv
  <2>. QED BY <2>2, <2>4, <2>5, <2>8, StageStep
<1>2. CASE GCCluster
  <2>1. PICK err \in BOOLEAN :
          /\ DeletePass(CleanupCluster \ DesiredRefs(wb.spec), err)
          /\ pc' = IF errs \/ err THEN "writeError" ELSE "observe"
    BY <1>2 DEF GCCluster, Goto
  <2>2. /\ pc = "gcCluster"
        /\ UNCHANGED <<cr, drifts, cache, watch, wb, fresh, st, todo>>
    BY <1>2 DEF GCCluster
  <2>3. CleanupCluster \in SUBSET Refs
    BY DEF CleanupCluster, CleanupNamespaced
  <2>4. /\ LiveInv'
        /\ \A r \in DesiredRefs(wb.spec) : live'[r] = live[r]
        /\ \A r \in Refs : Operand(r)' => Operand(r)
        /\ ~err => \A r \in CleanupCluster \ DesiredRefs(wb.spec) : ~Operand(r)'
    BY <2>1, <2>2, <2>3, CollectKeeps
  <2>5. MemoryInv'
    BY <2>1, <2>2 DEF PromiseInv, StatusInv, MemoryInv
  <2>6. /\ wb.spec.managementState = "Managed"
        /\ fresh /\ drifts = 0 => \A r \in DesiredRefs(wb.spec) : live'[r] = wb.spec
        /\ ~errs => \A r \in Refs \ DesiredRefs(wb.spec) : Operand(r) => r.ns # ns
    BY <2>2, <2>4 DEF PromiseInv, StatusInv, WorkInv
  <2>7. CASE errs \/ err
    <3>1. WorkInv'
      BY <2>1, <2>7 DEF WorkInv
    <3>. QED BY <2>2, <2>4, <2>5, <3>1, StageStep
  <2>8. CASE ~(errs \/ err)
    <3>1. \A r \in Refs \ DesiredRefs(wb.spec) : Operand(r)' => r.ns \notin {"", ns}
      BY <2>4, <2>6, <2>8 DEF CleanupCluster, CleanupNamespaced, Operand
    <3>2. fresh /\ drifts = 0 => Applied(wb.spec)'
      BY <2>2, <2>6, <3>1 DEF Applied
    <3>3. WorkInv'
      BY <2>1, <2>2, <2>6, <2>8, <3>2 DEF WorkInv
    <3>. QED BY <2>2, <2>4, <2>5, <3>3, StageStep
  <2>. QED BY <2>7, <2>8
<1>. QED BY <1>1, <1>2

\* The deployments and the contract are observed and the status is completed.
LEMMA PromiseObserve ==
    ASSUME TypeOK, PromiseInv, Observe
    PROVE  PromiseInv'
<1>1. PICK listed \in BOOLEAN, ok \in BOOLEAN, outcome \in ContractOutcomes :
        ObserveWith(listed, ok, outcome)
  BY DEF Observe
<1>2. /\ pc = "observe" /\ pc # "idle" /\ wb \in Versions /\ st \in Statuses
      /\ desired \in Distributions /\ version \in STRING /\ avail \in BOOLEAN
      /\ UNCHANGED <<cr, live, drifts, cache, watch, wb, fresh, todo, errs>>
  BY DEF Observe, TypeOK
<1>3. wb.generation \in Nat /\ wb.status \in Statuses /\ wb.spec.contract \in STRING
  BY <1>2, SpecType DEF SpecRecords
<1>r. PICK ready \in BOOLEAN : ready <=> listed /\ avail
  <2>1. (listed /\ avail) \in BOOLEAN
    OBVIOUS
  <2>. QED BY <2>1, Zenon
<1>4. PICK seen, full :
        /\ seen = ObservedStatus(st, ready, wb.spec.contract, outcome)
        /\ full = ManagedStatus(seen, wb.status, wb.generation, ready, desired, version)
        /\ \/ st' = full /\ pc' = "writeStatus"
           \/ st' = seen /\ pc' = "writeError"
  <2>1. ready = (listed /\ avail)
    BY <1>r, <1>2
  <2>2. \E seen, full :
           /\ seen = ObservedStatus(st, listed /\ avail, wb.spec.contract, outcome)
           /\ full = ManagedStatus(seen, wb.status, wb.generation, listed /\ avail, desired, version)
           /\ \/ st' = full /\ pc' = "writeStatus"
              \/ st' = seen /\ pc' = "writeError"
    BY <1>1 DEF ObserveWith, Goto
  <2>. QED BY <2>1, <2>2
<1>5. seen \in Statuses /\ full \in Statuses
  <2>1. seen \in Statuses
    BY <1>2, <1>3, <1>4, ObservedStatusType
  <2>. QED BY <1>2, <1>3, <1>4, <2>1, ManagedStatusType
<1>6. /\ seen.ready = st.ready /\ seen.reason = st.reason /\ seen.distribution = st.distribution
      /\ seen.platformVersion = st.platformVersion /\ seen.provisioned
      /\ seen.contractReady => seen.contract = wb.spec.contract
  BY <1>2, <1>3, <1>4 DEF ObservedStatus, SyncIngressContractStatus, Statuses
<1>7. /\ full.observedGeneration = wb.generation
      /\ Handshaken(full) /\ Announced(seen, full)
      /\ full.reason # "Removed"
      /\ full.contractReady = seen.contractReady /\ full.contract = seen.contract
  BY <1>2, <1>3, <1>4, <1>5, <1>6, ManagedStatusReports
<1>8. LiveInv'
  BY <1>2, LiveInvStays DEF PromiseInv, Operand
<1>9. /\ st.ready = wb.status.ready /\ st.reason = wb.status.reason
      /\ st.distribution = wb.status.distribution
      /\ st.platformVersion = wb.status.platformVersion
  BY <1>2 DEF PromiseInv, StatusInv, MemoryInv
<1>10. CASE st' = seen /\ pc' = "writeError"
  <2>1. MemoryInv'
    BY <1>2, <1>6, <1>9, <1>10 DEF MemoryInv
  <2>2. WorkInv'
    BY <1>10 DEF WorkInv
  <2>. QED BY <1>2, <1>8, <2>1, <2>2, StageStep
<1>11. CASE st' = full /\ pc' = "writeStatus"
  <2>1. /\ wb.spec.managementState = "Managed"
        /\ fresh /\ drifts = 0 => Applied(wb.spec)
    BY <1>2 DEF PromiseInv, StatusInv, WorkInv
  <2>2. Applied(wb.spec)' <=> Applied(wb.spec)
    BY <1>2 DEF Applied, Operand
  <2>3. full.contractReady => full.contract = wb.spec.contract
    BY <1>6, <1>7
  <2>6. Announced(wb.status, full)
    BY <1>6, <1>7, <1>9 DEF Announced
  <2>4. CompleteStatus'
    BY <1>2, <1>7, <1>11, <2>1, <2>2, <2>3, <2>6 DEF CompleteStatus
  <2>5. MemoryInv' /\ WorkInv'
    BY <1>11, <2>4 DEF MemoryInv, WorkInv
  <2>. QED BY <1>2, <1>8, <2>5, StageStep
<1>. QED BY <1>4, <1>10, <1>11

\* Every step keeps the invariant.
LEMMA PromiseNext ==
    TypeOK /\ FinalizerInv /\ PromiseInv /\ [Next]_vars => PromiseInv'
<1>. SUFFICES ASSUME TypeOK, FinalizerInv, PromiseInv, [Next]_vars PROVE PromiseInv'
  OBVIOUS
<1>1. CASE UNCHANGED vars
  BY <1>1, NothingStep DEF vars, clusterVars, queueVars, localVars
<1>2. CASE Worker
  BY <1>2, PromiseStart, PromiseCleanup, PromiseWrites, PromiseReads, PromiseApply,
     PromiseCollect, PromiseObserve DEF Worker
<1>. QED BY <1>1, <1>2, PromiseEnvironment, PromiseQueue DEF Next

-----------------------------------------------------------------------------
(* What the status promises *)

\* The strengthened invariant holds in every reachable state.
THEOREM StatusProtocol == Spec => []StatusInv
<1>1. Spec => []PromiseInv
  BY PromiseInit, TypeCorrect, FinalizerProtocol, PromiseNext, PTL DEF Spec
<1>2. PromiseInv => StatusInv
  BY DEF PromiseInv
<1>. QED BY <1>1, <1>2, PTL

\* The promises about the operands hold with it.
LEMMA PromisesHold == Spec => []LiveInv
<1>1. Spec => []PromiseInv
  BY PromiseInit, TypeCorrect, FinalizerProtocol, PromiseNext, PTL DEF Spec
<1>2. PromiseInv => LiveInv
  BY DEF PromiseInv
<1>. QED BY <1>1, <1>2, PTL

\* Removed for the current generation means that the namespace the operator
\* deploys to and the cluster scope are clean, whatever stale reconcile ran
\* since reconcileRemoved published it.
THEOREM RemovedMeansClean == Spec => []RemovedIsClean
<1>1. LiveInv => RemovedIsClean
  BY DEF LiveInv
<1>. QED BY <1>1, PromisesHold, PTL

\* Ready for the current generation means that exactly the operands of the
\* current spec are live: renderAndApply and gcOrphanedResources ended without
\* an error for that spec, and no reconcile of an older one came after.
THEOREM ReadyIsApplied == Spec => []ReadyMeansApplied
<1>1. LiveInv => ReadyMeansApplied
  BY DEF LiveInv
<1>. QED BY <1>1, PromisesHold, PTL

\* Confirmed contract evidence names the contract of the current spec, and the
\* operands that serve it are the ones rendered from that spec.
THEOREM EvidenceIsBacked == Spec => []EvidenceBacked
<1>1. LiveInv => EvidenceBacked
  BY DEF LiveInv
<1>. QED BY <1>1, PromisesHold, PTL

\* Ready on a platform-managed cluster carries the distribution and the
\* platform version the handshake of reconcileManaged was about.
THEOREM ReadyIsHandshaken == Spec => []ReadyMeansHandshaken
<1>1. StatusInv => ReadyMeansHandshaken
  BY DEF StatusInv, ReportInv, SoundReport, ReadyMeansHandshaken
<1>. QED BY <1>1, StatusProtocol, PTL

-----------------------------------------------------------------------------
(* Version changes are announced *)

\* What a write of the worker does to the status: nothing, or it replaces the
\* one the worker read.
LEMMA StatusAfterWrite ==
    ASSUME TypeOK, FinalizerInv, pc # "idle", NEW v, NEW ok \in BOOLEAN, Write(v, ok)
    PROVE  cr' = cr \/ (cr = wb /\ cr' = v)
BY DEF FinalizerInv, FreshInv, Write, Publish, NoPublish

\* A recorded platform version of a platform-managed cluster is replaced only
\* after PlatformVersionPending was published: the status in memory keeps the
\* version and the reason it was read with until RecordPlatformVersion, and a
\* write succeeds only on the version of the CR that was read.
THEOREM VersionChangesAreAnnounced == Spec => VersionChangeAnnounced
<1>1. ASSUME TypeOK, FinalizerInv, StatusInv, [Next]_vars
      PROVE  SameCR => Announced(cr.status, cr'.status)
  <2>1. CASE cr'.status.platformVersion = cr.status.platformVersion
    BY <2>1 DEF Announced
  <2>2. CASE UNCHANGED cr
    BY <2>1, <2>2
  <2>g. cr # NoCR => cr \in Versions
    BY <1>1 DEF TypeOK
  <2>3. ASSUME NEW spec \in Specs, CreateCR(spec) \/ UpdateSpec(spec)
        PROVE  SameCR => Announced(cr.status, cr'.status)
    BY <2>1, <2>3, <2>g DEF CreateCR, UpdateSpec, Publish, SameCR, Versions
  <2>4. CASE DeleteCR
    <3>1. cr # NoCR
          /\ (cr' = NoCR \/ cr' = [cr EXCEPT !.deleting = TRUE, !.generation = @ + 1])
      BY <2>4 DEF DeleteCR, Publish
    <3>2. cr' # NoCR => cr'.status = cr.status
      BY <2>g, <3>1 DEF Versions
    <3>. QED BY <2>1, <3>2 DEF SameCR
  <2>5. CASE AddFinalizer
    <3>1. PICK ok \in BOOLEAN : Write([wb EXCEPT !.finalizer = TRUE], ok)
      BY <2>5 DEF AddFinalizer
    <3>2. wb \in Versions /\ pc # "idle"
      BY <1>1, <2>5 DEF AddFinalizer, TypeOK
    <3>3. [wb EXCEPT !.finalizer = TRUE].status = wb.status
      BY <3>2 DEF Versions
    <3>4. cr'.status = cr.status
      BY <1>1, <3>1, <3>2, <3>3, StatusAfterWrite
    <3>. QED BY <2>1, <3>4
  <2>6. CASE RemoveFinalizer
    <3>1. cr' = cr \/ cr' = NoCR
      BY <2>6 DEF RemoveFinalizer, Write, Publish, NoPublish
    <3>. QED BY <2>1, <3>1 DEF SameCR
  <2>7. ASSUME NEW s, NEW ok \in BOOLEAN, pc # "idle",
               Write([wb EXCEPT !.status = s], ok), Announced(wb.status, s)
        PROVE  Announced(cr.status, cr'.status)
    <3>1. [wb EXCEPT !.status = s].status = s
      BY <1>1, <2>7 DEF TypeOK, Versions
    <3>2. cr' = cr \/ (cr.status = wb.status /\ cr'.status = s)
      BY <1>1, <2>7, <3>1, StatusAfterWrite
    <3>3. CASE cr' = cr
      BY <3>3 DEF Announced
    <3>. QED BY <2>7, <3>2, <3>3
  <2>8. CASE WritePending
    <3>1. Announced(wb.status, st)
      BY <1>1, <2>8 DEF WritePending, StatusInv, MemoryInv, Announced
    <3>. QED BY <2>7, <2>8, <3>1 DEF WritePending
  <2>9. CASE WriteStatus
    <3>1. Announced(wb.status, st)
      BY <1>1, <2>9 DEF WriteStatus, StatusInv, WorkInv, CompleteStatus
    <3>. QED BY <2>7, <2>9, <3>1 DEF WriteStatus
  <2>10. CASE WriteError
    <3>1. pc = "writeError" /\ st \in Statuses
      BY <1>1, <2>10 DEF WriteError, TypeOK
    <3>2. st.platformVersion = wb.status.platformVersion
      BY <1>1, <3>1 DEF StatusInv, MemoryInv
    <3>3. SetErrorStatus(st, wb.generation).platformVersion = st.platformVersion
      BY <3>1 DEF SetErrorStatus, Statuses
    <3>4. Announced(wb.status, SetErrorStatus(st, wb.generation))
      BY <3>2, <3>3 DEF Announced
    <3>. QED BY <2>7, <2>10, <3>4 DEF WriteError
  <2>11. CASE UNCHANGED vars
    BY <2>2, <2>11 DEF vars, clusterVars
  <2>12. CASE \/ Queue
              \/ \E ns \in AppNamespaces, config \in PlatformConfigs :
                    ChangePlatformConfig(ns, config)
              \/ ChangeAvailability
              \/ \E r \in Refs : Drift(r) \/ CascadeDelete(r)
              \/ Crash
    BY <2>2, <2>12 DEF Queue, CacheSync, TimerFires, Resync, ChangePlatformConfig,
                       ChangeAvailability, Drift, CascadeDelete, Crash, clusterVars
  <2>13. CASE \/ StartReconcile \/ CleanNamespaced \/ CleanCluster \/ ReadDistribution
              \/ ReadVersion \/ EnsureNamespaces \/ ApplyObject \/ GCNamespaced
              \/ GCCluster \/ Observe
    BY <2>2, <2>13 DEF StartReconcile, CleanNamespaced, CleanCluster, ReadDistribution,
                       ReadVersion, EnsureNamespaces, ApplyObject, GCNamespaced,
                       GCCluster, Observe, clusterVars
  <2>. QED BY <1>1, <2>3, <2>4, <2>5, <2>6, <2>8, <2>9, <2>10, <2>11, <2>12, <2>13
       DEF Next, Environment, Worker
<1>2. TypeOK /\ FinalizerInv /\ StatusInv /\ [Next]_vars =>
        [SameCR => Announced(cr.status, cr'.status)]_vars
  BY <1>1
<1>3. Spec => [][SameCR => Announced(cr.status, cr'.status)]_vars
  BY TypeCorrect, FinalizerProtocol, StatusProtocol, <1>2, PTL DEF Spec
<1>. QED BY <1>3 DEF VersionChangeAnnounced
=============================================================================
