--------------------------- MODULE FinalizerProofs ---------------------------
(***************************************************************************)
(* No operand outlives the finalizer that promises its removal, and no     *)
(* write of the worker takes back a write of somebody else, for every      *)
(* manifest, every set of specs and every bound.  The inductive invariant  *)
(* is FinalizerInv of module Reconciler.                                   *)
(***************************************************************************)
EXTENDS ReconcilerProofs

-----------------------------------------------------------------------------
(* With APPLICATIONS_NAMESPACE set there is one namespace, so the two passes *)
(* of a cleanup cover every operand.                                         *)

\* With APPLICATIONS_NAMESPACE set there is one applications namespace.
LEMMA OneNamespace ==
    ASSUME ApplicationsNamespace # ""
    PROVE  /\ \A spec : OperandNamespace(spec) = ApplicationsNamespace
           /\ \A r \in Refs : r.ns \in {"", ApplicationsNamespace}
<1>1. \A spec : OperandNamespace(spec) = ApplicationsNamespace
  BY DEF OperandNamespace, ResolveOperandNamespace
<1>2. \A ns \in AppNamespaces : ns = ApplicationsNamespace
  BY DEF AppNamespaces, ResolveOperandNamespace
<1>3. ASSUME NEW r \in Refs PROVE r.ns \in {"", ApplicationsNamespace}
  <2>1. PICK n \in Names, ns \in AppNamespaces : r = ObjectRef(n, ns)
    BY <1>3 DEF Refs
  <2>. QED BY <1>2, <2>1 DEF ObjectRef
<1>. QED BY <1>1, <1>3

\* An error-free pass leaves nothing of the set it sweeps, and no pass adds.
LEMMA DeletePassEffect ==
    ASSUME NEW refs \in SUBSET Refs, NEW err \in BOOLEAN, DeletePass(refs, err)
    PROVE  /\ \A r \in Refs : Operand(r)' => Operand(r)
           /\ ~err => \A r \in refs : ~Operand(r)'
<1>1. PICK failed \in SUBSET {r \in refs : live[r] # Absent} :
        /\ failed # {} => err
        /\ live' = [r \in Refs |-> IF r \in refs \ failed THEN Absent ELSE live[r]]
  BY DEF DeletePass
<1>. QED BY <1>1 DEF Operand

-----------------------------------------------------------------------------
(* The watch *)

\* The empty sequence has no positions.
LEMMA EmptyDomain == \A i \in DOMAIN <<>> : FALSE
OBVIOUS

\* Dropping the head of a longer sequence keeps its last element.
LEMMA LastOfTail ==
    ASSUME NEW S, NEW s \in Seq(S), s # <<>>, Len(s) # 1
    PROVE  Tail(s) # <<>> /\ Tail(s)[Len(Tail(s))] = s[Len(s)]
<1>1. /\ Tail(s) \in Seq(S) /\ Len(Tail(s)) = Len(s) - 1
      /\ Len(s) \in Nat /\ Len(s) # 0
  OBVIOUS
<1>2. Len(Tail(s)) > 0
  BY <1>1
<1>3. ASSUME NEW t \in Seq(S), Len(t) > 0
      PROVE  t # <<>> /\ Len(t) \in 1..Len(t)
  BY <1>3
<1>4. \A i \in 1..Len(Tail(s)) : Tail(s)[i] = s[i + 1]
  BY <1>1
<1>5. Len(Tail(s)) + 1 = Len(s)
  BY <1>1
<1>. QED BY <1>1, <1>2, <1>3, <1>4, <1>5

\* A published version is the last of the watch; the others were there before.
LEMMA PublishWatch ==
    ASSUME TypeOK, WatchInv, UNCHANGED cache,
           NEW v \in Versions \cup {NoCR}, Publish(v)
    PROVE  /\ WatchInv'
           /\ cr' = v
           /\ \A i \in DOMAIN watch' :
                 watch'[i] = v \/ (i \in DOMAIN watch /\ watch'[i] = watch[i])
<1>1. watch \in Seq(Versions \cup {NoCR})
  BY DEF TypeOK
<1>2. CASE v = cr
  BY <1>2 DEF Publish, WatchInv
<1>3. CASE v # cr
  <2>1. watch' = Append(watch, v) /\ cr' = v
    BY <1>3 DEF Publish
  <2>2. watch' # <<>> /\ watch'[Len(watch')] = v
    BY <1>1, <2>1
  <2>3. \A i \in DOMAIN watch' :
                 watch'[i] = v \/ (i \in DOMAIN watch /\ watch'[i] = watch[i])
    BY <1>1, <2>1
  <2>. QED BY <2>1, <2>2, <2>3 DEF WatchInv
<1>. QED BY <1>2, <1>3

\* As long as the CR keeps its finalizer, publishing a version keeps every
\* version in the cache and in the watch backed.
LEMMA PublishHeld ==
    ASSUME TypeOK, WatchInv, HeldInv, UNCHANGED cache,
           NEW v \in Versions \cup {NoCR}, Publish(v),
           Backed => v # NoCR /\ v.finalizer
    PROVE  /\ Held(cache') => Backed'
           /\ \A i \in DOMAIN watch' : Held(watch'[i]) => Backed'
           /\ Backed => Backed'
BY PublishWatch DEF HeldInv, Held, Backed

-----------------------------------------------------------------------------
(* The shapes of a step *)

\* The environment writes the CR and the finalizer stays: everything the
\* worker holds turns stale.
LEMMA EnvironmentWrite ==
    ASSUME TypeOK, FinalizerInv, NEW v \in Versions \cup {NoCR}, Publish(v), Interfere,
           Backed => v # NoCR /\ v.finalizer,
           UNCHANGED <<live, cache, pc, wb, errs>>
    PROVE  FinalizerInv'
<1>1. WatchInv'
  BY PublishWatch DEF FinalizerInv
<1>2. FreshInv'
  BY DEF FreshInv, Interfere
<1>3. StageInv'
  BY DEF FinalizerInv, StageInv
<1>4. HeldInv'
  BY PublishHeld DEF FinalizerInv, HeldInv, Held
<1>5. SweepInv'
  BY DEF FinalizerInv, SweepInv, Operand
<1>6. NoOrphans'
  BY PublishHeld DEF FinalizerInv, NoOrphans, Operand, Backed
<1>. QED BY <1>1, <1>2, <1>3, <1>4, <1>5, <1>6 DEF FinalizerInv

\* A step that touches neither the CR nor its copies, and adds no operand.
LEMMA QuietStep ==
    ASSUME FinalizerInv, UNCHANGED <<cr, cache, watch, pc, wb, fresh, errs>>,
           \A r \in Refs : Operand(r)' => Operand(r)
    PROVE  FinalizerInv'
<1>1. WatchInv' /\ FreshInv' /\ StageInv'
  BY DEF FinalizerInv, WatchInv, FreshInv, StageInv
<1>2. HeldInv'
  BY DEF FinalizerInv, HeldInv, Held, Backed
<1>3. SweepInv'
  BY DEF FinalizerInv, SweepInv
<1>4. NoOrphans'
  BY DEF FinalizerInv, NoOrphans
<1>. QED BY <1>1, <1>2, <1>3, <1>4 DEF FinalizerInv

\* The worker goes on within a reconcile without writing the CR.
LEMMA InnerStep ==
    ASSUME FinalizerInv, pc # "idle", pc' # "idle",
           UNCHANGED <<cr, cache, watch, wb, fresh>>,
           StageInv', SweepInv', NoOrphans'
    PROVE  FinalizerInv'
<1>1. WatchInv' /\ FreshInv'
  BY DEF FinalizerInv, WatchInv, FreshInv
<1>2. HeldInv'
  BY DEF FinalizerInv, HeldInv, Held, Backed
<1>. QED BY <1>1, <1>2 DEF FinalizerInv

\* A reconcile ends with a write of the status, or with none.
LEMMA LastWrite ==
    ASSUME TypeOK, FinalizerInv, pc # "idle", NEW s \in Statuses, NEW ok \in BOOLEAN,
           Write([wb EXCEPT !.status = s], ok), ResetLocals, UNCHANGED <<live, cache>>
    PROVE  FinalizerInv'
<1> DEFINE v == [wb EXCEPT !.status = s]
<1>1. v \in Versions /\ v.finalizer = wb.finalizer
  BY DEF TypeOK, Versions
<1>2. pc' = "idle" /\ fresh' = FALSE
  BY DEF ResetLocals
<1>3. FreshInv' /\ StageInv' /\ SweepInv'
  BY <1>2 DEF FreshInv, StageInv, SweepInv
<1>4. CASE NoPublish
  <2>1. WatchInv' /\ HeldInv' /\ NoOrphans'
    BY <1>2, <1>4 DEF NoPublish, FinalizerInv, WatchInv, HeldInv, Held, Backed, NoOrphans, Operand
  <2>. QED BY <1>3, <2>1 DEF FinalizerInv
<1>5. CASE fresh /\ Publish(v)
  <2>1. Backed => v # NoCR /\ v.finalizer
    BY <1>1, <1>5, ReconcilerAssumption DEF FinalizerInv, FreshInv, Backed
  <2>. HIDE DEF v
  <2>2. WatchInv' /\ HeldInv'
    BY <1>1, <1>2, <1>5, <2>1, PublishWatch, PublishHeld DEF FinalizerInv, HeldInv, Held
  <2>3. NoOrphans'
    BY <1>1, <1>5, <2>1, PublishHeld DEF FinalizerInv, NoOrphans, Operand, Backed
  <2>. QED BY <1>3, <2>2, <2>3 DEF FinalizerInv
<1>. QED BY <1>4, <1>5 DEF Write

-----------------------------------------------------------------------------
(* FinalizerInv is inductive *)

\* The invariant holds initially.
LEMMA FinalizerInit == Init => FinalizerInv
<1>. SUFFICES ASSUME Init PROVE FinalizerInv
  OBVIOUS
<1>1. WatchInv /\ StageInv /\ SweepInv
  BY DEF Init, WatchInv, StageInv, SweepInv
<1>4. FreshInv
  BY Zenon DEF Init, FreshInv
<1>2. HeldInv
  <2>2. watch = <<>> /\ cache = NoCR /\ pc = "idle"
    BY DEF Init
  <2>1. \A i \in DOMAIN watch : FALSE
    BY <2>2
  <2>. QED BY <2>1, <2>2 DEF HeldInv, Held
<1>3. NoOrphans
  BY DEF Init, NoOrphans, Operand
<1>. QED BY <1>1, <1>2, <1>3, <1>4 DEF FinalizerInv

\* Users, the orchestrator, drift and crashes keep the invariant.
LEMMA FinalizerEnvironment ==
    TypeOK /\ FinalizerInv /\ Environment => FinalizerInv'
<1>. SUFFICES ASSUME TypeOK, FinalizerInv, Environment PROVE FinalizerInv'
  OBVIOUS
<1>1. ASSUME NEW spec \in Specs, CreateCR(spec) PROVE FinalizerInv'
  <2> DEFINE v == [uid |-> uids + 1, generation |-> 1, spec |-> spec, finalizer |-> FALSE,
                   deleting |-> FALSE, status |-> InitStatus]
  <2>1. uids + 1 \in Nat
    BY DEF TypeOK
  <2>2. v \in Versions
    BY <1>1, <2>1, InitStatusType DEF Versions
  <2>3. Publish(v) /\ ~Backed
    BY <1>1 DEF CreateCR, Backed
  <2>. HIDE DEF v
  <2>. QED BY <1>1, <2>2, <2>3, EnvironmentWrite DEF CreateCR
<1>2. ASSUME NEW spec \in Specs, UpdateSpec(spec) PROVE FinalizerInv'
  <2> DEFINE v == [cr EXCEPT !.spec = spec, !.generation = @ + 1]
  <2>1. cr \in Versions
    BY <1>2 DEF TypeOK, UpdateSpec
  <2>2. cr.generation + 1 \in Nat /\ spec \in Specs
    BY <1>2, <2>1 DEF Versions
  <2>3. v \in Versions /\ v.finalizer = cr.finalizer
    BY <2>1, <2>2 DEF Versions
  <2>4. Backed => v # NoCR /\ v.finalizer
    BY <2>3, ReconcilerAssumption DEF Backed
  <2>5. Publish(v)
    BY <1>2 DEF UpdateSpec
  <2>. HIDE DEF v
  <2>. QED BY <1>2, <2>3, <2>4, <2>5, EnvironmentWrite DEF UpdateSpec
<1>3. CASE DeleteCR
  <2> DEFINE w == [cr EXCEPT !.deleting = TRUE, !.generation = @ + 1]
             v == IF cr.finalizer THEN w ELSE NoCR
  <2>1. cr \in Versions
    BY <1>3 DEF TypeOK, DeleteCR
  <2>2. cr.generation + 1 \in Nat
    BY <2>1 DEF Versions
  <2>3. w \in Versions /\ w.finalizer = cr.finalizer
    BY <2>1, <2>2 DEF Versions
  <2>4. Publish(v)
    BY <1>3 DEF DeleteCR
  <2>. HIDE DEF w
  <2>5. v \in Versions \cup {NoCR} /\ (Backed => v # NoCR /\ v.finalizer)
    BY <2>3, ReconcilerAssumption DEF Backed
  <2>. HIDE DEF v
  <2>. QED BY <1>3, <2>4, <2>5, EnvironmentWrite DEF DeleteCR
<1>4. ASSUME NEW ns \in AppNamespaces, NEW config \in PlatformConfigs,
             ChangePlatformConfig(ns, config)
      PROVE  FinalizerInv'
  BY <1>4, QuietStep DEF ChangePlatformConfig, localVars, Operand
<1>5. CASE ChangeAvailability
  BY <1>5, QuietStep DEF ChangeAvailability, localVars, Operand
<1>6. ASSUME NEW r \in Refs, Drift(r) PROVE FinalizerInv'
  BY <1>6, QuietStep DEF Drift, localVars, Operand, TypeOK
<1>7. ASSUME NEW r \in Refs, CascadeDelete(r) PROVE FinalizerInv'
  BY <1>7, QuietStep DEF CascadeDelete, queueVars, localVars, Operand, TypeOK
<1>8. CASE Crash
  <2>1. pc' = "idle" /\ fresh' = FALSE /\ cache' = cr /\ watch' = <<>>
        /\ UNCHANGED <<cr, live>>
    BY <1>8 DEF Crash, ResetLocals
  <2>2. WatchInv' /\ FreshInv' /\ StageInv' /\ SweepInv'
    BY <2>1 DEF WatchInv, FreshInv, StageInv, SweepInv
  <2>3. HeldInv'
    BY <2>1 DEF HeldInv, Held, Backed
  <2>4. NoOrphans'
    BY <2>1 DEF FinalizerInv, NoOrphans, Operand
  <2>. QED BY <2>2, <2>3, <2>4 DEF FinalizerInv
<1>. QED BY <1>1, <1>2, <1>3, <1>4, <1>5, <1>6, <1>7, <1>8 DEF Environment

\* The informer and the work queue keep it.
LEMMA FinalizerQueue ==
    TypeOK /\ FinalizerInv /\ Queue => FinalizerInv'
<1>. SUFFICES ASSUME TypeOK, FinalizerInv, Queue PROVE FinalizerInv'
  OBVIOUS
<1>1. CASE CacheSync
  <2>1. watch \in Seq(Versions \cup {NoCR}) /\ watch # <<>>
        /\ cache' = Head(watch) /\ watch' = Tail(watch)
        /\ UNCHANGED <<cr, live, pc, wb, fresh, errs>>
    BY <1>1 DEF CacheSync, clusterVars, localVars, TypeOK
  <2>2. cache' = watch[1]
        /\ \A i \in DOMAIN watch' : i + 1 \in DOMAIN watch /\ watch'[i] = watch[i + 1]
    BY <2>1
  <2>3. WatchInv'
    <3>1. watch[Len(watch)] = cr
      BY <2>1 DEF FinalizerInv, WatchInv
    <3>2. CASE Len(watch) = 1
      <4>1. watch' = <<>> /\ cache' = cr
        BY <2>1, <3>1, <3>2
      <4>. QED BY <2>1, <4>1 DEF WatchInv
    <3>3. CASE Len(watch) # 1
      <4>1. watch' # <<>> /\ watch'[Len(watch')] = cr
        BY <2>1, <3>1, <3>3, LastOfTail
      <4>. QED BY <2>1, <4>1 DEF WatchInv
    <3>. QED BY <3>2, <3>3
  <2>4. FreshInv' /\ StageInv'
    BY <2>1 DEF FinalizerInv, FreshInv, StageInv
  <2>5. HeldInv'
    <3>1. 1 \in DOMAIN watch
      BY <2>1
    <3>. QED BY <2>1, <2>2, <3>1 DEF FinalizerInv, HeldInv, Held, Backed
  <2>6. SweepInv' /\ NoOrphans'
    BY <2>1 DEF FinalizerInv, SweepInv, NoOrphans, Operand
  <2>. QED BY <2>3, <2>4, <2>5, <2>6 DEF FinalizerInv
<1>2. CASE TimerFires
  BY <1>2, QuietStep DEF TimerFires, clusterVars, localVars, Operand
<1>3. CASE Resync
  BY <1>3, QuietStep DEF Resync, clusterVars, localVars, Operand
<1>. QED BY <1>1, <1>2, <1>3 DEF Queue

\* Every request of the worker keeps it.
LEMMA FinalizerWorker ==
    TypeOK /\ FinalizerInv /\ Worker => FinalizerInv'
<1>. SUFFICES ASSUME TypeOK, FinalizerInv, Worker PROVE FinalizerInv'
  OBVIOUS
<1>1. CASE StartReconcile
  <2>1. UNCHANGED <<cr, live, cache, watch>>
    BY <1>1 DEF StartReconcile, clusterVars
  <2>2. CASE cache = NoCR \/ (cache.deleting /\ ~cache.finalizer)
    BY <1>1, <2>1, <2>2, QuietStep DEF StartReconcile, localVars, Operand
  <2>3. CASE ~(cache = NoCR \/ (cache.deleting /\ ~cache.finalizer))
    <3>1. /\ wb' = cache /\ fresh' = (watch = <<>>)
          /\ pc' = IF cache.deleting THEN "cleanupNamespaced"
                   ELSE IF ~cache.finalizer THEN "addFinalizer" ELSE Dispatch(cache)
      BY <1>1, <2>3 DEF StartReconcile
    <3>2. Dispatch(cache) \in {"cleanupNamespaced", "writePending", "writeError",
                               "readDistribution"}
      BY DEF Dispatch
    <3>3. cache \in Versions /\ cache.deleting \in BOOLEAN /\ cache.finalizer \in BOOLEAN
      BY <2>3, SpecType DEF TypeOK
    <3>4. pc' \notin {"idle", "cleanupCluster", "removeFinalizer"}
      BY <3>1, <3>2
    <3>5. WatchInv' /\ FreshInv'
      BY <2>1, <3>1, <3>4 DEF FinalizerInv, WatchInv, FreshInv
    <3>6. StageInv'
      BY <2>3, <3>1, <3>2, <3>3 DEF StageInv, DeletePcs
    <3>7. HeldInv'
      BY <2>1, <3>1 DEF FinalizerInv, HeldInv, Held, Backed
    <3>8. SweepInv' /\ NoOrphans'
      BY <2>1, <3>4 DEF FinalizerInv, SweepInv, NoOrphans, Operand
    <3>. QED BY <3>5, <3>6, <3>7, <3>8 DEF FinalizerInv
  <2>. QED BY <2>2, <2>3
<1>2. CASE AddFinalizer
  <2> DEFINE v == [wb EXCEPT !.finalizer = TRUE]
  <2>1. wb \in Versions /\ pc = "addFinalizer" /\ UNCHANGED <<live, cache>>
    BY <1>2 DEF AddFinalizer, TypeOK
  <2>2. v \in Versions /\ v.finalizer /\ v.deleting = wb.deleting
    BY <2>1 DEF Versions
  <2>3. v # NoCR /\ ~wb.deleting
    BY <2>1, <2>2, ReconcilerAssumption DEF FinalizerInv, StageInv, DeletePcs
  <2>4. Dispatch(v) \in {"cleanupNamespaced", "writePending", "writeError", "readDistribution"}
    BY DEF Dispatch
  <2>5. CASE Write(v, TRUE) /\ wb' = v /\ Goto(Dispatch(v)) /\ UNCHANGED fresh
    <3>. HIDE DEF v
    <3>1. Publish(v) /\ cr' = v /\ fresh' = fresh /\ pc' = Dispatch(v)
      BY <2>5 DEF Write, Publish, Goto
    <3>2. WatchInv'
      BY <2>1, <2>2, <3>1, PublishWatch DEF FinalizerInv
    <3>3. FreshInv'
      BY <2>2, <2>3, <2>4, <2>5, <3>1 DEF FreshInv
    <3>4. StageInv'
      BY <2>2, <2>3, <2>4, <2>5, <3>1 DEF StageInv
    <3>5. Backed'
      BY <2>2, <2>3, <3>1 DEF Backed
    <3>6. HeldInv' /\ NoOrphans'
      BY <3>5 DEF HeldInv, NoOrphans, Backed
    <3>7. SweepInv'
      BY <2>4, <3>1 DEF SweepInv
    <3>. QED BY <3>2, <3>3, <3>4, <3>6, <3>7 DEF FinalizerInv
  <2>6. CASE Write(v, FALSE) /\ Return(TRUE)
    <3>. HIDE DEF v
    <3>1. pc' = "idle" /\ fresh' = FALSE
      BY <2>6 DEF Return, ResetLocals
    <3>2. FreshInv' /\ StageInv' /\ SweepInv'
      BY <3>1 DEF FreshInv, StageInv, SweepInv
    <3>3. CASE NoPublish
      <4>1. WatchInv' /\ HeldInv' /\ NoOrphans'
        BY <2>1, <3>1, <3>3 DEF NoPublish, FinalizerInv, WatchInv, HeldInv, Held, Backed,
                                NoOrphans, Operand
      <4>. QED BY <3>2, <4>1 DEF FinalizerInv
    <3>4. CASE Publish(v)
      <4>1. WatchInv'
        BY <2>1, <2>2, <3>4, PublishWatch DEF FinalizerInv
      <4>2. Backed'
        BY <2>2, <2>3, <3>4 DEF Publish, Backed
      <4>3. HeldInv' /\ NoOrphans'
        BY <4>2 DEF HeldInv, NoOrphans, Backed
      <4>. QED BY <3>2, <4>1, <4>3 DEF FinalizerInv
    <3>. QED BY <2>6, <3>3, <3>4 DEF Write
  <2>. QED BY <1>2, <2>5, <2>6 DEF AddFinalizer
<1>3. CASE CleanNamespaced
  <2>1. PICK err \in BOOLEAN :
          DeletePass(CleanupNamespaced(OperandNamespace(wb.spec)), err) /\ errs' = err
    BY <1>3 DEF CleanNamespaced
  <2>2. /\ pc = "cleanupNamespaced" /\ pc' = "cleanupCluster"
        /\ UNCHANGED <<cr, cache, watch, wb, fresh>>
    BY <1>3 DEF CleanNamespaced, Goto
  <2>3. CleanupNamespaced(OperandNamespace(wb.spec)) \in SUBSET Refs
    BY DEF CleanupNamespaced
  <2>4. \A r \in Refs : Operand(r)' => Operand(r)
    BY <2>1, <2>3, DeletePassEffect
  <2>5. ~errs' => \A r \in CleanupNamespaced(OperandNamespace(wb.spec)) : ~Operand(r)'
    BY <2>1, <2>3, DeletePassEffect
  <2>6. StageInv'
    BY <2>2 DEF FinalizerInv, StageInv, DeletePcs
  <2>7. SweepInv'
    BY <2>2, <2>5 DEF SweepInv, CleanupNamespaced, Operand
  <2>8. NoOrphans'
    BY <2>2, <2>4 DEF FinalizerInv, NoOrphans
  <2>. QED BY <2>2, <2>6, <2>7, <2>8, InnerStep
<1>4. CASE CleanCluster
  <2>1. PICK err \in BOOLEAN :
        /\ DeletePass(CleanupCluster, err)
        /\ \/ Return(TRUE)
           \/ ~(errs \/ err) /\ wb.deleting /\ Goto("removeFinalizer") /\ UNCHANGED localVars
           \/ ~wb.deleting /\ Goto("writeError") /\ UNCHANGED <<wb, fresh>>
           \/ ~wb.deleting /\ Goto("writeStatus") /\ UNCHANGED <<wb, fresh>>
    BY <1>4, Zenon DEF CleanCluster
  <2>2. pc = "cleanupCluster" /\ UNCHANGED <<cr, cache, watch>>
    BY <1>4 DEF CleanCluster
  <2>3. CleanupCluster \in SUBSET Refs
    BY DEF CleanupCluster, CleanupNamespaced
  <2>4. \A r \in Refs : Operand(r)' => Operand(r)
    BY <2>1, <2>3, DeletePassEffect
  <2>5. NoOrphans'
    BY <2>2, <2>4 DEF FinalizerInv, NoOrphans
  <2>6. CASE Return(TRUE)
    <3>1. pc' = "idle" /\ fresh' = FALSE
      BY <2>6 DEF Return, ResetLocals
    <3>2. WatchInv' /\ FreshInv' /\ StageInv' /\ SweepInv'
      BY <2>2, <3>1 DEF FinalizerInv, WatchInv, FreshInv, StageInv, SweepInv
    <3>3. HeldInv'
      BY <2>2, <3>1 DEF FinalizerInv, HeldInv, Held, Backed
    <3>. QED BY <2>5, <3>2, <3>3 DEF FinalizerInv
  <2>7. CASE ~(errs \/ err) /\ wb.deleting /\ Goto("removeFinalizer") /\ UNCHANGED localVars
    <3>1. pc' = "removeFinalizer" /\ UNCHANGED <<wb, fresh>>
      BY <2>7 DEF Goto, localVars
    <3>2. StageInv'
      BY <2>2, <2>7, <3>1 DEF FinalizerInv, StageInv, DeletePcs
    <3>3. ASSUME ApplicationsNamespace # "" PROVE \A r \in Refs : ~Operand(r)'
      <4>1. \A r \in CleanupCluster : ~Operand(r)'
        BY <2>1, <2>3, <2>7, DeletePassEffect
      <4>2. \A r \in Refs : Operand(r) => r.ns = ""
        BY <2>2, <2>7, <3>3, OneNamespace DEF FinalizerInv, SweepInv
      <4>. QED BY <2>4, <4>1, <4>2 DEF CleanupCluster, CleanupNamespaced, Operand
    <3>4. SweepInv'
      BY <3>1, <3>3 DEF SweepInv
    <3>. QED BY <2>2, <2>5, <3>1, <3>2, <3>4, InnerStep
  <2>8. CASE ~wb.deleting /\ (Goto("writeError") \/ Goto("writeStatus")) /\ UNCHANGED <<wb, fresh>>
    <3>1. pc' \in {"writeError", "writeStatus"} /\ UNCHANGED <<wb, fresh>>
      BY <2>8 DEF Goto
    <3>2. StageInv' /\ SweepInv'
      BY <2>2, <2>8, <3>1 DEF FinalizerInv, StageInv, SweepInv
    <3>. QED BY <2>2, <2>5, <3>1, <3>2, InnerStep
  <2>. QED BY <2>1, <2>6, <2>7, <2>8
<1>5. CASE RemoveFinalizer
  <2>1. PICK ok \in BOOLEAN : Write(NoCR, ok) /\ Return(~ok)
    BY <1>5 DEF RemoveFinalizer
  <2>2. pc = "removeFinalizer" /\ pc' = "idle" /\ fresh' = FALSE /\ UNCHANGED <<live, cache>>
    BY <1>5, <2>1 DEF RemoveFinalizer, Return, ResetLocals
  <2>3. FreshInv' /\ StageInv' /\ SweepInv'
    BY <2>2 DEF FreshInv, StageInv, SweepInv
  <2>4. NoOrphans'
    BY <2>2 DEF FinalizerInv, SweepInv, NoOrphans, Operand
  <2>5. CASE NoPublish
    <3>1. WatchInv' /\ HeldInv'
      BY <2>2, <2>5 DEF NoPublish, FinalizerInv, WatchInv, HeldInv, Held, Backed
    <3>. QED BY <2>3, <2>4, <3>1 DEF FinalizerInv
  <2>6. CASE fresh /\ Publish(NoCR)
    <3>1. wb.deleting /\ wb = cr /\ watch = <<>> /\ cache = cr
      BY <2>2, <2>6 DEF FinalizerInv, FreshInv, StageInv
    <3>2. ~Held(cache') /\ \A i \in DOMAIN watch' : ~Held(watch'[i])
      <4>0. watch = <<>>
        BY <3>1
      <4>1. \A i \in DOMAIN watch : FALSE
        BY <4>0, EmptyDomain
      <4>2. \A i \in DOMAIN watch' : watch'[i] = NoCR
        BY <2>2, <2>6, <4>1, PublishWatch DEF FinalizerInv
      <4>. QED BY <2>2, <3>1, <4>2 DEF Held
    <3>3. WatchInv' /\ HeldInv'
      BY <2>2, <2>6, <3>2, PublishWatch DEF FinalizerInv, HeldInv
    <3>. QED BY <2>3, <2>4, <3>3 DEF FinalizerInv
  <2>. QED BY <2>1, <2>5, <2>6 DEF Write
<1>6. CASE WritePending
  BY <1>6, LastWrite DEF WritePending, Return, TypeOK
<1>7. CASE ReadDistribution
  <2>1. /\ pc \notin {"idle", "addFinalizer"} \cup DeletePcs
        /\ pc' \notin {"idle", "addFinalizer"} \cup DeletePcs
        /\ UNCHANGED <<cr, cache, watch, wb, fresh>>
    BY <1>7 DEF ReadDistribution, Goto, DeletePcs
  <2>2. StageInv' /\ SweepInv'
    BY <2>1 DEF FinalizerInv, StageInv, SweepInv, DeletePcs
  <2>3. NoOrphans'
    BY <1>7 DEF ReadDistribution, FinalizerInv, NoOrphans, Operand
  <2>. QED BY <2>1, <2>2, <2>3, InnerStep DEF DeletePcs
<1>8. CASE ReadVersion
  <2>1. /\ pc \notin {"idle", "addFinalizer"} \cup DeletePcs
        /\ pc' \notin {"idle", "addFinalizer"} \cup DeletePcs
        /\ UNCHANGED <<cr, cache, watch, wb, fresh>>
    BY <1>8 DEF ReadVersion, Goto, DeletePcs
  <2>2. StageInv' /\ SweepInv'
    BY <2>1 DEF FinalizerInv, StageInv, SweepInv, DeletePcs
  <2>3. NoOrphans'
    BY <1>8 DEF ReadVersion, FinalizerInv, NoOrphans, Operand
  <2>. QED BY <2>1, <2>2, <2>3, InnerStep DEF DeletePcs
<1>9. CASE EnsureNamespaces
  <2>1. /\ pc \notin {"idle", "addFinalizer"} \cup DeletePcs
        /\ pc' \notin {"idle", "addFinalizer"} \cup DeletePcs
        /\ UNCHANGED <<cr, cache, watch, wb, fresh>>
    BY <1>9 DEF EnsureNamespaces, Goto, DeletePcs
  <2>2. StageInv' /\ SweepInv'
    BY <2>1 DEF FinalizerInv, StageInv, SweepInv, DeletePcs
  <2>3. NoOrphans'
    BY <1>9 DEF EnsureNamespaces, FinalizerInv, NoOrphans, Operand
  <2>. QED BY <2>1, <2>2, <2>3, InnerStep DEF DeletePcs
<1>10. CASE ApplyObject
  <2>1. /\ pc \notin {"idle", "addFinalizer"} \cup DeletePcs
        /\ pc' \notin {"idle", "addFinalizer"} \cup DeletePcs
        /\ UNCHANGED <<cr, cache, watch, wb, fresh>>
    BY <1>10 DEF ApplyObject, Goto, DeletePcs
  <2>2. StageInv' /\ SweepInv'
    BY <2>1 DEF FinalizerInv, StageInv, SweepInv, DeletePcs
  <2>3. Backed
    <3>1. Held(wb)
      BY <1>10, <2>1 DEF ApplyObject, FinalizerInv, StageInv, TypeOK, Held
    <3>. QED BY <2>1, <3>1 DEF FinalizerInv, HeldInv
  <2>4. NoOrphans'
    BY <2>1, <2>3 DEF NoOrphans, Backed
  <2>. QED BY <2>1, <2>2, <2>4, InnerStep DEF DeletePcs
<1>11. CASE GCNamespaced
  <2>1. /\ pc \notin {"idle", "addFinalizer"} \cup DeletePcs
        /\ pc' \notin {"idle", "addFinalizer"} \cup DeletePcs
        /\ UNCHANGED <<cr, cache, watch, wb, fresh>>
    BY <1>11 DEF GCNamespaced, Goto, DeletePcs
  <2>2. StageInv' /\ SweepInv'
    BY <2>1 DEF FinalizerInv, StageInv, SweepInv, DeletePcs
  <2>3. \A r \in Refs : Operand(r)' => Operand(r)
    <3>1. CleanupNamespaced(OperandNamespace(wb.spec)) \ DesiredRefs(wb.spec) \in SUBSET Refs
      BY DEF CleanupNamespaced, CleanupCluster
    <3>. QED BY <1>11, <3>1, DeletePassEffect DEF GCNamespaced
  <2>4. NoOrphans'
    BY <2>1, <2>3 DEF FinalizerInv, NoOrphans
  <2>. QED BY <2>1, <2>2, <2>4, InnerStep DEF DeletePcs
<1>12. CASE GCCluster
  <2>1. /\ pc \notin {"idle", "addFinalizer"} \cup DeletePcs
        /\ pc' \notin {"idle", "addFinalizer"} \cup DeletePcs
        /\ UNCHANGED <<cr, cache, watch, wb, fresh>>
    BY <1>12 DEF GCCluster, Goto, DeletePcs
  <2>2. StageInv' /\ SweepInv'
    BY <2>1 DEF FinalizerInv, StageInv, SweepInv, DeletePcs
  <2>3. \A r \in Refs : Operand(r)' => Operand(r)
    <3>1. CleanupCluster \ DesiredRefs(wb.spec) \in SUBSET Refs
      BY DEF CleanupNamespaced, CleanupCluster
    <3>. QED BY <1>12, <3>1, DeletePassEffect DEF GCCluster
  <2>4. NoOrphans'
    BY <2>1, <2>3 DEF FinalizerInv, NoOrphans
  <2>. QED BY <2>1, <2>2, <2>4, InnerStep DEF DeletePcs
<1>13. CASE Observe
  <2>1. /\ pc \notin {"idle", "addFinalizer"} \cup DeletePcs
        /\ pc' \notin {"idle", "addFinalizer"} \cup DeletePcs
        /\ UNCHANGED <<cr, cache, watch, wb, fresh>>
    BY <1>13 DEF Observe, ObserveWith, Goto, DeletePcs
  <2>2. StageInv' /\ SweepInv'
    BY <2>1 DEF FinalizerInv, StageInv, SweepInv, DeletePcs
  <2>3. NoOrphans'
    BY <1>13 DEF Observe, FinalizerInv, NoOrphans, Operand
  <2>. QED BY <2>1, <2>2, <2>3, InnerStep DEF DeletePcs
<1>14. CASE WriteStatus
  BY <1>14, LastWrite DEF WriteStatus, Return, TypeOK
<1>15. CASE WriteError
  <2>1. SetErrorStatus(st, wb.generation) \in Statuses
    BY <1>15, SpecType, ErrorStatusType DEF WriteError, TypeOK
  <2>. QED BY <1>15, <2>1, LastWrite DEF WriteError, Return
<1>. QED BY <1>1, <1>2, <1>3, <1>4, <1>5, <1>6, <1>7, <1>8, <1>9, <1>10, <1>11, <1>12,
            <1>13, <1>14, <1>15 DEF Worker

\* Every step keeps it.
LEMMA FinalizerNext ==
    TypeOK /\ FinalizerInv /\ [Next]_vars => FinalizerInv'
<1>. SUFFICES ASSUME TypeOK, FinalizerInv, [Next]_vars PROVE FinalizerInv'
  OBVIOUS
<1>1. CASE UNCHANGED vars
  BY <1>1, QuietStep DEF vars, clusterVars, queueVars, localVars, Operand
<1>2. CASE Next
  BY <1>2, FinalizerEnvironment, FinalizerQueue, FinalizerWorker DEF Next
<1>. QED BY <1>1, <1>2

\* The inductive invariant of the finalizer protocol holds in every reachable
\* state: whatever the cache lags, whichever requests fail or lose their
\* answer, and wherever the process crashes.
THEOREM FinalizerProtocol == Spec => []FinalizerInv
BY FinalizerInit, TypeCorrect, FinalizerNext, PTL DEF Spec

\* With a configured applications namespace no operand is ever left without a
\* CR whose finalizer promises its removal (controllerutil.AddFinalizer before
\* renderAndApply, cleanupManagedResources before RemoveFinalizer).
THEOREM OperandsAreNeverOrphaned == Spec => []NoOrphans
<1>1. FinalizerInv => NoOrphans
  BY DEF FinalizerInv
<1>. QED BY FinalizerProtocol, <1>1, PTL

-----------------------------------------------------------------------------
(* No lost update *)

\* A write of the worker changes the finalizer and the status of the version
\* the API server holds, and nothing else.
LEMMA WorkerWrite ==
    ASSUME TypeOK, FinalizerInv, pc # "idle", NEW v, NEW ok \in BOOLEAN, Write(v, ok),
           /\ v.uid = wb.uid /\ v.generation = wb.generation
           /\ v.spec = wb.spec /\ v.deleting = wb.deleting
    PROVE  /\ cr = NoCR => cr' = NoCR
           /\ cr # NoCR => /\ cr'.generation = cr.generation
                           /\ cr'.spec = cr.spec /\ cr'.deleting = cr.deleting
BY DEF TypeOK, FinalizerInv, FreshInv, Write, Publish, NoPublish

\* The step NoLostUpdate allows.
KeepsUpdates ==
    /\ SameCR => /\ cr'.generation >= cr.generation
                 /\ cr'.generation = cr.generation =>
                       cr'.spec = cr.spec /\ cr'.deleting = cr.deleting
    /\ cr = NoCR /\ cr' # NoCR => uids' > uids

\* A write of the status takes nothing back.
LEMMA StatusWriteKeeps ==
    ASSUME TypeOK, FinalizerInv, pc # "idle", NEW s, NEW ok \in BOOLEAN,
           Write([wb EXCEPT !.status = s], ok)
    PROVE  KeepsUpdates
<1> DEFINE v == [wb EXCEPT !.status = s]
<1>1. /\ v.uid = wb.uid /\ v.generation = wb.generation
      /\ v.spec = wb.spec /\ v.deleting = wb.deleting
  BY DEF TypeOK, Versions
<1>2. cr # NoCR => cr.generation \in Nat
  BY SpecType DEF TypeOK
<1>3. Write(v, ok)
  OBVIOUS
<1>. HIDE DEF v
<1>. QED BY <1>1, <1>2, <1>3, WorkerWrite DEF KeepsUpdates, SameCR

\* No step undoes a spec edit or a deletion, or brings a deleted CR back: the
\* whole-object Update of Reconcile and the status updates act only on the
\* version the API server holds.
THEOREM UpdatesAreNeverLost == Spec => NoLostUpdate
<1>1. ASSUME TypeOK, FinalizerInv, [Next]_vars PROVE KeepsUpdates
  <2>g. cr # NoCR => cr \in Versions /\ cr.generation \in Nat
    BY <1>1, SpecType DEF TypeOK
  <2>1. CASE UNCHANGED cr
    BY <2>1, <2>g DEF KeepsUpdates, SameCR
  <2>2. ASSUME NEW spec \in Specs, CreateCR(spec) PROVE KeepsUpdates
    BY <1>1, <2>2 DEF CreateCR, KeepsUpdates, SameCR, TypeOK
  <2>3. ASSUME NEW spec \in Specs, UpdateSpec(spec) PROVE KeepsUpdates
    <3>1. cr # NoCR /\ cr' = [cr EXCEPT !.spec = spec, !.generation = @ + 1]
      BY <2>3 DEF UpdateSpec, Publish
    <3>2. cr'.generation = cr.generation + 1
      BY <2>g, <3>1 DEF Versions
    <3>. QED BY <2>g, <3>1, <3>2 DEF KeepsUpdates, SameCR
  <2>4. CASE DeleteCR
    <3>1. cr # NoCR
          /\ (cr' = NoCR \/ cr' = [cr EXCEPT !.deleting = TRUE, !.generation = @ + 1])
      BY <2>4 DEF DeleteCR, Publish
    <3>2. cr' # NoCR => cr'.generation = cr.generation + 1
      BY <2>g, <3>1 DEF Versions
    <3>. QED BY <2>g, <3>1, <3>2 DEF KeepsUpdates, SameCR
  <2>5. CASE AddFinalizer
    <3> DEFINE v == [wb EXCEPT !.finalizer = TRUE]
    <3>1. PICK ok \in BOOLEAN : Write(v, ok)
      BY <2>5 DEF AddFinalizer
    <3>2. /\ v.uid = wb.uid /\ v.generation = wb.generation
          /\ v.spec = wb.spec /\ v.deleting = wb.deleting /\ pc # "idle"
      BY <1>1, <2>5 DEF AddFinalizer, TypeOK, Versions
    <3>. HIDE DEF v
    <3>. QED BY <1>1, <2>g, <3>1, <3>2, WorkerWrite DEF KeepsUpdates, SameCR
  <2>6. CASE RemoveFinalizer
    <3>1. cr' = cr \/ cr' = NoCR
      BY <2>6 DEF RemoveFinalizer, Write, Publish, NoPublish
    <3>. QED BY <2>g, <3>1 DEF KeepsUpdates, SameCR
  <2>7. CASE WritePending \/ WriteStatus \/ WriteError
    BY <1>1, <2>7, StatusWriteKeeps DEF WritePending, WriteStatus, WriteError
  <2>8. CASE UNCHANGED vars
    BY <2>1, <2>8 DEF vars, clusterVars
  <2>9. CASE \/ Queue
             \/ \E ns \in AppNamespaces, config \in PlatformConfigs :
                   ChangePlatformConfig(ns, config)
             \/ ChangeAvailability
             \/ \E r \in Refs : Drift(r) \/ CascadeDelete(r)
             \/ Crash
    BY <2>1, <2>9 DEF Queue, CacheSync, TimerFires, Resync, ChangePlatformConfig,
                      ChangeAvailability, Drift, CascadeDelete, Crash, clusterVars
  <2>10. CASE \/ StartReconcile \/ CleanNamespaced \/ CleanCluster \/ ReadDistribution
              \/ ReadVersion \/ EnsureNamespaces \/ ApplyObject \/ GCNamespaced
              \/ GCCluster \/ Observe
    BY <2>1, <2>10 DEF StartReconcile, CleanNamespaced, CleanCluster, ReadDistribution,
                       ReadVersion, EnsureNamespaces, ApplyObject, GCNamespaced,
                       GCCluster, Observe, clusterVars
  <2>. QED BY <1>1, <2>2, <2>3, <2>4, <2>5, <2>6, <2>7, <2>8, <2>9, <2>10
       DEF Next, Environment, Worker
<1>2. TypeOK /\ FinalizerInv /\ [Next]_vars => [KeepsUpdates]_vars
  BY <1>1
<1>3. Spec => [][KeepsUpdates]_vars
  BY TypeCorrect, FinalizerProtocol, <1>2, PTL DEF Spec
<1>. QED BY <1>3 DEF KeepsUpdates, NoLostUpdate
=============================================================================
