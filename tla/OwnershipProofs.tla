--------------------------- MODULE OwnershipProofs ---------------------------
(***************************************************************************)
(* The reconciler implements OperandOwnership, for every manifest, every   *)
(* set of specs and every bound.  The invariant that relates the two is    *)
(* FinalizerInv.                                                           *)
(***************************************************************************)
EXTENDS FinalizerProofs

Holdings == {r \in Refs : Operand(r)}

\* What a step of the protocol may do to the owner and its operands.
OwnershipStep == Ownership!Next

\* A step that leaves the owner as it is and adds no operand loses some or none.
LEMMA LosingStep ==
    ASSUME Owner' = Owner, \A r \in Refs : Operand(r)' => Operand(r)
    PROVE  OwnershipStep
<1>1. Holdings' \subseteq Holdings
  BY DEF Holdings
<1>. QED BY <1>1 DEF OwnershipStep, Ownership!Next, Ownership!Lose, Holdings

\* A step that leaves the operands alone changes the owner in one of five ways.
LEMMA OwnerStep ==
    ASSUME UNCHANGED live,
           \/ Owner = "none" /\ Owner' = "unguarded"
           \/ Owner = "unguarded" /\ Owner' = "none"
           \/ Owner = "unguarded" /\ Owner' = "guarded"
           \/ Owner = "guarded" /\ Owner' = "deleting"
           \/ /\ Owner = "deleting" /\ Owner' = "none"
              /\ ApplicationsNamespace # "" => Holdings = {}
    PROVE  OwnershipStep
<1>1. Holdings' = Holdings
  BY DEF Holdings, Operand
<1>. QED BY <1>1 DEF OwnershipStep, Holdings, Ownership!Next, Ownership!Create,
            Ownership!Abandon, Ownership!Guard, Ownership!Delete, Ownership!Release

\* A status write of the worker acts on the CR it holds, and changes neither
\* its finalizer nor its deletion.
LEMMA StatusWriteKeepsOwner ==
    ASSUME TypeOK, FinalizerInv, pc # "idle", NEW s \in Statuses, NEW ok \in BOOLEAN,
           Write([wb EXCEPT !.status = s], ok)
    PROVE  Owner' = Owner
<1> DEFINE v == [wb EXCEPT !.status = s]
<1>1. v.finalizer = wb.finalizer /\ v.deleting = wb.deleting /\ v \in Versions
  BY DEF TypeOK, Versions
<1>2. cr' = cr \/ (fresh /\ cr' = v)
  BY DEF Write, Publish, NoPublish
<1>3. fresh => wb = cr /\ cr # NoCR
  BY DEF FinalizerInv, FreshInv, TypeOK
<1>4. v # NoCR
  BY <1>1, ReconcilerAssumption
<1>. HIDE DEF v
<1>. QED BY <1>1, <1>2, <1>3, <1>4 DEF Owner

\* Every step of the environment is a step of the protocol.
LEMMA OwnershipEnvironment ==
    TypeOK /\ FinalizerInv /\ Environment => OwnershipStep
<1>. SUFFICES ASSUME TypeOK, FinalizerInv, Environment PROVE OwnershipStep
  OBVIOUS
<1>1. ASSUME NEW spec \in Specs, CreateCR(spec) PROVE OwnershipStep
  <2> DEFINE v == [uid |-> uids + 1, generation |-> 1, spec |-> spec, finalizer |-> FALSE,
                   deleting |-> FALSE, status |-> InitStatus]
  <2>1. v \in Versions
    BY InitStatusType DEF TypeOK, Versions
  <2>2. cr = NoCR /\ cr' = v /\ ~v.finalizer /\ UNCHANGED live
    BY <1>1 DEF CreateCR, Publish
  <2>3. v # NoCR
    BY <2>1, ReconcilerAssumption
  <2>. HIDE DEF v
  <2>. QED BY <2>2, <2>3, OwnerStep DEF Owner
<1>2. ASSUME NEW spec \in Specs, UpdateSpec(spec) PROVE OwnershipStep
  <2> DEFINE v == [cr EXCEPT !.spec = spec, !.generation = @ + 1]
  <2>1. cr # NoCR /\ cr \in Versions /\ cr' = v /\ UNCHANGED live
    BY <1>2 DEF UpdateSpec, Publish, TypeOK
  <2>a. cr.generation + 1 \in Nat
    BY <2>1, SpecType
  <2>2. v \in Versions /\ v.finalizer = cr.finalizer /\ v.deleting = cr.deleting
    BY <2>1, <2>a DEF Versions
  <2>3. v # NoCR
    BY <2>2, ReconcilerAssumption
  <2>. HIDE DEF v
  <2>4. Owner' = Owner
    BY <2>1, <2>2, <2>3 DEF Owner
  <2>. QED BY <2>1, <2>4, LosingStep DEF Operand
<1>3. CASE DeleteCR
  <2> DEFINE v == [cr EXCEPT !.deleting = TRUE, !.generation = @ + 1]
  <2>1. /\ cr # NoCR /\ cr \in Versions /\ ~cr.deleting /\ UNCHANGED live
        /\ cr' = IF cr.finalizer THEN v ELSE NoCR
    BY <1>3 DEF DeleteCR, Publish, TypeOK
  <2>a. cr.generation + 1 \in Nat
    BY <2>1, SpecType
  <2>2. v \in Versions /\ v.finalizer = cr.finalizer /\ v.deleting
    BY <2>1, <2>a DEF Versions
  <2>3. v # NoCR
    BY <2>2, ReconcilerAssumption
  <2>. HIDE DEF v
  <2>. QED BY <2>1, <2>2, <2>3, OwnerStep DEF Owner
<1>4. CASE \/ \E ns \in AppNamespaces, config \in PlatformConfigs :
                 ChangePlatformConfig(ns, config)
           \/ ChangeAvailability
           \/ \E r \in Refs : Drift(r) \/ CascadeDelete(r)
           \/ Crash
  <2>1. UNCHANGED cr
    BY <1>4 DEF ChangePlatformConfig, ChangeAvailability, Drift, CascadeDelete, Crash
  <2>2. \A r \in Refs : Operand(r)' => Operand(r)
    BY <1>4 DEF ChangePlatformConfig, ChangeAvailability, Drift, CascadeDelete, Crash,
                Operand, TypeOK
  <2>. QED BY <2>1, <2>2, LosingStep DEF Owner
<1>. QED BY <1>1, <1>2, <1>3, <1>4 DEF Environment

\* Every step of the worker is a step of the protocol.
LEMMA OwnershipWorker ==
    TypeOK /\ FinalizerInv /\ Worker => OwnershipStep
<1>. SUFFICES ASSUME TypeOK, FinalizerInv, Worker PROVE OwnershipStep
  OBVIOUS
<1>1. CASE AddFinalizer
  <2> DEFINE v == [wb EXCEPT !.finalizer = TRUE]
  <2>1. wb \in Versions /\ wb # NoCR /\ ~wb.finalizer /\ ~wb.deleting /\ UNCHANGED live
    BY <1>1 DEF AddFinalizer, TypeOK, FinalizerInv, StageInv, DeletePcs
  <2>2. v \in Versions /\ v.finalizer /\ ~v.deleting
    BY <2>1 DEF Versions
  <2>3. v # NoCR
    BY <2>2, ReconcilerAssumption
  <2>4. cr' = cr \/ (fresh /\ cr' = v)
    BY <1>1 DEF AddFinalizer, Write, Publish, NoPublish
  <2>5. fresh => wb = cr
    BY DEF FinalizerInv, FreshInv
  <2>. HIDE DEF v
  <2>6. CASE cr' = cr
    BY <2>1, <2>6, LosingStep DEF Owner, Operand
  <2>7. CASE fresh /\ cr' = v
    BY <2>1, <2>2, <2>3, <2>5, <2>7, OwnerStep DEF Owner
  <2>. QED BY <2>4, <2>6, <2>7
<1>2. CASE RemoveFinalizer
  <2>1. wb # NoCR /\ wb.finalizer /\ wb.deleting /\ UNCHANGED live
    BY <1>2 DEF RemoveFinalizer, TypeOK, FinalizerInv, StageInv
  <2>2. ApplicationsNamespace # "" => Holdings = {}
    BY <1>2 DEF RemoveFinalizer, FinalizerInv, SweepInv, Holdings
  <2>3. cr' = cr \/ (fresh /\ cr' = NoCR)
    BY <1>2 DEF RemoveFinalizer, Write, Publish, NoPublish
  <2>4. fresh => wb = cr
    BY DEF FinalizerInv, FreshInv
  <2>5. CASE cr' = cr
    BY <2>1, <2>5, LosingStep DEF Owner, Operand
  <2>6. CASE fresh /\ cr' = NoCR
    BY <2>1, <2>2, <2>4, <2>6, OwnerStep DEF Owner
  <2>. QED BY <2>3, <2>5, <2>6
<1>3. CASE WritePending \/ WriteStatus
  <2>1. pc # "idle" /\ st \in Statuses /\ UNCHANGED live
    BY <1>3 DEF WritePending, WriteStatus, TypeOK
  <2>2. PICK ok \in BOOLEAN : Write([wb EXCEPT !.status = st], ok)
    BY <1>3 DEF WritePending, WriteStatus
  <2>. QED BY <2>1, <2>2, StatusWriteKeepsOwner, LosingStep DEF Operand
<1>4. CASE WriteError
  <2>1. pc # "idle" /\ UNCHANGED live
    BY <1>4 DEF WriteError
  <2>2. SetErrorStatus(st, wb.generation) \in Statuses
    BY <1>4, SpecType, ErrorStatusType DEF WriteError, TypeOK
  <2>3. PICK ok \in BOOLEAN :
          Write([wb EXCEPT !.status = SetErrorStatus(st, wb.generation)], ok)
    BY <1>4 DEF WriteError
  <2>. QED BY <2>1, <2>2, <2>3, StatusWriteKeepsOwner, LosingStep DEF Operand
<1>5. CASE ApplyObject
  <2> DEFINE ref == ObjectRef(Head(todo), OperandNamespace(wb.spec))
  <2>1. UNCHANGED cr /\ (live' = live \/ live' = [live EXCEPT ![ref] = wb.spec])
    BY <1>5 DEF ApplyObject
  <2>2. wb # NoCR /\ Held(wb)
    BY <1>5 DEF ApplyObject, TypeOK, FinalizerInv, StageInv, DeletePcs, Held
  <2>3. Owner \in {"guarded", "deleting"} /\ Owner' = Owner
    BY <1>5, <2>1, <2>2 DEF ApplyObject, FinalizerInv, HeldInv, Backed, Owner
  <2>4. CASE Holdings' \subseteq Holdings
    BY <2>3, <2>4 DEF OwnershipStep, Ownership!Next, Ownership!Lose, Holdings
  <2>5. CASE ~(Holdings' \subseteq Holdings)
    <3>1. live' # live
      BY <2>5 DEF Holdings, Operand
    <3>2. live' = [live EXCEPT ![ref] = wb.spec] /\ live \in [Refs -> Specs \cup {Absent}]
      BY <2>1, <3>1 DEF TypeOK
    <3>3. \A r \in Refs : r # ref => (Operand(r)' <=> Operand(r))
      BY <3>2 DEF Operand
    <3>4. PICK t \in Refs : Operand(t)' /\ ~Operand(t)
      BY <2>5 DEF Holdings
    <3>5. \A r \in Refs : r # t => (Operand(r)' <=> Operand(r))
      BY <3>3, <3>4
    <3>6. Holdings' = Holdings \cup {t}
      BY <3>4, <3>5 DEF Holdings
    <3>. QED BY <2>3, <3>4, <3>6 DEF OwnershipStep, Ownership!Next, Ownership!Add, Holdings
  <2>. QED BY <2>4, <2>5
<1>6. ASSUME NEW refs \in SUBSET Refs, NEW err \in BOOLEAN, DeletePass(refs, err), UNCHANGED cr
      PROVE  OwnershipStep
  BY <1>6, DeletePassEffect, LosingStep DEF Owner
<1>7. CASE CleanNamespaced \/ CleanCluster \/ GCNamespaced \/ GCCluster
  <2>1. UNCHANGED cr
    BY <1>7 DEF CleanNamespaced, CleanCluster, GCNamespaced, GCCluster
  <2>2. /\ \A ns : CleanupNamespaced(ns) \in SUBSET Refs
        /\ CleanupCluster \in SUBSET Refs
    BY DEF CleanupNamespaced, CleanupCluster
  <2>3. \E refs \in SUBSET Refs, err \in BOOLEAN : DeletePass(refs, err)
    <3>1. CASE CleanNamespaced
      BY <2>2, <3>1 DEF CleanNamespaced
    <3>2. CASE CleanCluster
      BY <2>2, <3>2 DEF CleanCluster
    <3>3. CASE GCNamespaced
      <4>1. CleanupNamespaced(OperandNamespace(wb.spec)) \ DesiredRefs(wb.spec) \in SUBSET Refs
        BY <2>2
      <4>. QED BY <3>3, <4>1 DEF GCNamespaced
    <3>4. CASE GCCluster
      <4>1. CleanupCluster \ DesiredRefs(wb.spec) \in SUBSET Refs
        BY <2>2
      <4>. QED BY <3>4, <4>1 DEF GCCluster
    <3>. QED BY <1>7, <3>1, <3>2, <3>3, <3>4
  <2>. QED BY <1>6, <2>1, <2>3
<1>8. CASE \/ StartReconcile \/ ReadDistribution \/ ReadVersion \/ EnsureNamespaces \/ Observe
  <2>1. UNCHANGED <<cr, live>>
    BY <1>8 DEF StartReconcile, ReadDistribution, ReadVersion, EnsureNamespaces, Observe,
                clusterVars
  <2>. QED BY <2>1, LosingStep DEF Owner, Operand
<1>. QED BY <1>1, <1>2, <1>3, <1>4, <1>5, <1>7, <1>8 DEF Worker

\* Every step of the reconciler is a step of the protocol.
LEMMA OwnershipNext ==
    TypeOK /\ FinalizerInv /\ [Next]_vars => OwnershipStep
<1>1. ASSUME UNCHANGED <<cr, live>> PROVE OwnershipStep
  BY <1>1, LosingStep DEF Owner, Operand
<1>2. Queue \/ UNCHANGED vars => UNCHANGED <<cr, live>>
  BY DEF Queue, CacheSync, TimerFires, Resync, vars, clusterVars
<1>. QED BY <1>1, <1>2, OwnershipEnvironment, OwnershipWorker DEF Next

\* The reconciler implements the ownership protocol: the initial states map to
\* its initial state and every step to one of its steps, so that operands
\* exist only under a finalizer, which is removed only after a complete
\* cleanup (workbenches_controller.go, Reconcile and reconcileDelete).
THEOREM ReconcilerImplementsOwnership == Spec => ImplementsOwnership
<1>1. Init => Ownership!Init
  BY DEF Init, Ownership!Init, Owner, Operand
<1>2. TypeOK /\ FinalizerInv /\ [Next]_vars => [OwnershipStep]_<<Owner, Holdings>>
  BY OwnershipNext
<1>. QED BY <1>1, <1>2, TypeCorrect, FinalizerProtocol, PTL
         DEF Spec, ImplementsOwnership, Ownership!Spec, OwnershipStep, Holdings
=============================================================================
