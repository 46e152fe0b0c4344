---------------------------- MODULE ContractProofs ----------------------------
(***************************************************************************)
(* The evidence in the status is sound for every set of notebook           *)
(* controllers and every bound, as long as the platform never assigns a    *)
(* withdrawn contract again: no lagging cache, no surge, no failed request *)
(* and no status of an older generation makes it claim a rollout that is   *)
(* not complete.                                                           *)
(***************************************************************************)
EXTENDS IngressContract, FiniteSetTheorems, SequenceTheorems, WellFoundedInduction, TLAPS

-----------------------------------------------------------------------------
(* The operators *)

\* A set of naturals that is not empty has a least element.
LEMMA LeastOf ==
    ASSUME NEW T, T \subseteq Nat, T # {}
    PROVE  \E u \in T : \A v \in T : u <= v
<1>1. PICK u \in T : \A v \in T : ~(<<v, u>> \in OpToRel(<, Nat))
  BY WFMin, NatLessThanWellFounded, Zenon
<1>2. ASSUME NEW v \in T PROVE u <= v
  <2>1. u \in Nat /\ v \in Nat
    OBVIOUS
  <2>2. ~(v < u)
    BY <1>1, <2>1 DEF OpToRel
  <2>. QED BY <2>1, <2>2
<1>. QED BY <1>2

\* A bounded set of naturals that is not empty has a greatest element.
LEMMA GreatestOf ==
    ASSUME NEW S \in SUBSET Nat, S # {}, NEW b \in Nat, \A y \in S : y <= b
    PROVE  Max(S) \in Nat
<1>. DEFINE U == {n \in Nat : \A y \in S : y <= n}
<1>1. U \subseteq Nat /\ U # {}
  OBVIOUS
<1>2. PICK u \in U : \A v \in U : u <= v
  <2>. HIDE DEF U
  <2>. QED BY <1>1, LeastOf
<1>3. u \in S
  <2>. SUFFICES ASSUME u \notin S PROVE FALSE
    OBVIOUS
  <2>1. \A y \in S : y <= u /\ y # u
    OBVIOUS
  <2>2. u \in Nat /\ u # 0
    <3>1. PICK y \in S : TRUE
      OBVIOUS
    <3>2. y \in Nat /\ u \in Nat
      OBVIOUS
    <3>. QED BY <2>1, <3>1, <3>2
  <2>3. u - 1 \in Nat /\ \A y \in S : y <= u - 1
    BY <2>1, <2>2
  <2>4. u - 1 \in U
    BY <2>3
  <2>. HIDE DEF U
  <2>. QED BY <1>2, <2>2, <2>4
<1>4. \E x \in S : \A y \in S : x >= y
  BY <1>3
<1>. QED BY <1>4 DEF Max

\* Finitely many naturals are bounded.
LEMMA BoundOf ==
    ASSUME NEW N \in Nat, NEW g \in [1..N -> Nat]
    PROVE  \E b \in Nat : \A i \in 1..N : g[i] <= b
<1>. DEFINE T == {n \in 0..N : ~ \E b \in Nat : \A i \in 1..n : g[i] <= b}
<1>1. T = {}
  <2>. SUFFICES ASSUME T # {} PROVE FALSE
    OBVIOUS
  <2>1. T \subseteq Nat
    OBVIOUS
  <2>2. PICK n \in T : \A m \in T : n <= m
    <3>. HIDE DEF T
    <3>. QED BY <2>1, LeastOf
  <2>3. n \in 0..N /\ ~ \E b \in Nat : \A i \in 1..n : g[i] <= b
    OBVIOUS
  <2>4. n # 0
    BY <2>3
  <2>5. PICK m : m = n - 1
    OBVIOUS
  <2>6. m \in 0..N /\ n \in 1..N /\ ~(n <= m)
    BY <2>3, <2>4, <2>5
  <2>7. m \notin T
    <3>. HIDE DEF T
    <3>. QED BY <2>2, <2>6
  <2>8. PICK b \in Nat : \A i \in 1..m : g[i] <= b
    BY <2>6, <2>7
  <2>. HIDE DEF T
  <2>9. PICK h : h = g[n] /\ h \in Nat
    BY <2>6
  <2>10. PICK a \in Nat : a >= b /\ a >= h
    <3>1. CASE b >= h
      BY <2>9, <3>1
    <3>2. CASE h >= b
      BY <2>9, <3>2
    <3>. QED BY <2>9, <3>1, <3>2
  <2>11. ASSUME NEW i \in 1..n PROVE g[i] <= a
    <3>1. i \in 1..N /\ g[i] \in Nat
      BY <2>6
    <3>2. CASE i = n
      BY <2>9, <2>10, <3>2
    <3>3. CASE i # n
      <4>1. i \in 1..m
        BY <2>5, <2>6, <3>3
      <4>2. g[i] <= b
        BY <2>8, <4>1
      <4>. QED BY <2>10, <3>1, <4>2
    <3>. QED BY <3>2, <3>3
  <2>. QED BY <2>3, <2>11
<1>2. N \in 0..N /\ N \notin T
  <2>. HIDE DEF T
  <2>. QED BY <1>1
<1>. QED BY <1>2

\* The generations of the notebook controllers have a greatest one.
LEMMA GreatestGeneration ==
    ASSUME NEW f \in [Names -> Nat]
    PROVE  Max({f[d] : d \in Names}) \in Nat
<1>1. PICK N, g : N = Len(Components) /\ g = [i \in 1..N |-> f[Components[i]]]
  OBVIOUS
<1>2. /\ N \in Nat /\ N # 0 /\ DOMAIN Components = 1..N
      /\ \A i \in 1..N : Components[i] \in Names
      /\ \A d \in Names : \E i \in 1..N : d = Components[i]
  BY <1>1, ContractAssumption, EmptySeq DEF Names
<1>3. g \in [1..N -> Nat]
  BY <1>1, <1>2
<1>4. PICK b \in Nat : \A i \in 1..N : g[i] <= b
  BY <1>2, <1>3, BoundOf
<1>5. PICK S : S = {f[d] : d \in Names}
  OBVIOUS
<1>6. S \in SUBSET Nat
  BY <1>5
<1>7. S # {}
  <2>1. Components[1] \in Names
    BY <1>2
  <2>. QED BY <1>5, <2>1
<1>8. ASSUME NEW d \in Names PROVE f[d] <= b
  <2>1. PICK i \in 1..N : d = Components[i]
    BY <1>2
  <2>2. f[d] = g[i]
    BY <1>1, <2>1
  <2>. QED BY <1>4, <2>2
<1>9. \A y \in S : y <= b
  BY <1>5, <1>8
<1>. QED BY <1>5, <1>6, <1>7, <1>9, GreatestOf

\* The stamps are finitely many.
LEMMA StampsFinite == IsFiniteSet(Stamps) /\ 0 \in Stamps /\ Stamps \subseteq Nat
  BY ContractAssumption, FS_Interval DEF Stamps

\* What a reader of a deployment gets has its type.
LEMMA ViewType ==
    ASSUME TypeOK, NEW d \in Names
    PROVE  View(d) \in Views
<1>1. PICK D, A, B : D = dep[d] /\ A = {s \in Stamps : Up(d, s)} /\ B = {s \in Stamps : pods[d][s] = "ready"}
  OBVIOUS
<1>2. D \in Deployments
  BY <1>1 DEF TypeOK
<1>3. Cardinality(A) \in Nat /\ Cardinality(B) \in Nat
  BY <1>1, StampsFinite, FS_Subset, FS_CardinalityType
<1>4. View(d) = [generation |-> D.generation, stamp |-> D.stamp, desired |-> D.desired,
                 observed |-> D.observed, total |-> Cardinality(A),
                 updated |-> IF Up(d, D.template) THEN 1 ELSE 0, ready |-> Cardinality(B)]
  BY <1>1 DEF View
<1>. QED BY <1>2, <1>3, <1>4 DEF Views, Deployments

\* What an apply makes of a deployment.
LEMMA AppliedType ==
    ASSUME TypeOK, NEW d \in Names
    PROVE  /\ AppliedDeployment(d) \in Deployments
           /\ AppliedDeployment(d).stamp = wb.contract
           /\ AppliedDeployment(d).observed = dep[d].observed
           /\ AppliedDeployment(d).template = dep[d].template
           /\ \/ AppliedDeployment(d) = dep[d]
              \/ AppliedDeployment(d).generation = dep[d].generation + 1
<1>1. PICK D, c, n : D = dep[d] /\ c = wb.contract /\ n = replicas
  OBVIOUS
<1>2. D \in Deployments /\ c \in Stamps /\ n \in {0, 1}
  BY <1>1 DEF TypeOK, CRs
<1>3. PICK E : E = [D EXCEPT !.stamp = c, !.desired = n]
  OBVIOUS
<1>4. /\ E \in Deployments /\ E.stamp = c /\ E.observed = D.observed /\ E.template = D.template
      /\ E.generation = D.generation
  BY <1>2, <1>3 DEF Deployments
<1>5. PICK F : F = [E EXCEPT !.generation = @ + 1]
  OBVIOUS
<1>6. /\ F \in Deployments /\ F.stamp = c /\ F.observed = D.observed /\ F.template = D.template
      /\ F.generation = D.generation + 1
  BY <1>4, <1>5 DEF Deployments
<1>7. AppliedDeployment(d) = IF E = D /\ D.generation > 0 THEN E ELSE F
  BY <1>1, <1>3, <1>5 DEF AppliedDeployment
<1>. QED BY <1>1, <1>4, <1>6, <1>7

-----------------------------------------------------------------------------
(* Types *)

\* Components is indexed from 1.
LEMMA Indices ==
    /\ DOMAIN Components = 1..Len(Components) /\ Len(Components) \in Nat \ {0}
    /\ 1 \in DOMAIN Components
    /\ \A i \in DOMAIN Components : Components[i] \in Names
    /\ \E d : d \in Names
<1>1. DOMAIN Components = 1..Len(Components) /\ Len(Components) \in Nat \ {0}
  BY ContractAssumption, EmptySeq
<1>2. 1 \in DOMAIN Components
  BY <1>1
<1>. QED BY <1>1, <1>2 DEF Names

\* The records a reconcile begins and ends with.
LEMMA Defaults == NewCR \in CRs /\ NoEvidence \in Evidence /\ NoDeployment \in Deployments
  BY StampsFinite DEF NewCR, CRs, NoEvidence, Evidence, NoDeployment, Deployments

LEMMA TypeInit ==
    ASSUME Init
    PROVE  TypeOK
<1>1. dep \in [Names -> Deployments]
  BY Defaults DEF Init
<1>2. pods \in [Names -> PodSets]
  BY DEF Init, PodSets
<1>3. ASSUME NEW d \in Names PROVE View(d) \in Views
  <2>1. PICK A, B : A = {s \in Stamps : Up(d, s)} /\ B = {s \in Stamps : pods[d][s] = "ready"}
    OBVIOUS
  <2>2. Cardinality(A) \in Nat /\ Cardinality(B) \in Nat
    BY <2>1, StampsFinite, FS_Subset, FS_CardinalityType
  <2>3. PICK D : D = dep[d] /\ D \in Deployments
    BY <1>1
  <2>4. View(d) = [generation |-> D.generation, stamp |-> D.stamp, desired |-> D.desired,
                   observed |-> D.observed, total |-> Cardinality(A),
                   updated |-> IF Up(d, D.template) THEN 1 ELSE 0, ready |-> Cardinality(B)]
    BY <2>1, <2>3 DEF View
  <2>. QED BY <2>2, <2>3, <2>4 DEF Views, Deployments
<1>4. depCache \in [Names -> Views]
  BY <1>3 DEF Init
<1>5. config \in Configs /\ configCache \in Configs
  BY StampsFinite DEF Init, Configs
<1>6. cr \in CRs /\ crCache \in CRs /\ wb \in CRs /\ status \in Evidence /\ st \in Evidence
  BY Defaults DEF Init
<1>. QED BY <1>1, <1>2, <1>4, <1>5, <1>6, Indices, StampsFinite DEF Init, TypeOK, Pcs

\* Counters.
LEMMA CounterType ==
    ASSUME TypeOK
    PROVE  /\ Disturb => disturbs' \in Nat
           /\ \A ok \in BOOLEAN : Request(ok) => faults' \in Nat
<1>1. disturbs \in Nat /\ faults \in Nat
  BY DEF TypeOK
<1>. QED BY <1>1 DEF Disturb, Request

\* The environment's steps.
LEMMA TypeEnvironment ==
    ASSUME TypeOK, Environment
    PROVE  TypeOK'
<1>1. ASSUME NEW c \in Stamps, AssignContract(c) PROVE TypeOK'
  <2>1. cr' \in CRs /\ source' \in Stamps
    BY <1>1 DEF AssignContract, TypeOK, CRs
  <2>. QED BY <1>1, <2>1 DEF AssignContract, TypeOK, cacheVars, workerVars
<1>2. ASSUME NEW c \in Stamps, ForeignWrite(c) PROVE TypeOK'
  <2>1. config' \in Configs
    BY <1>2 DEF ForeignWrite, Configs
  <2>. QED BY <1>2, <2>1, CounterType DEF ForeignWrite, TypeOK, cacheVars, workerVars
<1>3. ASSUME NEW d \in Names, Scale(d) PROVE TypeOK'
  <2>1. PICK D : D = dep[d] /\ D \in Deployments
    BY DEF TypeOK
  <2>2. [D EXCEPT !.generation = @ + 1, !.desired = 1 - @] \in Deployments
    <3>1. D.generation + 1 \in Nat /\ 1 - D.desired \in {0, 1}
      BY <2>1 DEF Deployments
    <3>2. ASSUME NEW g \in Nat, NEW n \in {0, 1}
          PROVE  [D EXCEPT !.generation = g, !.desired = n] \in Deployments
      BY <2>1 DEF Deployments
    <3>. QED BY <3>1, <3>2
  <2>3. dep' = [dep EXCEPT ![d] = [D EXCEPT !.generation = @ + 1, !.desired = 1 - @]]
    BY <1>3, <2>1 DEF Scale, TypeOK
  <2>4. dep' \in [Names -> Deployments]
    BY <2>2, <2>3 DEF TypeOK
  <2>. QED BY <1>3, <2>4, CounterType DEF Scale, TypeOK, cacheVars, workerVars
<1>4. ASSUME NEW d \in Names, ObserveGeneration(d) PROVE TypeOK'
  <2>1. PICK D : D = dep[d] /\ D \in Deployments
    BY DEF TypeOK
  <2>2. [D EXCEPT !.observed = D.generation, !.template = D.stamp] \in Deployments
    BY <2>1 DEF Deployments
  <2>3. dep' = [dep EXCEPT ![d] = [D EXCEPT !.observed = D.generation, !.template = D.stamp]]
    BY <1>4, <2>1 DEF ObserveGeneration, TypeOK
  <2>4. dep' \in [Names -> Deployments]
    BY <2>2, <2>3 DEF TypeOK
  <2>. QED BY <1>4, <2>4 DEF ObserveGeneration, TypeOK, cacheVars, workerVars
<1>5. ASSUME NEW d \in Names, NEW s \in Stamps, NEW v \in {"none", "starting", "ready"},
             pods' = [pods EXCEPT ![d][s] = v]
      PROVE  pods' \in [Names -> PodSets]
  <2>1. [pods[d] EXCEPT ![s] = v] \in PodSets
    BY DEF TypeOK, PodSets
  <2>2. pods' = [pods EXCEPT ![d] = [pods[d] EXCEPT ![s] = v]]
    BY <1>5 DEF TypeOK
  <2>. QED BY <2>1, <2>2 DEF TypeOK
<1>6. ASSUME NEW d \in Names, StartPod(d) PROVE TypeOK'
  <2>1. dep[d].stamp \in Stamps
    BY DEF TypeOK, Deployments
  <2>2. pods' \in [Names -> PodSets]
    BY <1>5, <1>6, <2>1 DEF StartPod
  <2>. QED BY <1>6, <2>2 DEF StartPod, TypeOK, cacheVars, workerVars
<1>7. ASSUME NEW d \in Names, NEW s \in Stamps, PodReady(d, s) PROVE TypeOK'
  <2>1. pods' \in [Names -> PodSets]
    BY <1>5, <1>7 DEF PodReady
  <2>. QED BY <1>7, <2>1 DEF PodReady, TypeOK, cacheVars, workerVars
<1>8. ASSUME NEW d \in Names, NEW s \in Stamps, PodFails(d, s) PROVE TypeOK'
  <2>1. pods' \in [Names -> PodSets]
    BY <1>5, <1>8 DEF PodFails
  <2>. QED BY <1>8, <2>1, CounterType DEF PodFails, TypeOK, cacheVars, workerVars
<1>9. ASSUME NEW d \in Names, NEW s \in Stamps, StopPod(d, s) PROVE TypeOK'
  <2>1. pods' \in [Names -> PodSets]
    BY <1>5, <1>9 DEF StopPod
  <2>. QED BY <1>9, <2>1 DEF StopPod, TypeOK, cacheVars, workerVars
<1>. QED BY <1>1, <1>2, <1>3, <1>4, <1>6, <1>7, <1>8, <1>9 DEF Environment

LEMMA TypeInformers ==
    ASSUME TypeOK, Informers
    PROVE  TypeOK'
<1>1. CASE SyncCR
  BY <1>1 DEF SyncCR, TypeOK, clusterVars, workerVars
<1>2. CASE SyncConfig
  BY <1>2 DEF SyncConfig, TypeOK, clusterVars, workerVars
<1>3. ASSUME NEW d \in Names, SyncDeployment(d) PROVE TypeOK'
  <2>1. PICK v : v = View(d) /\ v \in Views
    BY ViewType
  <2>2. depCache' \in [Names -> Views]
    BY <1>3, <2>1 DEF SyncDeployment, TypeOK
  <2>3. PICK b : b = (queued \/ DeploymentAvailabilityChanged(depCache[d], View(d)))
    OBVIOUS
  <2>4. b \in BOOLEAN
    BY <2>3
  <2>5. queued' \in BOOLEAN
    BY <1>3, <2>3, <2>4 DEF SyncDeployment
  <2>. QED BY <1>3, <2>2, <2>5 DEF SyncDeployment, TypeOK, clusterVars, workerVars
<1>. QED BY <1>1, <1>2, <1>3 DEF Informers

LEMMA TypeReturn ==
    ASSUME TypeOK, NEW requeue, Return(requeue)
    PROVE  /\ queued' \in BOOLEAN /\ pc' \in Pcs /\ wb' \in CRs /\ next' \in DOMAIN Components
           /\ replicas' \in {0, 1} /\ st' \in Evidence
  BY Defaults, Indices DEF Return, Pcs

LEMMA TypeUpdate ==
    ASSUME TypeOK, NEW v \in Evidence, NEW ok \in BOOLEAN, Update(v, ok)
    PROVE  status' \in Evidence /\ faults' \in Nat
<1>1. faults' \in Nat
  BY CounterType DEF Update, TypeOK
<1>2. status' \in {status, v}
  BY DEF Update
<1>. QED BY <1>1, <1>2 DEF TypeOK

LEMMA TypeWorker ==
    ASSUME TypeOK, Worker
    PROVE  TypeOK'
<1>1. CASE Start
  BY <1>1 DEF Start, TypeOK, Pcs, clusterVars, cacheVars
<1>2. CASE ApplyConfig
  <2>1. AppliedConfig(wb.contract) \in Configs
    <3>1. wb.contract \in Stamps /\ config \in Configs
      BY DEF TypeOK, CRs
    <3>2. [config EXCEPT !.contract = 0] \in Configs
      BY <3>1, StampsFinite DEF Configs
    <3>3. ASSUME NEW b \in BOOLEAN PROVE [contract |-> wb.contract, foreign |-> b] \in Configs
      BY <3>1 DEF Configs
    <3>4. (config.foreign /\ config.contract = wb.contract) \in BOOLEAN
      OBVIOUS
    <3>. QED BY <3>1, <3>2, <3>3, <3>4 DEF AppliedConfig
  <2>2. config' \in Configs
    BY <1>2, <2>1 DEF ApplyConfig, TypeOK
  <2>3. faults' \in Nat /\ pc' \in Pcs
    BY <1>2, CounterType DEF ApplyConfig, Pcs
  <2>. QED BY <1>2, <2>2, <2>3, Indices DEF ApplyConfig, TypeOK, cacheVars
<1>3. CASE ClearIngressContract
  <2>1. config' \in Configs
    BY <1>3, StampsFinite DEF ClearIngressContract, TypeOK, Configs
  <2>2. faults' \in Nat /\ pc' \in Pcs
    BY <1>3, CounterType DEF ClearIngressContract, Pcs
  <2>. QED BY <1>3, <2>1, <2>2 DEF ClearIngressContract, TypeOK, cacheVars
<1>4. CASE MergeReplicas
  <2>1. dep[Components[next]].desired \in {0, 1}
    BY Indices DEF TypeOK, Deployments
  <2>2. faults' \in Nat /\ pc' \in Pcs /\ replicas' \in {0, 1}
    BY <1>4, <2>1, CounterType DEF MergeReplicas, Pcs, TypeOK
  <2>. QED BY <1>4, <2>2 DEF MergeReplicas, TypeOK, clusterVars, cacheVars
<1>5. CASE ApplyDeployment
  <2>1. PICK d : d = Components[next] /\ d \in Names
    BY Indices DEF TypeOK
  <2>2. AppliedDeployment(d) \in Deployments
    BY <2>1, AppliedType
  <2>3. dep' \in [Names -> Deployments]
    BY <1>5, <2>1, <2>2 DEF ApplyDeployment, TypeOK
  <2>4. faults' \in Nat /\ pc' \in Pcs /\ replicas' \in {0, 1}
    BY <1>5, CounterType DEF ApplyDeployment, AfterApply, Pcs
  <2>5. next' \in DOMAIN Components
    <3>1. next \in 1..Len(Components)
      BY Indices DEF TypeOK
    <3>2. next' = 1 \/ (next < Len(Components) /\ next' = next + 1)
      BY <1>5 DEF ApplyDeployment, AfterApply
    <3>. QED BY <3>1, <3>2, Indices
  <2>. QED BY <1>5, <2>3, <2>4, <2>5 DEF ApplyDeployment, TypeOK, cacheVars
<1>6. CASE ObserveConfig
  <2>1. wb.contract \in Stamps /\ wb.generation \in Nat
    BY DEF TypeOK, CRs
  <2>2. ASSUME NEW c \in Stamps, NEW g \in Nat
        PROVE  [NoEvidence EXCEPT !.contract = c, !.observed = g] \in Evidence
    BY Defaults DEF Evidence
  <2>3. st' \in Evidence
    BY <1>6, <2>1, <2>2, StampsFinite DEF ObserveConfig
  <2>4. faults' \in Nat /\ pc' \in Pcs
    BY <1>6, CounterType DEF ObserveConfig, Pcs
  <2>. QED BY <1>6, <2>3, <2>4 DEF ObserveConfig, TypeOK, clusterVars, cacheVars
<1>7. CASE ObserveRollout
  <2>1. PICK f : f = [d \in Names |-> depCache[d].generation]
    OBVIOUS
  <2>2. f \in [Names -> Nat]
    BY <2>1 DEF TypeOK, Views
  <2>3. {depCache[d].generation : d \in Names} = {f[d] : d \in Names}
    BY <2>1
  <2>4. PICK g \in Nat : g = Max({depCache[d].generation : d \in Names})
    BY <2>2, <2>3, GreatestGeneration
  <2>5. [st EXCEPT !.ready = TRUE, !.rollout = g] \in Evidence
    BY DEF TypeOK, Evidence
  <2>6. st' \in Evidence
    BY <1>7, <2>4, <2>5 DEF ObserveRollout, TypeOK
  <2>7. faults' \in Nat /\ pc' \in Pcs
    BY <1>7, CounterType DEF ObserveRollout, Pcs
  <2>. QED BY <1>7, <2>6, <2>7 DEF ObserveRollout, TypeOK, clusterVars, cacheVars
<1>8. CASE WriteStatus
  <2>1. PICK ok \in BOOLEAN : Update(st, ok) /\ Return(~ok \/ IngressContractPending)
    BY <1>8 DEF WriteStatus
  <2>2. PICK v, b : v = st /\ v \in Evidence /\ b = (~ok \/ IngressContractPending)
    BY DEF TypeOK
  <2>3. status' \in Evidence /\ faults' \in Nat
    BY <2>1, <2>2, TypeUpdate
  <2>4. /\ queued' \in BOOLEAN /\ pc' \in Pcs /\ wb' \in CRs /\ next' \in DOMAIN Components
        /\ replicas' \in {0, 1} /\ st' \in Evidence
    BY <2>1, <2>2, TypeReturn
  <2>. QED BY <1>8, <2>3, <2>4 DEF WriteStatus, TypeOK, cacheVars
<1>9. CASE WriteError
  <2>1. PICK v : v = [NoEvidence EXCEPT !.observed = wb.generation]
    OBVIOUS
  <2>2. v \in Evidence
    BY <2>1, Defaults DEF Evidence, TypeOK, CRs
  <2>3. PICK ok \in BOOLEAN : Update(v, ok)
    BY <1>9, <2>1 DEF WriteError
  <2>4. status' \in Evidence /\ faults' \in Nat
    BY <2>2, <2>3, TypeUpdate
  <2>5. /\ queued' \in BOOLEAN /\ pc' \in Pcs /\ wb' \in CRs /\ next' \in DOMAIN Components
        /\ replicas' \in {0, 1} /\ st' \in Evidence
    BY <1>9, TypeReturn DEF WriteError
  <2>. QED BY <1>9, <2>4, <2>5 DEF WriteError, TypeOK, cacheVars
<1>. QED BY <1>1, <1>2, <1>3, <1>4, <1>5, <1>6, <1>7, <1>8, <1>9 DEF Worker

LEMMA TypeNext ==
    ASSUME TypeOK, [Next]_vars
    PROVE  TypeOK'
<1>1. CASE UNCHANGED vars
  BY <1>1 DEF vars, clusterVars, cacheVars, workerVars, TypeOK
<1>. QED BY <1>1, TypeEnvironment, TypeInformers, TypeWorker DEF Next

\* Whatever the platform, the deployment controller, the caches and failed
\* requests do, the state keeps its types; in particular the rollout generation
\* that is published, a maximum over the notebook controllers, is well defined
\* (ingressContractRolloutGeneration).
THEOREM ContractTypes == Spec => []TypeOK
<1>1. Init => TypeOK
  BY TypeInit
<1>2. TypeOK /\ [Next]_vars => TypeOK'
  BY TypeNext
<1>. QED BY <1>1, <1>2, PTL DEF Spec

-----------------------------------------------------------------------------
(* The invariant *)

\* The order of the versions of the CR: the worker's is no newer than the
\* cache's, the cache's no newer than the stored one, and a contract is never
\* assigned twice.
Versions ==
    /\ 1 <= wb.generation /\ wb.generation <= crCache.generation
    /\ crCache.generation <= cr.generation
    /\ cr.contract \in {0, source} /\ (cr.generation = 1 => cr.contract = 0)
    /\ \A x \in {crCache, wb} :
          /\ x.contract <= source
          /\ x.generation = cr.generation => x = cr
          /\ cr.contract # 0 /\ x.contract = cr.contract => x = cr

\* A stamp of the current contract was put there by a worker that holds it.
Stamped ==
    \A d \in Names :
        /\ dep[d].stamp <= source /\ depCache[d].stamp <= source
        /\ dep[d].observed <= dep[d].generation
        /\ dep[d].observed = dep[d].generation => dep[d].template = dep[d].stamp
        /\ cr.contract # 0 /\ depCache[d].stamp = cr.contract => dep[d].stamp = cr.contract
        /\ cr.contract # 0 /\ dep[d].stamp = cr.contract =>
              crCache = cr /\ (pc = "idle" \/ wb = cr)

\* Only pods of the current contract's template run.
Alone(d) == \A s \in Stamps : Up(d, s) => s = cr.contract

\* A cached deployment that shows a completed rollout.
Finished(v) ==
    v.desired >= 1 /\ v.observed >= v.generation /\ v.updated >= v.desired /\ v.total = v.desired

Rolled ==
    \A d \in Names :
        cr.contract # 0 /\ depCache[d].stamp = cr.contract /\ Finished(depCache[d]) => Alone(d)

\* The contract is in the ConfigMap, unless others wrote it.
Projected == config.contract = cr.contract \/ config.foreign

\* The current contract is projected and its rollout complete.
Backed ==
    /\ cr.contract # 0 /\ Projected
    /\ \A d \in Names : dep[d].stamp = cr.contract /\ Alone(d)

\* What the reconcile at work knows.
AtWork ==
    /\ cr.contract # 0 /\ wb = cr /\ pc \in {"merge", "apply", "observeConfig", "observeRollout", "writeStatus"}
          => Projected
    /\ pc = "clear" => wb.contract = 0
    /\ pc \notin {"observeRollout", "writeStatus"} => st = NoEvidence
    /\ pc \in {"observeRollout", "writeStatus"} =>
          st.observed = wb.generation /\ st.contract \in {0, wb.contract}
    /\ st.ready => pc = "writeStatus" /\ st.contract # 0 /\ (wb = cr => Backed)

\* What the status says.
Published ==
    /\ status.observed <= cr.generation
    /\ status.ready /\ status.observed = cr.generation => status.contract = cr.contract /\ Backed

\* The inductive invariant; none of its parts is inductive without the others.
ContractInv == TypeOK /\ Versions /\ Stamped /\ Rolled /\ AtWork /\ Published

-----------------------------------------------------------------------------
(* The environment *)

\* The platform assigns another contract: no deployment carries its stamp yet,
\* and no status is about the new generation.
LEMMA AssignContractStep ==
    ASSUME ContractInv, TypeOK', ~Reassigns, NEW c \in Stamps, AssignContract(c)
    PROVE  ContractInv'
<1>. USE DEF ContractInv
<1>1. /\ cr' = [generation |-> cr.generation + 1, contract |-> c]
      /\ source' = IF c = 0 THEN source ELSE c
      /\ c = 0 \/ c > source
      /\ UNCHANGED <<status, config, dep, pods, crCache, configCache, depCache, pc, wb, st>>
  BY DEF AssignContract, cacheVars, workerVars
<1>2. /\ cr.generation \in Nat /\ crCache.generation \in Nat /\ wb.generation \in Nat
      /\ c \in Nat /\ source \in Nat /\ crCache.contract \in Nat /\ wb.contract \in Nat
  BY StampsFinite DEF TypeOK, CRs
<1>3. cr'.generation = cr.generation + 1 /\ cr'.contract = c
  BY <1>1
<1>4. Versions'
  BY <1>1, <1>2, <1>3 DEF Versions
<1>5. \A d \in Names : dep[d].stamp \in Nat /\ depCache[d].stamp \in Nat
  BY StampsFinite DEF TypeOK, Deployments, Views
<1>6. \A d \in Names : /\ dep[d].stamp <= source' /\ depCache[d].stamp <= source'
                       /\ c # 0 => dep[d].stamp # c /\ depCache[d].stamp # c
  BY <1>1, <1>2, <1>5 DEF Stamped
<1>7. Stamped'
  BY <1>1, <1>3, <1>6 DEF Stamped
<1>8. Rolled'
  BY <1>1, <1>3, <1>6 DEF Rolled
<1>9. wb' # cr'
  BY <1>1, <1>2, <1>3 DEF Versions
<1>10. AtWork'
  BY <1>1, <1>9 DEF AtWork
<1>11. Published'
  <2>1. status.observed \in Nat
    BY DEF TypeOK, Evidence
  <2>2. status.observed <= cr.generation
    BY DEF Published
  <2>3. status'.observed <= cr'.generation /\ status'.observed # cr'.generation
    BY <1>1, <1>2, <1>3, <2>1, <2>2
  <2>. QED BY <2>3 DEF Published
<1>. QED BY <1>4, <1>7, <1>8, <1>10, <1>11

LEMMA ForeignWriteStep ==
    ASSUME ContractInv, TypeOK', NEW c \in Stamps, ForeignWrite(c)
    PROVE  ContractInv'
<1>. USE DEF ContractInv
<1>1. /\ config' = [contract |-> c, foreign |-> TRUE]
      /\ UNCHANGED <<cr, source, status, dep, pods, crCache, configCache, depCache, pc, wb, st>>
  BY DEF ForeignWrite, cacheVars, workerVars
<1>2. Projected'
  BY <1>1 DEF Projected
<1>3. Versions' /\ Stamped'
  BY <1>1 DEF Versions, Stamped
<1>4. \A d \in Names : Alone(d)' <=> Alone(d)
  BY <1>1 DEF Alone, Up
<1>5. Rolled'
  BY <1>1, <1>4 DEF Rolled
<1>6. Backed => Backed'
  BY <1>1, <1>2, <1>4 DEF Backed
<1>7. AtWork'
  BY <1>1, <1>2, <1>6 DEF AtWork
<1>8. Published'
  BY <1>1, <1>6 DEF Published
<1>. QED BY <1>3, <1>5, <1>7, <1>8

\* A deployment keeps its stamp.
LEMMA DeploymentStep ==
    ASSUME ContractInv, TypeOK', NEW d \in Names, NEW D \in Deployments,
           dep' = [dep EXCEPT ![d] = D], D.stamp = dep[d].stamp, D.observed <= D.generation,
           D.observed = D.generation => D.template = D.stamp,
           UNCHANGED <<cr, source, status, config, pods, cacheVars, workerVars>>
    PROVE  ContractInv'
<1>. USE DEF ContractInv
<1>1. UNCHANGED <<crCache, configCache, depCache, pc, wb, st>>
  BY DEF cacheVars, workerVars
<1>2. \A e \in Names : dep'[e].stamp = dep[e].stamp
  BY DEF TypeOK
<1>3. Versions'
  BY <1>1 DEF Versions
<1>4. \A e \in Names : /\ dep'[e].observed <= dep'[e].generation
                       /\ dep'[e].observed = dep'[e].generation => dep'[e].template = dep'[e].stamp
  BY DEF Stamped, TypeOK
<1>5. Stamped'
  BY <1>1, <1>2, <1>4 DEF Stamped
<1>6. \A e \in Names : Alone(e)' <=> Alone(e)
  BY <1>1 DEF Alone, Up
<1>7. Rolled'
  BY <1>1, <1>6 DEF Rolled
<1>8. (Projected <=> Projected') /\ (Backed => Backed')
  BY <1>1, <1>2, <1>6 DEF Backed, Projected
<1>9. AtWork'
  BY <1>1, <1>8 DEF AtWork
<1>10. Published'
  BY <1>1, <1>8 DEF Published
<1>. QED BY <1>3, <1>5, <1>7, <1>9, <1>10

LEMMA ScaleStep ==
    ASSUME ContractInv, TypeOK', NEW d \in Names, Scale(d)
    PROVE  ContractInv'
<1>1. PICK D : D = dep'[d]
  OBVIOUS
<1>2. D \in Deployments /\ dep[d] \in Deployments
  BY <1>1 DEF TypeOK, ContractInv
<1>3. dep' = [dep EXCEPT ![d] = D]
  BY <1>1 DEF Scale, ContractInv, TypeOK
<1>4. /\ D.stamp = dep[d].stamp /\ D.generation = dep[d].generation + 1
      /\ D.observed = dep[d].observed
  BY <1>1, <1>2 DEF Scale, ContractInv, TypeOK, Deployments
<1>5. D.observed <= D.generation /\ D.observed # D.generation
  <2>1. dep[d].observed <= dep[d].generation /\ dep[d].observed \in Nat /\ dep[d].generation \in Nat
    BY <1>2 DEF ContractInv, Stamped, Deployments
  <2>. QED BY <1>4, <2>1
<1>. QED BY <1>2, <1>3, <1>4, <1>5, DeploymentStep DEF Scale

LEMMA ObserveGenerationStep ==
    ASSUME ContractInv, TypeOK', NEW d \in Names, ObserveGeneration(d)
    PROVE  ContractInv'
<1>1. PICK D : D = dep'[d]
  OBVIOUS
<1>2. D \in Deployments /\ dep[d] \in Deployments
  BY <1>1 DEF TypeOK, ContractInv
<1>3. dep' = [dep EXCEPT ![d] = D]
  BY <1>1 DEF ObserveGeneration, ContractInv, TypeOK
<1>4. /\ D.stamp = dep[d].stamp /\ D.generation = dep[d].generation
      /\ D.observed = D.generation /\ D.template = D.stamp
  BY <1>1, <1>2 DEF ObserveGeneration, ContractInv, TypeOK, Deployments
<1>5. D.observed <= D.generation
  BY <1>2, <1>4 DEF Deployments
<1>. QED BY <1>2, <1>3, <1>4, <1>5, DeploymentStep DEF ObserveGeneration

\* Pods only start with the stamp their deployment has.
LEMMA PodStep ==
    ASSUME ContractInv, TypeOK', NEW d \in Names, NEW s \in Stamps,
           NEW v \in {"none", "starting", "ready"}, pods' = [pods EXCEPT ![d][s] = v],
           v = "none" \/ Up(d, s) \/ s = dep[d].stamp,
           UNCHANGED <<cr, source, status, config, dep, cacheVars, workerVars>>
    PROVE  ContractInv'
<1>. USE DEF ContractInv
<1>1. UNCHANGED <<crCache, configCache, depCache, pc, wb, st>>
  BY DEF cacheVars, workerVars
<1>2. \A e \in Names, t \in Stamps : pods'[e][t] = IF e = d /\ t = s THEN v ELSE pods[e][t]
  BY DEF TypeOK, PodSets
<1>3. ASSUME NEW e \in Names, Alone(e), dep[e].stamp = cr.contract PROVE Alone(e)'
  BY <1>2, <1>3 DEF Alone, Up
<1>4. Versions' /\ Stamped'
  BY <1>1 DEF Versions, Stamped
<1>5. Rolled'
  BY <1>1, <1>3 DEF Rolled, Stamped
<1>6. (Projected <=> Projected') /\ (Backed => Backed')
  BY <1>1, <1>3 DEF Backed, Projected
<1>7. AtWork'
  BY <1>1, <1>6 DEF AtWork
<1>8. Published'
  BY <1>1, <1>6 DEF Published
<1>. QED BY <1>4, <1>5, <1>7, <1>8

LEMMA EnvironmentStep ==
    ASSUME ContractInv, TypeOK', ~Reassigns, Environment
    PROVE  ContractInv'
<1>1. ASSUME NEW d \in Names, StartPod(d) PROVE ContractInv'
  <2>1. dep[d].stamp \in Stamps
    BY DEF ContractInv, TypeOK, Deployments
  <2>. QED BY <1>1, <2>1, PodStep DEF StartPod
<1>2. ASSUME NEW d \in Names, NEW s \in Stamps, PodReady(d, s) PROVE ContractInv'
  BY <1>2, PodStep DEF PodReady, Up
<1>3. ASSUME NEW d \in Names, NEW s \in Stamps, PodFails(d, s) PROVE ContractInv'
  BY <1>3, PodStep DEF PodFails, Up
<1>4. ASSUME NEW d \in Names, NEW s \in Stamps, StopPod(d, s) PROVE ContractInv'
  BY <1>4, PodStep DEF StopPod
<1>. QED BY <1>1, <1>2, <1>3, <1>4, AssignContractStep, ForeignWriteStep, ScaleStep,
            ObserveGenerationStep DEF Environment

-----------------------------------------------------------------------------
(* The informers *)

\* A fresh view that shows the current stamp and a completed rollout is true.
LEMMA FreshView ==
    ASSUME ContractInv, NEW d \in Names, View(d).stamp = cr.contract, Finished(View(d))
    PROVE  Alone(d)
<1>. USE DEF ContractInv
<1>1. PICK D, A : D = dep[d] /\ A = {s \in Stamps : Up(d, s)}
  OBVIOUS
<1>2. D \in Deployments /\ IsFiniteSet(A)
  BY <1>1, StampsFinite, FS_Subset DEF TypeOK
<1>3. /\ View(d).stamp = D.stamp /\ View(d).desired = D.desired /\ View(d).observed = D.observed
      /\ View(d).generation = D.generation /\ View(d).total = Cardinality(A)
      /\ View(d).updated = IF Up(d, D.template) THEN 1 ELSE 0
  BY <1>1 DEF View
<1>4. D.desired = 1 /\ D.observed = D.generation
  <2>1. D.desired \in {0, 1} /\ D.observed \in Nat /\ D.generation \in Nat
    BY <1>2 DEF Deployments
  <2>2. D.observed <= D.generation
    BY <1>1 DEF Stamped
  <2>3. D.desired >= 1 /\ D.observed >= D.generation
    BY <1>3 DEF Finished
  <2>. QED BY <2>1, <2>2, <2>3
<1>5. D.template = cr.contract /\ D.template \in Stamps
  BY <1>1, <1>2, <1>3, <1>4 DEF Stamped, Deployments
<1>6. Up(d, D.template)
  <2>1. View(d).updated >= 1
    BY <1>3, <1>4 DEF Finished
  <2>. QED BY <1>3, <2>1
<1>7. Cardinality(A) = 1
  BY <1>3, <1>4 DEF Finished
<1>8. \E x : A = {x}
  BY <1>2, <1>7, FS_Singleton
<1>9. A = {cr.contract}
  BY <1>1, <1>5, <1>6, <1>8
<1>. QED BY <1>1, <1>9 DEF Alone

LEMMA SyncDeploymentStep ==
    ASSUME ContractInv, TypeOK', NEW d \in Names, SyncDeployment(d)
    PROVE  ContractInv'
<1>. USE DEF ContractInv
<1>1. /\ depCache' = [depCache EXCEPT ![d] = View(d)]
      /\ UNCHANGED <<cr, source, status, config, dep, pods, crCache, configCache, pc, wb, st>>
  BY DEF SyncDeployment, clusterVars, workerVars
<1>2. /\ depCache'[d] = View(d)
      /\ \A e \in Names \ {d} : depCache'[e] = depCache[e]
  BY <1>1 DEF TypeOK
<1>3. View(d).stamp = dep[d].stamp
  BY DEF View
<1>4. Versions'
  BY <1>1 DEF Versions
<1>5. Stamped'
  BY <1>1, <1>2, <1>3 DEF Stamped
<1>6. \A e \in Names : Alone(e)' <=> Alone(e)
  BY <1>1 DEF Alone, Up
<1>7. Rolled'
  <2>1. ASSUME NEW e \in Names, cr.contract # 0, depCache'[e].stamp = cr.contract,
               Finished(depCache'[e])
        PROVE  Alone(e)
    <3>1. CASE e = d
      BY <1>2, <2>1, <3>1, FreshView
    <3>2. CASE e # d
      BY <1>2, <2>1, <3>2 DEF Rolled
    <3>. QED BY <3>1, <3>2
  <2>. QED BY <1>1, <1>6, <2>1 DEF Rolled
<1>8. (Projected <=> Projected') /\ (Backed => Backed')
  BY <1>1, <1>6 DEF Backed, Projected
<1>9. AtWork'
  BY <1>1, <1>8 DEF AtWork
<1>10. Published'
  BY <1>1, <1>8 DEF Published
<1>. QED BY <1>4, <1>5, <1>7, <1>9, <1>10

LEMMA SyncCRStep ==
    ASSUME ContractInv, TypeOK', SyncCR
    PROVE  ContractInv'
<1>. USE DEF ContractInv
<1>1. /\ crCache' = cr
      /\ UNCHANGED <<cr, source, status, config, dep, pods, configCache, depCache, pc, wb, st>>
  BY DEF SyncCR, clusterVars, workerVars
<1>2. Versions'
  <2>1. cr.generation \in Nat /\ crCache.generation \in Nat /\ wb.generation \in Nat
        /\ cr.contract \in Nat /\ source \in Nat
    BY StampsFinite DEF TypeOK, CRs
  <2>. QED BY <1>1, <2>1 DEF Versions
<1>3. Stamped'
  BY <1>1 DEF Stamped
<1>4. \A e \in Names : Alone(e)' <=> Alone(e)
  BY <1>1 DEF Alone, Up
<1>5. Rolled'
  BY <1>1, <1>4 DEF Rolled
<1>6. (Projected <=> Projected') /\ (Backed => Backed')
  BY <1>1, <1>4 DEF Backed, Projected
<1>7. AtWork' /\ Published'
  BY <1>1, <1>6 DEF AtWork, Published
<1>. QED BY <1>2, <1>3, <1>5, <1>7

LEMMA InformersStep ==
    ASSUME ContractInv, TypeOK', Informers
    PROVE  ContractInv'
<1>1. CASE SyncConfig
  <2>1. UNCHANGED <<cr, source, status, config, dep, pods, crCache, depCache, pc, wb, st>>
    BY <1>1 DEF SyncConfig, clusterVars, workerVars
  <2>. QED BY <2>1 DEF ContractInv, Versions, Stamped, Rolled, AtWork, Published, Backed, Projected,
                       Alone, Up
<1>. QED BY <1>1, SyncCRStep, SyncDeploymentStep DEF Informers

-----------------------------------------------------------------------------
(* The worker *)

\* A reconcile at work that keeps the CR, the objects and what it knows.
LEMMA QuietStep ==
    ASSUME ContractInv, TypeOK', UNCHANGED <<clusterVars, cacheVars, wb>>, pc # "idle", AtWork'
    PROVE  ContractInv'
<1>. USE DEF ContractInv
<1>1. UNCHANGED <<cr, source, status, config, dep, pods, crCache, configCache, depCache, wb>>
  BY DEF clusterVars, cacheVars
<1>2. Versions' /\ Stamped'
  BY <1>1 DEF Versions, Stamped
<1>3. \A e \in Names : Alone(e)' <=> Alone(e)
  BY <1>1 DEF Alone, Up
<1>4. Rolled'
  BY <1>1, <1>3 DEF Rolled
<1>5. Backed => Backed'
  BY <1>1, <1>3 DEF Backed, Projected
<1>6. Published'
  BY <1>1, <1>5 DEF Published
<1>. QED BY <1>2, <1>4, <1>6

\* While a backed status stands, the reconcile at work is about its contract.
LEMMA BackedWorker ==
    ASSUME ContractInv, Backed, pc # "idle"
    PROVE  wb = cr
<1>1. PICK d \in Names : TRUE
  BY Indices
<1>. QED BY <1>1 DEF ContractInv, Backed, Stamped

LEMMA StartStep ==
    ASSUME ContractInv, TypeOK', Start
    PROVE  ContractInv'
<1>. USE DEF ContractInv
<1>1. /\ pc = "idle" /\ pc' = "applyConfig" /\ wb' = crCache
      /\ UNCHANGED <<cr, source, status, config, dep, pods, crCache, configCache, depCache, st>>
  BY DEF Start, clusterVars, cacheVars
<1>2. Versions'
  <2>1. crCache.generation \in Nat /\ wb.generation \in Nat
    BY DEF TypeOK, CRs
  <2>. QED BY <1>1, <2>1 DEF Versions
<1>3. Stamped'
  BY <1>1 DEF Stamped
<1>4. \A e \in Names : Alone(e)' <=> Alone(e)
  BY <1>1 DEF Alone, Up
<1>5. Rolled'
  BY <1>1, <1>4 DEF Rolled
<1>6. Backed => Backed'
  BY <1>1, <1>4 DEF Backed, Projected
<1>7. AtWork'
  BY <1>1 DEF AtWork, NoEvidence
<1>8. Published'
  BY <1>1, <1>6 DEF Published
<1>. QED BY <1>2, <1>3, <1>5, <1>7, <1>8

\* A write of the ConfigMap: it carries the contract the worker holds.
LEMMA ConfigStep ==
    ASSUME ContractInv, TypeOK', pc \in {"applyConfig", "clear"},
           pc' \in {"clear", "merge", "writeError"}, pc' = "clear" => wb.contract = 0,
           wb = cr /\ cr.contract # 0 /\ (pc' = "merge" \/ Projected) => Projected',
           UNCHANGED <<cr, source, status, dep, pods, cacheVars, wb, st>>
    PROVE  ContractInv'
<1>. USE DEF ContractInv
<1>1. UNCHANGED <<crCache, configCache, depCache>>
  BY DEF cacheVars
<1>2. Versions'
  BY <1>1 DEF Versions
<1>3. Stamped'
  BY <1>1 DEF Stamped
<1>4. \A e \in Names : Alone(e)' <=> Alone(e)
  BY DEF Alone, Up
<1>5. Rolled'
  BY <1>1, <1>4 DEF Rolled
<1>6. Backed => Backed'
  BY <1>4, BackedWorker DEF Backed
<1>7. st = NoEvidence /\ ~st.ready
  BY DEF AtWork, NoEvidence
<1>8. AtWork'
  BY <1>7 DEF AtWork
<1>9. Published'
  BY <1>6 DEF Published
<1>. QED BY <1>2, <1>3, <1>5, <1>8, <1>9

LEMMA ApplyConfigStep ==
    ASSUME ContractInv, TypeOK', ApplyConfig
    PROVE  ContractInv'
<1>1. /\ pc = "applyConfig" /\ pc' \in {"clear", "merge", "writeError"}
      /\ pc' = "clear" => wb.contract = 0
      /\ config' = config \/ config' = AppliedConfig(wb.contract)
      /\ pc' = "merge" => config' = AppliedConfig(wb.contract)
      /\ UNCHANGED <<cr, source, status, dep, pods, cacheVars, wb, st>>
  BY DEF ApplyConfig
<1>2. ASSUME wb = cr, cr.contract # 0 PROVE AppliedConfig(wb.contract).contract = cr.contract
  BY <1>2 DEF AppliedConfig
<1>3. wb = cr /\ cr.contract # 0 /\ (pc' = "merge" \/ Projected) => Projected'
  BY <1>1, <1>2 DEF Projected
<1>. QED BY <1>1, <1>3, ConfigStep

LEMMA ClearIngressContractStep ==
    ASSUME ContractInv, TypeOK', ClearIngressContract
    PROVE  ContractInv'
<1>1. /\ pc = "clear" /\ pc' \in {"merge", "writeError"}
      /\ UNCHANGED <<cr, source, status, dep, pods, cacheVars, wb, st>>
  BY DEF ClearIngressContract
<1>2. wb.contract = 0
  BY <1>1 DEF ContractInv, AtWork
<1>3. wb = cr /\ cr.contract # 0 /\ (pc' = "merge" \/ Projected) => Projected'
  BY <1>2
<1>. QED BY <1>1, <1>3, ConfigStep

LEMMA MergeReplicasStep ==
    ASSUME ContractInv, TypeOK', MergeReplicas
    PROVE  ContractInv'
<1>1. /\ pc = "merge" /\ pc' \in {"apply", "writeError"}
      /\ UNCHANGED <<clusterVars, cacheVars, wb, st>>
  BY DEF MergeReplicas
<1>2. UNCHANGED <<cr, config>>
  BY <1>1 DEF clusterVars
<1>3. st = NoEvidence /\ ~st.ready
  BY <1>1 DEF ContractInv, AtWork, NoEvidence
<1>4. AtWork'
  BY <1>1, <1>2, <1>3 DEF ContractInv, AtWork, Projected
<1>. QED BY <1>1, <1>4, QuietStep

\* The apply of a deployment puts the worker's stamp on it.
LEMMA ApplyDeploymentStep ==
    ASSUME ContractInv, TypeOK', ApplyDeployment
    PROVE  ContractInv'
<1>. USE DEF ContractInv
<1>1. PICK d \in Names : d = Components[next]
  BY Indices DEF TypeOK
<1>2. /\ pc = "apply" /\ pc' \in {"merge", "observeConfig", "writeError"}
      /\ dep' = dep \/ dep' = [dep EXCEPT ![d] = AppliedDeployment(d)]
      /\ UNCHANGED <<cr, source, status, config, pods, crCache, configCache, depCache, wb, st>>
  BY <1>1 DEF ApplyDeployment, AfterApply, cacheVars
<1>3. PICK A : A = AppliedDeployment(d)
  OBVIOUS
<1>4. /\ A.stamp = wb.contract /\ A.observed = dep[d].observed /\ A.template = dep[d].template
      /\ A = dep[d] \/ A.generation = dep[d].generation + 1
  BY <1>3, AppliedType
<1>5. \A e \in Names : dep'[e] = dep[e] \/ (e = d /\ dep'[e] = A)
  BY <1>2, <1>3 DEF TypeOK
<1>6. Versions'
  BY <1>2 DEF Versions
<1>7. cr.contract # 0 /\ wb.contract = cr.contract => wb = cr /\ crCache = cr
  <2>1. cr.generation \in Nat /\ crCache.generation \in Nat
    BY DEF TypeOK, CRs
  <2>. QED BY <2>1 DEF Versions
<1>8. ASSUME NEW e \in Names
      PROVE  /\ dep'[e].stamp <= source /\ dep'[e].observed <= dep'[e].generation
             /\ dep'[e].observed = dep'[e].generation => dep'[e].template = dep'[e].stamp
             /\ cr.contract # 0 /\ dep[e].stamp = cr.contract => dep'[e].stamp = cr.contract
             /\ cr.contract # 0 /\ dep'[e].stamp = cr.contract => wb = cr /\ crCache = cr
  <2>1. dep[e].observed \in Nat /\ dep[e].generation \in Nat /\ dep[e].observed <= dep[e].generation
    BY DEF TypeOK, Deployments, Stamped
  <2>2. wb.contract <= source
    BY DEF Versions
  <2>3. cr.contract # 0 /\ dep[e].stamp = cr.contract => wb = cr /\ crCache = cr
    BY <1>2 DEF Stamped
  <2>4. CASE dep'[e] = dep[e]
    BY <2>1, <2>3, <2>4 DEF Stamped
  <2>5. CASE e = d /\ dep'[e] = A /\ A # dep[d]
    <3>1. A.observed < A.generation
      BY <1>4, <2>1, <2>5
    <3>2. A.observed # A.generation /\ A.observed <= A.generation
      BY <1>4, <2>1, <2>5
    <3>. QED BY <1>4, <1>7, <2>2, <2>3, <2>5, <3>2
  <2>. QED BY <1>5, <2>4, <2>5
<1>9. Stamped'
  BY <1>2, <1>8 DEF Stamped
<1>10. \A e \in Names : Alone(e)' <=> Alone(e)
  BY <1>2 DEF Alone, Up
<1>11. Rolled'
  BY <1>2, <1>10 DEF Rolled
<1>12. Backed => Backed'
  BY <1>2, <1>8, <1>10 DEF Backed, Projected
<1>13. st = NoEvidence /\ ~st.ready
  BY <1>2 DEF AtWork, NoEvidence
<1>14. AtWork'
  BY <1>2, <1>13 DEF AtWork, Projected
<1>15. Published'
  BY <1>2, <1>12 DEF Published
<1>. QED BY <1>6, <1>9, <1>11, <1>14, <1>15

LEMMA ObserveConfigStep ==
    ASSUME ContractInv, TypeOK', ObserveConfig
    PROVE  ContractInv'
<1>1. PICK c, g : /\ g = wb.generation /\ c \in {0, wb.contract}
                  /\ st' = [NoEvidence EXCEPT !.contract = c, !.observed = g]
  BY DEF ObserveConfig
<1>2. st'.contract \in {0, wb.contract} /\ st'.observed = wb.generation /\ ~st'.ready
  BY <1>1 DEF NoEvidence
<1>3. /\ pc = "observeConfig" /\ pc' = "observeRollout"
      /\ UNCHANGED <<clusterVars, cacheVars, wb>>
  BY DEF ObserveConfig
<1>4. UNCHANGED <<cr, config>>
  BY <1>3 DEF clusterVars
<1>5. AtWork'
  BY <1>2, <1>3, <1>4 DEF ContractInv, AtWork, Projected
<1>. QED BY <1>3, <1>5, QuietStep

\* The gate opens only on a completed rollout of the worker's contract.
LEMMA ObserveRolloutStep ==
    ASSUME ContractInv, TypeOK', ObserveRollout
    PROVE  ContractInv'
<1>. USE DEF ContractInv
<1>1. /\ pc = "observeRollout" /\ pc' = "writeStatus"
      /\ UNCHANGED <<clusterVars, cacheVars, wb>>
  BY DEF ObserveRollout
<1>2. UNCHANGED <<cr, config, dep, pods, depCache>>
  BY <1>1 DEF clusterVars, cacheVars
<1>3. ~st.ready /\ st.observed = wb.generation /\ st.contract \in {0, wb.contract}
  BY <1>1 DEF AtWork
<1>4. /\ st'.observed = wb.generation /\ st'.contract = st.contract
      /\ st'.ready => st.contract # 0 /\ \A d \in Names : RolledOut(depCache[d])
  <2>1. ASSUME NEW m, st' = [st EXCEPT !.ready = TRUE, !.rollout = m]
        PROVE  st'.observed = st.observed /\ st'.contract = st.contract
    BY <2>1 DEF TypeOK, Evidence
  <2>. QED BY <1>3, <2>1 DEF ObserveRollout
<1>5. ASSUME st'.ready, wb = cr PROVE Backed
  <2>1. cr.contract # 0
    BY <1>3, <1>4, <1>5
  <2>2. Projected
    BY <1>1, <1>5, <2>1 DEF AtWork
  <2>3. ASSUME NEW d \in Names PROVE depCache[d].stamp = cr.contract /\ Finished(depCache[d])
    BY <1>4, <1>5 DEF RolledOut, Finished
  <2>4. \A d \in Names : dep[d].stamp = cr.contract /\ Alone(d)
    BY <2>1, <2>3 DEF Stamped, Rolled
  <2>. QED BY <2>1, <2>2, <2>4 DEF Backed
<1>6. Backed => Backed'
  BY <1>2 DEF Backed, Projected, Alone, Up
<1>7. AtWork'
  BY <1>1, <1>2, <1>3, <1>4, <1>5, <1>6 DEF AtWork, Projected
<1>. QED BY <1>1, <1>7, QuietStep

\* The end of a reconcile: the status is the one before, or the one written.
LEMMA ReturnStep ==
    ASSUME ContractInv, TypeOK', NEW requeue, Return(requeue), pc # "idle",
           UNCHANGED <<cr, source, config, dep, pods, cacheVars>>,
           status' = status \/ (/\ wb.generation = cr.generation /\ status'.observed = wb.generation
                                /\ status'.ready => status'.contract = cr.contract /\ Backed)
    PROVE  ContractInv'
<1>. USE DEF ContractInv
<1>1. /\ pc' = "idle" /\ wb' = NewCR /\ st' = NoEvidence
      /\ UNCHANGED <<crCache, configCache, depCache>>
  BY DEF Return, cacheVars
<1>2. NewCR.generation = 1 /\ NewCR.contract = 0 /\ ~NoEvidence.ready
  BY DEF NewCR, NoEvidence
<1>3. cr.generation = 1 => cr = NewCR
  BY DEF Versions, TypeOK, CRs, NewCR
<1>4. Versions'
  <2>1. /\ crCache.generation \in Nat /\ wb.generation \in Nat /\ cr.generation \in Nat
        /\ source \in Nat
    BY StampsFinite DEF TypeOK, CRs
  <2>. QED BY <1>1, <1>2, <1>3, <2>1 DEF Versions
<1>5. Stamped'
  BY <1>1 DEF Stamped
<1>6. \A e \in Names : Alone(e)' <=> Alone(e)
  BY DEF Alone, Up
<1>7. Rolled'
  BY <1>1, <1>6 DEF Rolled
<1>8. Backed => Backed'
  BY <1>6 DEF Backed, Projected
<1>9. AtWork'
  BY <1>1, <1>2 DEF AtWork
<1>10. Published'
  <2>1. cr.generation \in Nat
    BY DEF TypeOK, CRs
  <2>. QED BY <1>8, <2>1 DEF Published
<1>. QED BY <1>4, <1>5, <1>7, <1>9, <1>10

LEMMA WriteStatusStep ==
    ASSUME ContractInv, TypeOK', WriteStatus
    PROVE  ContractInv'
<1>. USE DEF ContractInv
<1>1. PICK ok \in BOOLEAN : Update(st, ok) /\ Return(~ok \/ IngressContractPending)
  BY DEF WriteStatus
<1>2. pc = "writeStatus" /\ UNCHANGED <<cr, source, config, dep, pods, cacheVars>>
  BY DEF WriteStatus
<1>3. status' = status \/ (wb.generation = cr.generation /\ status' = st)
  BY <1>1 DEF Update
<1>4. ASSUME wb.generation = cr.generation
      PROVE  /\ st.observed = wb.generation
             /\ st.ready => st.contract = cr.contract /\ Backed
  <2>1. wb = cr
    BY <1>4 DEF Versions
  <2>. QED BY <1>2, <2>1 DEF AtWork
<1>5. PICK b : b = (~ok \/ IngressContractPending)
  OBVIOUS
<1>. QED BY <1>1, <1>2, <1>3, <1>4, <1>5, ReturnStep

LEMMA WriteErrorStep ==
    ASSUME ContractInv, TypeOK', WriteError
    PROVE  ContractInv'
<1>1. PICK v : v = [NoEvidence EXCEPT !.observed = wb.generation]
  OBVIOUS
<1>2. v.observed = wb.generation /\ ~v.ready
  BY <1>1 DEF NoEvidence
<1>3. PICK ok \in BOOLEAN : Update(v, ok)
  BY <1>1 DEF WriteError
<1>4. /\ pc = "writeError" /\ UNCHANGED <<cr, source, config, dep, pods, cacheVars>>
      /\ Return(TRUE)
  BY DEF WriteError
<1>5. status' = status \/ (wb.generation = cr.generation /\ status' = v)
  BY <1>3 DEF Update
<1>. QED BY <1>2, <1>4, <1>5, ReturnStep

LEMMA WorkerStep ==
    ASSUME ContractInv, TypeOK', Worker
    PROVE  ContractInv'
  BY StartStep, ApplyConfigStep, ClearIngressContractStep, MergeReplicasStep, ApplyDeploymentStep,
     ObserveConfigStep, ObserveRolloutStep, WriteStatusStep, WriteErrorStep DEF Worker

-----------------------------------------------------------------------------
(* The theorems *)

LEMMA ContractInit ==
    ASSUME Init
    PROVE  ContractInv
<1>1. TypeOK
  BY TypeInit
<1>2. /\ cr = NewCR /\ crCache = NewCR /\ wb = NewCR /\ source = 0 /\ pc = "idle"
      /\ status = NoEvidence /\ st = NoEvidence
      /\ NewCR.generation = 1 /\ NewCR.contract = 0 /\ ~NoEvidence.ready /\ NoEvidence.observed = 0
  BY DEF Init, NewCR, NoEvidence
<1>3. Versions
  BY <1>2 DEF Versions
<1>4. ASSUME NEW d \in Names
      PROVE  /\ dep[d].stamp = 0 /\ depCache[d].stamp = 0 /\ dep[d].observed = 0
             /\ dep[d].generation = 0 /\ dep[d].template = 0
  BY DEF Init, NoDeployment, View
<1>5. Stamped
  BY <1>2, <1>4 DEF Stamped
<1>6. Rolled
  BY <1>2 DEF Rolled
<1>7. AtWork /\ Published
  BY <1>2 DEF AtWork, Published
<1>. QED BY <1>1, <1>3, <1>5, <1>6, <1>7 DEF ContractInv

LEMMA ContractNext ==
    ASSUME ~Reassigns, ContractInv, [Next]_vars
    PROVE  ContractInv'
<1>1. TypeOK'
  BY TypeNext DEF ContractInv
<1>2. CASE UNCHANGED vars
  <2>1. UNCHANGED <<cr, source, status, config, dep, pods, crCache, depCache, pc, wb, st>>
    BY <1>2 DEF vars, clusterVars, cacheVars, workerVars
  <2>. QED BY <1>1, <2>1 DEF ContractInv, Versions, Stamped, Rolled, AtWork, Published, Backed,
                             Projected, Alone, Up
<1>. QED BY <1>1, <1>2, EnvironmentStep, InformersStep, WorkerStep DEF Next

\* While no withdrawn contract is assigned again: the order of the versions of
\* the CR, who may have put a stamp on a deployment, what a cached deployment
\* that passes the gate says of the pods, and what the reconcile at work and
\* the status rest on (ingress_contract.go).
THEOREM ContractHolds == ~Reassigns => (Spec => []ContractInv)
<1>. SUFFICES ASSUME ~Reassigns PROVE Spec => []ContractInv
  OBVIOUS
<1>1. Init => ContractInv
  BY ContractInit
<1>2. ContractInv /\ [Next]_vars => ContractInv'
  BY ContractNext
<1>. QED BY <1>1, <1>2, PTL DEF Spec

\* IngressContractReady is never published for a rollout that is not
\* complete (ingress_contract.go:90-91), for every set of notebook controllers
\* and every number of edits, failures, lost pods and foreign writes, as long
\* as a withdrawn contract is not assigned again; run contract_reassign shows
\* that this condition is needed.
THEOREM EvidenceIsSound == ~Reassigns => (Spec => []EvidenceSound)
<1>. SUFFICES ASSUME ~Reassigns PROVE Spec => []EvidenceSound
  OBVIOUS
<1>1. ContractInv => EvidenceSound
  BY DEF ContractInv, Published, Backed, Projected, Alone, EvidenceSound
<1>2. Spec => []ContractInv
  BY ContractHolds
<1>. QED BY <1>1, <1>2, PTL
=============================================================================
