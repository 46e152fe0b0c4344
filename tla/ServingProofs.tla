---------------------------- MODULE ServingProofs ----------------------------
(***************************************************************************)
(* Every process that gets past its start in a cluster with a certificate  *)
(* provider serves the webhooks and works for a provider, for every number *)
(* of processes and every bound; and the model's identities never run out. *)
(***************************************************************************)
EXTENDS ServingTLS, FiniteSetTheorems, FunctionTheorems, SequenceTheorems, TLAPS

-----------------------------------------------------------------------------
(* The invariant *)

Notes     == {ServingCert, InjectCA, InjectFrom}
Providers == {"OpenShift", "CertManager", "None"}
Stages    == {"down", "adherence", "detect", "configure", "manager", "start", "running"}
Steps     == {"get", "repair", "owner", "create", "reget", "patch", "delete"}
Objs      == [uid : Uids \cup {0}, owner : Uids \cup {0}, notes : SUBSET Notes]

\* Only the objects that Ensure creates are kept owned.
Jobs == {t \in Tasks : t.note = "own" => t.object \in DOMAIN OwnerOf}

Procs ==
    [stage : Stages, provider : Providers, webhooks : BOOLEAN, posture : Usable \cup {Hardened},
     watching : BOOLEAN, initial : [profile : Usable \cup {Unread}, adherence : Policies],
     tasks : Seq(Jobs), step : Steps, seen : Uids \cup {0}, owner : Uids \cup {0}]

\* The request that is next fits the task at hand, and what was read for
\* another request has been forgotten: so a process refers to one identity.
StepFits(p) ==
    /\ Len(p.tasks) <= 3
    /\ p.tasks = <<>> => p.step = "get"
    /\ p.stage \notin {"configure", "running"} => p.tasks = <<>>
    /\ p.step \in {"repair", "owner", "create", "reget"} => Head(p.tasks).note = "own"
    /\ p.step = "patch" => Head(p.tasks).note # "delete"
    /\ p.step # "repair" => p.seen = 0
    /\ p.step \notin {"create", "patch"} => p.owner = 0

\* A process past its start works for a provider if the cluster has one.
Served(p) ==
    groups # {} /\ p.stage \in {"configure", "manager", "start", "running"} =>
        p.webhooks /\ p.provider # "None"

ServingInv ==
    /\ groups \in ClusterGroups
    /\ tls \in [profile : Profiles \cup {NoProfile}, adherence : Policies]
    /\ cluster \in [Objects -> Objs] /\ secret \in BOOLEAN
    /\ proc \in [Replicas -> Procs]
    /\ \A r \in Replicas : StepFits(proc[r]) /\ Served(proc[r])
    /\ leader \in Replicas \cup {NoReplica}
    /\ leader # NoReplica => proc[leader].stage = "running"
    /\ disturbances \in 0..MaxDisturbances

-----------------------------------------------------------------------------
(* Identities *)

\* A set of naturals that is not empty has a least element.
LEMMA LeastNatural ==
    ASSUME NEW T, T \subseteq Nat, T # {}
    PROVE  \E u \in T : \A v \in T : u <= v
<1>1. PICK u \in T : \A v \in T : ~(<<v, u>> \in OpToRel(<, Nat))
  BY WFMin, NatLessThanWellFounded, Zenon
<1>2. ASSUME NEW v \in T PROVE u <= v
  <2>1. u \in Nat /\ v \in Nat
    OBVIOUS
  <2>2. ~(v < u)
    BY <1>1, <2>1 DEF OpToRel
  <2>. QED BY <2>1, <2>2
<1>. QED BY <1>2

\* There are three more identities than processes.
LEMMA UidsType ==
    /\ Cardinality(Replicas) \in Nat /\ Uids \subseteq Nat /\ 0 \notin Uids
    /\ 1 \in Uids /\ IsFiniteSet(Uids) /\ Cardinality(Uids) = Cardinality(Replicas) + 3
<1>1. Cardinality(Replicas) \in Nat
  BY ServingAssumption, FS_CardinalityType
<1>2. IsFiniteSet(Uids) /\ Cardinality(Uids) = Cardinality(Replicas) + 3
  BY <1>1, FS_Interval DEF Uids
<1>. QED BY <1>1, <1>2 DEF Uids

\* Objects of a kind are owned by at most one kind.
LEMMA OneDependent ==
    ASSUME NEW o \in Objects
    PROVE  \E d : {e \in DOMAIN OwnerOf : OwnerOf[e] = o} \subseteq {d}
<1>1. DOMAIN OwnerOf = {"issuer", "certificate"}
      /\ OwnerOf["issuer"] = "mwc" /\ OwnerOf["certificate"] = "issuer"
  BY DEF OwnerOf
<1>2. CASE o = "mwc"
  <2>1. {e \in DOMAIN OwnerOf : OwnerOf[e] = o} \subseteq {"issuer"}
    BY <1>1, <1>2
  <2>. QED BY <2>1
<1>3. CASE o # "mwc"
  <2>1. {e \in DOMAIN OwnerOf : OwnerOf[e] = o} \subseteq {"certificate"}
    BY <1>1, <1>3
  <2>. QED BY <2>1
<1>. QED BY <1>2, <1>3

\* An identity nobody refers to always exists: every process refers to one
\* at most, beside the object itself and the one kind it owns.
LEMMA FreshUidExists ==
    ASSUME ServingInv, NEW o \in Objects
    PROVE  FreshUid(o) \in Uids
<1>1. PICK d : {e \in DOMAIN OwnerOf : OwnerOf[e] = o} \subseteq {d}
  BY OneDependent
<1>. DEFINE held  == [r \in Replicas |-> IF proc[r].seen = 0 THEN proc[r].owner ELSE proc[r].seen]
            three == {cluster[o].uid} \cup {cluster[d].owner} \cup Range(held)
            taken == {cluster[o].uid}
                        \cup {cluster[e].owner : e \in {x \in DOMAIN OwnerOf : OwnerOf[x] = o}}
                        \cup {proc[r].seen : r \in Replicas} \cup {proc[r].owner : r \in Replicas}
<1>2. IsFiniteSet(Range(held)) /\ Cardinality(Range(held)) <= Cardinality(Replicas)
  <2>1. held \in [Replicas -> Range(held)]
    BY DEF Range
  <2>2. held \in Surjection(Replicas, Range(held))
    BY <2>1, Fun_RangeProperties
  <2>. QED BY <2>2, ServingAssumption, FS_Surjection
<1>3. IsFiniteSet(three) /\ Cardinality(three) <= Cardinality(Replicas) + 2
  <2>. HIDE DEF held
  <2>1. Cardinality(Range(held)) \in Nat /\ Cardinality(Replicas) \in Nat
    BY <1>2, UidsType, FS_CardinalityType
  <2>2. PICK one : one = Range(held) \cup {cluster[d].owner}
    OBVIOUS
  <2>3. IsFiniteSet(one) /\ Cardinality(one) <= Cardinality(Range(held)) + 1
    <3>1. PICK S, x : S = Range(held) /\ x = cluster[d].owner
      OBVIOUS
    <3>2. IsFiniteSet(S) /\ Cardinality(S) \in Nat /\ one = S \cup {x}
      BY <1>2, <2>1, <2>2, <3>1
    <3>3. IsFiniteSet(one) /\ Cardinality(one) <= Cardinality(S) + 1
      BY <3>2, FS_AddElement
    <3>. QED BY <3>1, <3>3
  <2>4. Cardinality(one) \in Nat
    BY <2>3, FS_CardinalityType
  <2>5. three = one \cup {cluster[o].uid}
    BY <2>2
  <2>6. IsFiniteSet(three) /\ Cardinality(three) <= Cardinality(one) + 1
    BY <2>3, <2>4, <2>5, FS_AddElement
  <2>7. Cardinality(three) \in Nat
    BY <2>6, FS_CardinalityType
  <2>. HIDE DEF three
  <2>. QED BY <1>2, <2>1, <2>3, <2>4, <2>6, <2>7
<1>4. ~(Uids \subseteq three)
  <2>. HIDE DEF three
  <2>1. SUFFICES ASSUME Uids \subseteq three PROVE FALSE
    OBVIOUS
  <2>2. Cardinality(Uids) <= Cardinality(three)
    BY <1>3, <2>1, FS_Subset
  <2>3. Cardinality(three) \in Nat /\ Cardinality(Replicas) \in Nat
    BY <1>3, UidsType, FS_CardinalityType
  <2>4. Cardinality(Uids) = Cardinality(Replicas) + 3
    BY UidsType
  <2>. QED BY <1>3, <2>2, <2>3, <2>4
<1>5. PICK u \in Uids : u \notin three
  BY <1>4
<1>6. u \notin taken
  <2>1. u # 0
    BY UidsType
  <2>2. ASSUME NEW r \in Replicas PROVE u # proc[r].seen /\ u # proc[r].owner
    <3>1. proc[r].seen = 0 \/ proc[r].owner = 0
      BY DEF ServingInv, StepFits
    <3>2. held[r] \in Range(held)
      BY DEF Range
    <3>3. u # held[r]
      BY <1>5, <3>2
    <3>. QED BY <2>1, <3>1, <3>3
  <2>3. u # cluster[o].uid /\ u # cluster[d].owner
    BY <1>5
  <2>. QED BY <1>1, <2>2, <2>3
<1>7. Uids \ taken \subseteq Nat /\ Uids \ taken # {}
  BY <1>5, <1>6, UidsType
<1>8. \E v \in Uids \ taken : \A w \in Uids \ taken : v <= w
  <2>. HIDE DEF taken
  <2>. QED BY <1>7, LeastNatural
<1>9. FreshUid(o) = CHOOSE v \in Uids \ taken : \A w \in Uids \ taken : v <= w
  BY DEF FreshUid
<1>. HIDE DEF taken
<1>. QED BY <1>8, <1>9

-----------------------------------------------------------------------------
(* Steps of one process *)

\* What a step leaves of the rest of the state.
Rest == /\ UNCHANGED env
        /\ cluster' \in [Objects -> Objs] /\ secret' \in BOOLEAN
        /\ leader' \in {leader, NoReplica} /\ disturbances' \in 0..MaxDisturbances

\* A process that is as the invariant wants it.
Fit(p) == p \in Procs /\ StepFits(p) /\ Served(p)

LEMMA ProcStep ==
    ASSUME ServingInv, NEW r \in Replicas, NEW p, Fit(p), Set(r, p), Rest,
           leader' = r => p.stage = "running"
    PROVE  ServingInv'
<1>1. proc \in [Replicas -> Procs] /\ UNCHANGED groups
  BY DEF ServingInv, Rest, env
<1>2. proc' \in [Replicas -> Procs]
  BY <1>1 DEF Set, Fit
<1>3. ASSUME NEW w \in Replicas
      PROVE  StepFits(proc'[w]) /\ Served(proc'[w])
  BY <1>1 DEF Set, Fit, ServingInv
<1>4. \A w \in Replicas : StepFits(proc'[w]) /\ Served(proc[w])'
  BY <1>1, <1>3 DEF Served
<1>5. leader' \in Replicas \cup {NoReplica} /\ (leader' # NoReplica => proc'[leader'].stage = "running")
  BY <1>1 DEF Set, ServingInv, Rest
<1>. QED BY <1>2, <1>4, <1>5 DEF ServingInv, Rest, env

LEMMA ProcStays ==
    ASSUME ServingInv, UNCHANGED proc, Rest
    PROVE  ServingInv'
  BY DEF ServingInv, Rest, env, Served

\* A process that is down is fit.
LEMMA DownFits == Fit(Down)
<1>1. 0 \in Uids \cup {0} /\ <<>> \in Seq(Jobs)
  OBVIOUS
<1>2. Down \in Procs
  BY <1>1 DEF Down, Procs, Stages, Providers, Steps, Policies
<1>3. StepFits(Down)
  BY DEF Down, StepFits
<1>4. Served(Down)
  BY DEF Down, Served
<1>. QED BY <1>2, <1>3, <1>4 DEF Fit

\* What else a step leaves when it does not touch the cluster.
LEMMA Disturbed ==
    ASSUME ServingInv, Disturb
    PROVE  disturbances' \in 0..MaxDisturbances
<1>1. disturbances \in 0..MaxDisturbances /\ MaxDisturbances \in Nat
  BY ServingAssumption DEF ServingInv
<1>2. disturbances < MaxDisturbances /\ disturbances' = disturbances + 1
  BY DEF Disturb
<1>. QED BY <1>1, <1>2

LEMMA RestStays ==
    ASSUME ServingInv, UNCHANGED <<env, secret>>, UNCHANGED cluster \/ cluster' \in [Objects -> Objs],
           UNCHANGED leader \/ leader' = NoReplica, UNCHANGED disturbances \/ Disturb
    PROVE  Rest
<1>1. disturbances' \in 0..MaxDisturbances
  BY Disturbed DEF ServingInv
<1>. QED BY <1>1 DEF Rest, ServingInv

\* os.Exit.
LEMMA ExitStep ==
    ASSUME ServingInv, NEW r \in Replicas, Exit(r), UNCHANGED <<env, secret>>,
           UNCHANGED cluster \/ cluster' \in [Objects -> Objs], UNCHANGED disturbances \/ Disturb
    PROVE  ServingInv'
<1>1. UNCHANGED leader \/ leader' = NoReplica
  BY DEF Exit
<1>2. Rest
  BY <1>1, RestStays
<1>3. PICK p : p = Down
  OBVIOUS
<1>4. Fit(p)
  BY <1>3, DownFits
<1>5. leader' # r
  BY ServingAssumption DEF Exit
<1>. QED BY <1>2, <1>3, <1>4, <1>5, ProcStep DEF Exit

\* The process at hand.
LEMMA ProcFits ==
    ASSUME ServingInv, NEW r \in Replicas
    PROVE  Fit(proc[r])
  BY DEF ServingInv, Fit

\* The task at hand is done.
LEMMA AdvanceFits ==
    ASSUME NEW p, Fit(p), p.tasks # <<>>
    PROVE  Fit(Advance(p))
<1>. DEFINE q == Advance(p)
<1>1. /\ Tail(p.tasks) \in Seq(Jobs) /\ Len(Tail(p.tasks)) = Len(p.tasks) - 1
      /\ Len(p.tasks) \in Nat
  BY HeadTailProperties DEF Fit, Procs
<1>2. PICK stage : /\ stage = (IF Len(p.tasks) = 1 /\ p.stage = "configure" THEN "manager" ELSE p.stage)
                   /\ stage \in Stages
  BY DEF Fit, Procs, Stages
<1>3. q = [p EXCEPT !.tasks = Tail(p.tasks), !.step = "get", !.seen = 0, !.owner = 0, !.stage = stage]
  BY <1>2 DEF Advance, Fit, Procs
<1>4. /\ q.tasks = Tail(p.tasks) /\ q.step = "get" /\ q.seen = 0 /\ q.owner = 0
      /\ q.stage = stage /\ q.webhooks = p.webhooks /\ q.provider = p.provider
  BY <1>3 DEF Fit, Procs
<1>5. q \in Procs
  <2>1. ASSUME NEW tasks \in Seq(Jobs), NEW g \in Stages
        PROVE  [p EXCEPT !.tasks = tasks, !.step = "get", !.seen = 0, !.owner = 0, !.stage = g]
                   \in Procs
    BY DEF Fit, Procs, Steps
  <2>2. PICK tasks : tasks = Tail(p.tasks)
    OBVIOUS
  <2>3. tasks \in Seq(Jobs)
    BY <1>1, <2>2
  <2>4. q = [p EXCEPT !.tasks = tasks, !.step = "get", !.seen = 0, !.owner = 0, !.stage = stage]
    BY <1>3, <2>2
  <2>. HIDE DEF q
  <2>. QED BY <1>2, <2>1, <2>3, <2>4
<1>6. StepFits(q)
  <2>1. Len(p.tasks) = 1 => Tail(p.tasks) = <<>>
    <3>1. PICK tasks : tasks = Tail(p.tasks)
      OBVIOUS
    <3>2. tasks \in Seq(Jobs) /\ Len(tasks) = Len(p.tasks) - 1
      BY <1>1, <3>1
    <3>3. tasks # <<>> => Len(tasks) # 0
      BY <3>2, EmptySeq
    <3>. QED BY <1>1, <3>1, <3>2, <3>3
  <2>. QED BY <1>1, <1>2, <1>4, <2>1 DEF Fit, StepFits
<1>7. Served(q)
  BY <1>2, <1>4 DEF Fit, Served
<1>. QED BY <1>5, <1>6, <1>7 DEF Fit

LEMMA AdvanceKeepsRunning ==
    ASSUME NEW p \in Procs, p.stage = "running"
    PROVE  Advance(p).stage = "running"
  BY DEF Advance, Procs

\* Ensure fails: the process ends, or forgets the tasks.
LEMMA FailStep ==
    ASSUME ServingInv, NEW r \in Replicas, Fail(r), UNCHANGED <<env, secret>>,
           UNCHANGED cluster \/ cluster' \in [Objects -> Objs], UNCHANGED disturbances \/ Disturb
    PROVE  ServingInv'
<1>1. CASE proc[r].stage = "configure"
  BY <1>1, ExitStep DEF Fail
<1>2. CASE proc[r].stage # "configure"
  <2>1. PICK p, q : p = proc[r] /\ q = [p EXCEPT !.tasks = <<>>, !.step = "get", !.seen = 0, !.owner = 0]
    OBVIOUS
  <2>2. Fit(p)
    BY <2>1, ProcFits
  <2>3. <<>> \in Seq(Jobs)
    OBVIOUS
  <2>4. /\ q \in Procs /\ q.tasks = <<>> /\ q.step = "get" /\ q.seen = 0 /\ q.owner = 0
        /\ q.stage = p.stage /\ q.webhooks = p.webhooks /\ q.provider = p.provider
    BY <2>1, <2>2, <2>3 DEF Fit, Procs, Steps
  <2>5. Fit(q)
    BY <2>2, <2>4 DEF Fit, StepFits, Served
  <2>6. Set(r, q) /\ UNCHANGED leader
    BY <1>2, <2>1 DEF Fail
  <2>7. Rest
    BY <2>6, RestStays
  <2>8. leader' = r => q.stage = "running"
    BY <2>1, <2>4, <2>6, ServingAssumption DEF ServingInv
  <2>. QED BY <2>5, <2>6, <2>7, <2>8, ProcStep
<1>. QED BY <1>1, <1>2

\* A write of the objects.
LEMMA WriteStep ==
    ASSUME ServingInv, NEW r \in Replicas, NEW c \in [Objects -> Objs], Write(r, c),
           proc[r].tasks # <<>>
    PROVE  ServingInv'
<1>1. CASE cluster' = c /\ Set(r, Advance(proc[r])) /\ UNCHANGED <<leader, disturbances>>
  <2>1. PICK p, q : p = proc[r] /\ q = Advance(p)
    OBVIOUS
  <2>2. Fit(q)
    BY <2>1, ProcFits, AdvanceFits
  <2>3. Rest
    BY <1>1, RestStays DEF Write
  <2>4. leader' = r => q.stage = "running"
    BY <1>1, <2>1, AdvanceKeepsRunning, ServingAssumption DEF ServingInv
  <2>. QED BY <1>1, <2>1, <2>2, <2>3, <2>4, ProcStep
<1>2. CASE Disturb /\ cluster' \in {cluster, c} /\ Fail(r)
  BY <1>2, FailStep DEF Write
<1>. QED BY <1>1, <1>2 DEF Write

-----------------------------------------------------------------------------
(* The start of a process *)

\* A process that only changes what its start decides, with no task under way.
LEMMA StartStep ==
    ASSUME ServingInv, NEW r \in Replicas, NEW q \in Procs, Set(r, q),
           proc[r].stage \notin {"configure", "running"},
           q.tasks = proc[r].tasks, q.step = proc[r].step,
           q.seen = proc[r].seen, q.owner = proc[r].owner, Served(q),
           UNCHANGED <<env, cluster, secret, leader>>, UNCHANGED disturbances \/ Disturb
    PROVE  ServingInv'
<1>1. Fit(q)
  BY ProcFits DEF Fit, StepFits
<1>2. Rest
  BY RestStays
<1>3. leader' # r
  BY ServingAssumption DEF ServingInv
<1>. QED BY <1>1, <1>2, <1>3, ProcStep

LEMMA FetchTLSProfileStep ==
    ASSUME ServingInv, NEW r \in Replicas, FetchTLSProfile(r)
    PROVE  ServingInv'
<1>1. PICK p : p = proc[r]
  OBVIOUS
<1>2. p \in Procs /\ p.stage = "down" /\ UNCHANGED <<env, cluster, secret, disturbances>>
  BY <1>1 DEF ServingInv, FetchTLSProfile
<1>3. CASE Set(r, [p EXCEPT !.stage = "detect"]) /\ UNCHANGED leader
  <2>1. PICK q : q = [p EXCEPT !.stage = "detect"]
    OBVIOUS
  <2>2. /\ q \in Procs /\ q.stage = "detect" /\ q.tasks = p.tasks /\ q.step = p.step
        /\ q.seen = p.seen /\ q.owner = p.owner
    BY <1>2, <2>1 DEF Procs, Stages
  <2>3. Served(q)
    BY <2>2 DEF Served
  <2>. QED BY <1>1, <1>2, <1>3, <2>1, <2>2, <2>3, StartStep
<1>4. CASE /\ ValidateProfile(tls.profile) /\ UNCHANGED leader
           /\ Set(r, [p EXCEPT !.stage = "adherence", !.watching = TRUE,
                                !.posture = tls.profile, !.initial.profile = tls.profile])
  <2>1. PICK v : v = tls.profile
    OBVIOUS
  <2>2. v \in Usable
    BY <1>4, <2>1 DEF ValidateProfile
  <2>3. PICK q : q = [p EXCEPT !.stage = "adherence", !.watching = TRUE,
                               !.posture = v, !.initial.profile = v]
    OBVIOUS
  <2>4. /\ q \in Procs /\ q.stage = "adherence" /\ q.tasks = p.tasks /\ q.step = p.step
        /\ q.seen = p.seen /\ q.owner = p.owner
    BY <1>2, <2>2, <2>3 DEF Procs, Stages
  <2>5. Served(q)
    BY <2>4 DEF Served
  <2>. QED BY <1>1, <1>2, <1>4, <2>1, <2>3, <2>4, <2>5, StartStep
<1>5. CASE Exit(r)
  BY <1>2, <1>5, ExitStep
<1>. QED BY <1>1, <1>3, <1>4, <1>5 DEF FetchTLSProfile

LEMMA FetchTLSProfileFailsStep ==
    ASSUME ServingInv, NEW r \in Replicas, FetchTLSProfileFails(r)
    PROVE  ServingInv'
<1>1. PICK p : p = proc[r]
  OBVIOUS
<1>2. p \in Procs /\ p.stage = "down" /\ UNCHANGED <<env, cluster, secret>> /\ Disturb
  BY <1>1 DEF ServingInv, FetchTLSProfileFails
<1>3. CASE Set(r, [p EXCEPT !.watching = TRUE, !.stage = "adherence"]) /\ UNCHANGED leader
  <2>1. PICK q : q = [p EXCEPT !.watching = TRUE, !.stage = "adherence"]
    OBVIOUS
  <2>2. /\ q \in Procs /\ q.stage = "adherence" /\ q.tasks = p.tasks /\ q.step = p.step
        /\ q.seen = p.seen /\ q.owner = p.owner
    BY <1>2, <2>1 DEF Procs, Stages
  <2>3. Served(q)
    BY <2>2 DEF Served
  <2>. QED BY <1>1, <1>2, <1>3, <2>1, <2>2, <2>3, StartStep
<1>4. CASE Exit(r)
  BY <1>2, <1>4, ExitStep
<1>. QED BY <1>1, <1>3, <1>4 DEF FetchTLSProfileFails, WatchAfterTransient

LEMMA FetchTLSAdherencePolicyStep ==
    ASSUME ServingInv, NEW r \in Replicas,
           FetchTLSAdherencePolicy(r) \/ FetchTLSAdherencePolicyFails(r)
    PROVE  ServingInv'
<1>1. PICK p : p = proc[r]
  OBVIOUS
<1>2. /\ p \in Procs /\ p.stage = "adherence" /\ UNCHANGED <<env, cluster, secret>>
      /\ UNCHANGED disturbances \/ Disturb
  BY <1>1 DEF ServingInv, FetchTLSAdherencePolicy, FetchTLSAdherencePolicyFails
<1>3. CASE /\ Set(r, [p EXCEPT !.stage = "detect", !.initial.adherence = tls.adherence])
           /\ UNCHANGED leader
  <2>1. PICK v : v = tls.adherence
    OBVIOUS
  <2>2. v \in Policies
    BY <2>1 DEF ServingInv
  <2>3. PICK q : q = [p EXCEPT !.stage = "detect", !.initial.adherence = v]
    OBVIOUS
  <2>4. /\ q \in Procs /\ q.stage = "detect" /\ q.tasks = p.tasks /\ q.step = p.step
        /\ q.seen = p.seen /\ q.owner = p.owner
    BY <1>2, <2>2, <2>3 DEF Procs, Stages
  <2>5. Served(q)
    BY <2>4 DEF Served
  <2>. QED BY <1>1, <1>2, <1>3, <2>1, <2>3, <2>4, <2>5, StartStep
<1>4. CASE Set(r, [p EXCEPT !.stage = "detect"]) /\ UNCHANGED leader
  <2>1. PICK q : q = [p EXCEPT !.stage = "detect"]
    OBVIOUS
  <2>2. /\ q \in Procs /\ q.stage = "detect" /\ q.tasks = p.tasks /\ q.step = p.step
        /\ q.seen = p.seen /\ q.owner = p.owner
    BY <1>2, <2>1 DEF Procs, Stages
  <2>3. Served(q)
    BY <2>2 DEF Served
  <2>. QED BY <1>1, <1>2, <1>4, <2>1, <2>2, <2>3, StartStep
<1>5. CASE Exit(r)
  BY <1>2, <1>5, ExitStep
<1>. QED BY <1>1, <1>3, <1>4, <1>5 DEF FetchTLSAdherencePolicy, FetchTLSAdherencePolicyFails

\* What Detect finds: never None in a cluster with a provider.
LEMMA Detected ==
    ASSUME groups \in ClusterGroups, NEW listed \in SUBSET groups, NEW failed \in BOOLEAN,
           failed \/ listed = groups, Detect(listed, failed) # "error"
    PROVE  /\ Detect(listed, failed) \in Providers
           /\ groups # {} => Detect(listed, failed) # "None"
<1>1. groups \subseteq {"OpenShift", "CertManager"}
  BY ServingAssumption
<1>. QED BY <1>1 DEF Detect, Providers

\* What Ensure has to do.
LEMMA EnsureTasks ==
    ASSUME NEW p \in Providers
    PROVE  Ensure(p) \in Seq(Jobs) /\ Len(Ensure(p)) <= 3 /\ Ensure(p) # <<>>
<1>1. /\ [object |-> "service", note |-> ServingCert] \in Jobs
      /\ [object |-> "mwc", note |-> InjectCA] \in Jobs
      /\ [object |-> "issuer", note |-> "own"] \in Jobs
      /\ [object |-> "certificate", note |-> "own"] \in Jobs
      /\ [object |-> "mwc", note |-> InjectFrom] \in Jobs
      /\ [object |-> "mwc", note |-> "delete"] \in Jobs
  BY DEF Jobs, Tasks, Objects, OwnerOf, ServingCert, InjectCA, InjectFrom
<1>2. ASSUME NEW a \in Jobs, NEW b \in Jobs, NEW c \in Jobs
      PROVE  /\ <<a, b, c>> \in Seq(Jobs) /\ Len(<<a, b, c>>) = 3
             /\ <<a, b>> \in Seq(Jobs) /\ Len(<<a, b>>) = 2
             /\ <<a>> \in Seq(Jobs) /\ Len(<<a>>) = 1
  OBVIOUS
<1>3. CASE p = "OpenShift"
  BY <1>1, <1>2, <1>3 DEF Ensure
<1>4. CASE p = "CertManager"
  BY <1>1, <1>2, <1>4 DEF Ensure
<1>5. CASE p = "None"
  BY <1>1, <1>2, <1>5 DEF Ensure
<1>. QED BY <1>3, <1>4, <1>5 DEF Providers

LEMMA DetectAtStartStep ==
    ASSUME ServingInv, NEW r \in Replicas, DetectAtStart(r)
    PROVE  ServingInv'
<1>1. PICK p : p = proc[r]
  OBVIOUS
<1>2. p \in Procs /\ p.stage = "detect" /\ UNCHANGED <<env, cluster, secret>>
  BY <1>1 DEF ServingInv, DetectAtStart
<1>3. \/ \E d \in Providers :
            /\ groups # {} => d # "None"
            /\ Set(r, [p EXCEPT !.provider = d, !.webhooks = d # "None", !.tasks = Ensure(d),
                                !.stage = IF Ensure(d) = <<>> THEN "manager" ELSE "configure"])
            /\ UNCHANGED leader /\ (UNCHANGED disturbances \/ Disturb)
      \/ Exit(r) /\ Disturb
  <2>1. CASE /\ Set(r, [p EXCEPT !.provider = Detect(groups, FALSE),
                                !.webhooks = Detect(groups, FALSE) # "None",
                                !.tasks = Ensure(Detect(groups, FALSE)),
                                !.stage = IF Ensure(Detect(groups, FALSE)) = <<>>
                                          THEN "manager" ELSE "configure"])
             /\ UNCHANGED <<leader, disturbances>>
    <3>1. Detect(groups, FALSE) # "error"
      BY DEF Detect
    <3>2. Detect(groups, FALSE) \in Providers /\ (groups # {} => Detect(groups, FALSE) # "None")
      BY <3>1, Detected DEF ServingInv
    <3>. QED BY <2>1, <3>2
  <2>2. CASE \E listed \in SUBSET groups :
                /\ Detect(listed, TRUE) # "error"
                /\ Set(r, [p EXCEPT !.provider = Detect(listed, TRUE),
                                    !.webhooks = Detect(listed, TRUE) # "None",
                                    !.tasks = Ensure(Detect(listed, TRUE)),
                                    !.stage = IF Ensure(Detect(listed, TRUE)) = <<>>
                                              THEN "manager" ELSE "configure"])
                /\ UNCHANGED leader /\ Disturb
    <3>1. PICK listed \in SUBSET groups :
                /\ Detect(listed, TRUE) # "error"
                /\ Set(r, [p EXCEPT !.provider = Detect(listed, TRUE),
                                    !.webhooks = Detect(listed, TRUE) # "None",
                                    !.tasks = Ensure(Detect(listed, TRUE)),
                                    !.stage = IF Ensure(Detect(listed, TRUE)) = <<>>
                                              THEN "manager" ELSE "configure"])
                /\ UNCHANGED leader /\ Disturb
      BY <2>2
    <3>2. Detect(listed, TRUE) \in Providers /\ (groups # {} => Detect(listed, TRUE) # "None")
      BY <3>1, Detected DEF ServingInv
    <3>. QED BY <3>1, <3>2
  <2>. QED BY <1>1, <2>1, <2>2, Zenon DEF DetectAtStart, Discover, StartupEnsure
<1>4. ASSUME NEW d \in Providers, groups # {} => d # "None",
             Set(r, [p EXCEPT !.provider = d, !.webhooks = d # "None", !.tasks = Ensure(d),
                              !.stage = IF Ensure(d) = <<>> THEN "manager" ELSE "configure"]),
             UNCHANGED leader, UNCHANGED disturbances \/ Disturb
      PROVE  ServingInv'
  <2>1. PICK tasks, w : tasks = Ensure(d) /\ w = (d # "None")
    OBVIOUS
  <2>2. tasks \in Seq(Jobs) /\ Len(tasks) <= 3 /\ tasks # <<>> /\ w \in BOOLEAN
    BY <2>1, EnsureTasks
  <2>3. PICK q : q = [p EXCEPT !.provider = d, !.webhooks = w, !.tasks = tasks,
                               !.stage = "configure"]
    OBVIOUS
  <2>4. Set(r, q)
    BY <1>4, <2>1, <2>2, <2>3
  <2>5. q \in Procs
    BY <1>2, <2>2, <2>3 DEF Procs, Stages
  <2>6. /\ q.provider = d /\ q.webhooks = w /\ q.tasks = tasks /\ q.stage = "configure"
        /\ q.step = p.step /\ q.seen = p.seen /\ q.owner = p.owner
    BY <1>2, <2>3 DEF Procs
  <2>7. p.step = "get" /\ p.seen = 0 /\ p.owner = 0
    BY <1>1, <1>2 DEF ServingInv, StepFits
  <2>8. StepFits(q)
    BY <2>2, <2>6, <2>7 DEF StepFits
  <2>9. Served(q)
    BY <1>4, <2>1, <2>6 DEF Served
  <2>10. Rest
    BY <1>2, <1>4, RestStays
  <2>11. leader' # r
    BY <1>1, <1>2, <1>4, ServingAssumption DEF ServingInv
  <2>. QED BY <2>4, <2>5, <2>8, <2>9, <2>10, <2>11, ProcStep DEF Fit
<1>5. CASE Exit(r) /\ Disturb
  BY <1>2, <1>5, ExitStep
<1>. QED BY <1>3, <1>4, <1>5

LEMMA NewEnsurerStep ==
    ASSUME ServingInv, NEW r \in Replicas, NewEnsurer(r)
    PROVE  ServingInv'
<1>1. PICK p : p = proc[r]
  OBVIOUS
<1>2. p \in Procs /\ p.stage = "manager" /\ UNCHANGED <<env, cluster, secret>>
  BY <1>1 DEF ServingInv, NewEnsurer
<1>3. \/ \E d \in Providers :
            /\ groups # {} => d # "None"
            /\ p.webhooks
            /\ Set(r, [p EXCEPT !.provider = d, !.stage = "start"])
            /\ UNCHANGED leader /\ (UNCHANGED disturbances \/ Disturb)
      \/ Exit(r) /\ Disturb
      \/ Set(r, [p EXCEPT !.stage = "start"]) /\ UNCHANGED <<leader, disturbances>>
  <2>1. CASE /\ p.webhooks /\ Set(r, [p EXCEPT !.provider = Detect(groups, FALSE), !.stage = "start"])
             /\ UNCHANGED <<leader, disturbances>>
    <3>1. Detect(groups, FALSE) # "error"
      BY DEF Detect
    <3>2. Detect(groups, FALSE) \in Providers /\ (groups # {} => Detect(groups, FALSE) # "None")
      BY <3>1, Detected DEF ServingInv
    <3>. QED BY <2>1, <3>2
  <2>2. CASE \E listed \in SUBSET groups :
                /\ Detect(listed, TRUE) # "error" /\ p.webhooks
                /\ Set(r, [p EXCEPT !.provider = Detect(listed, TRUE), !.stage = "start"])
                /\ UNCHANGED leader /\ Disturb
    <3>1. PICK listed \in SUBSET groups :
                /\ Detect(listed, TRUE) # "error" /\ p.webhooks
                /\ Set(r, [p EXCEPT !.provider = Detect(listed, TRUE), !.stage = "start"])
                /\ UNCHANGED leader /\ Disturb
      BY <2>2
    <3>2. Detect(listed, TRUE) \in Providers /\ (groups # {} => Detect(listed, TRUE) # "None")
      BY <3>1, Detected DEF ServingInv
    <3>. QED BY <3>1, <3>2
  <2>. QED BY <1>1, <2>1, <2>2, Zenon DEF NewEnsurer, Discover
<1>4. ASSUME NEW d \in Providers, groups # {} => d # "None", p.webhooks,
             Set(r, [p EXCEPT !.provider = d, !.stage = "start"]),
             UNCHANGED leader, UNCHANGED disturbances \/ Disturb
      PROVE  ServingInv'
  <2>1. PICK q : q = [p EXCEPT !.provider = d, !.stage = "start"]
    OBVIOUS
  <2>2. /\ q \in Procs /\ q.provider = d /\ q.webhooks = p.webhooks /\ q.tasks = p.tasks
        /\ q.step = p.step /\ q.seen = p.seen /\ q.owner = p.owner /\ q.stage = "start"
    BY <1>2, <2>1 DEF Procs, Stages
  <2>3. Served(q)
    BY <1>4, <2>2 DEF Served
  <2>. QED BY <1>1, <1>2, <1>4, <2>1, <2>2, <2>3, StartStep
<1>5. CASE Exit(r) /\ Disturb
  BY <1>2, <1>5, ExitStep
<1>6. CASE Set(r, [p EXCEPT !.stage = "start"]) /\ UNCHANGED <<leader, disturbances>>
  <2>1. PICK q : q = [p EXCEPT !.stage = "start"]
    OBVIOUS
  <2>2. /\ q \in Procs /\ q.provider = p.provider /\ q.webhooks = p.webhooks /\ q.tasks = p.tasks
        /\ q.step = p.step /\ q.seen = p.seen /\ q.owner = p.owner /\ q.stage = "start"
    BY <1>2, <2>1 DEF Procs, Stages
  <2>3. Served(q)
    BY <1>1, <1>2, <2>2 DEF Served, ServingInv
  <2>. QED BY <1>1, <1>2, <1>6, <2>1, <2>2, <2>3, StartStep
<1>. QED BY <1>3, <1>4, <1>5, <1>6

LEMMA StartManagerStep ==
    ASSUME ServingInv, NEW r \in Replicas, StartManager(r)
    PROVE  ServingInv'
<1>1. PICK p : p = proc[r]
  OBVIOUS
<1>2. p \in Procs /\ p.stage = "start" /\ UNCHANGED <<env, cluster, secret, disturbances>>
  BY <1>1 DEF ServingInv, StartManager
<1>3. CASE Exit(r)
  BY <1>2, <1>3, ExitStep
<1>4. CASE Set(r, [p EXCEPT !.stage = "running"]) /\ UNCHANGED leader
  <2>1. PICK q : q = [p EXCEPT !.stage = "running"]
    OBVIOUS
  <2>2. /\ q \in Procs /\ q.provider = p.provider /\ q.webhooks = p.webhooks /\ q.tasks = p.tasks
        /\ q.step = p.step /\ q.seen = p.seen /\ q.owner = p.owner /\ q.stage = "running"
    BY <1>2, <2>1 DEF Procs, Stages
  <2>3. Served(q)
    BY <1>1, <1>2, <2>2 DEF Served, ServingInv
  <2>. QED BY <1>1, <1>2, <1>4, <2>1, <2>2, <2>3, StartStep
<1>. QED BY <1>1, <1>3, <1>4 DEF StartManager

LEMMA LeadStep ==
    ASSUME ServingInv, NEW r \in Replicas, Lead(r)
    PROVE  ServingInv'
  BY DEF ServingInv, Lead, env, Served

LEMMA ProfileChangeStep ==
    ASSUME ServingInv, NEW r \in Replicas, ProfileChange(r)
    PROVE  ServingInv'
  BY ExitStep DEF ProfileChange

LEMMA CrashStep ==
    ASSUME ServingInv, NEW r \in Replicas, Crash(r)
    PROVE  ServingInv'
  BY ExitStep DEF Crash

LEMMA TickStep ==
    ASSUME ServingInv, NEW r \in Replicas, Tick(r)
    PROVE  ServingInv'
<1>1. PICK p, tasks : p = proc[r] /\ tasks = Ensure(p.provider)
  OBVIOUS
<1>2. /\ p \in Procs /\ p.tasks = <<>> /\ leader = r /\ p.stage = "running"
      /\ UNCHANGED <<env, cluster, secret, leader, disturbances>>
  BY <1>1, ServingAssumption DEF ServingInv, Tick
<1>3. tasks \in Seq(Jobs) /\ Len(tasks) <= 3 /\ tasks # <<>>
  <2>1. p.provider \in Providers
    BY <1>2 DEF Procs
  <2>. QED BY <1>1, <2>1, EnsureTasks
<1>4. PICK q : q = [p EXCEPT !.tasks = tasks]
  OBVIOUS
<1>5. /\ q \in Procs /\ q.provider = p.provider /\ q.webhooks = p.webhooks /\ q.tasks = tasks
      /\ q.step = p.step /\ q.seen = p.seen /\ q.owner = p.owner /\ q.stage = p.stage
  BY <1>2, <1>3, <1>4 DEF Procs
<1>6. p.step = "get" /\ p.seen = 0 /\ p.owner = 0
  BY <1>1, <1>2 DEF ServingInv, StepFits
<1>7. StepFits(q)
  BY <1>2, <1>3, <1>5, <1>6 DEF StepFits
<1>8. Served(q)
  BY <1>1, <1>5 DEF Served, ServingInv
<1>9. Rest
  BY <1>2, RestStays
<1>10. Set(r, q)
  BY <1>1, <1>4 DEF Tick
<1>. QED BY <1>2, <1>5, <1>7, <1>8, <1>9, <1>10, ProcStep DEF Fit

-----------------------------------------------------------------------------
(* The requests of Ensure *)

\* A process that goes on with the task at hand.
LEMMA RequestStep ==
    ASSUME ServingInv, NEW r \in Replicas, NEW q \in Procs, Set(r, q), StepFits(q),
           q.stage = proc[r].stage, q.webhooks = proc[r].webhooks, q.provider = proc[r].provider,
           UNCHANGED <<env, cluster, secret, leader, disturbances>>
    PROVE  ServingInv'
<1>1. Fit(q)
  BY ProcFits DEF Fit, Served
<1>2. Rest
  BY RestStays
<1>3. leader' = r => q.stage = "running"
  BY ServingAssumption DEF ServingInv
<1>. QED BY <1>1, <1>2, <1>3, ProcStep

\* A process whose task at hand is done.
LEMMA AdvanceStep ==
    ASSUME ServingInv, NEW r \in Replicas, proc[r].tasks # <<>>, Set(r, Advance(proc[r])),
           UNCHANGED <<env, cluster, secret, leader, disturbances>>
    PROVE  ServingInv'
<1>1. PICK p, q : p = proc[r] /\ q = Advance(p)
  OBVIOUS
<1>2. Fit(q)
  BY <1>1, ProcFits, AdvanceFits
<1>3. Rest
  BY RestStays
<1>4. leader' = r => q.stage = "running"
  BY <1>1, AdvanceKeepsRunning, ServingAssumption DEF ServingInv
<1>. QED BY <1>1, <1>2, <1>3, <1>4, ProcStep

\* The task at hand, and the object it is about.
LEMMA TaskAtHand ==
    ASSUME ServingInv, NEW r \in Replicas, proc[r].tasks # <<>>
    PROVE  /\ Head(proc[r].tasks) \in Jobs
           /\ Head(proc[r].tasks).object \in Objects
           /\ cluster[Head(proc[r].tasks).object] \in Objs
<1>1. PICK tasks : tasks = proc[r].tasks
  OBVIOUS
<1>2. tasks \in Seq(Jobs) /\ tasks # <<>>
  BY <1>1 DEF ServingInv, Procs
<1>3. Head(tasks) \in Jobs
  BY <1>2, HeadTailProperties
<1>4. Head(tasks).object \in Objects
  BY <1>3 DEF Jobs, Tasks
<1>. QED BY <1>1, <1>3, <1>4 DEF ServingInv

\* An owned object's owner has an identity or none.
LEMMA OwnerIdentity ==
    ASSUME ServingInv, NEW t \in Jobs, t.note = "own"
    PROVE  cluster[OwnerOf[t.object]].uid \in Uids \cup {0}
<1>1. t.object \in {"issuer", "certificate"}
  BY DEF Jobs, OwnerOf
<1>2. OwnerOf[t.object] \in Objects
  BY <1>1 DEF OwnerOf, Objects
<1>. QED BY <1>2 DEF ServingInv, Objs

LEMMA GetObjectStep ==
    ASSUME ServingInv, NEW r \in Replicas, GetObject(r)
    PROVE  ServingInv'
<1>1. PICK p, t, o : p = proc[r] /\ t = Head(p.tasks) /\ o = cluster[t.object]
  OBVIOUS
<1>2. /\ p.tasks # <<>> /\ p.step = "get" /\ UNCHANGED <<env, cluster, secret, leader, disturbances>>
  BY <1>1 DEF GetObject, Working
<1>3. p \in Procs /\ StepFits(p) /\ t \in Jobs /\ o \in Objs
  BY <1>1, <1>2, TaskAtHand DEF ServingInv
<1>4. CASE Set(r, Advance(p))
  BY <1>1, <1>2, <1>4, AdvanceStep
<1>5. CASE t.note = "own" /\ Set(r, [p EXCEPT !.step = "repair", !.seen = o.owner])
  <2>1. PICK w \in Uids \cup {0} : w = o.owner
    BY <1>3 DEF Objs
  <2>2. PICK q : q = [p EXCEPT !.step = "repair", !.seen = w]
    OBVIOUS
  <2>3. /\ q \in Procs /\ q.step = "repair" /\ q.tasks = p.tasks /\ q.owner = p.owner
        /\ q.stage = p.stage /\ q.webhooks = p.webhooks /\ q.provider = p.provider
    BY <1>3, <2>2 DEF Procs, Steps
  <2>4. StepFits(q)
    BY <1>1, <1>2, <1>3, <1>5, <2>3 DEF StepFits
  <2>. QED BY <1>1, <1>2, <1>5, <2>1, <2>2, <2>3, <2>4, RequestStep
<1>6. ASSUME NEW g \in {"owner", "delete", "patch"}, g = "owner" => t.note = "own",
             g = "patch" => t.note # "delete", Set(r, [p EXCEPT !.step = g])
      PROVE  ServingInv'
  <2>1. PICK q : q = [p EXCEPT !.step = g]
    OBVIOUS
  <2>2. /\ q \in Procs /\ q.step = g /\ q.tasks = p.tasks /\ q.owner = p.owner /\ q.seen = p.seen
        /\ q.stage = p.stage /\ q.webhooks = p.webhooks /\ q.provider = p.provider
    BY <1>3, <2>1 DEF Procs, Steps
  <2>3. StepFits(q)
    BY <1>1, <1>2, <1>3, <1>6, <2>2 DEF StepFits
  <2>. QED BY <1>1, <1>2, <1>6, <2>1, <2>2, <2>3, RequestStep
<1>7. \/ Set(r, Advance(p))
      \/ t.note = "own" /\ Set(r, [p EXCEPT !.step = "repair", !.seen = o.owner])
      \/ t.note = "own" /\ Set(r, [p EXCEPT !.step = "owner"])
      \/ Set(r, [p EXCEPT !.step = "delete"])
      \/ t.note # "delete" /\ Set(r, [p EXCEPT !.step = "patch"])
  <2>1. CASE t.note = "own"
    BY <1>1, <2>1, Zenon DEF GetObject
  <2>2. CASE t.note = "delete"
    BY <1>1, <2>2, "own" # "delete" DEF GetObject
  <2>3. CASE t.note # "own" /\ t.note # "delete"
    BY <1>1, <2>3 DEF GetObject
  <2>. QED BY <2>1, <2>2, <2>3
<1>. QED BY <1>4, <1>5, <1>6, <1>7

LEMMA ResolveOwnerStep ==
    ASSUME ServingInv, NEW r \in Replicas, ResolveOwner(r)
    PROVE  ServingInv'
<1>1. PICK p, t, w : p = proc[r] /\ t = Head(p.tasks) /\ w = cluster[OwnerOf[t.object]].uid
  OBVIOUS
<1>2. /\ p.tasks # <<>> /\ p.step = "repair"
      /\ UNCHANGED <<env, cluster, secret, leader, disturbances>>
  BY <1>1 DEF ResolveOwner, Working
<1>3. p \in Procs /\ StepFits(p) /\ t \in Jobs /\ t.note = "own"
  BY <1>1, <1>2, TaskAtHand DEF ServingInv, StepFits
<1>4. w \in Uids \cup {0}
  BY <1>1, <1>3, OwnerIdentity
<1>5. CASE Set(r, Advance(p))
  BY <1>1, <1>2, <1>5, AdvanceStep
<1>6. CASE Set(r, [p EXCEPT !.step = "patch", !.seen = 0, !.owner = w])
  <2>1. PICK q : q = [p EXCEPT !.step = "patch", !.seen = 0, !.owner = w]
    OBVIOUS
  <2>2. /\ q \in Procs /\ q.step = "patch" /\ q.tasks = p.tasks /\ q.seen = 0
        /\ q.stage = p.stage /\ q.webhooks = p.webhooks /\ q.provider = p.provider
    BY <1>3, <1>4, <2>1 DEF Procs, Steps
  <2>3. StepFits(q)
    BY <1>1, <1>2, <1>3, <2>2 DEF StepFits
  <2>. QED BY <1>1, <1>2, <1>6, <2>1, <2>2, <2>3, RequestStep
<1>. QED BY <1>1, <1>5, <1>6 DEF ResolveOwner

LEMMA OwnerToBeStep ==
    ASSUME ServingInv, NEW r \in Replicas, OwnerToBe(r)
    PROVE  ServingInv'
<1>1. PICK p, t, w : p = proc[r] /\ t = Head(p.tasks) /\ w = cluster[OwnerOf[t.object]].uid
  OBVIOUS
<1>2. /\ p.tasks # <<>> /\ p.step = "owner"
      /\ UNCHANGED <<env, cluster, secret, leader, disturbances>>
  BY <1>1 DEF OwnerToBe, Working
<1>3. p \in Procs /\ StepFits(p) /\ t \in Jobs /\ t.note = "own"
  BY <1>1, <1>2, TaskAtHand DEF ServingInv, StepFits
<1>4. w \in Uids \cup {0}
  BY <1>1, <1>3, OwnerIdentity
<1>5. PICK q : q = [p EXCEPT !.step = "create", !.owner = w]
  OBVIOUS
<1>6. /\ q \in Procs /\ q.step = "create" /\ q.tasks = p.tasks /\ q.seen = p.seen
      /\ q.stage = p.stage /\ q.webhooks = p.webhooks /\ q.provider = p.provider
  BY <1>3, <1>4, <1>5 DEF Procs, Steps
<1>7. StepFits(q)
  BY <1>1, <1>2, <1>3, <1>6 DEF StepFits
<1>8. Set(r, q)
  BY <1>1, <1>5 DEF OwnerToBe
<1>. QED BY <1>1, <1>2, <1>6, <1>7, <1>8, RequestStep

LEMMA CreateObjectStep ==
    ASSUME ServingInv, NEW r \in Replicas, CreateObject(r)
    PROVE  ServingInv'
<1>1. PICK p, o, u : p = proc[r] /\ o = Head(p.tasks).object /\ u = FreshUid(o)
  OBVIOUS
<1>2. p.tasks # <<>> /\ p.step = "create"
  BY <1>1 DEF CreateObject, Working
<1>3. p \in Procs /\ StepFits(p) /\ o \in Objects
  BY <1>1, <1>2, TaskAtHand DEF ServingInv
<1>4. CASE Write(r, [cluster EXCEPT ![o] = [uid |-> u, owner |-> p.owner, notes |-> {}]])
  <2>1. u \in Uids
    BY <1>1, <1>3, FreshUidExists
  <2>2. [uid |-> u, owner |-> p.owner, notes |-> {}] \in Objs
    BY <1>3, <2>1 DEF Objs, Procs
  <2>3. PICK c : c = [cluster EXCEPT ![o] = [uid |-> u, owner |-> p.owner, notes |-> {}]]
    OBVIOUS
  <2>4. c \in [Objects -> Objs]
    BY <2>2, <2>3 DEF ServingInv
  <2>. QED BY <1>1, <1>2, <1>4, <2>3, <2>4, WriteStep
<1>5. CASE /\ Set(r, [p EXCEPT !.step = "reget", !.owner = 0])
           /\ UNCHANGED <<env, cluster, secret, leader, disturbances>>
  <2>1. PICK q : q = [p EXCEPT !.step = "reget", !.owner = 0]
    OBVIOUS
  <2>2. /\ q \in Procs /\ q.step = "reget" /\ q.tasks = p.tasks /\ q.seen = p.seen /\ q.owner = 0
        /\ q.stage = p.stage /\ q.webhooks = p.webhooks /\ q.provider = p.provider
    BY <1>3, <2>1 DEF Procs, Steps
  <2>3. StepFits(q)
    BY <1>1, <1>2, <1>3, <2>2 DEF StepFits
  <2>. QED BY <1>1, <1>5, <2>1, <2>2, <2>3, RequestStep
<1>. QED BY <1>1, <1>4, <1>5 DEF CreateObject

LEMMA GetAfterAlreadyExistsStep ==
    ASSUME ServingInv, NEW r \in Replicas, GetAfterAlreadyExists(r)
    PROVE  ServingInv'
<1>1. PICK p, o : p = proc[r] /\ o = Head(p.tasks).object
  OBVIOUS
<1>2. p.tasks # <<>> /\ p.step = "reget" /\ UNCHANGED <<env, cluster, secret, disturbances>>
  BY <1>1 DEF GetAfterAlreadyExists, Working
<1>3. p \in Procs /\ StepFits(p) /\ cluster[o] \in Objs
  BY <1>1, <1>2, TaskAtHand DEF ServingInv
<1>4. CASE Set(r, [p EXCEPT !.step = "repair", !.seen = cluster[o].owner]) /\ UNCHANGED leader
  <2>1. PICK w \in Uids \cup {0} : w = cluster[o].owner
    BY <1>3 DEF Objs
  <2>2. PICK q : q = [p EXCEPT !.step = "repair", !.seen = w]
    OBVIOUS
  <2>3. /\ q \in Procs /\ q.step = "repair" /\ q.tasks = p.tasks /\ q.owner = p.owner
        /\ q.stage = p.stage /\ q.webhooks = p.webhooks /\ q.provider = p.provider
    BY <1>3, <2>2 DEF Procs, Steps
  <2>4. StepFits(q)
    BY <1>1, <1>2, <1>3, <2>3 DEF StepFits
  <2>. QED BY <1>1, <1>2, <1>4, <2>1, <2>2, <2>3, <2>4, RequestStep
<1>5. CASE Fail(r)
  BY <1>2, <1>5, FailStep
<1>. QED BY <1>1, <1>4, <1>5 DEF GetAfterAlreadyExists

LEMMA PatchObjectStep ==
    ASSUME ServingInv, NEW r \in Replicas, PatchObject(r)
    PROVE  ServingInv'
<1>1. PICK p, t, o : p = proc[r] /\ t = Head(p.tasks) /\ o = cluster[t.object]
  OBVIOUS
<1>2. p.tasks # <<>> /\ p.step = "patch"
  BY <1>1 DEF PatchObject, Working
<1>3. p \in Procs /\ StepFits(p) /\ t \in Jobs /\ t.object \in Objects /\ o \in Objs
  BY <1>1, <1>2, TaskAtHand DEF ServingInv
<1>4. t.note # "delete"
  BY <1>1, <1>2, <1>3 DEF StepFits
<1>5. CASE t.note = "own" /\ Write(r, [cluster EXCEPT ![t.object].owner = p.owner])
  <2>1. PICK w \in Uids \cup {0} : w = p.owner
    BY <1>3 DEF Procs
  <2>2. [o EXCEPT !.owner = w] \in Objs
    BY <1>3 DEF Objs
  <2>3. PICK c : c = [cluster EXCEPT ![t.object].owner = p.owner]
    OBVIOUS
  <2>4. c = [cluster EXCEPT ![t.object] = [o EXCEPT !.owner = w]]
    BY <1>1, <2>1, <2>3
  <2>5. c \in [Objects -> Objs]
    BY <1>3, <2>2, <2>4 DEF ServingInv
  <2>. QED BY <1>1, <1>2, <1>5, <2>3, <2>5, WriteStep
<1>6. CASE t.note # "own" /\ Write(r, [cluster EXCEPT ![t.object].notes = @ \cup {t.note}])
  <2>1. t.note \in Notes
    BY <1>3, <1>4, <1>6 DEF Jobs, Tasks, Notes
  <2>2. PICK n : n = o.notes \cup {t.note}
    OBVIOUS
  <2>3. n \in SUBSET Notes
    BY <1>3, <2>1, <2>2 DEF Objs
  <2>4. [o EXCEPT !.notes = n] \in Objs
    BY <1>3, <2>3 DEF Objs
  <2>5. PICK c : c = [cluster EXCEPT ![t.object].notes = @ \cup {t.note}]
    OBVIOUS
  <2>6. c = [cluster EXCEPT ![t.object] = [o EXCEPT !.notes = n]]
    BY <1>1, <1>3, <2>2, <2>5 DEF ServingInv
  <2>7. c \in [Objects -> Objs]
    BY <1>3, <2>4, <2>6 DEF ServingInv
  <2>. QED BY <1>1, <1>2, <1>6, <2>5, <2>7, WriteStep
<1>7. CASE Fail(r) /\ UNCHANGED <<env, cluster, secret, disturbances>>
  BY <1>7, FailStep
<1>. QED BY <1>1, <1>5, <1>6, <1>7 DEF PatchObject

\* An object that is gone.
LEMMA AbsentObjs == AbsentObject \in Objs
  BY DEF AbsentObject, Objs

LEMMA DeleteObjectStep ==
    ASSUME ServingInv, NEW r \in Replicas, DeleteObject(r)
    PROVE  ServingInv'
<1>1. PICK o, c : o = Head(proc[r].tasks).object /\ c = [cluster EXCEPT ![o] = AbsentObject]
  OBVIOUS
<1>2. proc[r].tasks # <<>>
  BY DEF DeleteObject, Working
<1>3. c \in [Objects -> Objs]
  BY <1>1, <1>2, TaskAtHand, AbsentObjs DEF ServingInv
<1>. QED BY <1>1, <1>2, <1>3, WriteStep DEF DeleteObject

LEMMA GetFailsStep ==
    ASSUME ServingInv, NEW r \in Replicas, GetFails(r)
    PROVE  ServingInv'
  BY FailStep DEF GetFails

-----------------------------------------------------------------------------
(* Everybody else *)

LEMMA InstallStep ==
    ASSUME ServingInv, NEW o \in Objects, Install(o)
    PROVE  ServingInv'
<1>1. PICK u, c : /\ u = FreshUid(o) /\ c = [cluster EXCEPT ![o] = [AbsentObject EXCEPT !.uid = u]]
  OBVIOUS
<1>2. u \in Uids
  BY <1>1, FreshUidExists
<1>3. [AbsentObject EXCEPT !.uid = u] \in Objs
  BY <1>2 DEF AbsentObject, Objs
<1>4. c \in [Objects -> Objs]
  BY <1>1, <1>3 DEF ServingInv
<1>5. cluster' = c
  BY <1>1 DEF Install
<1>6. Rest
  BY <1>4, <1>5, RestStays DEF Install
<1>. QED BY <1>6, ProcStays DEF Install

LEMMA VanishStep ==
    ASSUME ServingInv, NEW o \in Objects, cluster' = [cluster EXCEPT ![o] = AbsentObject],
           UNCHANGED <<env, secret, proc, leader>>, UNCHANGED disturbances \/ Disturb
    PROVE  ServingInv'
<1>1. cluster' \in [Objects -> Objs]
  BY AbsentObjs DEF ServingInv
<1>2. Rest
  BY <1>1, RestStays
<1>. QED BY <1>2, ProcStays

LEMMA EditTLSStep ==
    ASSUME ServingInv, NEW v \in [profile : Profiles, adherence : Policies], EditTLS(v)
    PROVE  ServingInv'
<1>1. disturbances' \in 0..MaxDisturbances
  BY Disturbed DEF EditTLS
<1>2. v \in [profile : Profiles \cup {NoProfile}, adherence : Policies]
  OBVIOUS
<1>. QED BY <1>1, <1>2 DEF ServingInv, EditTLS, Served

LEMMA IssueCertificateStep ==
    ASSUME ServingInv, IssueCertificate
    PROVE  ServingInv'
  BY DEF ServingInv, IssueCertificate, env, Served

-----------------------------------------------------------------------------
(* The theorems *)

LEMMA ServingInit ==
    ASSUME Init
    PROVE  ServingInv
<1>1. tls \in [profile : Profiles \cup {NoProfile}, adherence : Policies]
  <2>1. tls \in [profile : InitialProfiles \cup {NoProfile}, adherence : {"NoOpinion"}]
    BY DEF Init
  <2>. QED BY <2>1, ServingAssumption DEF Policies
<1>2. cluster \in [Objects -> Objs]
  <2>1. [AbsentObject EXCEPT !.uid = 1] \in Objs
    BY UidsType DEF AbsentObject, Objs
  <2>. QED BY <2>1, AbsentObjs DEF Init
<1>3. \A r \in Replicas : proc[r] = Down
  BY DEF Init
<1>4. proc \in [Replicas -> Procs]
  BY DownFits DEF Init, Fit
<1>5. \A r \in Replicas : StepFits(proc[r]) /\ Served(proc[r])
  BY <1>3, DownFits DEF Fit
<1>6. 0 \in 0..MaxDisturbances
  BY ServingAssumption
<1>. QED BY <1>1, <1>2, <1>4, <1>5, <1>6 DEF Init, ServingInv

LEMMA ServingNext ==
    ASSUME ServingInv, [Next]_vars
    PROVE  ServingInv'
<1>1. ASSUME NEW r \in Replicas, Startup(r) PROVE ServingInv'
  BY <1>1, FetchTLSProfileStep, FetchTLSAdherencePolicyStep, DetectAtStartStep, NewEnsurerStep,
     StartManagerStep DEF Startup
<1>2. ASSUME NEW r \in Replicas, Request(r) PROVE ServingInv'
  BY <1>2, GetObjectStep, ResolveOwnerStep, OwnerToBeStep, CreateObjectStep,
     GetAfterAlreadyExistsStep, PatchObjectStep, DeleteObjectStep DEF Request
<1>3. ASSUME NEW r \in Replicas, Process(r) PROVE ServingInv'
  BY <1>1, <1>2, <1>3, TickStep DEF Process
<1>4. ASSUME NEW r \in Replicas,
             \/ Lead(r) \/ ProfileChange(r) \/ Crash(r)
             \/ FetchTLSProfileFails(r) \/ FetchTLSAdherencePolicyFails(r) \/ GetFails(r)
      PROVE  ServingInv'
  BY <1>4, LeadStep, ProfileChangeStep, CrashStep, FetchTLSProfileFailsStep,
     FetchTLSAdherencePolicyStep, GetFailsStep
<1>5. ASSUME NEW o \in Objects, Install(o) PROVE ServingInv'
  BY <1>5, InstallStep
<1>6. ASSUME NEW o \in Objects, Remove(o) PROVE ServingInv'
  BY <1>6, VanishStep DEF Remove
<1>7. ASSUME NEW o \in DOMAIN OwnerOf, CollectGarbage(o) PROVE ServingInv'
  <2>1. o \in Objects
    BY DEF OwnerOf, Objects
  <2>. QED BY <1>7, <2>1, VanishStep DEF CollectGarbage
<1>8. ASSUME NEW v \in [profile : Profiles, adherence : Policies], EditTLS(v) PROVE ServingInv'
  BY <1>8, EditTLSStep
<1>9. CASE IssueCertificate
  BY <1>9, IssueCertificateStep
<1>10. CASE UNCHANGED vars
  BY <1>10 DEF vars, ServingInv, Served
<1>. QED BY <1>3, <1>4, <1>5, <1>6, <1>7, <1>8, <1>9, <1>10 DEF Next

\* The process states, the objects and the identities stay in range, the next
\* request of Ensure always fits the task at hand, only a running process
\* leads, and ServedWhereProvided is part of it (cmd/main.go, internal/webhook/tls).
THEOREM ServingHolds == Spec => []ServingInv
<1>1. Init => ServingInv
  BY ServingInit
<1>2. ServingInv /\ [Next]_vars => ServingInv'
  BY ServingNext
<1>. QED BY <1>1, <1>2, PTL DEF Spec

\* The type invariant.  Its part about identities says that the model's three
\* spare identities are enough for every number of processes.
THEOREM ServingTypes == Spec => []TypeOK
<1>1. ServingInv => TypeOK
  <2>. SUFFICES ASSUME ServingInv PROVE TypeOK
    OBVIOUS
  <2>1. ASSUME NEW o \in Objects
        PROVE  /\ cluster[o].uid \in Uids \cup {0} /\ cluster[o].owner \in Uids \cup {0}
               /\ cluster[o].notes \subseteq {ServingCert, InjectCA, InjectFrom}
    BY DEF ServingInv, Objs, Notes
  <2>2. ASSUME NEW r \in Replicas
        PROVE  /\ proc[r].stage \in {"down", "adherence", "detect", "configure",
                                     "manager", "start", "running"}
               /\ proc[r].provider \in {"OpenShift", "CertManager", "None"}
               /\ proc[r].webhooks \in BOOLEAN /\ proc[r].watching \in BOOLEAN
               /\ proc[r].posture \in Usable \cup {Hardened}
               /\ proc[r].initial.profile \in Usable \cup {Unread}
               /\ proc[r].initial.adherence \in Policies
               /\ proc[r].step \in {"get", "repair", "owner", "create", "reget", "patch", "delete"}
               /\ proc[r].seen \in Uids \cup {0} /\ proc[r].owner \in Uids \cup {0}
    BY DEF ServingInv, Procs, Stages, Providers, Steps
  <2>3. ASSUME NEW r \in Replicas
        PROVE  /\ Len(proc[r].tasks) <= 3
               /\ \A i \in 1..Len(proc[r].tasks) : proc[r].tasks[i] \in Tasks
    <3>1. PICK tasks : tasks = proc[r].tasks
      OBVIOUS
    <3>2. tasks \in Seq(Jobs) /\ Len(tasks) <= 3
      BY <3>1 DEF ServingInv, Procs, StepFits
    <3>3. \A i \in 1..Len(tasks) : tasks[i] \in Jobs
      BY <3>2
    <3>4. Jobs \subseteq Tasks
      BY DEF Jobs
    <3>. QED BY <3>1, <3>2, <3>3, <3>4
  <2>4. tls.profile \in Profiles \cup {NoProfile} /\ tls.adherence \in Policies
    BY DEF ServingInv
  <2>. QED BY <2>1, <2>2, <2>3, <2>4 DEF TypeOK, ServingInv
<1>. QED BY <1>1, ServingHolds, PTL

\* Whatever the discovery answers, fails to answer or answers in part, at both
\* detections and in every order of processes, crashes and restarts: a process
\* past its start serves the webhooks for a provider the cluster offers, and
\* its ensurer never deletes the webhook configuration (detect.go:97-99).
THEOREM WebhooksServedWhereProvided == Spec => []ServedWhereProvided
<1>1. ServingInv => ServedWhereProvided
  BY DEF ServingInv, Served, ServedWhereProvided
<1>. QED BY <1>1, ServingHolds, PTL
=============================================================================
