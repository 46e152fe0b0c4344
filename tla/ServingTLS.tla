----------------------------- MODULE ServingTLS -----------------------------
(***************************************************************************)
(* The start of the operator process and the TLS of its servers:           *)
(* cmd/main.go, internal/tlsconfig (the cluster's TLS profile) and         *)
(* internal/webhook/tls (serving certificates of the webhooks).            *)
(*                                                                         *)
(* A process reads the TLS profile, detects the certificate provider,      *)
(* configures it once (Configure), starts its servers, and, when it leads, *)
(* re-applies the configuration for ever (the ensurer).  Every step is one *)
(* request.  Several processes run at once, at least during a rolling      *)
(* update, and others write the same objects.  A process that exits is     *)
(* started again.                                                          *)
(***************************************************************************)
EXTENDS Naturals, Sequences, FiniteSets

CONSTANTS
    Replicas,       \* the operator's processes
    ClusterGroups,  \* which sets of providers the cluster's API groups may offer
    Usable,         \* TLS profiles that validateProfile accepts
    Unusable,       \* TLS profiles that it rejects
    InitialProfiles, \* the profiles an OpenShift cluster may have at first
    Installed,      \* which of Service and webhook configuration may exist at first
    MaxDisturbances, \* bound: objects created or removed by others, profile edits,
                    \* crashes, and failed or partial answers
    NoReplica,      \* nobody leads
    NoProfile,      \* the cluster does not have the APIServer kind (not OpenShift)
    Unread          \* the zero TLSProfileSpec, which no cluster has

Profiles   == Usable \cup Unusable
Hardened   == "hardened defaults"
Policies   == {"NoOpinion", "Strict"}
Objects    == {"service", "mwc", "issuer", "certificate"}
OwnerOf    == [issuer |-> "mwc", certificate |-> "issuer"]
ServingCert == "serving-cert-secret-name"
InjectCA    == "inject-cabundle"
InjectFrom  == "inject-ca-from"

\* Large enough that there is always an identity nobody refers to.
Uids == 1..(Cardinality(Replicas) + 3)

ASSUME ServingAssumption ==
    /\ IsFiniteSet(Replicas) /\ NoReplica \notin Replicas
    /\ ClusterGroups \subseteq SUBSET {"OpenShift", "CertManager"}
    /\ Usable \cap Unusable = {}
    /\ {NoProfile, Unread, Hardened} \cap Profiles = {} /\ Unread # NoProfile
    /\ Installed \subseteq SUBSET {"service", "mwc"}
    /\ InitialProfiles \subseteq Profiles \cup {NoProfile}
    /\ MaxDisturbances \in Nat

VARIABLES
    groups,     \* the providers whose API groups the cluster serves
    tls,        \* the profile and the adherence policy of the APIServer resource
    cluster,    \* the objects; uid 0 is an absent object, owner 0 no owner
    secret,     \* the Secret with the serving certificate exists
    proc,       \* the processes
    leader,
    disturbances

vars == <<groups, tls, cluster, secret, proc, leader, disturbances>>
env  == <<groups, tls>>

AbsentObject == [uid |-> 0, owner |-> 0, notes |-> {}]

Present(o) == cluster[o].uid # 0

\* A process that is not running.  provider is what was detected, initial what
\* the profile watcher compares with; tasks are the objects the running Ensure
\* has still to do, step the request it sends next, seen and owner the owner
\* references it has read.
Down == [stage |-> "down", provider |-> "None", webhooks |-> FALSE, posture |-> Hardened,
         watching |-> FALSE, initial |-> [profile |-> Unread, adherence |-> "NoOpinion"],
         tasks |-> <<>>, step |-> "get", seen |-> 0, owner |-> 0]

Tasks == [object : Objects, note : {ServingCert, InjectCA, InjectFrom, "own", "delete"}]

TypeOK ==
    /\ groups \in ClusterGroups
    /\ tls.profile \in Profiles \cup {NoProfile} /\ tls.adherence \in Policies
    /\ \A o \in Objects :
          /\ cluster[o].uid \in Uids \cup {0} /\ cluster[o].owner \in Uids \cup {0}
          /\ cluster[o].notes \subseteq {ServingCert, InjectCA, InjectFrom}
    /\ secret \in BOOLEAN
    /\ \A r \in Replicas :
          /\ proc[r].stage \in {"down", "adherence", "detect", "configure",
                                "manager", "start", "running"}
          /\ proc[r].provider \in {"OpenShift", "CertManager", "None"}
          /\ proc[r].webhooks \in BOOLEAN /\ proc[r].watching \in BOOLEAN
          /\ proc[r].posture \in Usable \cup {Hardened}
          /\ proc[r].initial.profile \in Usable \cup {Unread}
          /\ proc[r].initial.adherence \in Policies
          /\ Len(proc[r].tasks) <= 3
          /\ \A i \in 1..Len(proc[r].tasks) : proc[r].tasks[i] \in Tasks
          /\ proc[r].step \in {"get", "repair", "owner", "create", "reget", "patch", "delete"}
          /\ proc[r].seen \in Uids \cup {0} /\ proc[r].owner \in Uids \cup {0}
    /\ leader \in Replicas \cup {NoReplica}
    /\ disturbances \in 0..MaxDisturbances

Init ==
    /\ groups \in ClusterGroups
    /\ tls \in [profile : IF "OpenShift" \in groups THEN InitialProfiles ELSE {NoProfile},
                adherence : {"NoOpinion"}]
    /\ \E installed \in Installed :
          cluster = [o \in Objects |->
                        IF o \in installed THEN [AbsentObject EXCEPT !.uid = 1] ELSE AbsentObject]
    /\ secret = FALSE
    /\ proc = [r \in Replicas |-> Down]
    /\ leader = NoReplica
    /\ disturbances = 0

----------------------------------------------------------------------------
(* The life of a process *)

Set(r, p) == proc' = [proc EXCEPT ![r] = p]

Disturb == disturbances < MaxDisturbances /\ disturbances' = disturbances + 1

\* os.Exit, or the return of mgr.Start: the lease is given up, and the kubelet
\* starts the container again.
Exit(r) ==
    /\ Set(r, Down)
    /\ leader' = IF leader = r THEN NoReplica ELSE leader

\* Faulty variant: profiles are used as they come.
AcceptProfile(p) == TRUE

\* validateProfile.
ValidateProfile(p) == p \in Usable

\* Faulty variant: a process that could not read the profile is not told of it
\* later.
NoSelfHealing == FALSE

\* HasOpenShiftConfigAPI after a transient error.
WatchAfterTransient == TRUE

\* Bootstrap, the profile: no APIServer resource means hardened defaults and no
\* watcher; a profile that cannot be used ends the process.
FetchTLSProfile(r) ==
    /\ proc[r].stage = "down"
    /\ \/ /\ tls.profile = NoProfile
          /\ Set(r, [proc[r] EXCEPT !.stage = "detect"])
          /\ UNCHANGED leader
       \/ /\ tls.profile # NoProfile /\ ValidateProfile(tls.profile)
          /\ Set(r, [proc[r] EXCEPT !.stage = "adherence", !.watching = TRUE,
                                    !.posture = tls.profile, !.initial.profile = tls.profile])
          /\ UNCHANGED leader
       \/ /\ tls.profile # NoProfile /\ ~ValidateProfile(tls.profile)
          /\ Exit(r)
    /\ UNCHANGED <<env, cluster, secret, disturbances>>

\* A transient error means hardened defaults until the watcher sees the
\* profile; any other error ends the process.
FetchTLSProfileFails(r) ==
    /\ proc[r].stage = "down"
    /\ Disturb
    /\ \/ /\ Set(r, [proc[r] EXCEPT !.watching = WatchAfterTransient,
                                    !.stage = IF WatchAfterTransient THEN "adherence" ELSE "detect"])
          /\ UNCHANGED leader
       \/ Exit(r)
    /\ UNCHANGED <<env, cluster, secret>>

\* Bootstrap, the adherence policy.
FetchTLSAdherencePolicy(r) ==
    /\ proc[r].stage = "adherence"
    /\ Set(r, [proc[r] EXCEPT !.stage = "detect", !.initial.adherence = tls.adherence])
    /\ UNCHANGED <<env, cluster, secret, leader, disturbances>>

\* A recoverable error leaves NoOpinion, another one ends the process.
FetchTLSAdherencePolicyFails(r) ==
    /\ proc[r].stage = "adherence"
    /\ Disturb
    /\ \/ Set(r, [proc[r] EXCEPT !.stage = "detect"]) /\ UNCHANGED leader
       \/ Exit(r)
    /\ UNCHANGED <<env, cluster, secret>>

\* Faulty variant: a partial list without a provider is believed.
BelievePartial(listed, failed) ==
    IF "OpenShift" \in listed THEN "OpenShift"
    ELSE IF "CertManager" \in listed THEN "CertManager" ELSE "None"

\* Detect, on a list of groups that came with or without an error.
Detect(listed, failed) ==
    IF "OpenShift" \in listed THEN "OpenShift"
    ELSE IF "CertManager" \in listed THEN "CertManager"
    ELSE IF failed THEN "error" ELSE "None"

\* Faulty variant: the first configuration is left to the ensurer.
DeferToEnsurer(p) == <<>>

\* ensureOpenShift, ensureCertManager and ensureNone: an object and the
\* annotation it gets, or "own" for one that is created and kept owned.
Ensure(p) ==
    CASE p = "OpenShift"   -> <<[object |-> "service", note |-> ServingCert],
                                [object |-> "mwc", note |-> InjectCA]>>
      [] p = "CertManager" -> <<[object |-> "issuer", note |-> "own"],
                                [object |-> "certificate", note |-> "own"],
                                [object |-> "mwc", note |-> InjectFrom]>>
      [] p = "None"        -> <<[object |-> "mwc", note |-> "delete"]>>

\* The Ensure of Configure.
StartupEnsure(p) == Ensure(p)

\* What ServerGroups answers: the groups, or some of them or none with an error.
Discover(r, Use(_)) ==
    \/ /\ LET p == Detect(groups, FALSE) IN Set(r, Use(p))
       /\ UNCHANGED <<leader, disturbances>>
    \/ /\ Disturb
       /\ \/ \E listed \in SUBSET groups :
                LET p == Detect(listed, TRUE)
                IN  IF p = "error" THEN Exit(r) ELSE Set(r, Use(p)) /\ UNCHANGED leader
          \/ Exit(r)

\* Configure: the provider, then one Ensure.
DetectAtStart(r) ==
    LET Use(p) == [proc[r] EXCEPT !.provider = p, !.webhooks = p # "None",
                                  !.tasks = StartupEnsure(p),
                                  !.stage = IF StartupEnsure(p) = <<>> THEN "manager" ELSE "configure"]
    IN  /\ proc[r].stage = "detect"
        /\ Discover(r, Use)
        /\ UNCHANGED <<env, cluster, secret>>

\* addWebhookTLSEnsurer detects once more, for the ensurer; without webhooks
\* there is none.
NewEnsurer(r) ==
    LET Use(p) == [proc[r] EXCEPT !.provider = p, !.stage = "start"]
    IN  /\ proc[r].stage = "manager"
        /\ IF proc[r].webhooks
           THEN Discover(r, Use)
           ELSE Set(r, [proc[r] EXCEPT !.stage = "start"]) /\ UNCHANGED <<leader, disturbances>>
        /\ UNCHANGED <<env, cluster, secret>>

\* mgr.Start: the webhook server needs the certificate, which is mounted from
\* an optional Secret; without it the process ends.
StartManager(r) ==
    /\ proc[r].stage = "start"
    /\ IF proc[r].webhooks /\ ~secret
       THEN Exit(r)
       ELSE Set(r, [proc[r] EXCEPT !.stage = "running"]) /\ UNCHANGED leader
    /\ UNCHANGED <<env, cluster, secret, disturbances>>

Lead(r) ==
    /\ proc[r].stage = "running" /\ leader = NoReplica
    /\ leader' = r
    /\ UNCHANGED <<env, cluster, secret, proc, disturbances>>

\* The SecurityProfileWatcher: a profile or a policy other than the one the
\* process started with shuts it down, and so does a watch that cannot be
\* established because the cluster does not have the APIServer kind after all.
\* (A cluster with the kind and no object, where the watcher would idle, is not
\* modelled.)
ProfileChange(r) ==
    /\ proc[r].stage = "running" /\ proc[r].watching
    /\ proc[r].initial # tls
    /\ Exit(r)
    /\ UNCHANGED <<env, cluster, secret, disturbances>>

\* A tick of the ensurer, which runs in the leader.
Tick(r) ==
    /\ leader = r /\ proc[r].webhooks /\ proc[r].tasks = <<>>
    /\ Set(r, [proc[r] EXCEPT !.tasks = Ensure(proc[r].provider)])
    /\ UNCHANGED <<env, cluster, secret, leader, disturbances>>

----------------------------------------------------------------------------
(* Ensure, one request at a time *)

Working(r, step) == proc[r].tasks # <<>> /\ proc[r].step = step

\* p with the task at hand done; after the last one Configure is complete.
Advance(p) ==
    [p EXCEPT !.tasks = Tail(@), !.step = "get", !.seen = 0, !.owner = 0,
              !.stage = IF Len(p.tasks) = 1 /\ @ = "configure" THEN "manager" ELSE @]

\* Ensure returns an error: Configure passes it on, the ensurer logs it.
Fail(r) ==
    IF proc[r].stage = "configure"
    THEN Exit(r)
    ELSE /\ Set(r, [proc[r] EXCEPT !.tasks = <<>>, !.step = "get", !.seen = 0, !.owner = 0])
         /\ UNCHANGED leader

\* A write that takes the objects to c, or fails with or without its effect.
Write(r, c) ==
    /\ \/ cluster' = c /\ Set(r, Advance(proc[r])) /\ UNCHANGED <<leader, disturbances>>
       \/ Disturb /\ cluster' \in {cluster, c} /\ Fail(r)
    /\ UNCHANGED <<env, secret>>

\* The Get each task begins with.
GetObject(r) ==
    LET t == Head(proc[r].tasks)
        o == cluster[t.object]
        p == proc[r]
    IN  /\ Working(r, "get")
        /\ Set(r, CASE t.note = "own" ->
                          IF Present(t.object) THEN [p EXCEPT !.step = "repair", !.seen = o.owner]
                                               ELSE [p EXCEPT !.step = "owner"]
                    [] t.note = "delete" ->
                          IF Present(t.object) THEN [p EXCEPT !.step = "delete"] ELSE Advance(p)
                    [] OTHER ->
                          IF ~Present(t.object) \/ t.note \in o.notes THEN Advance(p)
                                                ELSE [p EXCEPT !.step = "patch"])
        /\ UNCHANGED <<env, cluster, secret, leader, disturbances>>

\* Faulty variant: an owner reference is compared by name.
OwnerNameMatches(seen, owner) == seen # 0

\* ownerRefMatches.
OwnerRefMatches(seen, owner) == seen = owner

\* reconcileOwnerReference: a missing owner is deferred to a later Ensure.
ResolveOwner(r) ==
    LET t     == Head(proc[r].tasks)
        owner == cluster[OwnerOf[t.object]].uid
    IN  /\ Working(r, "repair")
        /\ Set(r, IF owner = 0 \/ OwnerRefMatches(proc[r].seen, owner)
                  THEN Advance(proc[r])
                  ELSE [proc[r] EXCEPT !.step = "patch", !.seen = 0, !.owner = owner])
        /\ UNCHANGED <<env, cluster, secret, leader, disturbances>>

\* The owner of an object that is to be created; it may not exist yet.
OwnerToBe(r) ==
    LET t == Head(proc[r].tasks)
    IN  /\ Working(r, "owner")
        /\ Set(r, [proc[r] EXCEPT !.step = "create", !.owner = cluster[OwnerOf[t.object]].uid])
        /\ UNCHANGED <<env, cluster, secret, leader, disturbances>>


\* The API server gives every object an identity of its own.
FreshUid(o) ==
    LET taken == {cluster[o].uid} \cup {cluster[d].owner : d \in {e \in DOMAIN OwnerOf : OwnerOf[e] = o}}
                    \cup {proc[r].seen : r \in Replicas} \cup {proc[r].owner : r \in Replicas}
    IN  CHOOSE u \in Uids \ taken : \A v \in Uids \ taken : u <= v

\* Create; another process may have been first.
CreateObject(r) ==
    LET o == Head(proc[r].tasks).object
    IN  /\ Working(r, "create")
        /\ \/ /\ ~Present(o)
              /\ Write(r, [cluster EXCEPT ![o] = [uid |-> FreshUid(o), owner |-> proc[r].owner,
                                                  notes |-> {}]])
           \/ /\ Present(o)
              /\ Set(r, [proc[r] EXCEPT !.step = "reget", !.owner = 0])
              /\ UNCHANGED <<env, cluster, secret, leader, disturbances>>

\* The Get after AlreadyExists; the object may be gone again.
GetAfterAlreadyExists(r) ==
    LET o == Head(proc[r].tasks).object
    IN  /\ Working(r, "reget")
        /\ \/ /\ Present(o)
              /\ Set(r, [proc[r] EXCEPT !.step = "repair", !.seen = cluster[o].owner])
              /\ UNCHANGED leader
           \/ ~Present(o) /\ Fail(r)
        /\ UNCHANGED <<env, cluster, secret, disturbances>>

\* The merge patches carry no resourceVersion: they hit whatever object bears
\* the name now, and fail only if none does.
PatchObject(r) ==
    LET t == Head(proc[r].tasks)
    IN  /\ Working(r, "patch")
        /\ \/ /\ Present(t.object)
              /\ Write(r, IF t.note = "own"
                          THEN [cluster EXCEPT ![t.object].owner = proc[r].owner]
                          ELSE [cluster EXCEPT ![t.object].notes = @ \cup {t.note}])
           \/ /\ ~Present(t.object) /\ Fail(r)
              /\ UNCHANGED <<env, cluster, secret, disturbances>>

\* ensureNone; that it is already gone is no error.
DeleteObject(r) ==
    /\ Working(r, "delete")
    /\ Write(r, [cluster EXCEPT ![Head(proc[r].tasks).object] = AbsentObject])

\* A Get that fails.
GetFails(r) ==
    /\ proc[r].tasks # <<>> /\ proc[r].step \in {"get", "repair", "owner", "reget"}
    /\ Disturb /\ Fail(r)
    /\ UNCHANGED <<env, cluster, secret>>

----------------------------------------------------------------------------
(* Everybody else *)

\* The chart, an administrator or a re-installation.
Install(o) ==
    /\ Disturb /\ ~Present(o) /\ o \in {"service", "mwc"}
    /\ cluster' = [cluster EXCEPT ![o] = [AbsentObject EXCEPT !.uid = FreshUid(o)]]
    /\ UNCHANGED <<env, secret, proc, leader>>

Remove(o) ==
    /\ Disturb /\ Present(o)
    /\ cluster' = [cluster EXCEPT ![o] = AbsentObject]
    /\ UNCHANGED <<env, secret, proc, leader>>

EditTLS(v) ==
    /\ Disturb /\ tls.profile # NoProfile /\ tls # v
    /\ v.profile = tls.profile \/ v.adherence = tls.adherence
    /\ tls' = v
    /\ UNCHANGED <<groups, cluster, secret, proc, leader>>

\* The process dies or loses its lease.
Crash(r) ==
    /\ Disturb /\ proc[r].stage # "down"
    /\ Exit(r)
    /\ UNCHANGED <<env, cluster, secret>>

\* The garbage collector deletes an object whose owner does not exist.
CollectGarbage(o) ==
    /\ Present(o) /\ cluster[o].owner \notin {0, cluster[OwnerOf[o]].uid}
    /\ cluster' = [cluster EXCEPT ![o] = AbsentObject]
    /\ UNCHANGED <<env, secret, proc, leader, disturbances>>

\* The service CA operator or cert-manager issues the certificate.
IssueCertificate ==
    /\ ~secret
    /\ \/ "OpenShift" \in groups /\ ServingCert \in cluster["service"].notes
       \/ "CertManager" \in groups /\ Present("issuer") /\ Present("certificate")
    /\ secret' = TRUE
    /\ UNCHANGED <<env, cluster, proc, leader, disturbances>>

Startup(r) ==
    \/ FetchTLSProfile(r) \/ FetchTLSAdherencePolicy(r)
    \/ DetectAtStart(r) \/ NewEnsurer(r) \/ StartManager(r)

Request(r) ==
    \/ GetObject(r) \/ ResolveOwner(r) \/ OwnerToBe(r) \/ CreateObject(r)
    \/ GetAfterAlreadyExists(r) \/ PatchObject(r) \/ DeleteObject(r)

Process(r) == Startup(r) \/ Request(r) \/ Tick(r)

Next ==
    \/ \E r \in Replicas :
          \/ Process(r) \/ Lead(r) \/ ProfileChange(r) \/ Crash(r)
          \/ FetchTLSProfileFails(r) \/ FetchTLSAdherencePolicyFails(r) \/ GetFails(r)
    \/ \E o \in Objects : Install(o) \/ Remove(o)
    \/ \E o \in DOMAIN OwnerOf : CollectGarbage(o)
    \/ \E v \in [profile : Profiles, adherence : Policies] : EditTLS(v)
    \/ IssueCertificate

\* Processes run and are restarted, somebody is elected, the certificate is
\* issued, and the leader's watch delivers.  Nothing is assumed of the garbage
\* collector, nor of the watch of a process that does not lead.
Fairness ==
    /\ \A r \in Replicas : WF_vars(Process(r)) /\ WF_vars(leader = r /\ ProfileChange(r))
    /\ WF_vars(\E r \in Replicas : Lead(r))
    /\ WF_vars(IssueCertificate)

Spec == Init /\ [][Next]_vars /\ Fairness

----------------------------------------------------------------------------
(* Properties *)

\* Where the cluster has a provider, every process that got past its start
\* serves the webhooks and its ensurer works for a provider, never deleting
\* the webhook configuration: an unhealthy discovery ends the process or
\* yields a provider, at both of its detections (detect.go:97-99).
ServedWhereProvided ==
    \A r \in Replicas :
        groups # {} /\ proc[r].stage \in {"configure", "manager", "start", "running"} =>
            proc[r].webhooks /\ proc[r].provider # "None"

\* The certificate provider is set up as the README's table says.
Configured(p) ==
    CASE p = "OpenShift" ->
            /\ Present("service") => ServingCert \in cluster["service"].notes
            /\ Present("mwc") => InjectCA \in cluster["mwc"].notes
      [] p = "CertManager" ->
            /\ Present("issuer") /\ Present("certificate")
            /\ cluster["certificate"].owner = cluster["issuer"].uid
            /\ Present("mwc") => /\ cluster["issuer"].owner = cluster["mwc"].uid
                                 /\ InjectFrom \in cluster["mwc"].notes
      [] p = "None" -> TRUE

\* Whatever was created, removed, collected or half done before, and whichever
\* processes configured the cluster at the same time with stale reads: the
\* ensurer of the leader brings annotations and the chain of owners into
\* place, and they stay.
CertificatesConfigured ==
    <>[](leader # NoReplica /\ proc[leader].webhooks => Configured(proc[leader].provider))

\* The servers of the leading process come to use the cluster's TLS profile:
\* a profile that could not be read, or changed while nobody was watching yet,
\* is picked up by a restart, and an unusable one leaves nobody serving.
PostureFollowsCluster ==
    <>[](leader # NoReplica =>
            proc[leader].posture = IF tls.profile = NoProfile THEN Hardened ELSE tls.profile)

\* A cluster with a usable profile and, on OpenShift, with the Service the
\* certificate is issued for, ends up with a leading process: the certificate
\* the webhook server needs to start is requested before the server starts,
\* so that restarts do not go on for ever.
SomebodyServes ==
    <>[](tls.profile \notin Unusable /\ ("OpenShift" \in groups => Present("service"))
            => leader # NoReplica)

----------------------------------------------------------------------------
(* What the README says and the code does not do *)

\* README.md:119-121: "**None** | Neither detected | Webhooks are disabled;
\* MutatingWebhookConfiguration is deleted" and "A periodic retry (30s) handles
\* resources (Service, MutatingWebhookConfiguration) that appear after startup".
NoServerNoConfiguration == <>[](groups = {} => ~Present("mwc"))
=============================================================================
