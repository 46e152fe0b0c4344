-------------------------- MODULE ConnectionWebhook --------------------------
(***************************************************************************)
(* The connection webhook (internal/webhook/notebook/mutating.go): the     *)
(* admission of writes to one Notebook, whose annotation                   *)
(* opendatahub.io/connections names Secrets to be injected as envFrom      *)
(* entries of its first container.                                         *)
(*                                                                         *)
(* Every replica of the operator serves admissions, so several are in      *)
(* flight at once.  One step of an admission is one request it sends: a    *)
(* Get of a Secret or a SubjectAccessReview.  In between, Secrets come and *)
(* go, permissions change, and other writes of the Notebook are committed. *)
(* The API server commits an admitted write only if the object it was      *)
(* admitted against is still the stored one.                               *)
(***************************************************************************)
EXTENDS Naturals, Sequences, FiniteSets, Functions

CONSTANTS
    Users,                  \* who writes the Notebook
    Secrets,                \* names of Secrets in the Notebook's namespace
    Annotations,            \* the annotation values users write: sequences of entries
    OwnEntries,             \* the envFrom entries users add themselves, counted by Secret
    MaxConnectionSecrets,   \* maxConnectionSecrets, 32 in the code
    MaxWrites,              \* bound: writes submitted
    MaxChanges,             \* bound: changes of Secrets and of permissions
    MaxFaults,              \* bound: failed Gets and SubjectAccessReviews
    NoNotebook,             \* the Notebook does not exist
    NoRequest               \* the user has no admission in flight

\* An entry is a reference namespace/name, or does not parse.  Malformed also
\* stands for an annotation of more than maxConnectionAnnotationLength bytes.
Malformed == [ns |-> "", name |-> ""]
Refs      == [ns : {"home", "elsewhere"}, name : Secrets]
Entries   == Refs \cup {Malformed}

ASSUME ConnectionAssumption ==
    /\ Annotations \subseteq Seq(Entries) /\ <<>> \in Annotations
    /\ OwnEntries \subseteq [Secrets -> Nat]
    /\ "" \notin Secrets
    /\ NoNotebook \notin Annotations
    /\ {MaxConnectionSecrets, MaxWrites, MaxChanges, MaxFaults} \subseteq Nat

VARIABLES
    nb,         \* the stored Notebook, or NoNotebook
    requests,   \* the admission each user has in flight, or NoRequest
    existing,   \* the Secrets that exist in the Notebook's namespace
    allowed,    \* the references each user may get
    writes, changes, faults

vars == <<nb, requests, existing, allowed, writes, changes, faults>>

\* env counts the secretRef entries of the first container by name; own counts
\* those the users put there themselves.  intact (history) says that nobody has
\* taken an injected entry out; vouched (history) holds the references that,
\* during the admission of the last write, at some time existed and at some
\* time were readable by the writer.
Notebooks == [annotation : Annotations, env : [Secrets -> Nat], own : [Secrets -> Nat],
              intact : BOOLEAN, deleting : BOOLEAN, vouched : SUBSET Refs]

\* old is the annotation of the old object, or NoNotebook for a create.
\* exists and readable (history) collect the references of the annotation for
\* which a check could have succeeded so far, doubtful those for which one
\* could have failed.
Requests == [old : Annotations \cup {NoNotebook}, new : Notebooks, fresh : BOOLEAN,
             stage : {"secrets", "access", "denied", "errored", "admitted"},
             todo : SUBSET Refs, invalid : SUBSET Refs,
             exists : SUBSET Refs, readable : SUBSET Refs, doubtful : SUBSET Refs]

TypeOK ==
    /\ nb \in Notebooks \cup {NoNotebook}
    /\ requests \in [Users -> Requests \cup {NoRequest}]
    /\ \A u \in Users : requests[u] # NoRequest =>
          (requests[u].stage \in {"secrets", "access"} <=> requests[u].todo # {})
    /\ existing \subseteq Secrets
    /\ allowed \in [Users -> SUBSET Refs]
    /\ {writes, changes, faults} \subseteq Nat

\* A Notebook written before the webhook was installed may carry an
\* annotation that does not parse.
Legacy == [annotation |-> <<Malformed>>, env |-> [s \in Secrets |-> 0],
           own |-> [s \in Secrets |-> 0], intact |-> TRUE, deleting |-> FALSE, vouched |-> {}]

Init ==
    /\ nb \in {NoNotebook} \cup ({Legacy} \cap Notebooks)
    /\ requests = [u \in Users |-> NoRequest]
    /\ existing \in {{}, Secrets}
    /\ allowed \in {[u \in Users |-> refs] : refs \in {{}, Refs}}
    /\ existing = {} => allowed = [u \in Users |-> Refs]
    /\ writes = 0 /\ changes = 0 /\ faults = 0

----------------------------------------------------------------------------
(* The annotation *)

\* Faulty variant: duplicates count against the limit.
CountingDuplicates(value) ==
    Malformed \in Range(value) \/ Len(value) > MaxConnectionSecrets

\* parseConnectionsAnnotation fails on an entry that is not namespace/name
\* and on more than maxConnectionSecrets different references.
Unparsable(value) ==
    Malformed \in Range(value) \/ Cardinality(Range(value)) > MaxConnectionSecrets

\* What it returns otherwise, in an order no step depends on.
Parsed(value) == Range(value)

\* Faulty variant: every current reference is injected again.
CreateAll(old, current) == [create |-> current, delete |-> old \ current]

\* determineSecretActions: what to inject and what to take out.
DetermineSecretActions(old, current) == [create |-> current \ old, delete |-> old \ current]

\* performConnectionInjection and handleConnectionSecret: entries are
\* recognised by the name of the Secret alone, and the first match goes.  (A
\* Notebook without containers, refused as an error, is not modelled.)
PerformConnectionInjection(env, actions) ==
    [s \in Secrets |->
        LET added   == Cardinality({ref \in actions.create : ref.name = s})
            removed == Cardinality({ref \in actions.delete : ref.name = s})
        IN  IF removed > env[s] + added THEN 0 ELSE env[s] + added - removed]

----------------------------------------------------------------------------
(* The admission request *)

\* The request is validated against the Secrets and permissions of now.
Observed(req, secrets, readable) ==
    LET refs    == Range(req.new.annotation) \ {Malformed}
        present == refs \cap [ns : {"home"}, name : secrets]
    IN  [req EXCEPT !.exists = @ \cup present, !.readable = @ \cup (refs \cap readable),
                    !.doubtful = @ \cup (refs \ (present \cap readable))]

\* Faulty variant: only references that are new in this write are validated.
OnlyNewRefs(req) ==
    Parsed(req.new.annotation) \ (IF req.old = NoNotebook THEN {} ELSE Parsed(req.old))

\* Every reference of the new annotation is validated, old ones too.
RefsToCheck(req) == Parsed(req.new.annotation)

\* The verdict once everything is checked.  An update compares with the old
\* annotation, which has to parse too; without any reference there is nothing
\* to inject or remove.
Decide(req) ==
    LET old     == IF req.old = NoNotebook THEN <<>> ELSE req.old
        actions == DetermineSecretActions(Parsed(old), Parsed(req.new.annotation))
    IN  IF req.invalid # {} THEN [req EXCEPT !.stage = "denied"]
        ELSE IF Unparsable(old) THEN [req EXCEPT !.stage = "errored"]
        ELSE [req EXCEPT !.stage = "admitted",
                         !.new.env = PerformConnectionInjection(@, actions)]

\* Faulty variant: an annotation without references is checked like any other.
CheckAnyway(req) ==
    IF req.new.deleting \/ (req.old = NoNotebook /\ req.new.annotation = <<>>)
    THEN [req EXCEPT !.stage = "admitted"]
    ELSE IF Unparsable(req.new.annotation) THEN [req EXCEPT !.stage = "denied"]
    ELSE [req EXCEPT !.stage = "secrets", !.todo = RefsToCheck(req)]

\* Handle and the head of validateNotebookConnectionAnnotation: a Notebook
\* being deleted passes as it is, and so does a create without annotation.
Begin(req) ==
    IF req.new.deleting \/ (req.old = NoNotebook /\ req.new.annotation = <<>>)
    THEN [req EXCEPT !.stage = "admitted"]
    ELSE IF Unparsable(req.new.annotation) THEN [req EXCEPT !.stage = "denied"]
    ELSE IF RefsToCheck(req) = {} THEN Decide(req)
    ELSE [req EXCEPT !.stage = "secrets", !.todo = RefsToCheck(req)]

----------------------------------------------------------------------------
(* The environment *)

Validating(u) == requests[u] # NoRequest /\ requests[u].stage \in {"secrets", "access"}

\* The writer sends new: an edit of the stored object, with its own envFrom
\* entries changed or not, or a manifest that never had the injected ones.
Submit(u, new) ==
    /\ requests[u] = NoRequest
    /\ writes < MaxWrites
    /\ writes' = writes + 1
    /\ requests' = [requests EXCEPT ![u] =
           Observed(Begin([old |-> IF nb = NoNotebook THEN NoNotebook ELSE nb.annotation,
                           new |-> new, fresh |-> TRUE, stage |-> "secrets", todo |-> {},
                           invalid |-> {}, exists |-> {}, readable |-> {}, doubtful |-> {}]),
                    existing, allowed[u])]
    /\ UNCHANGED <<nb, existing, allowed, changes, faults>>

SubmitCreate(u, annotation, own) ==
    /\ nb = NoNotebook
    /\ Submit(u, [annotation |-> annotation, env |-> own, own |-> own, intact |-> TRUE,
                  deleting |-> FALSE, vouched |-> {}])

SubmitUpdate(u, annotation, own, reapply) ==
    /\ nb # NoNotebook
    /\ LET edited == [s \in Secrets |-> IF nb.env[s] + own[s] < nb.own[s] THEN 0
                                        ELSE nb.env[s] + own[s] - nb.own[s]]
       IN  Submit(u, [nb EXCEPT !.annotation = annotation, !.own = own,
                                !.env = IF reapply THEN own ELSE edited,
                                !.intact = @ /\ (reapply => nb.env = nb.own)])

\* Users who are answered move on.
Acknowledge(u) ==
    /\ requests[u] # NoRequest
    /\ requests[u].stage \in {"denied", "errored"}
    /\ requests' = [requests EXCEPT ![u] = NoRequest]
    /\ UNCHANGED <<nb, existing, allowed, writes, changes, faults>>

\* The stored object changes: whatever else was admitted against it is stale.
Store(new) == nb' = new

Outdated(reqs) ==
    [u \in Users |-> IF reqs[u] = NoRequest THEN NoRequest ELSE [reqs[u] EXCEPT !.fresh = FALSE]]

\* A delete is not admitted by the webhook.  A Notebook with a finalizer stays
\* for a while, marked.
DeleteNotebook(finalizer) ==
    /\ nb # NoNotebook
    /\ nb.deleting => ~finalizer
    /\ Store(IF finalizer THEN [nb EXCEPT !.deleting = TRUE] ELSE NoNotebook)
    /\ requests' = Outdated(requests)
    /\ UNCHANGED <<existing, allowed, writes, changes, faults>>

\* Secrets are created and deleted, permissions granted and revoked.
ChangeCluster(secrets, perms) ==
    /\ changes < MaxChanges
    /\ changes' = changes + 1
    /\ <<secrets, perms>> # <<existing, allowed>>
    /\ existing' = secrets
    /\ allowed' = perms
    /\ requests' = [u \in Users |-> IF Validating(u) THEN Observed(requests[u], secrets, perms[u])
                                    ELSE requests[u]]
    /\ UNCHANGED <<nb, writes, faults>>

----------------------------------------------------------------------------
(* The handler *)

Step(u, req) == requests' = [requests EXCEPT ![u] = req]

At(u, stage) == requests[u] # NoRequest /\ requests[u].stage = stage

\* checkSecretExists: the namespace first, then a Get past the cache.  The
\* permissions are asked for once all references are through.
CheckSecret(u) ==
    /\ At(u, "secrets")
    /\ \E ref \in requests[u].todo :
        LET req  == requests[u]
            ok   == ref.ns = "home" /\ ref.name \in existing
            last == req.todo = {ref}
        IN  Step(u, [req EXCEPT !.stage = IF last THEN "access" ELSE @,
                                !.todo = IF last THEN RefsToCheck(req) ELSE @ \ {ref},
                                !.invalid = IF ok THEN @ ELSE @ \cup {ref}])
    /\ UNCHANGED <<nb, existing, allowed, writes, changes, faults>>

\* checkUserHasPermission: a SubjectAccessReview for the writer.
CheckAccess(u) ==
    /\ At(u, "access")
    /\ \E ref \in requests[u].todo :
        LET req == [requests[u] EXCEPT !.todo = @ \ {ref},
                                       !.invalid = IF ref \in allowed[u] THEN @ ELSE @ \cup {ref}]
        IN  Step(u, IF req.todo = {} THEN Decide(req) ELSE req)
    /\ UNCHANGED <<nb, existing, allowed, writes, changes, faults>>

\* A Get or a SubjectAccessReview fails: the whole admission is an error.
CheckFails(u) ==
    /\ At(u, "secrets") \/ At(u, "access")
    /\ faults < MaxFaults
    /\ faults' = faults + 1
    /\ Step(u, NoRequest)
    /\ UNCHANGED <<nb, existing, allowed, writes, changes>>

\* The API server stores an admitted write, or refuses it as a conflict.
Commit(u) ==
    /\ At(u, "admitted")
    /\ LET req == requests[u]
       IN  IF req.fresh
           THEN /\ Store([req.new EXCEPT !.vouched = req.exists \cap req.readable])
                /\ requests' = Outdated([requests EXCEPT ![u] = NoRequest])
           ELSE Step(u, NoRequest) /\ UNCHANGED nb
    /\ UNCHANGED <<existing, allowed, writes, changes, faults>>

----------------------------------------------------------------------------
Environment ==
    \/ \E u \in Users, annotation \in Annotations, own \in OwnEntries :
          \/ SubmitCreate(u, annotation, own)
          \/ \E reapply \in BOOLEAN : SubmitUpdate(u, annotation, own, reapply)
    \/ \E u \in Users : Acknowledge(u) \/ Commit(u)
    \/ \E finalizer \in BOOLEAN : DeleteNotebook(finalizer)
    \/ \E s \in Secrets : \/ ChangeCluster(existing \cup {s}, allowed)
                          \/ ChangeCluster(existing \ {s}, allowed)
    \/ \E u \in Users, ref \in [ns : {"home"}, name : Secrets] :
          \/ ChangeCluster(existing, [allowed EXCEPT ![u] = @ \cup {ref}])
          \/ ChangeCluster(existing, [allowed EXCEPT ![u] = @ \ {ref}])

Handler ==
    \E u \in Users : CheckSecret(u) \/ CheckAccess(u) \/ CheckFails(u)

Next == Environment \/ Handler

Spec == Init /\ [][Next]_vars

----------------------------------------------------------------------------
(* Properties *)

\* Across any sequence of creates and updates by several writers a connection
\* is in envFrom exactly once for as long as the annotation names it, beside
\* the entries users put there themselves, and gone afterwards: the webhook
\* only sees the difference of two annotations, so an entry it injects twice,
\* or forgets, is never repaired.  Nor does it repair what a writer takes out
\* by applying a manifest without the injected entries (mutating.go:422-456
\* finds nothing new in the annotation): from then on the bound is an upper one.
InjectedOnce ==
    nb # NoNotebook /\ ~nb.deleting =>
        \A s \in Secrets :
            LET due == nb.own[s] + (IF [ns |-> "home", name |-> s] \in Range(nb.annotation)
                                    THEN 1 ELSE 0)
            IN  nb.env[s] <= due /\ (nb.intact => nb.env[s] = due)

\* Every connection of the stored annotation is in the Notebook's namespace
\* and was, while its last write was being admitted, seen to exist and to be
\* readable by that writer: an earlier writer's permission vouches for nobody.
ConnectionsVouched ==
    nb # NoNotebook /\ ~nb.deleting /\ Malformed \notin Range(nb.annotation) =>
        \A ref \in Range(nb.annotation) : ref.ns = "home" /\ ref \in nb.vouched

\* A write is denied only for a cause the writer can name: the annotation does
\* not parse, a reference leaves the namespace, or, at some time during the
\* admission, a Secret was missing or closed to the writer.  A repeated
\* reference is no cause.
DeniedForCause ==
    \A u \in Users :
        At(u, "denied") =>
            LET req  == requests[u]
                refs == Range(req.new.annotation)
            IN  \/ Malformed \in refs \/ Cardinality(refs) > MaxConnectionSecrets
                \/ req.doubtful # {}
=============================================================================
