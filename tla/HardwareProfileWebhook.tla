----------------------- MODULE HardwareProfileWebhook -----------------------
(***************************************************************************)
(* The hardware profile webhook (internal/webhook/hardwareprofile/         *)
(* mutating.go): the admission of writes to one Notebook, whose            *)
(* annotations name a HardwareProfile.  The webhook copies the profile's   *)
(* resource counts, its DRA claim, its Kueue queue or its node scheduling  *)
(* into the Notebook, and takes them out again when the reference changes. *)
(*                                                                         *)
(* The webhook keeps no state: what it once applied it knows only from the *)
(* old object and from the profile as it is now.  Profiles are edited,     *)
(* deleted and created between admissions, and between the two requests of *)
(* one admission: the Get of the profile and the Get of its claim template.*)
(* One admission is in flight at a time: one that another write overtakes  *)
(* ends in a conflict and leaves nothing behind.                           *)
(***************************************************************************)
EXTENDS Naturals, FiniteSets

CONSTANTS
    ProfileNames,   \* names of HardwareProfiles
    Contents,       \* what a profile may say
    InitialProfiles,\* the profiles that may exist, with their content at the beginning
    Templates,      \* the ResourceClaimTemplates of the Notebook's namespace
    Layouts,        \* the sets of containers users give the Notebook
    MaxWrites,      \* bound: writes submitted
    MaxEdits,       \* bound: profiles and templates changed
    MaxFaults,      \* bound: failed Gets
    NoNotebook,     \* the Notebook does not exist
    NoProfile,      \* the profile does not exist
    NoRequest       \* no admission is in flight

\* A profile has a default count of one resource (0: no identifiers), a DRA
\* template, a Kueue queue, one nodeSelector value and tolerations.  A profile
\* the webhook cannot apply (a malformed quantity or name) is not modelled.
ContentRecords == [count : Nat, dra : STRING, queue : STRING, sel : STRING,
                   tols : SUBSET STRING]
Refs == [ns : {"home", "shared"}, name : ProfileNames]
NoReference == [ns |-> "", name |-> ""]

ASSUME HardwareProfileAssumption ==
    /\ ProfileNames \subseteq STRING \ {""}
    /\ Contents \subseteq ContentRecords
    /\ DOMAIN InitialProfiles \subseteq Refs
    /\ InitialProfiles \in [DOMAIN InitialProfiles -> Contents \cup {NoProfile}]
    /\ NoProfile \notin Contents
    /\ Templates \subseteq STRING \ {""}
    /\ \A layout \in Layouts : layout \subseteq STRING /\ layout # {} /\ IsFiniteSet(layout)
    /\ {MaxWrites, MaxEdits, MaxFaults} \subseteq Nat

VARIABLES
    nb,         \* the stored Notebook, or NoNotebook
    req,        \* the admission in flight, or NoRequest
    profiles,   \* the content of each profile, or NoProfile
    templates,  \* the ResourceClaimTemplates that exist
    writes, edits, faults

vars == <<nb, req, profiles, templates, writes, edits, faults>>

\* The pod-level claim the webhook manages, draClaimName.
DraClaim == "hwp-dra"

\* One container: the request and limit (0: unset) and the claims it uses.
NoResources == [request |-> 0, limit |-> 0, claims |-> {}]

\* The Notebook: the two annotations, the queue label, the pod's nodeSelector
\* value and tolerations, the template of the claim named draClaimName, and
\* the containers.  History: claimFrom is the reference that claim was taken
\* from, skipped whether the reference the Notebook has was admitted without
\* being applied, strayed whether such a switch left the scheduling of a former
\* reference behind that no later switch has cleared.
Blank(layout) ==
    [name |-> "", ns |-> "", queue |-> "", sel |-> "", tols |-> {}, claim |-> "",
     containers |-> [c \in layout |-> NoResources], deleting |-> FALSE,
     claimFrom |-> NoReference, skipped |-> FALSE, strayed |-> FALSE]

\* What TLC can enumerate of the type of a Notebook, field by field.
NotebookOK(n) ==
    /\ n.name \in ProfileNames \cup {""} /\ n.ns \in {"", "home", "shared"}
    /\ n.claim \in Templates \cup {""} /\ n.claimFrom \in Refs \cup {NoReference}
    /\ DOMAIN n.containers \in Layouts
    /\ \A c \in DOMAIN n.containers :
          /\ n.containers[c].request \in Nat /\ n.containers[c].limit \in Nat
          /\ n.containers[c].claims \subseteq {DraClaim, "own"}
    /\ n.tols \subseteq (UNION {content.tols : content \in Contents}) \cup {"own"}
    /\ {n.skipped, n.strayed} \subseteq BOOLEAN
    /\ n.claim # "" <=> n.claimFrom # NoReference

TypeOK ==
    /\ nb # NoNotebook => NotebookOK(nb)
    /\ req # NoRequest => NotebookOK(req.new) /\ NotebookOK(req.sent)
                          /\ req.stage \in {"profile", "oldProfile", "template", "admitted"}
    /\ profiles \in [DOMAIN InitialProfiles -> Contents \cup {NoProfile}]
    /\ templates \subseteq Templates
    /\ {writes, edits, faults} \subseteq Nat

Init ==
    /\ nb = NoNotebook /\ req = NoRequest
    /\ profiles = InitialProfiles /\ templates = Templates
    /\ writes = 0 /\ edits = 0 /\ faults = 0

----------------------------------------------------------------------------
(* The Notebook's parts *)

\* The profile a Notebook refers to; the namespace defaults to its own.
Reference(n) == [ns |-> IF n.ns = "" THEN "home" ELSE n.ns, name |-> n.name]

\* fetchHardwareProfile, from the API server and not from a cache.
Profile(ref) == IF ref \in DOMAIN profiles THEN profiles[ref] ELSE NoProfile

\* notebookMainContainerIndex: a single container, or the one named like the
\* Notebook ("nb"); there may be none.
Main(n) == IF Cardinality(DOMAIN n.containers) = 1 THEN DOMAIN n.containers
           ELSE {"nb"} \cap DOMAIN n.containers

\* validateContainerNames.
Mismatched(n) == Main(n) = {}

OnMain(n, Change(_)) ==
    [n EXCEPT !.containers = [c \in DOMAIN @ |-> IF c \in Main(n) THEN Change(@[c]) ELSE @[c]]]

\* setContainerResourceClaims and removeContainerResourceClaims.
SetContainerClaim(n)    == OnMain(n, LAMBDA c : [c EXCEPT !.claims = @ \cup {DraClaim}])
RemoveContainerClaim(n) == OnMain(n, LAMBDA c : [c EXCEPT !.claims = @ \ {DraClaim}])

\* Faulty variant: the reference from the container stays.
RemovePodClaim(n) == [n EXCEPT !.claim = "", !.claimFrom = NoReference]

\* removeDRAFromNotebook: the pod-level claim, and the main container's
\* reference to it.
RemoveDRA(n) == [RemoveContainerClaim(n) EXCEPT !.claim = "", !.claimFrom = NoReference]

\* Faulty variant: the claim refers to a template named like the profile.
ClaimLikeProfile(n, template) ==
    [SetContainerClaim(n) EXCEPT !.claim = n.name, !.claimFrom = Reference(n)]

\* The end of applyDRAToNotebook.
SetDRA(n, template) ==
    [SetContainerClaim(n) EXCEPT !.claim = template, !.claimFrom = Reference(n)]

----------------------------------------------------------------------------
(* applyHardwareProfileToNotebook *)

\* Faulty variant: the claim of the former profile stays.
KeepDRA(n, changed) ==
    IF changed THEN [n EXCEPT !.queue = "", !.sel = "", !.tols = {}, !.skipped = FALSE,
                              !.strayed = FALSE]
    ELSE n

\* A changed reference clears the scheduling and the claim first, whoever
\* wrote them.
ClearOnChange(n, changed) ==
    IF changed THEN RemoveDRA([n EXCEPT !.queue = "", !.sel = "", !.tols = {},
                                        !.skipped = FALSE, !.strayed = FALSE])
    ELSE n

\* Faulty variant: resources are deleted with the user's claims in them.
ResetAllResources(c) == NoResources

\* The resources of the main container go, but for claims users put there.
ResetResources(c) == [NoResources EXCEPT !.claims = c.claims \ {DraClaim}]

\* applyResourcesToNotebookContainer and applyIdentifiersToContainer: only
\* what is missing is filled in, after a reset if the reference changed.
ApplyIdentifiers(n, content, changed) ==
    LET Fill(c) == LET request == IF c.request = 0 THEN content.count ELSE c.request
                   IN  [c EXCEPT !.request = request,
                                 !.limit = IF @ = 0 THEN request ELSE @]
    IN  IF content.count = 0 THEN n
        ELSE OnMain(n, LAMBDA c : Fill(IF changed THEN ResetResources(c) ELSE c))

\* Faulty variant: an edit of the profile reaches running Notebooks.
AlwaysApplyDRA(first, changed) == TRUE

\* DRA is applied with a new reference only.
AppliesDRA(first, changed) == first \/ changed

\* mergeNodeSelector and mergeTolerations: the profile's values win.
MergeNode(n, content) ==
    [n EXCEPT !.sel = IF content.sel = "" THEN @ ELSE content.sel,
              !.tols = @ \cup content.tols]

\* The queue label, or else node scheduling.
ApplyScheduling(n, content) ==
    IF content.queue # "" THEN [n EXCEPT !.queue = content.queue] ELSE MergeNode(n, content)

\* Faulty variant: tolerations are forgotten.
RemoveWithoutTolerations(n, content) ==
    RemoveDRA([n EXCEPT !.queue = IF content.queue # "" THEN "" ELSE @,
                        !.sel = IF @ = content.sel THEN "" ELSE @])

\* removeHWPSettings: what the profile of now would have written; resources
\* stay.
RemoveHWPSettings(n, content) ==
    RemoveDRA([n EXCEPT !.queue = IF content.queue # "" THEN "" ELSE @,
                        !.sel = IF @ = content.sel THEN "" ELSE @,
                        !.tols = @ \ content.tols])

----------------------------------------------------------------------------
(* The admission request *)

IsCreate == req.old = NoNotebook

\* isProfileNewlyAdded and detectProfileChange.
NewlyAdded == ~IsCreate /\ req.old.name = ""
ProfileChanged == ~IsCreate /\ req.old.name # "" /\ Reference(req.old) # Reference(req.new)

\* isStaleProfileReference compares the name alone.
StaleReference == ~IsCreate /\ req.old.name = req.new.name

\* Handle and the head of performHardwareProfileInjection: what is asked first.
FirstStage(old, new) ==
    IF new.deleting THEN "admitted"
    ELSE IF new.name # "" THEN "profile"
    ELSE IF old = NoNotebook THEN "admitted"
    ELSE IF old.name = "" THEN "admitted"
    ELSE "oldProfile"

Submit(new) ==
    /\ req = NoRequest
    /\ writes < MaxWrites
    /\ writes' = writes + 1
    /\ req' = [old |-> nb, sent |-> new, new |-> new, content |-> NoProfile,
               stage |-> FirstStage(nb, new)]
    /\ UNCHANGED <<nb, profiles, templates, edits, faults>>

\* A changed reference is admitted as it is: what was applied stays.
Strand(n, changed) ==
    IF changed THEN [n EXCEPT !.skipped = TRUE, !.strayed = TRUE] ELSE n

\* The admission goes on with n, or ends in a refusal.
Continue(stage, n) == req' = [req EXCEPT !.stage = stage, !.new = n]
Refuse == req' = NoRequest

Fault == faults < MaxFaults /\ faults' = faults + 1

----------------------------------------------------------------------------
(* The environment: users write the Notebook, administrators the profiles *)

Create(name, ns, layout) ==
    /\ nb = NoNotebook
    /\ Submit([Blank(layout) EXCEPT !.name = name, !.ns = ns])

\* Select, switch or drop the profile.
Refer(name, ns) ==
    /\ nb # NoNotebook
    /\ Submit([nb EXCEPT !.name = name, !.ns = ns])

\* Add and remove containers; those that stay keep their resources.
Relayout(layout) ==
    /\ nb # NoNotebook
    /\ Submit([nb EXCEPT !.containers =
                  [c \in layout |-> IF c \in DOMAIN @ THEN @[c] ELSE NoResources]])

\* Users add a toleration, a claim and an amount of their own.
EditOwn(c) ==
    /\ nb # NoNotebook
    /\ c \in DOMAIN nb.containers
    /\ Submit([nb EXCEPT !.tols = @ \cup {"own"},
                         !.containers[c] = [request |-> 3, limit |-> 3,
                                            claims |-> @.claims \cup {"own"}]])

\* A delete is not admitted by the webhook; a finalizer keeps the Notebook.
DeleteNotebook(finalizer) ==
    /\ nb # NoNotebook
    /\ nb.deleting => ~finalizer
    /\ nb' = IF finalizer THEN [nb EXCEPT !.deleting = TRUE] ELSE NoNotebook
    /\ UNCHANGED <<req, profiles, templates, writes, edits, faults>>

EditProfile(ref, content) ==
    /\ edits < MaxEdits
    /\ edits' = edits + 1
    /\ content # profiles[ref]
    /\ profiles' = [profiles EXCEPT ![ref] = content]
    /\ UNCHANGED <<nb, req, templates, writes, faults>>

DeleteTemplate(template) ==
    /\ edits < MaxEdits
    /\ edits' = edits + 1
    /\ template \in templates
    /\ templates' = templates \ {template}
    /\ UNCHANGED <<nb, req, profiles, writes, faults>>

----------------------------------------------------------------------------
(* The handler *)

At(stage) == req # NoRequest /\ req.stage = stage

\* The profile is there.  The namespace annotation is filled in; with several
\* containers and none named like the Notebook everything else is skipped.
ProfileFound(content) ==
    LET named   == [req.new EXCEPT !.ns = Reference(req.new).ns]
        cleared == ClearOnChange(named, ProfileChanged)
        sized   == ApplyIdentifiers(cleared, content, ProfileChanged)
        first   == IsCreate \/ NewlyAdded
    IN  IF Mismatched(named)
        THEN Continue("admitted", [Strand(named, ProfileChanged) EXCEPT !.skipped = @ \/ first])
        ELSE IF AppliesDRA(first, ProfileChanged) /\ content.dra # ""
        THEN req' = [req EXCEPT !.stage = "template", !.new = sized, !.content = content]
        ELSE Continue("admitted", ApplyScheduling(sized, content))

FetchProfile ==
    /\ At("profile")
    /\ Profile(Reference(req.new)) # NoProfile
    /\ ProfileFound(Profile(Reference(req.new)))
    /\ UNCHANGED <<nb, profiles, templates, writes, edits, faults>>

\* handleFetchError: the profile is gone, or the Get fails.  A Notebook that
\* already named a profile of that name passes unchanged, any other is refused.
FetchProfileFails ==
    /\ At("profile")
    /\ \/ Profile(Reference(req.new)) = NoProfile /\ UNCHANGED faults
       \/ Fault
    /\ IF StaleReference THEN Continue("admitted", Strand(req.new, ProfileChanged)) ELSE Refuse
    /\ UNCHANGED <<nb, profiles, templates, writes, edits>>

\* handleHWPRemoval: the reference is gone, its former profile says what to
\* take out.
FetchOldProfile ==
    /\ At("oldProfile")
    /\ LET content == Profile(Reference(req.old))
       IN  /\ content # NoProfile
           /\ Continue("admitted", [RemoveHWPSettings(req.new, content) EXCEPT !.ns = "",
                                                                            !.skipped = FALSE])
    /\ UNCHANGED <<nb, profiles, templates, writes, edits, faults>>

\* Without the profile only the claim, whose name is known, is taken out.
FetchOldProfileFails ==
    /\ At("oldProfile")
    /\ \/ Profile(Reference(req.old)) = NoProfile /\ UNCHANGED faults
       \/ Fault
    /\ Continue("admitted", [RemoveDRA(req.new) EXCEPT !.ns = "", !.skipped = FALSE])
    /\ UNCHANGED <<nb, profiles, templates, writes, edits>>

\* fetchResourceClaimTemplate, then the claim and the scheduling.
FetchTemplate ==
    /\ At("template")
    /\ req.content.dra \in templates
    /\ Continue("admitted", ApplyScheduling(SetDRA(req.new, req.content.dra), req.content))
    /\ UNCHANGED <<nb, profiles, templates, writes, edits, faults>>

FetchTemplateFails ==
    /\ At("template")
    /\ \/ req.content.dra \notin templates /\ UNCHANGED faults
       \/ Fault
    /\ Refuse
    /\ UNCHANGED <<nb, profiles, templates, writes, edits>>

\* The API server stores the admitted object unless another write overtook it.
Commit ==
    /\ At("admitted")
    /\ nb' = IF nb = req.old THEN req.new ELSE nb
    /\ req' = NoRequest
    /\ UNCHANGED <<profiles, templates, writes, edits, faults>>

----------------------------------------------------------------------------
Environment ==
    \/ \E name \in ProfileNames \cup {""}, ns \in {"", "shared"} :
          Refer(name, ns) \/ \E layout \in Layouts : Create(name, ns, layout)
    \/ \E layout \in Layouts : Relayout(layout)
    \/ \E c \in UNION Layouts : EditOwn(c)
    \/ \E finalizer \in BOOLEAN : DeleteNotebook(finalizer)
    \/ \E ref \in DOMAIN profiles, content \in Contents \cup {NoProfile} : EditProfile(ref, content)
    \/ \E template \in Templates : DeleteTemplate(template)
    \/ Commit

Handler ==
    \/ FetchProfile \/ FetchProfileFails \/ FetchOldProfile \/ FetchOldProfileFails
    \/ FetchTemplate \/ FetchTemplateFails

Next == Environment \/ Handler

Spec == Init /\ [][Next]_vars

----------------------------------------------------------------------------
(* Properties *)

Alive(n) == n # NoNotebook /\ ~n.deleting

\* The DRA claim on a Notebook was taken from the profile, by namespace and
\* name, that the Notebook refers to: no order of switching, dropping and
\* re-selecting profiles, with profiles deleted and edited in between, leaves
\* the claim of another profile.  Two kinds of switch are excepted because the
\* code admits them unapplied: no container bears the Notebook's name
\* (mutating.go:161-196), or the new profile cannot be read and its namesake in
\* another namespace was the old one (mutating.go:904-916).
ClaimOfReference ==
    Alive(nb) /\ nb.claim # "" => nb.claimFrom = Reference(nb) \/ nb.skipped

\* A Notebook that names no profile holds no managed claim, whatever became of
\* the profile it named.  While no profile has changed and no Get has failed it
\* holds no queue, nodeSelector or toleration of one either, over any sequence
\* of selecting, switching and dropping profiles.  Scheduling may stay from a
\* profile that was edited or deleted since (mutating.go:481-489), and where a
\* switch was admitted unapplied.
RemovalLeavesNothing ==
    Alive(nb) /\ nb.name = "" =>
        /\ nb.claim = ""
        /\ edits = 0 /\ faults = 0 /\ ~nb.strayed =>
              nb.queue = "" /\ nb.sel = "" /\ nb.tols \subseteq {"own"}

\* No container refers to a managed claim the pod does not declare: such a pod
\* is invalid and the workbench does not start (removeDRAFromNotebook,
\* mutating.go:730-735).
NoDanglingClaim ==
    Alive(nb) =>
        \A c \in DOMAIN nb.containers : DraClaim \in nb.containers[c].claims => nb.claim # ""

\* An admission leaves alone what is not the webhook's: the containers other
\* than the main one, and the claims users put on the main one, also where
\* the resources are reset for a new profile.
UserPartKept ==
    At("admitted") =>
        LET sent == req.sent.containers
            got  == req.new.containers
        IN  /\ DOMAIN got = DOMAIN sent
            /\ \A c \in DOMAIN sent :
                  /\ got[c].claims \ {DraClaim} = sent[c].claims \ {DraClaim}
                  /\ c \notin Main(req.new) => got[c] = sent[c]

\* An edit of a profile has no effect on the claims of Notebooks that already
\* name it (mutating.go:945-951): as long as the reference stays, so does the
\* claim.
NoRetroactiveDRA ==
    [][/\ Alive(nb) /\ nb' # NoNotebook
       /\ nb.name # "" /\ Reference(nb') = Reference(nb)
       => nb'.claim = nb.claim]_vars

=============================================================================
