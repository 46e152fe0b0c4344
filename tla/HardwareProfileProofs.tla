----------------------- MODULE HardwareProfileProofs ------------------------
(***************************************************************************)
(* What the hardware profile webhook does to a Notebook, for every set of  *)
(* profiles, templates and container layouts and every bound.              *)
(*                                                                         *)
(* The webhook keeps no state, so the invariant is about the objects: what *)
(* every stored Notebook satisfies (Settled), and what an admission has    *)
(* made of the object it was sent, relative to the object it was admitted  *)
(* against (Underway).                                                     *)
(* That a removal leaves no scheduling needs one more part: until a        *)
(* profile is edited or a Get fails, what lies on a Notebook is no more    *)
(* than its profile says (TidyInv).                                        *)
(***************************************************************************)
EXTENDS HardwareProfileWebhook, TLAPS

-----------------------------------------------------------------------------
(* The invariant *)

Tolerations == (UNION {content.tols : content \in Contents}) \cup {"own"}
Queues      == {content.queue : content \in Contents} \cup {""}
Selectors   == {content.sel : content \in Contents} \cup {""}
Resources   == [request : Nat, limit : Nat, claims : SUBSET {DraClaim, "own"}]

Notebooks ==
    [name : ProfileNames \cup {""}, ns : {"", "home", "shared"}, queue : Queues, sel : Selectors,
     tols : SUBSET Tolerations, claim : Templates \cup {""},
     containers : UNION {[layout -> Resources] : layout \in Layouts}, deleting : BOOLEAN,
     claimFrom : Refs \cup {NoReference}, skipped : BOOLEAN, strayed : BOOLEAN]

Requests ==
    [old : Notebooks \cup {NoNotebook}, sent : Notebooks, new : Notebooks,
     content : Contents \cup {NoProfile},
     stage : {"profile", "oldProfile", "template", "admitted"}]

\* The claim on a Notebook was taken from the profile it refers to, unless the
\* reference was admitted unapplied, and one that names none has none.
Claimed(n) ==
    /\ n.claim # "" => n.claimFrom = Reference(n) \/ n.skipped
    /\ n.name = "" => n.claim = ""

WellFormed(n) ==
    /\ n \in Notebooks
    /\ n.claim # "" <=> n.claimFrom # NoReference

\* The containers that use the managed claim.
DraIn(n) == {c \in DOMAIN n.containers : DraClaim \in n.containers[c].claims}

\* A Notebook with one container names it after itself.
NamedMain == \A layout \in Layouts : Cardinality(layout) = 1 => layout = {"nb"}

\* Then the managed claim is only ever used by the container of that name, and
\* only while the pod declares it.
Tied(n) == NamedMain => DraIn(n) \subseteq {"nb"} /\ (n.claim = "" => DraIn(n) = {})

Settled(n) == WellFormed(n) /\ Tied(n) /\ (~n.deleting => Claimed(n))

\* From n to m only the main container's resources and its managed claim change.
SamePart(n, m) ==
    /\ DOMAIN m.containers = DOMAIN n.containers
    /\ \A c \in DOMAIN n.containers :
          /\ m.containers[c].claims \ {DraClaim} = n.containers[c].claims \ {DraClaim}
          /\ c \notin Main(n) => m.containers[c] = n.containers[c]

\* The object admitted against, and the claim the new one brings from it.
Brings(r) ==
    /\ r.old = NoNotebook => r.new.claim = ""
    /\ r.old # NoNotebook =>
          /\ Settled(r.old) /\ r.new.deleting = r.old.deleting
          /\ r.new.claim = r.old.claim /\ r.new.claimFrom = r.old.claimFrom
          /\ r.new.skipped = r.old.skipped

\* The reference is not the one the old object had.
Switched(r) ==
    r.old # NoNotebook => r.old.name = "" \/ Reference(r.new) # Reference(r.old)

\* An admitted object has the claim of the old one if its reference is the same.
Faithful(r) ==
    /\ Settled(r.new)
    /\ r.old # NoNotebook /\ ~r.old.deleting /\ r.old.name # ""
          /\ Reference(r.new) = Reference(r.old) => r.new.claim = r.old.claim

Underway(r) ==
    /\ r \in Requests /\ WellFormed(r.new) /\ Tied(r.new)
    /\ WellFormed(r.sent) /\ SamePart(r.sent, r.new)
    /\ r.stage = "profile" => r.new.name # "" /\ ~r.new.deleting /\ Brings(r)
    /\ r.stage = "oldProfile" =>
          /\ r.new.name = "" /\ ~r.new.deleting
          /\ r.old # NoNotebook /\ r.old.name # ""
    /\ r.stage = "template" =>
          r.new.name # "" /\ ~r.new.deleting /\ r.content \in Contents /\ Switched(r)
    /\ r.stage = "admitted" => Faithful(r)

ProfileInv ==
    /\ nb # NoNotebook => Settled(nb)
    /\ req # NoRequest => Underway(req)
    /\ profiles \in [DOMAIN InitialProfiles -> Contents \cup {NoProfile}]
    /\ templates \subseteq Templates
    /\ {writes, edits, faults} \subseteq Nat

-----------------------------------------------------------------------------
(* The containers *)

\* The containers of a Notebook are those of one layout.
LEMMA ContainersType ==
    ASSUME NEW n \in Notebooks
    PROVE  /\ DOMAIN n.containers \in Layouts
           /\ n.containers \in [DOMAIN n.containers -> Resources]
  BY DEF Notebooks

\* Other resources in the same containers, and nothing else changed.
LEMMA OtherContainers ==
    ASSUME NEW n \in Notebooks, NEW f \in [DOMAIN n.containers -> Resources]
    PROVE  LET m == [n EXCEPT !.containers = f]
           IN  /\ m \in Notebooks /\ m.containers = f /\ DOMAIN f = DOMAIN n.containers
               /\ m.name = n.name /\ m.ns = n.ns /\ m.queue = n.queue /\ m.sel = n.sel
               /\ m.tols = n.tols /\ m.claim = n.claim /\ m.deleting = n.deleting
               /\ m.claimFrom = n.claimFrom /\ m.skipped = n.skipped /\ m.strayed = n.strayed
<1>1. DOMAIN n.containers \in Layouts
  BY ContainersType
<1>2. f \in UNION {[layout -> Resources] : layout \in Layouts}
  BY <1>1
<1>. QED BY <1>2 DEF Notebooks

\* m is n with other resources in its containers.
Reworked(n, m) ==
    /\ m \in Notebooks
    /\ m.name = n.name /\ m.ns = n.ns /\ m.queue = n.queue /\ m.sel = n.sel
    /\ m.tols = n.tols /\ m.claim = n.claim /\ m.deleting = n.deleting
    /\ m.claimFrom = n.claimFrom /\ m.skipped = n.skipped /\ m.strayed = n.strayed
    /\ SamePart(n, m)

\* Main depends on the containers' names alone.
LEMMA SameMain ==
    ASSUME NEW n, NEW m, DOMAIN m.containers = DOMAIN n.containers
    PROVE  Main(m) = Main(n)
  BY DEF Main

LEMMA SamePartTransitive ==
    ASSUME NEW n, NEW m, NEW k, SamePart(n, m), SamePart(m, k)
    PROVE  SamePart(n, k)
<1>1. Main(m) = Main(n)
  BY SameMain DEF SamePart
<1>. QED BY <1>1 DEF SamePart

\* setContainerResourceClaims.
LEMMA SetContainerClaimEffect ==
    ASSUME NEW n \in Notebooks
    PROVE  /\ Reworked(n, SetContainerClaim(n))
           /\ DraIn(SetContainerClaim(n)) \subseteq DraIn(n) \cup Main(n)
<1>. DEFINE f == [c \in DOMAIN n.containers |->
                    IF c \in Main(n)
                    THEN [n.containers[c] EXCEPT !.claims = @ \cup {DraClaim}]
                    ELSE n.containers[c]]
<1>1. SetContainerClaim(n) = [n EXCEPT !.containers = f]
  BY DEF SetContainerClaim, OnMain, Notebooks
<1>2. n.containers \in [DOMAIN n.containers -> Resources]
  BY ContainersType
<1>3. ASSUME NEW c \in DOMAIN n.containers
      PROVE  /\ f[c] \in Resources
             /\ f[c].claims \ {DraClaim} = n.containers[c].claims \ {DraClaim}
             /\ DraClaim \in f[c].claims => DraClaim \in n.containers[c].claims \/ c \in Main(n)
             /\ c \notin Main(n) => f[c] = n.containers[c]
  BY <1>2 DEF Resources
<1>4. f \in [DOMAIN n.containers -> Resources]
  BY <1>3
<1>5. f = SetContainerClaim(n).containers /\ DOMAIN f = DOMAIN n.containers
  BY <1>1, <1>4, OtherContainers
<1>6. SamePart(n, SetContainerClaim(n))
  BY <1>3, <1>5 DEF SamePart
<1>7. DraIn(SetContainerClaim(n)) \subseteq DraIn(n) \cup Main(n)
  BY <1>3, <1>5 DEF DraIn
<1>. HIDE DEF f
<1>. QED BY <1>1, <1>4, <1>6, <1>7, OtherContainers DEF Reworked

\* removeContainerResourceClaims.
LEMMA RemoveContainerClaimEffect ==
    ASSUME NEW n \in Notebooks
    PROVE  /\ Reworked(n, RemoveContainerClaim(n))
           /\ DraIn(RemoveContainerClaim(n)) \subseteq DraIn(n) \ Main(n)
<1>. DEFINE f == [c \in DOMAIN n.containers |->
                    IF c \in Main(n)
                    THEN [n.containers[c] EXCEPT !.claims = @ \ {DraClaim}]
                    ELSE n.containers[c]]
<1>1. RemoveContainerClaim(n) = [n EXCEPT !.containers = f]
  BY DEF RemoveContainerClaim, OnMain, Notebooks
<1>2. n.containers \in [DOMAIN n.containers -> Resources]
  BY ContainersType
<1>3. ASSUME NEW c \in DOMAIN n.containers
      PROVE  /\ f[c] \in Resources
             /\ f[c].claims \ {DraClaim} = n.containers[c].claims \ {DraClaim}
             /\ DraClaim \in f[c].claims =>
                    DraClaim \in n.containers[c].claims /\ c \notin Main(n)
             /\ c \notin Main(n) => f[c] = n.containers[c]
  BY <1>2 DEF Resources
<1>4. f \in [DOMAIN n.containers -> Resources]
  BY <1>3
<1>5. f = RemoveContainerClaim(n).containers /\ DOMAIN f = DOMAIN n.containers
  BY <1>1, <1>4, OtherContainers
<1>6. SamePart(n, RemoveContainerClaim(n))
  BY <1>3, <1>5 DEF SamePart
<1>7. DraIn(RemoveContainerClaim(n)) \subseteq DraIn(n) \ Main(n)
  BY <1>3, <1>5 DEF DraIn
<1>. HIDE DEF f
<1>. QED BY <1>1, <1>4, <1>6, <1>7, OtherContainers DEF Reworked

\* applyIdentifiersToContainer never adds a claim and never drops a user's.
LEMMA ApplyIdentifiersEffect ==
    ASSUME NEW n \in Notebooks, NEW content \in Contents, NEW changed \in BOOLEAN
    PROVE  /\ Reworked(n, ApplyIdentifiers(n, content, changed))
           /\ DraIn(ApplyIdentifiers(n, content, changed)) \subseteq DraIn(n)
<1>. DEFINE from(c) == IF changed THEN ResetResources(n.containers[c]) ELSE n.containers[c]
            request(c) == IF from(c).request = 0 THEN content.count ELSE from(c).request
            f == [c \in DOMAIN n.containers |->
                    IF c \in Main(n)
                    THEN [from(c) EXCEPT !.request = request(c),
                                         !.limit = IF @ = 0 THEN request(c) ELSE @]
                    ELSE n.containers[c]]
<1>1. CASE content.count = 0
  BY <1>1 DEF ApplyIdentifiers, Reworked, SamePart
<1>2. CASE content.count # 0
  <2>1. ApplyIdentifiers(n, content, changed) = [n EXCEPT !.containers = f]
    BY <1>2 DEF ApplyIdentifiers, OnMain, Notebooks
  <2>2. content.count \in Nat
    BY HardwareProfileAssumption DEF ContentRecords
  <2>3. n.containers \in [DOMAIN n.containers -> Resources]
    BY ContainersType
  <2>4. ASSUME NEW c \in DOMAIN n.containers
        PROVE  /\ f[c] \in Resources
               /\ f[c].claims \ {DraClaim} = n.containers[c].claims \ {DraClaim}
               /\ DraClaim \in f[c].claims => DraClaim \in n.containers[c].claims
               /\ c \notin Main(n) => f[c] = n.containers[c]
    <3>1. /\ from(c) \in Resources
          /\ from(c).claims \ {DraClaim} = n.containers[c].claims \ {DraClaim}
          /\ DraClaim \in from(c).claims => DraClaim \in n.containers[c].claims
      BY <2>3 DEF ResetResources, NoResources, Resources
    <3>2. request(c) \in Nat
      BY <2>2, <3>1 DEF Resources
    <3>. HIDE DEF from
    <3>. QED BY <2>3, <3>1, <3>2 DEF Resources
  <2>5. f \in [DOMAIN n.containers -> Resources]
    BY <2>4
  <2>. DEFINE m == ApplyIdentifiers(n, content, changed)
  <2>. HIDE DEF f
  <2>6. m.containers = f /\ DOMAIN f = DOMAIN n.containers
    BY <2>1, <2>5, OtherContainers
  <2>. HIDE DEF m
  <2>7. SamePart(n, m)
    BY <2>4, <2>6 DEF SamePart
  <2>8. DraIn(m) \subseteq DraIn(n)
    BY <2>4, <2>6 DEF DraIn
  <2>. USE DEF m
  <2>. QED BY <2>1, <2>5, <2>7, <2>8, OtherContainers DEF Reworked
<1>. QED BY <1>1, <1>2

-----------------------------------------------------------------------------
(* The parts of an admission *)

\* The fields of a content.
LEMMA ContentType ==
    ASSUME NEW content \in Contents
    PROVE  content.queue \in Queues /\ content.sel \in Selectors /\ content.tols \subseteq Tolerations
  BY DEF Queues, Selectors, Tolerations

\* Reworked containers do not disturb the claim.
LEMMA ReworkedKeeps ==
    ASSUME NEW n, NEW m, Reworked(n, m), WellFormed(n)
    PROVE  WellFormed(m)
  BY DEF Reworked, WellFormed

\* removeDRAFromNotebook.
LEMMA RemoveDRAEffect ==
    ASSUME NEW n, WellFormed(n)
    PROVE  LET m == RemoveDRA(n)
           IN  /\ WellFormed(m) /\ SamePart(n, m) /\ DraIn(m) \subseteq DraIn(n) \ Main(n)
               /\ m.name = n.name /\ m.ns = n.ns /\ m.deleting = n.deleting
               /\ m.claim = "" /\ m.skipped = n.skipped /\ m.strayed = n.strayed
               /\ m.queue = n.queue /\ m.sel = n.sel /\ m.tols = n.tols
<1>1. PICK k : k = RemoveContainerClaim(n)
  OBVIOUS
<1>2. Reworked(n, k) /\ DraIn(k) \subseteq DraIn(n) \ Main(n)
  BY <1>1, RemoveContainerClaimEffect DEF WellFormed
<1>3. WellFormed(k)
  BY <1>2, ReworkedKeeps
<1>4. PICK m : m = [k EXCEPT !.claim = "", !.claimFrom = NoReference]
  OBVIOUS
<1>5. /\ m \in Notebooks /\ m.claim = "" /\ m.claimFrom = NoReference
      /\ m.containers = k.containers /\ m.name = k.name /\ m.ns = k.ns /\ m.deleting = k.deleting
      /\ m.skipped = k.skipped /\ m.strayed = k.strayed
      /\ m.queue = k.queue /\ m.sel = k.sel /\ m.tols = k.tols
  BY <1>3, <1>4 DEF WellFormed, Notebooks
<1>6. WellFormed(m)
  BY <1>3, <1>5 DEF WellFormed
<1>7. SamePart(n, m) /\ DraIn(m) \subseteq DraIn(n) \ Main(n)
  BY <1>2, <1>5 DEF Reworked, SamePart, DraIn
<1>8. m = RemoveDRA(n)
  BY <1>1, <1>4 DEF RemoveDRA
<1>. QED BY <1>2, <1>5, <1>6, <1>7, <1>8 DEF Reworked

\* A Notebook that names a profile refers to one.
LEMMA ReferenceType ==
    ASSUME NEW n \in Notebooks, n.name # ""
    PROVE  Reference(n) \in Refs /\ Reference(n) # NoReference
<1>1. n.name \in ProfileNames /\ n.ns \in {"", "home", "shared"}
  BY DEF Notebooks
<1>2. Reference(n).name = n.name /\ NoReference.name = ""
  BY DEF Reference, NoReference
<1>3. Reference(n) \in Refs
  BY <1>1 DEF Reference, Refs
<1>. QED BY <1>2, <1>3

\* The end of applyDRAToNotebook.
LEMMA SetDRAEffect ==
    ASSUME NEW n, WellFormed(n), n.name # "", NEW template \in Templates
    PROVE  LET m == SetDRA(n, template)
           IN  /\ WellFormed(m) /\ SamePart(n, m) /\ DraIn(m) \subseteq DraIn(n) \cup Main(n)
               /\ m.name = n.name /\ m.ns = n.ns /\ m.deleting = n.deleting
               /\ m.claim = template /\ m.claimFrom = Reference(n) /\ m.strayed = n.strayed
               /\ m.queue = n.queue /\ m.sel = n.sel /\ m.tols = n.tols
<1>1. PICK k : k = SetContainerClaim(n)
  OBVIOUS
<1>2. Reworked(n, k) /\ DraIn(k) \subseteq DraIn(n) \cup Main(n)
  BY <1>1, SetContainerClaimEffect DEF WellFormed
<1>3. WellFormed(k)
  BY <1>2, ReworkedKeeps
<1>4. PICK ref : ref = Reference(n)
  OBVIOUS
<1>5. ref \in Refs /\ ref # NoReference
  BY <1>4, ReferenceType DEF WellFormed
<1>6. PICK m : m = [k EXCEPT !.claim = template, !.claimFrom = ref]
  OBVIOUS
<1>7. /\ m \in Notebooks /\ m.claim = template /\ m.claimFrom = ref
      /\ m.containers = k.containers /\ m.name = k.name /\ m.ns = k.ns
      /\ m.deleting = k.deleting /\ m.strayed = k.strayed
      /\ m.queue = k.queue /\ m.sel = k.sel /\ m.tols = k.tols
  BY <1>3, <1>6, <1>5 DEF WellFormed, Notebooks
<1>8. template # ""
  BY HardwareProfileAssumption
<1>9. WellFormed(m)
  BY <1>3, <1>7, <1>8, <1>5 DEF WellFormed
<1>10. SamePart(n, m) /\ DraIn(m) \subseteq DraIn(n) \cup Main(n)
  BY <1>2, <1>7 DEF Reworked, SamePart, DraIn
<1>11. m = SetDRA(n, template)
  BY <1>1, <1>6, <1>4 DEF SetDRA
<1>. QED BY <1>2, <1>7, <1>9, <1>10, <1>11, <1>4 DEF Reworked

\* A changed reference takes the claim and all scheduling out.
LEMMA ClearEffect ==
    ASSUME NEW n, WellFormed(n), NEW changed \in BOOLEAN
    PROVE  LET m == ClearOnChange(n, changed)
           IN  /\ WellFormed(m) /\ SamePart(n, m) /\ DraIn(m) \subseteq DraIn(n)
               /\ m.name = n.name /\ m.ns = n.ns /\ m.deleting = n.deleting
               /\ changed => /\ m.claim = "" /\ m.queue = "" /\ m.sel = "" /\ m.tols = {}
                             /\ DraIn(m) \subseteq DraIn(n) \ Main(n)
               /\ ~changed => m = n
<1>1. CASE ~changed
  BY <1>1 DEF ClearOnChange, SamePart
<1>2. CASE changed
  <2>1. PICK k : k = [n EXCEPT !.queue = "", !.sel = "", !.tols = {}, !.skipped = FALSE,
                               !.strayed = FALSE]
    OBVIOUS
  <2>2. /\ k \in Notebooks /\ k.queue = "" /\ k.sel = "" /\ k.tols = {}
        /\ k.name = n.name /\ k.ns = n.ns /\ k.deleting = n.deleting /\ k.claim = n.claim
        /\ k.claimFrom = n.claimFrom /\ k.containers = n.containers
    <3>1. n \in Notebooks /\ "" \in Queues /\ "" \in Selectors
      BY DEF WellFormed, Queues, Selectors
    <3>. QED BY <2>1, <3>1 DEF Notebooks
  <2>3. WellFormed(k)
    BY <2>2 DEF WellFormed
  <2>4. SamePart(n, k) /\ DraIn(k) = DraIn(n) /\ Main(k) = Main(n)
    BY <2>2 DEF SamePart, DraIn, Main
  <2>5. PICK m : m = RemoveDRA(k)
    OBVIOUS
  <2>6. /\ WellFormed(m) /\ SamePart(k, m) /\ DraIn(m) \subseteq DraIn(k) \ Main(k)
        /\ m.name = k.name /\ m.ns = k.ns /\ m.deleting = k.deleting /\ m.claim = ""
        /\ m.queue = k.queue /\ m.sel = k.sel /\ m.tols = k.tols
    BY <2>3, <2>5, RemoveDRAEffect
  <2>7. SamePart(n, m)
    BY <2>4, <2>6, SamePartTransitive
  <2>8. m = ClearOnChange(n, changed)
    BY <1>2, <2>1, <2>5 DEF ClearOnChange
  <2>. QED BY <1>2, <2>2, <2>4, <2>6, <2>7, <2>8
<1>. QED BY <1>1, <1>2

\* Scheduling is written over what was there.
LEMMA SchedulingEffect ==
    ASSUME NEW n, WellFormed(n), NEW content \in Contents
    PROVE  LET m == ApplyScheduling(n, content)
           IN  /\ WellFormed(m) /\ m.containers = n.containers
               /\ m.name = n.name /\ m.ns = n.ns /\ m.deleting = n.deleting
               /\ m.claim = n.claim /\ m.claimFrom = n.claimFrom
               /\ m.skipped = n.skipped /\ m.strayed = n.strayed
               /\ m.queue \in {n.queue, content.queue} /\ m.sel \in {n.sel, content.sel}
               /\ m.tols \subseteq n.tols \cup content.tols
<1>1. PICK m : m = ApplyScheduling(n, content)
  OBVIOUS
<1>2. /\ m \in Notebooks /\ m.containers = n.containers
      /\ m.name = n.name /\ m.ns = n.ns /\ m.deleting = n.deleting
      /\ m.claim = n.claim /\ m.claimFrom = n.claimFrom
      /\ m.skipped = n.skipped /\ m.strayed = n.strayed
      /\ m.queue \in {n.queue, content.queue} /\ m.sel \in {n.sel, content.sel}
      /\ m.tols \subseteq n.tols \cup content.tols
  <2>1. CASE content.queue # ""
    BY <1>1, <2>1, ContentType DEF ApplyScheduling, WellFormed, Notebooks
  <2>2. CASE content.queue = ""
    <3>1. PICK sel, tols : /\ sel = (IF content.sel = "" THEN n.sel ELSE content.sel)
                           /\ tols = n.tols \cup content.tols
      OBVIOUS
    <3>2. sel \in Selectors /\ tols \subseteq Tolerations
      BY <3>1, ContentType DEF WellFormed, Notebooks
    <3>3. m = [n EXCEPT !.sel = sel, !.tols = tols]
      BY <1>1, <2>2, <3>1 DEF ApplyScheduling, MergeNode, WellFormed, Notebooks
    <3>. QED BY <3>1, <3>2, <3>3 DEF WellFormed, Notebooks
  <2>. QED BY <2>1, <2>2
<1>3. WellFormed(m)
  BY <1>2 DEF WellFormed
<1>. QED BY <1>1, <1>2, <1>3

\* No scheduling, and no more of it than a content says.
Bare(n) == n.queue = "" /\ n.sel = "" /\ n.tols \subseteq {"own"}
Within(n, content) ==
    /\ n.queue \in {"", content.queue} /\ n.sel \in {"", content.sel}
    /\ n.tols \subseteq content.tols \cup {"own"}

\* removeHWPSettings takes out the claim, and of the scheduling what the
\* profile of now would have written.
LEMMA RemovalEffect ==
    ASSUME NEW n, WellFormed(n), NEW content \in Contents,
           NEW m, m = RemoveHWPSettings(n, content)
    PROVE  /\ WellFormed(m) /\ SamePart(n, m) /\ DraIn(m) \subseteq DraIn(n) \ Main(n)
           /\ m.name = n.name /\ m.deleting = n.deleting /\ m.claim = ""
           /\ m.strayed = n.strayed /\ (Bare(n) \/ Within(n, content) => Bare(m))
<1>1. PICK queue, sel, tols :
          /\ queue = (IF content.queue # "" THEN "" ELSE n.queue)
          /\ sel = (IF n.sel = content.sel THEN "" ELSE n.sel)
          /\ tols = n.tols \ content.tols
  OBVIOUS
<1>2. queue \in Queues /\ sel \in Selectors /\ tols \subseteq Tolerations
  <2>1. n.queue \in Queues /\ n.sel \in Selectors /\ n.tols \subseteq Tolerations
    BY DEF WellFormed, Notebooks
  <2>2. "" \in Queues /\ "" \in Selectors
    BY DEF Queues, Selectors
  <2>. QED BY <1>1, <2>1, <2>2
<1>3. PICK k : k = [n EXCEPT !.queue = queue, !.sel = sel, !.tols = tols]
  OBVIOUS
<1>4. /\ k \in Notebooks /\ k.queue = queue /\ k.sel = sel /\ k.tols = tols
      /\ k.name = n.name /\ k.deleting = n.deleting /\ k.claim = n.claim
      /\ k.claimFrom = n.claimFrom /\ k.containers = n.containers /\ k.strayed = n.strayed
  BY <1>2, <1>3 DEF WellFormed, Notebooks
<1>5. WellFormed(k)
  BY <1>4 DEF WellFormed
<1>6. SamePart(n, k) /\ DraIn(k) = DraIn(n) /\ Main(k) = Main(n)
  BY <1>4 DEF SamePart, DraIn, Main
<1>7. m = RemoveDRA(k)
  BY <1>1, <1>3 DEF RemoveHWPSettings, WellFormed, Notebooks
<1>8. /\ WellFormed(m) /\ SamePart(k, m) /\ DraIn(m) \subseteq DraIn(k) \ Main(k)
      /\ m.name = k.name /\ m.deleting = k.deleting /\ m.claim = "" /\ m.strayed = k.strayed
      /\ m.queue = k.queue /\ m.sel = k.sel /\ m.tols = k.tols
  BY <1>5, <1>7, RemoveDRAEffect
<1>9. SamePart(n, m)
  BY <1>6, <1>8, SamePartTransitive
<1>10. Bare(n) \/ Within(n, content) => Bare(m)
  BY <1>1, <1>4, <1>8 DEF Bare, Within
<1>. QED BY <1>4, <1>6, <1>8, <1>9, <1>10

\* A switch that is not applied changes the history alone.
LEMMA StrandEffect ==
    ASSUME NEW n, WellFormed(n), NEW changed \in BOOLEAN
    PROVE  LET m == Strand(n, changed)
           IN  /\ WellFormed(m) /\ m.containers = n.containers
               /\ m.name = n.name /\ m.ns = n.ns /\ m.deleting = n.deleting
               /\ m.claim = n.claim /\ m.claimFrom = n.claimFrom
               /\ changed => m.skipped = TRUE /\ m.strayed = TRUE
               /\ ~changed => m = n
  BY DEF Strand, WellFormed, Notebooks

\* Without a second container of another name there is one candidate.
LEMMA MainIsNamed ==
    ASSUME NamedMain, NEW n \in Notebooks
    PROVE  Main(n) = {"nb"} \cap DOMAIN n.containers
  BY ContainersType DEF NamedMain, Main

\* The namespace annotation is filled in.
LEMMA NamespaceEffect ==
    ASSUME NEW n, WellFormed(n)
    PROVE  LET m == [n EXCEPT !.ns = Reference(n).ns]
           IN  /\ WellFormed(m) /\ m.containers = n.containers
               /\ Reference(m) = Reference(n) /\ m.name = n.name
               /\ m.claim = n.claim /\ m.claimFrom = n.claimFrom
               /\ m.deleting = n.deleting /\ m.skipped = n.skipped /\ m.strayed = n.strayed
               /\ m.queue = n.queue /\ m.sel = n.sel /\ m.tols = n.tols
<1>1. PICK m : m = [n EXCEPT !.ns = Reference(n).ns]
  OBVIOUS
<1>2. /\ m \in Notebooks /\ m.containers = n.containers
      /\ Reference(m) = Reference(n) /\ m.name = n.name
      /\ m.claim = n.claim /\ m.claimFrom = n.claimFrom
      /\ m.deleting = n.deleting /\ m.skipped = n.skipped /\ m.strayed = n.strayed
      /\ m.queue = n.queue /\ m.sel = n.sel /\ m.tols = n.tols
  BY <1>1 DEF WellFormed, Notebooks, Reference
<1>3. WellFormed(m)
  BY <1>2 DEF WellFormed
<1>. QED BY <1>1, <1>2, <1>3

LEMMA TiedAfterRemoval ==
    ASSUME NEW n \in Notebooks, Tied(n), NEW m, DraIn(m) \subseteq DraIn(n) \ Main(n)
    PROVE  Tied(m)
  BY MainIsNamed DEF Tied, DraIn

LEMMA TiedAfterSet ==
    ASSUME NEW n \in Notebooks, Tied(n), NEW m, DraIn(m) \subseteq DraIn(n) \cup Main(n),
           m.claim # ""
    PROVE  Tied(m)
  BY MainIsNamed DEF Tied

LEMMA TiedWithLess ==
    ASSUME NEW n, Tied(n), NEW m, DraIn(m) \subseteq DraIn(n), m.claim = n.claim
    PROVE  Tied(m)
  BY DEF Tied

-----------------------------------------------------------------------------
(* The handler *)

\* A request that is well-formed at its new stage keeps the invariant.
LEMMA RequestStep ==
    ASSUME ProfileInv, NEW r, req' = r, r # NoRequest => Underway(r),
           UNCHANGED <<nb, profiles, templates, writes, edits>>, faults' \in Nat
    PROVE  ProfileInv'
  BY DEF ProfileInv

\* A Get failed.
LEMMA FaultCounted ==
    ASSUME ProfileInv, UNCHANGED faults \/ Fault
    PROVE  faults' \in Nat
  BY DEF ProfileInv, Fault

\* Continue leads to an admitted request.
LEMMA ContinueEffect ==
    ASSUME NEW r, Underway(r), NEW n, WellFormed(n), Tied(n), SamePart(r.new, n),
           NEW k, k = [r EXCEPT !.stage = "admitted", !.new = n],
           ~n.deleting => Claimed(n),
           r.old # NoNotebook /\ ~r.old.deleting /\ r.old.name # ""
              /\ Reference(n) = Reference(r.old) => n.claim = r.old.claim
    PROVE  Underway(k)
<1>1. r \in Requests /\ n \in Notebooks
  BY DEF Underway, WellFormed
<1>2. k \in Requests
  BY <1>1 DEF Requests
<1>3. k.stage = "admitted" /\ k.new = n /\ k.old = r.old /\ k.sent = r.sent
  BY <1>1 DEF Requests
<1>4. SamePart(k.sent, n)
  BY <1>3, SamePartTransitive DEF Underway
<1>. QED BY <1>2, <1>3, <1>4 DEF Underway, Faithful, Settled

\* The profile is found: the namespace is filled in, and the claim of another
\* profile goes before a new one comes.
LEMMA FetchProfileKeeps ==
    ASSUME ProfileInv, FetchProfile
    PROVE  ProfileInv'
<1>1. PICK r : r = req
  OBVIOUS
<1>2. Underway(r) /\ r.stage = "profile"
  BY <1>1 DEF ProfileInv, FetchProfile, At
<1>3. /\ r \in Requests /\ r.new \in Notebooks /\ WellFormed(r.new) /\ Tied(r.new)
      /\ r.new.name # "" /\ ~r.new.deleting /\ Brings(r)
  BY <1>2 DEF Underway, WellFormed
<1>4. PICK content : content = Profile(Reference(r.new))
  OBVIOUS
<1>5. content \in Contents /\ ProfileFound(content)
  BY <1>1, <1>4 DEF ProfileInv, FetchProfile, Profile
<1>6. PICK first \in BOOLEAN, changed \in BOOLEAN :
         first = (IsCreate \/ NewlyAdded) /\ changed = ProfileChanged
  BY DEF IsCreate, NewlyAdded, ProfileChanged
<1>7. /\ first <=> r.old = NoNotebook \/ r.old.name = ""
      /\ changed <=> r.old # NoNotebook /\ r.old.name # "" /\ Reference(r.old) # Reference(r.new)
  BY <1>1, <1>6 DEF IsCreate, NewlyAdded, ProfileChanged
<1>8. PICK named : named = [r.new EXCEPT !.ns = Reference(r.new).ns]
  OBVIOUS
<1>9. /\ WellFormed(named) /\ named.containers = r.new.containers
      /\ Reference(named) = Reference(r.new) /\ named.name = r.new.name
      /\ named.claim = r.new.claim /\ named.claimFrom = r.new.claimFrom
      /\ named.deleting = r.new.deleting /\ named.skipped = r.new.skipped
  BY <1>3, <1>8, NamespaceEffect
<1>10. /\ named \in Notebooks /\ SamePart(r.new, named) /\ Tied(named)
       /\ Main(named) = Main(r.new)
  BY <1>3, <1>9 DEF WellFormed, SamePart, Tied, DraIn, Main
<1>11. PICK cleared : cleared = ClearOnChange(named, changed)
  OBVIOUS
<1>12. /\ WellFormed(cleared) /\ SamePart(named, cleared) /\ DraIn(cleared) \subseteq DraIn(named)
       /\ cleared.name = named.name /\ cleared.ns = named.ns /\ cleared.deleting = named.deleting
       /\ changed => cleared.claim = "" /\ DraIn(cleared) \subseteq DraIn(named) \ Main(named)
       /\ ~changed => cleared = named
  BY <1>9, <1>11, ClearEffect
<1>13. Tied(cleared)
  BY <1>9, <1>10, <1>12, TiedAfterRemoval, TiedWithLess
<1>14. PICK sized : sized = ApplyIdentifiers(cleared, content, changed)
  OBVIOUS
<1>15. Reworked(cleared, sized) /\ DraIn(sized) \subseteq DraIn(cleared)
  BY <1>5, <1>12, <1>14, ApplyIdentifiersEffect DEF WellFormed
<1>16. /\ WellFormed(sized) /\ Tied(sized) /\ SamePart(r.new, sized)
       /\ sized.name = r.new.name /\ sized.deleting = r.new.deleting
       /\ sized.claim = cleared.claim /\ Reference(sized) = Reference(r.new)
  <2>1. WellFormed(sized)
    BY <1>12, <1>15, ReworkedKeeps
  <2>2. Tied(sized)
    BY <1>13, <1>15, TiedWithLess DEF Reworked
  <2>3. SamePart(r.new, cleared)
    BY <1>10, <1>12, SamePartTransitive
  <2>4. SamePart(r.new, sized)
    BY <1>15, <2>3, SamePartTransitive DEF Reworked
  <2>5. Reference(sized) = Reference(named)
    BY <1>12, <1>15 DEF Reworked, Reference
  <2>. QED BY <1>9, <1>12, <1>15, <2>1, <2>2, <2>4, <2>5 DEF Reworked
<1>17. UNCHANGED <<nb, profiles, templates, writes, edits>> /\ faults' \in Nat
  BY DEF FetchProfile, ProfileInv
<1>18. first => r.new.claim = ""
  BY <1>3, <1>7 DEF Brings, Settled, Claimed
<1>19. ~first /\ ~changed =>
          /\ r.new.claim = r.old.claim
          /\ r.new.claim # "" => r.new.claimFrom = Reference(r.new) \/ r.new.skipped
  <2>1. SUFFICES ASSUME ~first, ~changed
                 PROVE  /\ r.new.claim = r.old.claim
                        /\ r.new.claim # "" => r.new.claimFrom = Reference(r.new) \/ r.new.skipped
    OBVIOUS
  <2>2. r.old # NoNotebook /\ Reference(r.old) = Reference(r.new)
    BY <1>7, <2>1
  <2>3. r.old.name = r.new.name
    BY <2>2 DEF Reference
  <2>. QED BY <1>3, <2>2, <2>3 DEF Brings, Settled, Claimed
<1>20. CASE Mismatched(named)
  <2>1. PICK k : k = Strand(named, changed)
    OBVIOUS
  <2>2. /\ WellFormed(k) /\ k.containers = named.containers
        /\ k.name = named.name /\ k.ns = named.ns /\ k.deleting = named.deleting
        /\ k.claim = named.claim /\ k.claimFrom = named.claimFrom
        /\ changed => k.skipped = TRUE
        /\ ~changed => k = named
    BY <1>9, <2>1, StrandEffect
  <2>3. k \in Notebooks /\ k.skipped \in BOOLEAN
    BY <2>2 DEF WellFormed, Notebooks
  <2>4. PICK skipped \in BOOLEAN : skipped = (k.skipped \/ first)
    BY <2>3
  <2>5. PICK n : n = [k EXCEPT !.skipped = skipped]
    OBVIOUS
  <2>6. /\ n \in Notebooks /\ n.containers = named.containers /\ Reference(n) = Reference(named)
        /\ n.name = named.name /\ n.claim = named.claim /\ n.claimFrom = named.claimFrom
        /\ n.deleting = named.deleting /\ n.skipped = skipped
    BY <2>2, <2>3, <2>5 DEF Notebooks, Reference
  <2>7. WellFormed(n)
    BY <2>2, <2>6 DEF WellFormed
  <2>8. SamePart(r.new, n) /\ Tied(n)
    BY <1>9, <1>10, <2>6 DEF SamePart, Tied, DraIn
  <2>9. req' = [r EXCEPT !.stage = "admitted", !.new = n]
    <3>1. n = [Strand(named, ProfileChanged) EXCEPT !.skipped = @ \/ (IsCreate \/ NewlyAdded)]
      BY <1>6, <2>1, <2>3, <2>4, <2>5 DEF Notebooks
    <3>. QED BY <1>1, <1>5, <1>8, <1>20, <3>1 DEF ProfileFound, Continue
  <2>10. Claimed(n)
    <3>1. CASE changed
      BY <1>3, <1>9, <2>2, <2>4, <2>6, <3>1 DEF Claimed
    <3>2. CASE first
      BY <1>3, <1>9, <1>18, <2>6, <3>2 DEF Claimed
    <3>3. CASE ~first /\ ~changed
      BY <1>3, <1>9, <1>19, <2>2, <2>4, <2>6, <3>3 DEF Claimed
    <3>. QED BY <3>1, <3>2, <3>3
  <2>11. r.old # NoNotebook /\ ~r.old.deleting /\ r.old.name # ""
           /\ Reference(n) = Reference(r.old) => n.claim = r.old.claim
    BY <1>7, <1>9, <1>19, <2>6
  <2>12. Underway(req')
    BY <1>2, <2>7, <2>8, <2>9, <2>10, <2>11, ContinueEffect
  <2>. QED BY <1>17, <2>9, <2>12, RequestStep
<1>21. CASE ~Mismatched(named) /\ (first \/ changed) /\ content.dra # ""
  <2>1. PICK k : k = [r EXCEPT !.stage = "template", !.new = sized, !.content = content]
    OBVIOUS
  <2>2. req' = k
    BY <1>1, <1>5, <1>6, <1>8, <1>11, <1>14, <1>21, <2>1 DEF ProfileFound, AppliesDRA
  <2>3. k \in Requests
    BY <1>3, <1>5, <1>16, <2>1 DEF Requests, WellFormed
  <2>4. /\ k.stage = "template" /\ k.new = sized /\ k.content = content
        /\ k.old = r.old /\ k.sent = r.sent
    BY <1>3, <2>1 DEF Requests
  <2>5. SamePart(r.sent, sized)
    BY <1>2, <1>16, SamePartTransitive DEF Underway
  <2>6. Switched(k)
    BY <1>7, <1>16, <1>21, <2>4 DEF Switched
  <2>7. Underway(k)
    BY <1>2, <1>3, <1>5, <1>16, <2>3, <2>4, <2>5, <2>6 DEF Underway
  <2>. QED BY <1>17, <2>2, <2>7, RequestStep
<1>22. CASE ~Mismatched(named) /\ ~((first \/ changed) /\ content.dra # "")
  <2>1. PICK n : n = ApplyScheduling(sized, content)
    OBVIOUS
  <2>2. /\ WellFormed(n) /\ n.containers = sized.containers
        /\ n.name = sized.name /\ n.ns = sized.ns /\ n.deleting = sized.deleting
        /\ n.claim = sized.claim /\ n.claimFrom = sized.claimFrom /\ n.skipped = sized.skipped
    BY <1>5, <1>16, <2>1, SchedulingEffect
  <2>3. SamePart(r.new, n) /\ Tied(n) /\ Reference(n) = Reference(sized)
    BY <1>16, <2>2 DEF SamePart, Tied, DraIn, Reference
  <2>4. req' = [r EXCEPT !.stage = "admitted", !.new = n]
    BY <1>1, <1>5, <1>6, <1>8, <1>11, <1>14, <1>22, <2>1 DEF ProfileFound, AppliesDRA, Continue
  <2>5. Claimed(n)
    <3>1. CASE changed
      BY <1>3, <1>12, <1>16, <2>2, <3>1 DEF Claimed
    <3>2. CASE ~changed
      <4>1. n.claim = r.new.claim /\ n.claimFrom = r.new.claimFrom /\ n.skipped = r.new.skipped
        BY <1>9, <1>12, <1>15, <2>2, <3>2 DEF Reworked
      <4>. QED BY <1>3, <1>16, <1>18, <1>19, <2>2, <2>3, <3>2, <4>1 DEF Claimed
    <3>. QED BY <3>1, <3>2
  <2>6. r.old # NoNotebook /\ ~r.old.deleting /\ r.old.name # ""
           /\ Reference(n) = Reference(r.old) => n.claim = r.old.claim
    BY <1>7, <1>9, <1>12, <1>16, <1>19, <2>2, <2>3
  <2>7. Underway(req')
    BY <1>2, <2>2, <2>3, <2>4, <2>5, <2>6, ContinueEffect
  <2>. QED BY <1>17, <2>4, <2>7, RequestStep
<1>. QED BY <1>20, <1>21, <1>22

\* handleFetchError admits only a name that the Notebook already had; where the
\* namespace is another one the claim stays, and the history says so.
LEMMA FetchProfileFailsKeeps ==
    ASSUME ProfileInv, FetchProfileFails
    PROVE  ProfileInv'
<1>1. PICK r : r = req
  OBVIOUS
<1>2. Underway(r) /\ r.stage = "profile"
  BY <1>1 DEF ProfileInv, FetchProfileFails, At
<1>3. /\ r \in Requests /\ r.new \in Notebooks /\ WellFormed(r.new) /\ Tied(r.new)
      /\ r.new.name # "" /\ ~r.new.deleting /\ Brings(r)
  BY <1>2 DEF Underway, WellFormed
<1>4. UNCHANGED <<nb, profiles, templates, writes, edits>> /\ faults' \in Nat
  BY FaultCounted DEF FetchProfileFails
<1>5. CASE StaleReference
  <2>1. PICK changed \in BOOLEAN : changed = ProfileChanged
    BY DEF ProfileChanged
  <2>2. /\ r.old # NoNotebook /\ r.old.name = r.new.name
        /\ changed <=> r.old.name # "" /\ Reference(r.old) # Reference(r.new)
    BY <1>1, <1>5, <2>1 DEF StaleReference, IsCreate, ProfileChanged
  <2>3. PICK n : n = Strand(r.new, changed)
    OBVIOUS
  <2>4. /\ WellFormed(n) /\ n.containers = r.new.containers /\ n.name = r.new.name
        /\ n.ns = r.new.ns /\ n.claim = r.new.claim /\ n.claimFrom = r.new.claimFrom
        /\ changed => n.skipped = TRUE
        /\ ~changed => n = r.new
    BY <1>3, <2>3, StrandEffect
  <2>5. req' = [r EXCEPT !.stage = "admitted", !.new = n]
    BY <1>1, <1>5, <2>1, <2>3 DEF FetchProfileFails, Continue
  <2>6. SamePart(r.new, n) /\ Tied(n) /\ Reference(n) = Reference(r.new)
    BY <1>3, <2>4 DEF SamePart, Tied, DraIn, Reference
  <2>7. n.claim = r.old.claim
    BY <1>3, <2>2, <2>4 DEF Brings
  <2>8. Claimed(n)
    <3>1. CASE changed
      BY <1>3, <2>4, <3>1 DEF Claimed
    <3>2. CASE ~changed
      <4>1. Reference(r.old) = Reference(r.new)
        BY <1>3, <2>2, <3>2
      <4>. QED BY <1>3, <2>2, <2>4, <3>2, <4>1 DEF Brings, Settled, Claimed
    <3>. QED BY <3>1, <3>2
  <2>9. Underway(req')
    BY <1>2, <2>4, <2>5, <2>6, <2>7, <2>8, ContinueEffect
  <2>. QED BY <1>4, <2>5, <2>9, RequestStep
<1>6. CASE ~StaleReference
  BY <1>4, <1>6, RequestStep DEF FetchProfileFails, Refuse
<1>. QED BY <1>5, <1>6

\* handleHWPRemoval, with the former profile or without it.
LEMMA RemovalKeeps ==
    ASSUME ProfileInv, FetchOldProfile \/ FetchOldProfileFails
    PROVE  ProfileInv'
<1>1. PICK r : r = req
  OBVIOUS
<1>2. Underway(r) /\ r.stage = "oldProfile"
  BY <1>1 DEF ProfileInv, FetchOldProfile, FetchOldProfileFails, At
<1>3. /\ r \in Requests /\ r.new \in Notebooks /\ WellFormed(r.new) /\ Tied(r.new)
      /\ r.new.name = "" /\ r.old # NoNotebook /\ r.old.name # ""
  BY <1>2 DEF Underway, WellFormed
<1>4. UNCHANGED <<nb, profiles, templates, writes, edits>> /\ faults' \in Nat
  BY FaultCounted DEF FetchOldProfile, FetchOldProfileFails
<1>5. PICK m : /\ WellFormed(m) /\ SamePart(r.new, m) /\ DraIn(m) \subseteq DraIn(r.new) \ Main(r.new)
               /\ m.name = "" /\ m.claim = ""
               /\ req' = [r EXCEPT !.stage = "admitted",
                                   !.new = [m EXCEPT !.ns = "", !.skipped = FALSE]]
  <2>1. CASE FetchOldProfile
    <3>1. PICK content, k : /\ content = Profile(Reference(r.old)) /\ content # NoProfile
                            /\ k = RemoveHWPSettings(r.new, content)
                            /\ req' = [r EXCEPT !.stage = "admitted",
                                                !.new = [k EXCEPT !.ns = "", !.skipped = FALSE]]
      BY <1>1, <2>1 DEF FetchOldProfile, Continue
    <3>2. content \in Contents
      BY <3>1 DEF ProfileInv, Profile
    <3>3. /\ WellFormed(k) /\ SamePart(r.new, k) /\ DraIn(k) \subseteq DraIn(r.new) \ Main(r.new)
          /\ k.name = r.new.name /\ k.claim = ""
      BY <1>3, <3>1, <3>2, RemovalEffect
    <3>. QED BY <1>3, <3>1, <3>3
  <2>2. CASE FetchOldProfileFails
    <3>1. req' = [r EXCEPT !.stage = "admitted",
                           !.new = [RemoveDRA(r.new) EXCEPT !.ns = "", !.skipped = FALSE]]
      BY <1>1, <2>2 DEF FetchOldProfileFails, Continue
    <3>. QED BY <1>3, <3>1, RemoveDRAEffect
  <2>. QED BY <2>1, <2>2
<1>6. PICK n : n = [m EXCEPT !.ns = "", !.skipped = FALSE]
  OBVIOUS
<1>7. /\ n \in Notebooks /\ n.containers = m.containers /\ n.name = "" /\ n.claim = ""
      /\ n.claimFrom = m.claimFrom
  BY <1>5, <1>6 DEF WellFormed, Notebooks
<1>8. WellFormed(n)
  BY <1>5, <1>7 DEF WellFormed
<1>9. SamePart(r.new, n) /\ DraIn(n) = DraIn(m)
  BY <1>5, <1>7 DEF SamePart, DraIn
<1>10. Tied(n)
  BY <1>3, <1>5, <1>9, TiedAfterRemoval
<1>11. Reference(n) # Reference(r.old)
  BY <1>3, <1>7 DEF Reference
<1>12. Underway(req')
  BY <1>2, <1>5, <1>6, <1>7, <1>8, <1>9, <1>10, <1>11, ContinueEffect DEF Claimed
<1>. QED BY <1>4, <1>5, <1>12, RequestStep

\* The template exists: its claim is the claim of the reference.
LEMMA FetchTemplateKeeps ==
    ASSUME ProfileInv, FetchTemplate
    PROVE  ProfileInv'
<1>1. PICK r : r = req
  OBVIOUS
<1>2. Underway(r) /\ r.stage = "template"
  BY <1>1 DEF ProfileInv, FetchTemplate, At
<1>3. /\ r \in Requests /\ r.new \in Notebooks /\ WellFormed(r.new) /\ Tied(r.new)
      /\ r.new.name # "" /\ r.content \in Contents /\ Switched(r)
  BY <1>2 DEF Underway, WellFormed
<1>4. r.content.dra \in Templates /\ r.content.dra # ""
  BY <1>1, HardwareProfileAssumption DEF FetchTemplate, ProfileInv
<1>5. PICK m : m = SetDRA(r.new, r.content.dra)
  OBVIOUS
<1>6. /\ WellFormed(m) /\ SamePart(r.new, m) /\ DraIn(m) \subseteq DraIn(r.new) \cup Main(r.new)
      /\ m.name = r.new.name /\ m.ns = r.new.ns /\ m.deleting = r.new.deleting
      /\ m.claim = r.content.dra /\ m.claimFrom = Reference(r.new)
  BY <1>3, <1>4, <1>5, SetDRAEffect
<1>7. Tied(m)
  BY <1>3, <1>4, <1>6, TiedAfterSet
<1>8. PICK n : n = ApplyScheduling(m, r.content)
  OBVIOUS
<1>9. /\ WellFormed(n) /\ n.containers = m.containers /\ n.name = m.name /\ n.ns = m.ns
      /\ n.claim = m.claim /\ n.claimFrom = m.claimFrom
  BY <1>3, <1>6, <1>8, SchedulingEffect
<1>10. SamePart(r.new, n) /\ Tied(n) /\ Reference(n) = Reference(r.new)
  BY <1>6, <1>7, <1>9 DEF SamePart, Tied, DraIn, Reference
<1>11. Claimed(n)
  BY <1>3, <1>6, <1>9, <1>10 DEF Claimed
<1>12. req' = [r EXCEPT !.stage = "admitted", !.new = n]
  BY <1>1, <1>5, <1>8 DEF FetchTemplate, Continue
<1>13. Underway(req')
  BY <1>2, <1>3, <1>9, <1>10, <1>11, <1>12, ContinueEffect DEF Switched
<1>14. UNCHANGED <<nb, profiles, templates, writes, edits>> /\ faults' \in Nat
  BY DEF FetchTemplate, ProfileInv
<1>. QED BY <1>12, <1>13, <1>14, RequestStep

LEMMA FetchTemplateFailsKeeps ==
    ASSUME ProfileInv, FetchTemplateFails
    PROVE  ProfileInv'
<1>1. UNCHANGED <<nb, profiles, templates, writes, edits>> /\ faults' \in Nat
  BY FaultCounted DEF FetchTemplateFails
<1>. QED BY <1>1, RequestStep DEF FetchTemplateFails, Refuse

-----------------------------------------------------------------------------
(* Users and administrators *)

LEMMA SubmitCounted ==
    ASSUME ProfileInv, NEW new, Submit(new)
    PROVE  writes' \in Nat
<1>1. writes \in Nat
  BY DEF ProfileInv
<1>. QED BY <1>1 DEF Submit

\* A write of the Notebook that leaves the claim alone starts an admission.
LEMMA SubmitKeeps ==
    ASSUME ProfileInv, NEW new, Submit(new), WellFormed(new), Tied(new),
           nb = NoNotebook => new.claim = "" /\ ~new.deleting,
           nb # NoNotebook => /\ new.deleting = nb.deleting /\ new.claim = nb.claim
                              /\ new.claimFrom = nb.claimFrom /\ new.skipped = nb.skipped
    PROVE  ProfileInv'
<1>1. PICK old, stage : old = nb /\ stage = FirstStage(nb, new)
  OBVIOUS
<1>2. PICK r : r = [old |-> old, sent |-> new, new |-> new, content |-> NoProfile, stage |-> stage]
  OBVIOUS
<1>3. old # NoNotebook => Settled(old)
  BY <1>1 DEF ProfileInv
<1>4. /\ r.old = old /\ r.sent = new /\ r.new = new /\ r.stage = stage
  BY <1>2
<1>5. r \in Requests
  BY <1>1, <1>2, <1>3 DEF Requests, FirstStage, Settled, WellFormed
<1>6. SamePart(new, new)
  BY DEF SamePart
<1>7. Brings(r)
  BY <1>1, <1>3, <1>4 DEF Brings
<1>8. stage = "profile" => new.name # "" /\ ~new.deleting
  BY <1>1 DEF FirstStage
<1>9. stage = "oldProfile" => new.name = "" /\ ~new.deleting /\ old # NoNotebook /\ old.name # ""
  BY <1>1 DEF FirstStage
<1>10. stage # "template"
  BY <1>1 DEF FirstStage
<1>11. stage = "admitted" => Faithful(r)
  <2>1. SUFFICES ASSUME stage = "admitted" PROVE Faithful(r)
    OBVIOUS
  <2>2. CASE new.deleting
    BY <1>1, <1>4, <2>2 DEF Faithful, Settled
  <2>3. CASE ~new.deleting
    <3>1. new.name = "" /\ (old = NoNotebook \/ old.name = "")
      BY <1>1, <2>1, <2>3 DEF FirstStage
    <3>2. new.claim = ""
      BY <1>1, <1>3, <2>3, <3>1 DEF Settled, Claimed
    <3>. QED BY <1>4, <3>1, <3>2 DEF Faithful, Settled, Claimed
  <2>. QED BY <2>2, <2>3
<1>12. Underway(r)
  BY <1>4, <1>5, <1>6, <1>7, <1>8, <1>9, <1>10, <1>11 DEF Underway
<1>13. req' = r /\ UNCHANGED <<nb, profiles, templates, edits, faults>> /\ writes' = writes + 1
  BY <1>1, <1>2 DEF Submit
<1>14. {writes', edits', faults'} \subseteq Nat
  <2>1. writes \in Nat /\ edits \in Nat /\ faults \in Nat
    BY DEF ProfileInv
  <2>2. edits' = edits /\ faults' = faults
    BY <1>13
  <2>3. writes' \in Nat
    BY SubmitCounted
  <2>. QED BY <2>1, <2>2, <2>3
<1>. QED BY <1>12, <1>13, <1>14 DEF ProfileInv

LEMMA CreateKeeps ==
    ASSUME ProfileInv, NEW name \in ProfileNames \cup {""}, NEW ns \in {"", "shared"},
           NEW layout \in Layouts, Create(name, ns, layout)
    PROVE  ProfileInv'
<1>1. PICK f : f = [c \in layout |-> NoResources]
  OBVIOUS
<1>2. f \in [layout -> Resources]
  BY <1>1 DEF NoResources, Resources
<1>3. f \in UNION {[l -> Resources] : l \in Layouts}
  BY <1>2
<1>4. PICK new : new = [Blank(layout) EXCEPT !.name = name, !.ns = ns]
  OBVIOUS
<1>5. /\ new.name = name /\ new.ns = ns /\ new.queue = "" /\ new.sel = "" /\ new.tols = {}
      /\ new.claim = "" /\ new.containers = f /\ new.deleting = FALSE /\ new.claimFrom = NoReference
      /\ new.skipped = FALSE /\ new.strayed = FALSE
  BY <1>1, <1>4 DEF Blank
<1>6. new = [name |-> name, ns |-> ns, queue |-> "", sel |-> "", tols |-> {}, claim |-> "",
             containers |-> f, deleting |-> FALSE, claimFrom |-> NoReference,
             skipped |-> FALSE, strayed |-> FALSE]
  BY <1>1, <1>4 DEF Blank
<1>7. new \in Notebooks
  BY <1>3, <1>6 DEF Notebooks, Queues, Selectors
<1>8. WellFormed(new)
  BY <1>5, <1>7 DEF WellFormed
<1>9. DraIn(new) = {}
  <2>1. \A c \in DOMAIN f : f[c].claims = {}
    BY <1>1 DEF NoResources
  <2>. QED BY <1>5, <2>1 DEF DraIn
<1>10. Tied(new)
  BY <1>9 DEF Tied
<1>11. nb = NoNotebook /\ Submit(new)
  BY <1>4 DEF Create
<1>. QED BY <1>5, <1>8, <1>10, <1>11, SubmitKeeps

LEMMA ReferKeeps ==
    ASSUME ProfileInv, NEW name \in ProfileNames \cup {""}, NEW ns \in {"", "shared"},
           Refer(name, ns)
    PROVE  ProfileInv'
<1>1. PICK new : new = [nb EXCEPT !.name = name, !.ns = ns]
  OBVIOUS
<1>2. nb # NoNotebook /\ nb \in Notebooks /\ WellFormed(nb) /\ Tied(nb)
  BY DEF Refer, ProfileInv, Settled, WellFormed
<1>3. /\ new \in Notebooks /\ new.containers = nb.containers /\ new.claim = nb.claim
      /\ new.claimFrom = nb.claimFrom /\ new.deleting = nb.deleting /\ new.skipped = nb.skipped
  BY <1>1, <1>2 DEF Notebooks
<1>4. WellFormed(new) /\ Tied(new)
  BY <1>2, <1>3 DEF WellFormed, Tied, DraIn
<1>. QED BY <1>1, <1>2, <1>3, <1>4, SubmitKeeps DEF Refer

\* New containers use no claim.
LEMMA RelayoutKeeps ==
    ASSUME ProfileInv, NEW layout \in Layouts, Relayout(layout)
    PROVE  ProfileInv'
<1>1. nb # NoNotebook /\ nb \in Notebooks /\ WellFormed(nb) /\ Tied(nb)
  BY DEF Relayout, ProfileInv, Settled, WellFormed
<1>2. PICK f : f = [c \in layout |-> IF c \in DOMAIN nb.containers THEN nb.containers[c]
                                     ELSE NoResources]
  OBVIOUS
<1>3. nb.containers \in [DOMAIN nb.containers -> Resources] /\ NoResources \in Resources
  BY <1>1 DEF Notebooks, NoResources, Resources
<1>4. f \in [layout -> Resources]
  BY <1>2, <1>3
<1>5. f \in UNION {[l -> Resources] : l \in Layouts}
  BY <1>4
<1>6. PICK new : new = [nb EXCEPT !.containers = f]
  OBVIOUS
<1>7. /\ new \in Notebooks /\ new.containers = f /\ new.claim = nb.claim
      /\ new.claimFrom = nb.claimFrom /\ new.deleting = nb.deleting /\ new.skipped = nb.skipped
  BY <1>1, <1>5, <1>6 DEF Notebooks
<1>8. DraIn(new) \subseteq DraIn(nb)
  BY <1>2, <1>7 DEF DraIn, NoResources
<1>9. WellFormed(new) /\ Tied(new)
  BY <1>1, <1>7, <1>8 DEF WellFormed, Tied
<1>10. Submit(new)
  BY <1>1, <1>2, <1>6 DEF Relayout, Notebooks
<1>. QED BY <1>1, <1>7, <1>9, <1>10, SubmitKeeps

LEMMA EditOwnKeeps ==
    ASSUME ProfileInv, NEW c, EditOwn(c)
    PROVE  ProfileInv'
<1>1. nb # NoNotebook /\ nb \in Notebooks /\ WellFormed(nb) /\ Tied(nb)
      /\ c \in DOMAIN nb.containers
  BY DEF EditOwn, ProfileInv, Settled, WellFormed
<1>2. PICK f : f = [nb.containers EXCEPT ![c] = [request |-> 3, limit |-> 3,
                                                 claims |-> @.claims \cup {"own"}]]
  OBVIOUS
<1>3. nb.containers \in [DOMAIN nb.containers -> Resources] /\ DOMAIN nb.containers \in Layouts
  BY <1>1 DEF Notebooks
<1>4. [request |-> 3, limit |-> 3, claims |-> nb.containers[c].claims \cup {"own"}] \in Resources
  BY <1>1, <1>3 DEF Resources
<1>5. f \in [DOMAIN nb.containers -> Resources]
  BY <1>1, <1>2, <1>3, <1>4
<1>6. f \in UNION {[l -> Resources] : l \in Layouts}
  BY <1>3, <1>5
<1>7. PICK new : new = [nb EXCEPT !.tols = @ \cup {"own"}, !.containers = f]
  OBVIOUS
<1>8. /\ new \in Notebooks /\ new.containers = f /\ new.claim = nb.claim
      /\ new.claimFrom = nb.claimFrom /\ new.deleting = nb.deleting /\ new.skipped = nb.skipped
  <2>1. nb.tols \subseteq Tolerations /\ "own" \in Tolerations
    <3>1. nb.tols \subseteq Tolerations
      BY <1>1 DEF Notebooks
    <3>2. "own" \in Tolerations
      BY DEF Tolerations
    <3>. QED BY <3>1, <3>2
  <2>2. PICK tols \in SUBSET Tolerations : tols = nb.tols \cup {"own"}
    BY <2>1
  <2>3. new = [nb EXCEPT !.tols = tols, !.containers = f]
    BY <1>1, <1>7, <2>2 DEF Notebooks
  <2>. QED BY <1>1, <1>6, <2>2, <2>3 DEF Notebooks
<1>9. DraIn(new) \subseteq DraIn(nb)
  BY <1>1, <1>2, <1>3, <1>8 DEF DraIn, Resources, DraClaim
<1>10. WellFormed(new) /\ Tied(new)
  BY <1>1, <1>8, <1>9 DEF WellFormed, Tied
<1>11. Submit(new)
  BY <1>1, <1>2, <1>7 DEF EditOwn, Notebooks
<1>. QED BY <1>1, <1>8, <1>10, <1>11, SubmitKeeps

\* Deleting, or marking as deleted, and committing an admitted object.
LEMMA StoreKeeps ==
    ASSUME ProfileInv, (\E finalizer \in BOOLEAN : DeleteNotebook(finalizer)) \/ Commit
    PROVE  ProfileInv'
<1>1. UNCHANGED <<profiles, templates, writes, edits, faults>>
  BY DEF DeleteNotebook, Commit
<1>2. CASE \E finalizer \in BOOLEAN : DeleteNotebook(finalizer)
  <2>1. nb \in Notebooks /\ WellFormed(nb) /\ Tied(nb)
    BY <1>2 DEF DeleteNotebook, ProfileInv, Settled, WellFormed
  <2>2. UNCHANGED req /\ (nb' = NoNotebook \/ nb' = [nb EXCEPT !.deleting = TRUE])
    BY <1>2 DEF DeleteNotebook
  <2>3. CASE nb' = [nb EXCEPT !.deleting = TRUE]
    <3>1. PICK n : n = nb'
      OBVIOUS
    <3>2. /\ n \in Notebooks /\ n.containers = nb.containers /\ n.claim = nb.claim
          /\ n.claimFrom = nb.claimFrom /\ n.deleting = TRUE
      BY <2>1, <2>3, <3>1 DEF Notebooks
    <3>3. WellFormed(n) /\ Tied(n)
      BY <2>1, <3>2 DEF WellFormed, Tied, DraIn
    <3>. QED BY <1>1, <2>2, <3>1, <3>2, <3>3 DEF ProfileInv, Settled
  <2>. QED BY <1>1, <2>2, <2>3 DEF ProfileInv
<1>3. CASE Commit
  <2>1. Settled(req.new)
    BY <1>3 DEF Commit, At, ProfileInv, Underway, Faithful
  <2>2. req' = NoRequest /\ nb' \in {nb, req.new}
    BY <1>3 DEF Commit
  <2>. QED BY <1>1, <2>1, <2>2 DEF ProfileInv
<1>. QED BY <1>2, <1>3

\* Edits of profiles and templates touch no Notebook.
LEMMA EditKeeps ==
    ASSUME ProfileInv,
           \/ \E ref \in DOMAIN profiles, content \in Contents \cup {NoProfile} :
                 EditProfile(ref, content)
           \/ \E template \in Templates : DeleteTemplate(template)
    PROVE  ProfileInv'
<1>1. UNCHANGED <<nb, req, writes, faults>>
  BY DEF EditProfile, DeleteTemplate
<1>2. edits' \in Nat
  BY DEF ProfileInv, EditProfile, DeleteTemplate
<1>3. profiles' \in [DOMAIN InitialProfiles -> Contents \cup {NoProfile}]
  BY DEF ProfileInv, EditProfile, DeleteTemplate
<1>4. templates' \subseteq Templates
  BY DEF ProfileInv, EditProfile, DeleteTemplate
<1>. QED BY <1>1, <1>2, <1>3, <1>4 DEF ProfileInv

-----------------------------------------------------------------------------
(* The scheduling, while no profile has changed and no Get has failed *)

\* What fetchHardwareProfile then returns.
Initially(ref) == IF ref \in DOMAIN InitialProfiles THEN InitialProfiles[ref] ELSE NoProfile

\* The scheduling on a Notebook is that of the profile it refers to, unless an
\* unapplied switch left some behind.
Current(n) ==
    \/ n.strayed \/ Bare(n)
    \/ /\ n.name # "" /\ Initially(Reference(n)) # NoProfile
       /\ Within(n, Initially(Reference(n)))

\* m has the scheduling of n, but for a toleration of the user's.
Carries(n, m) ==
    /\ m.queue = n.queue /\ m.sel = n.sel /\ m.tols \subseteq n.tols \cup {"own"}
    /\ m.strayed = n.strayed

Tidy(r) ==
    /\ r.old # NoNotebook /\ ~r.old.deleting => Current(r.old)
    /\ r.stage \in {"profile", "oldProfile"} =>
          IF r.old = NoNotebook THEN Bare(r.new)
          ELSE ~r.old.deleting /\ Carries(r.old, r.new)
    /\ r.stage = "template" =>
          /\ r.new.strayed \/ Bare(r.new)
          /\ r.content = Initially(Reference(r.new))
    /\ r.stage = "admitted" /\ ~r.new.deleting => Current(r.new)

TidyInv ==
    edits = 0 /\ faults = 0 =>
        /\ profiles = InitialProfiles
        /\ Alive(nb) => Current(nb)
        /\ req # NoRequest => Tidy(req)

\* An answer of the handler.
LEMMA TidyStep ==
    ASSUME ProfileInv, TidyInv, UNCHANGED <<nb, profiles, edits>>, UNCHANGED faults \/ Fault,
           NEW r, req' = r, edits = 0 /\ faults' = faults /\ faults = 0 /\ r # NoRequest => Tidy(r)
    PROVE  TidyInv'
<1>1. faults' = 0 => faults' = faults /\ faults = 0
  <2>1. faults \in Nat
    BY DEF ProfileInv
  <2>. QED BY <2>1 DEF Fault
<1>. QED BY <1>1 DEF TidyInv, Alive

LEMMA TidyAdmission ==
    ASSUME NEW r \in Requests, Tidy(r), NEW n, Current(n)
    PROVE  Tidy([r EXCEPT !.stage = "admitted", !.new = n])
<1>1. PICK k : k = [r EXCEPT !.stage = "admitted", !.new = n]
  OBVIOUS
<1>2. k.stage = "admitted" /\ k.new = n /\ k.old = r.old
  BY <1>1 DEF Requests
<1>3. Tidy(k)
  BY <1>2 DEF Tidy
<1>. QED BY <1>1, <1>3

\* The same scheduling under the same reference.
LEMMA CurrentCarried ==
    ASSUME NEW n, NEW m, Current(n), Carries(n, m), n.name = "" \/ Reference(m) = Reference(n)
    PROVE  Current(m)
<1>1. CASE n.strayed \/ Bare(n)
  BY <1>1 DEF Current, Carries, Bare
<1>2. CASE ~(n.strayed \/ Bare(n))
  <2>1. n.name # "" /\ Initially(Reference(n)) # NoProfile /\ Within(n, Initially(Reference(n)))
    BY <1>2 DEF Current
  <2>2. Reference(m) = Reference(n) /\ m.name = n.name
    BY <2>1 DEF Reference
  <2>3. Within(m, Initially(Reference(n)))
    BY <2>1 DEF Within, Carries
  <2>. QED BY <2>1, <2>2, <2>3 DEF Current
<1>. QED BY <1>1, <1>2

\* What an admission begins with.
LEMMA TidyOutset ==
    ASSUME NEW r, Tidy(r), r.stage = "profile"
    PROVE  /\ r.old = NoNotebook \/ r.old.name = "" => r.new.strayed \/ Bare(r.new)
           /\ r.old # NoNotebook /\ r.old.name # "" /\ Reference(r.old) = Reference(r.new) =>
                 Current(r.new)
<1>1. /\ r.old = NoNotebook => Bare(r.new)
      /\ r.old # NoNotebook => Carries(r.old, r.new) /\ Current(r.old)
  BY DEF Tidy
<1>2. r.old # NoNotebook /\ r.old.name = "" => r.new.strayed \/ Bare(r.new)
  <2>1. SUFFICES ASSUME r.old # NoNotebook, r.old.name = "" PROVE r.new.strayed \/ Bare(r.new)
    OBVIOUS
  <2>2. r.old.strayed \/ Bare(r.old)
    BY <1>1, <2>1 DEF Current
  <2>. QED BY <1>1, <2>1, <2>2 DEF Carries, Bare
<1>3. r.old # NoNotebook /\ Reference(r.old) = Reference(r.new) => Current(r.new)
  BY <1>1, CurrentCarried
<1>. QED BY <1>1, <1>2, <1>3

\* Scheduling written over that of the same content, or over none.
LEMMA CurrentScheduled ==
    ASSUME NEW n, WellFormed(n), NEW content \in Contents, n.name # "",
           content = Initially(Reference(n)), Current(n)
    PROVE  Current(ApplyScheduling(n, content))
<1>1. PICK m : m = ApplyScheduling(n, content)
  OBVIOUS
<1>2. /\ m.name = n.name /\ m.ns = n.ns /\ m.strayed = n.strayed
      /\ m.queue \in {n.queue, content.queue} /\ m.sel \in {n.sel, content.sel}
      /\ m.tols \subseteq n.tols \cup content.tols
  BY <1>1, SchedulingEffect
<1>3. Reference(m) = Reference(n) /\ content # NoProfile
  BY <1>2, HardwareProfileAssumption DEF Reference
<1>4. n.strayed \/ Within(n, content)
  BY DEF Current, Bare, Within
<1>5. m.strayed \/ Within(m, content)
  <2>1. CASE n.strayed
    BY <1>2, <2>1
  <2>2. CASE Within(n, content)
    BY <1>2, <2>2 DEF Within
  <2>. QED BY <1>4, <2>1, <2>2
<1>6. Current(m)
  BY <1>2, <1>3, <1>5 DEF Current
<1>. QED BY <1>1, <1>6

LEMMA TidyFetchProfile ==
    ASSUME ProfileInv, TidyInv, FetchProfile
    PROVE  TidyInv'
<1>1. PICK r : r = req
  OBVIOUS
<1>2. Underway(r) /\ r.stage = "profile"
  BY <1>1 DEF ProfileInv, FetchProfile, At
<1>3. r \in Requests /\ WellFormed(r.new) /\ r.new.name # ""
  BY <1>2 DEF Underway
<1>4. UNCHANGED <<nb, profiles, edits, faults>>
  BY DEF FetchProfile
<1>. SUFFICES ASSUME edits = 0, faults = 0 PROVE Tidy(req')
  BY <1>4, TidyStep
<1>5. Tidy(r) /\ profiles = InitialProfiles
  BY <1>1 DEF TidyInv, FetchProfile, At
<1>6. PICK content : content = Profile(Reference(r.new))
  OBVIOUS
<1>7. /\ content \in Contents /\ ProfileFound(content)
      /\ content = Initially(Reference(r.new))
  BY <1>1, <1>5, <1>6 DEF ProfileInv, FetchProfile, Profile, Initially
<1>8. PICK first \in BOOLEAN, changed \in BOOLEAN :
         first = (IsCreate \/ NewlyAdded) /\ changed = ProfileChanged
  BY DEF IsCreate, NewlyAdded, ProfileChanged
<1>9. /\ first <=> r.old = NoNotebook \/ r.old.name = ""
      /\ changed <=> r.old # NoNotebook /\ r.old.name # "" /\ Reference(r.old) # Reference(r.new)
  BY <1>1, <1>8 DEF IsCreate, NewlyAdded, ProfileChanged
<1>10. PICK named : named = [r.new EXCEPT !.ns = Reference(r.new).ns]
  OBVIOUS
<1>11. /\ WellFormed(named) /\ Reference(named) = Reference(r.new) /\ named.name = r.new.name
       /\ named.queue = r.new.queue /\ named.sel = r.new.sel /\ named.tols = r.new.tols
       /\ named.strayed = r.new.strayed
  BY <1>3, <1>10, NamespaceEffect
<1>12. first => named.strayed \/ Bare(named)
  BY <1>2, <1>5, <1>9, <1>11, TidyOutset DEF Bare
<1>13. ~changed => Current(named)
  <2>1. CASE first
    BY <1>12, <2>1 DEF Current
  <2>2. CASE ~first /\ ~changed
    <3>1. Current(r.new)
      BY <1>2, <1>5, <1>9, <2>2, TidyOutset
    <3>. QED BY <1>11, <3>1, CurrentCarried DEF Carries
  <2>. QED BY <2>1, <2>2
<1>14. CASE Mismatched(named)
  <2>1. PICK k : k = Strand(named, changed)
    OBVIOUS
  <2>2. k \in Notebooks /\ Current(k)
    BY <1>11, <1>13, <2>1, StrandEffect DEF Current, WellFormed
  <2>3. PICK n : n = [k EXCEPT !.skipped = @ \/ (IsCreate \/ NewlyAdded)]
    OBVIOUS
  <2>4. Reference(n) = Reference(k) /\ Carries(k, n)
    BY <2>2, <2>3 DEF Notebooks, Reference, Carries
  <2>5. Current(n)
    BY <2>2, <2>4, CurrentCarried
  <2>6. req' = [r EXCEPT !.stage = "admitted", !.new = n]
    BY <1>1, <1>7, <1>8, <1>10, <1>14, <2>1, <2>3 DEF ProfileFound, Continue
  <2>. QED BY <1>3, <1>5, <2>5, <2>6, TidyAdmission
<1>15. CASE ~Mismatched(named)
  <2>1. PICK cleared : cleared = ClearOnChange(named, changed)
    OBVIOUS
  <2>2. /\ WellFormed(cleared) /\ cleared.name = named.name /\ cleared.ns = named.ns
        /\ changed => Bare(cleared)
        /\ ~changed => cleared = named
    BY <1>11, <2>1, ClearEffect DEF Bare
  <2>3. PICK sized : sized = ApplyIdentifiers(cleared, content, changed)
    OBVIOUS
  <2>4. Reworked(cleared, sized)
    BY <1>7, <2>2, <2>3, ApplyIdentifiersEffect DEF WellFormed
  <2>5. /\ WellFormed(sized) /\ sized.name = named.name /\ Carries(cleared, sized)
        /\ Reference(sized) = Reference(named) /\ Reference(sized) = Reference(cleared)
        /\ Bare(cleared) => Bare(sized)
    BY <2>2, <2>4, ReworkedKeeps DEF Reworked, Reference, Carries, Bare
  <2>6. CASE (first \/ changed) /\ content.dra # ""
    <3>1. PICK k : k = [r EXCEPT !.stage = "template", !.new = sized, !.content = content]
      OBVIOUS
    <3>2. req' = k
      BY <1>1, <1>7, <1>8, <1>10, <1>15, <2>1, <2>3, <2>6, <3>1 DEF ProfileFound, AppliesDRA
    <3>3. k.stage = "template" /\ k.new = sized /\ k.content = content /\ k.old = r.old
      BY <1>3, <3>1 DEF Requests
    <3>4. sized.strayed \/ Bare(sized)
      <4>1. CASE changed
        BY <2>2, <2>5, <4>1
      <4>2. CASE ~changed
        BY <1>12, <2>2, <2>5, <2>6, <4>2 DEF Carries
      <4>. QED BY <4>1, <4>2
    <3>5. Tidy(k)
      BY <1>5, <1>7, <1>11, <2>5, <3>3, <3>4 DEF Tidy
    <3>. QED BY <3>2, <3>5
  <2>7. CASE ~((first \/ changed) /\ content.dra # "")
    <3>1. PICK n : n = ApplyScheduling(sized, content)
      OBVIOUS
    <3>2. Current(sized)
      <4>1. CASE changed
        BY <2>2, <2>5, <4>1 DEF Current
      <4>2. CASE ~changed
        BY <1>13, <2>2, <2>5, <4>2, CurrentCarried
      <4>. QED BY <4>1, <4>2
    <3>3. sized.name # "" /\ content = Initially(Reference(sized))
      BY <1>3, <1>7, <1>11, <2>5
    <3>4. Current(n)
      BY <1>7, <2>5, <3>1, <3>2, <3>3, CurrentScheduled
    <3>5.. req' = [r EXCEPT !.stage = "admitted", !.new = n]
      BY <1>1, <1>7, <1>8, <1>10, <1>15, <2>1, <2>3, <2>7, <3>1
         DEF ProfileFound, AppliesDRA, Continue
    <3>. QED BY <1>3, <1>5, <3>4, <3>5, TidyAdmission
  <2>. QED BY <2>6, <2>7
<1>. QED BY <1>14, <1>15

LEMMA TidyFetchProfileFails ==
    ASSUME ProfileInv, TidyInv, FetchProfileFails
    PROVE  TidyInv'
<1>1. PICK r : r = req
  OBVIOUS
<1>2. Underway(r) /\ r.stage = "profile" /\ r # NoRequest
  BY <1>1 DEF ProfileInv, FetchProfileFails, At
<1>3. UNCHANGED <<nb, profiles, edits>> /\ (UNCHANGED faults \/ Fault)
  BY DEF FetchProfileFails
<1>. SUFFICES ASSUME edits = 0, faults = 0, req' # NoRequest PROVE Tidy(req')
  BY <1>3, TidyStep
<1>4. Tidy(r)
  BY <1>1, <1>2 DEF TidyInv
<1>5. PICK changed \in BOOLEAN : changed = ProfileChanged
  BY DEF ProfileChanged
<1>6. StaleReference /\ req' = [r EXCEPT !.stage = "admitted", !.new = Strand(r.new, changed)]
  BY <1>1, <1>5 DEF FetchProfileFails, Continue, Refuse
<1>7. /\ r.old # NoNotebook
      /\ changed <=> r.old.name # "" /\ Reference(r.old) # Reference(r.new)
  BY <1>1, <1>5, <1>6 DEF StaleReference, IsCreate, ProfileChanged
<1>8. ~changed => Current(r.new)
  <2>1. CASE r.old.name = ""
    BY <1>2, <1>4, <2>1, TidyOutset DEF Current
  <2>2. CASE r.old.name # "" /\ ~changed
    BY <1>2, <1>4, <1>7, <2>2, TidyOutset
  <2>. QED BY <2>1, <2>2
<1>9. Current(Strand(r.new, changed))
  BY <1>2, <1>8, StrandEffect DEF Underway, Current
<1>. QED BY <1>2, <1>4, <1>6, <1>9, TidyAdmission DEF Underway

\* handleHWPRemoval: there is no more on the Notebook than the former profile
\* says.
LEMMA TidyRemoval ==
    ASSUME ProfileInv, TidyInv, FetchOldProfile \/ FetchOldProfileFails
    PROVE  TidyInv'
<1>1. PICK r : r = req
  OBVIOUS
<1>2. Underway(r) /\ r.stage = "oldProfile" /\ r # NoRequest
  BY <1>1 DEF ProfileInv, FetchOldProfile, FetchOldProfileFails, At
<1>3. r \in Requests /\ WellFormed(r.new) /\ r.old # NoNotebook /\ r.old.name # ""
  BY <1>2 DEF Underway
<1>4. UNCHANGED <<nb, profiles, edits>> /\ (UNCHANGED faults \/ Fault)
  BY DEF FetchOldProfile, FetchOldProfileFails
<1>. SUFFICES ASSUME edits = 0, faults' = faults, faults = 0 PROVE Tidy(req')
  BY <1>4, TidyStep
<1>5. Tidy(r) /\ profiles = InitialProfiles
  BY <1>1, <1>2 DEF TidyInv
<1>6. PICK content : content = Profile(Reference(r.old))
  OBVIOUS
<1>7. content = Initially(Reference(r.old)) /\ content \in Contents \cup {NoProfile}
  BY <1>5, <1>6 DEF Profile, Initially, ProfileInv
<1>8. r.new.strayed \/ Bare(r.new) \/ (content # NoProfile /\ Within(r.new, content))
  <2>1. Current(r.old) /\ Carries(r.old, r.new)
    BY <1>2, <1>3, <1>5 DEF Tidy
  <2>2. CASE r.old.strayed \/ Bare(r.old)
    BY <2>1, <2>2 DEF Carries, Bare
  <2>3. CASE content # NoProfile /\ Within(r.old, content)
    BY <2>1, <2>3 DEF Carries, Within
  <2>. QED BY <1>7, <2>1, <2>2, <2>3 DEF Current
<1>9. PICK m : /\ m \in Notebooks /\ (m.strayed \/ Bare(m))
               /\ req' = [r EXCEPT !.stage = "admitted",
                                   !.new = [m EXCEPT !.ns = "", !.skipped = FALSE]]
  <2>1. CASE FetchOldProfile
    <3>1. PICK k : k = RemoveHWPSettings(r.new, content)
      OBVIOUS
    <3>2. content # NoProfile
      BY <1>1, <1>6, <2>1 DEF FetchOldProfile
    <3>3. content \in Contents
      BY <1>7, <3>2
    <3>4. /\ WellFormed(k) /\ k.strayed = r.new.strayed
          /\ Bare(r.new) \/ Within(r.new, content) => Bare(k)
      BY <1>3, <3>1, <3>3, RemovalEffect
    <3>5. k.strayed \/ Bare(k)
      BY <1>8, <3>4
    <3>6. k \in Notebooks
      BY <3>4 DEF WellFormed
    <3>. QED BY <1>1, <1>6, <2>1, <3>1, <3>5, <3>6 DEF FetchOldProfile, Continue
  <2>2. CASE FetchOldProfileFails
    <3>1. PICK k : k = RemoveDRA(r.new)
      OBVIOUS
    <3>2. content = NoProfile
      BY <1>1, <1>6, <2>2 DEF FetchOldProfileFails, Fault
    <3>3. k \in Notebooks /\ (k.strayed \/ Bare(k))
      BY <1>3, <1>8, <3>1, <3>2, RemoveDRAEffect DEF WellFormed, Bare
    <3>. QED BY <1>1, <2>2, <3>1, <3>3 DEF FetchOldProfileFails, Continue
  <2>. QED BY <2>1, <2>2
<1>10. PICK n : n = [m EXCEPT !.ns = "", !.skipped = FALSE]
  OBVIOUS
<1>11. n.strayed = m.strayed /\ n.queue = m.queue /\ n.sel = m.sel /\ n.tols = m.tols
  BY <1>9, <1>10 DEF Notebooks
<1>12. Current(n)
  BY <1>9, <1>11 DEF Current, Bare
<1>. QED BY <1>3, <1>5, <1>9, <1>10, <1>12, TidyAdmission

LEMMA TidyTemplate ==
    ASSUME ProfileInv, TidyInv, FetchTemplate \/ FetchTemplateFails
    PROVE  TidyInv'
<1>1. PICK r : r = req
  OBVIOUS
<1>2. Underway(r) /\ r.stage = "template" /\ r # NoRequest
  BY <1>1 DEF ProfileInv, FetchTemplate, FetchTemplateFails, At
<1>3. UNCHANGED <<nb, profiles, edits>> /\ (UNCHANGED faults \/ Fault)
  BY DEF FetchTemplate, FetchTemplateFails
<1>. SUFFICES ASSUME edits = 0, faults = 0, req' # NoRequest PROVE Tidy(req')
  BY <1>3, TidyStep
<1>4. /\ r \in Requests /\ WellFormed(r.new) /\ r.new.name # "" /\ r.content \in Contents
      /\ Tidy(r) /\ (r.new.strayed \/ Bare(r.new)) /\ r.content = Initially(Reference(r.new))
  BY <1>1, <1>2 DEF TidyInv, Underway, Tidy
<1>5. FetchTemplate
  BY DEF FetchTemplateFails, Refuse
<1>6. r.content.dra \in Templates
  BY <1>1, <1>5 DEF FetchTemplate, ProfileInv
<1>7. PICK m : m = SetDRA(r.new, r.content.dra)
  OBVIOUS
<1>8. /\ WellFormed(m) /\ m.name = r.new.name /\ Reference(m) = Reference(r.new)
      /\ m.strayed \/ Bare(m)
  BY <1>4, <1>6, <1>7, SetDRAEffect DEF Reference, Bare
<1>9. PICK n : n = ApplyScheduling(m, r.content)
  OBVIOUS
<1>10. Current(m)
  BY <1>8 DEF Current
<1>11. Current(n)
  BY <1>4, <1>8, <1>9, <1>10, CurrentScheduled
<1>12. req' = [r EXCEPT !.stage = "admitted", !.new = n]
  BY <1>1, <1>5, <1>7, <1>9 DEF FetchTemplate, Continue
<1>. QED BY <1>4, <1>11, <1>12, TidyAdmission

\* Users never change the history, and of the scheduling only what is theirs.
LEMMA TidySubmit ==
    ASSUME ProfileInv, TidyInv, NEW new, Submit(new),
           nb = NoNotebook => Bare(new),
           nb # NoNotebook => new.deleting = nb.deleting /\ Carries(nb, new)
    PROVE  TidyInv'
<1>1. PICK old, stage : old = nb /\ stage = FirstStage(nb, new)
  OBVIOUS
<1>2. PICK r : r = [old |-> old, sent |-> new, new |-> new, content |-> NoProfile, stage |-> stage]
  OBVIOUS
<1>3. r.old = old /\ r.new = new /\ r.stage = stage
  BY <1>2
<1>4. req' = r /\ UNCHANGED <<nb, profiles, edits, faults>>
  BY <1>1, <1>2 DEF Submit
<1>. SUFFICES ASSUME edits = 0, faults = 0 PROVE Tidy(r)
  BY <1>4, TidyStep
<1>5. old # NoNotebook /\ ~old.deleting => Current(old)
  BY <1>1 DEF TidyInv, Alive
<1>6. stage \in {"profile", "oldProfile"} => ~new.deleting
  BY <1>1 DEF FirstStage
<1>7. stage # "template"
  BY <1>1 DEF FirstStage
<1>8. stage = "admitted" /\ ~new.deleting => Current(new)
  <2>1. SUFFICES ASSUME stage = "admitted", ~new.deleting PROVE Current(new)
    OBVIOUS
  <2>2. new.name = "" /\ (old = NoNotebook \/ old.name = "")
    BY <1>1, <2>1 DEF FirstStage
  <2>3. CASE old = NoNotebook
    BY <1>1, <2>3 DEF Current
  <2>4. CASE old # NoNotebook
    BY <1>1, <1>5, <2>1, <2>2, <2>4, CurrentCarried
  <2>. QED BY <2>3, <2>4
<1>. QED BY <1>1, <1>3, <1>5, <1>6, <1>7, <1>8 DEF Tidy

LEMMA TidyWrites ==
    ASSUME ProfileInv, TidyInv,
           \/ \E name \in ProfileNames \cup {""}, ns \in {"", "shared"} :
                 Refer(name, ns) \/ \E layout \in Layouts : Create(name, ns, layout)
           \/ \E layout \in Layouts : Relayout(layout)
           \/ \E c \in UNION Layouts : EditOwn(c)
    PROVE  TidyInv'
<1>1. nb # NoNotebook => nb \in Notebooks
  BY DEF ProfileInv, Settled, WellFormed
<1>2. ASSUME NEW name, NEW ns, Refer(name, ns) PROVE TidyInv'
  <2>1. PICK new : new = [nb EXCEPT !.name = name, !.ns = ns]
    OBVIOUS
  <2>2. nb # NoNotebook /\ new.deleting = nb.deleting /\ Carries(nb, new)
    BY <1>1, <1>2, <2>1 DEF Refer, Notebooks, Carries
  <2>. QED BY <1>2, <2>1, <2>2, TidySubmit DEF Refer
<1>3. ASSUME NEW name, NEW ns, NEW layout, Create(name, ns, layout) PROVE TidyInv'
  <2>1. PICK new : new = [Blank(layout) EXCEPT !.name = name, !.ns = ns]
    OBVIOUS
  <2>2. nb = NoNotebook /\ Bare(new)
    BY <1>3, <2>1 DEF Create, Blank, Bare
  <2>. QED BY <1>3, <2>1, <2>2, TidySubmit DEF Create
<1>4. ASSUME NEW layout, Relayout(layout) PROVE TidyInv'
  <2>1. PICK new : new = [nb EXCEPT !.containers =
                            [c \in layout |-> IF c \in DOMAIN @ THEN @[c] ELSE NoResources]]
    OBVIOUS
  <2>2. nb # NoNotebook /\ new.deleting = nb.deleting /\ Carries(nb, new)
    BY <1>1, <1>4, <2>1 DEF Relayout, Notebooks, Carries
  <2>. QED BY <1>4, <2>1, <2>2, TidySubmit DEF Relayout
<1>5. ASSUME NEW c, EditOwn(c) PROVE TidyInv'
  <2>1. PICK new : new = [nb EXCEPT !.tols = @ \cup {"own"},
                                    !.containers[c] = [request |-> 3, limit |-> 3,
                                                       claims |-> @.claims \cup {"own"}]]
    OBVIOUS
  <2>2. nb # NoNotebook /\ new.deleting = nb.deleting /\ Carries(nb, new)
    BY <1>1, <1>5, <2>1 DEF EditOwn, Notebooks, Carries
  <2>. QED BY <1>5, <2>1, <2>2, TidySubmit DEF EditOwn
<1>. QED BY <1>2, <1>3, <1>4, <1>5

LEMMA TidyStore ==
    ASSUME ProfileInv, TidyInv, (\E finalizer \in BOOLEAN : DeleteNotebook(finalizer)) \/ Commit
    PROVE  TidyInv'
<1>1. UNCHANGED <<profiles, edits, faults>>
  BY DEF DeleteNotebook, Commit
<1>. SUFFICES ASSUME edits = 0, faults = 0
              PROVE  (Alive(nb') => Current(nb')) /\ (req' # NoRequest => Tidy(req'))
  BY <1>1 DEF TidyInv, Alive
<1>2. CASE \E finalizer \in BOOLEAN : DeleteNotebook(finalizer)
  <2>1. req' = req /\ (nb' = NoNotebook \/ nb' = [nb EXCEPT !.deleting = TRUE])
    BY <1>2 DEF DeleteNotebook
  <2>2. nb \in Notebooks
    BY <1>2 DEF DeleteNotebook, ProfileInv, Settled, WellFormed
  <2>3. ~Alive(nb')
    BY <2>1, <2>2 DEF Alive, Notebooks
  <2>. QED BY <2>1, <2>3 DEF TidyInv
<1>3. CASE Commit
  <2>1. req' = NoRequest /\ nb' \in {nb, req.new} /\ req # NoRequest /\ req.stage = "admitted"
    BY <1>3 DEF Commit, At
  <2>2. Tidy(req) /\ (Alive(nb) => Current(nb))
    BY <2>1 DEF TidyInv
  <2>. QED BY <2>1, <2>2 DEF Tidy, Alive
<1>. QED BY <1>2, <1>3

LEMMA TidyNext == ProfileInv /\ TidyInv /\ [Next]_vars => TidyInv'
<1>. SUFFICES ASSUME ProfileInv, TidyInv, [Next]_vars PROVE TidyInv'
  OBVIOUS
<1>1. CASE (\E finalizer \in BOOLEAN : DeleteNotebook(finalizer)) \/ Commit
  BY <1>1, TidyStore
<1>2. CASE \/ \E ref \in DOMAIN profiles, content \in Contents \cup {NoProfile} :
                 EditProfile(ref, content)
           \/ \E template \in Templates : DeleteTemplate(template)
  <2>1. edits \in Nat
    BY DEF ProfileInv
  <2>2. edits' # 0
    BY <1>2, <2>1 DEF EditProfile, DeleteTemplate
  <2>. QED BY <2>2 DEF TidyInv
<1>3. CASE Handler
  BY <1>3, TidyFetchProfile, TidyFetchProfileFails, TidyRemoval, TidyTemplate DEF Handler
<1>4. CASE UNCHANGED vars
  BY <1>4 DEF vars, TidyInv, Alive
<1>. QED BY <1>1, <1>2, <1>3, <1>4, TidyWrites DEF Next, Environment

-----------------------------------------------------------------------------
(* The theorems *)

LEMMA ProfileInit == Init => ProfileInv
<1>. SUFFICES ASSUME Init PROVE ProfileInv
  OBVIOUS
<1>1. profiles \in [DOMAIN InitialProfiles -> Contents \cup {NoProfile}]
  BY HardwareProfileAssumption DEF Init
<1>2. /\ nb = NoNotebook /\ req = NoRequest /\ templates \subseteq Templates
      /\ {writes, edits, faults} \subseteq Nat
  BY DEF Init
<1>. QED BY <1>1, <1>2 DEF ProfileInv

LEMMA ProfileNext == ProfileInv /\ [Next]_vars => ProfileInv'
<1>. SUFFICES ASSUME ProfileInv, [Next]_vars PROVE ProfileInv'
  OBVIOUS
<1>1. ASSUME NEW name \in ProfileNames \cup {""}, NEW ns \in {"", "shared"},
             Refer(name, ns) \/ \E layout \in Layouts : Create(name, ns, layout)
      PROVE  ProfileInv'
  BY <1>1, ReferKeeps, CreateKeeps
<1>2. ASSUME NEW layout \in Layouts, Relayout(layout) PROVE ProfileInv'
  BY <1>2, RelayoutKeeps
<1>3. ASSUME NEW c \in UNION Layouts, EditOwn(c) PROVE ProfileInv'
  BY <1>3, EditOwnKeeps
<1>4. CASE (\E finalizer \in BOOLEAN : DeleteNotebook(finalizer)) \/ Commit
  BY <1>4, StoreKeeps
<1>5. CASE \/ \E ref \in DOMAIN profiles, content \in Contents \cup {NoProfile} :
                 EditProfile(ref, content)
           \/ \E template \in Templates : DeleteTemplate(template)
  BY <1>5, EditKeeps
<1>6. CASE Handler
  BY <1>6, FetchProfileKeeps, FetchProfileFailsKeeps, RemovalKeeps, FetchTemplateKeeps,
     FetchTemplateFailsKeeps DEF Handler
<1>7. CASE UNCHANGED vars
  BY <1>7 DEF vars, ProfileInv
<1>. QED BY <1>1, <1>2, <1>3, <1>4, <1>5, <1>6, <1>7 DEF Next, Environment

\* The inductive invariant of the admissions, for every instance.
THEOREM ProfilesHold == Spec => []ProfileInv
<1>. QED BY ProfileInit, ProfileNext, PTL DEF Spec

\* A well-formed Notebook has the type TLC checks.
LEMMA WellFormedType ==
    ASSUME NEW n, WellFormed(n)
    PROVE  NotebookOK(n)
<1>1. /\ n.name \in ProfileNames \cup {""} /\ n.ns \in {"", "home", "shared"}
      /\ n.claim \in Templates \cup {""} /\ n.claimFrom \in Refs \cup {NoReference}
      /\ n.tols \subseteq Tolerations /\ n.skipped \in BOOLEAN /\ n.strayed \in BOOLEAN
      /\ n.claim # "" <=> n.claimFrom # NoReference
  BY DEF WellFormed, Notebooks
<1>2. /\ DOMAIN n.containers \in Layouts
      /\ \A c \in DOMAIN n.containers :
            /\ n.containers[c].request \in Nat /\ n.containers[c].limit \in Nat
            /\ n.containers[c].claims \subseteq {DraClaim, "own"}
  BY ContainersType DEF WellFormed, Resources
<1>. QED BY <1>1, <1>2 DEF NotebookOK, Tolerations

\* Type correctness of the stored Notebook and of the admission in flight:
\* among others, a claim is there exactly when it was taken from a profile.
THEOREM ProfileTypes == Spec => []TypeOK
<1>1. ProfileInv => TypeOK
  BY WellFormedType DEF ProfileInv, TypeOK, Settled, Underway, Requests
<1>. QED BY <1>1, ProfilesHold, PTL

\* The DRA claim on a Notebook was taken from the profile, by namespace and
\* name, that it refers to, unless its reference was admitted unapplied: with
\* no container of the Notebook's name, or switched to a namesake that could
\* not be read.
THEOREM ClaimsFollowReferences == Spec => []ClaimOfReference
<1>1. ProfileInv => ClaimOfReference
  BY DEF ProfileInv, Settled, Claimed, ClaimOfReference, Alive
<1>. QED BY <1>1, ProfilesHold, PTL

\* A Notebook that names no profile holds no managed claim; and while no profile
\* has changed and no Get has failed it holds no scheduling of one either,
\* unless some switch on the way was admitted unapplied.
THEOREM NothingLeftBehind == Spec => []RemovalLeavesNothing
<1>1. Init => TidyInv
  BY DEF Init, TidyInv, Alive
<1>2. ProfileInv /\ TidyInv => RemovalLeavesNothing
  <2>1. SUFFICES ASSUME ProfileInv, TidyInv, Alive(nb), nb.name = ""
                 PROVE  /\ nb.claim = ""
                        /\ edits = 0 /\ faults = 0 /\ ~nb.strayed => Bare(nb)
    BY DEF RemovalLeavesNothing, Bare
  <2>2. nb.claim = ""
    BY <2>1 DEF ProfileInv, Alive, Settled, Claimed
  <2>3. edits = 0 /\ faults = 0 /\ ~nb.strayed => Bare(nb)
    BY <2>1 DEF TidyInv, Current
  <2>. QED BY <2>2, <2>3
<1>. QED BY <1>1, <1>2, ProfilesHold, TidyNext, PTL DEF Spec

\* An admission leaves the other containers and the users' claims alone.
THEOREM UsersKeepTheirPart == Spec => []UserPartKept
<1>1. ProfileInv => UserPartKept
  <2>1. SUFFICES ASSUME ProfileInv, At("admitted") PROVE UserPartKept
    BY DEF UserPartKept
  <2>2. SamePart(req.sent, req.new)
    BY <2>1 DEF ProfileInv, At, Underway
  <2>3. Main(req.new) = Main(req.sent)
    BY <2>2 DEF SamePart, Main
  <2>. QED BY <2>2, <2>3 DEF SamePart, UserPartKept
<1>. QED BY <1>1, ProfilesHold, PTL

\* Where a Notebook's only container is named after it, no container refers
\* to a managed claim the pod does not declare.  Without that condition it
\* may: adding a second container hides the first one from the removal.
THEOREM NoClaimDangles == NamedMain => (Spec => []NoDanglingClaim)
<1>. SUFFICES ASSUME NamedMain PROVE Spec => []NoDanglingClaim
  OBVIOUS
<1>1. ProfileInv => NoDanglingClaim
  BY DEF ProfileInv, Settled, Tied, DraIn, NoDanglingClaim, Alive
<1>. QED BY <1>1, ProfilesHold, PTL

\* As long as a Notebook keeps its reference no admission changes its claim,
\* whatever became of the profile and of the other containers in between.
THEOREM EditsAreNotRetroactive == Spec => NoRetroactiveDRA
<1>1. ASSUME ProfileInv, [Next]_vars,
             Alive(nb), nb' # NoNotebook, nb.name # "", Reference(nb') = Reference(nb)
      PROVE  nb'.claim = nb.claim
  <2>1. CASE nb' = nb
    BY <2>1
  <2>2. CASE \E finalizer \in BOOLEAN : DeleteNotebook(finalizer)
    <3>1. nb' = [nb EXCEPT !.deleting = TRUE]
      BY <1>1, <2>2 DEF DeleteNotebook
    <3>2. nb \in Notebooks
      BY <1>1 DEF Alive, ProfileInv, Settled, WellFormed
    <3>. QED BY <3>1, <3>2 DEF Notebooks
  <2>3. CASE Commit /\ nb' # nb
    <3>1. nb = req.old /\ nb' = req.new
      BY <2>3 DEF Commit
    <3>2. Faithful(req)
      BY <1>1, <2>3 DEF Commit, At, ProfileInv, Underway
    <3>. QED BY <1>1, <3>1, <3>2 DEF Faithful, Alive
  <2>4. \/ nb' = nb \/ Commit \/ \E finalizer \in BOOLEAN : DeleteNotebook(finalizer)
    <3>1. CASE UNCHANGED vars
      BY <3>1 DEF vars
    <3>2. CASE Handler
      BY <3>2 DEF Handler, FetchProfile, FetchProfileFails, FetchOldProfile,
                  FetchOldProfileFails, FetchTemplate, FetchTemplateFails
    <3>3. CASE Environment
      BY <3>3 DEF Environment, Refer, Create, Relayout, EditOwn, Submit, EditProfile,
                  DeleteTemplate
    <3>. QED BY <1>1, <3>1, <3>2, <3>3 DEF Next
  <2>. QED BY <2>1, <2>2, <2>3, <2>4
<1>2. ProfileInv /\ [Next]_vars =>
         [/\ Alive(nb) /\ nb' # NoNotebook
          /\ nb.name # "" /\ Reference(nb') = Reference(nb)
          => nb'.claim = nb.claim]_vars
  BY <1>1
<1>. QED BY <1>2, ProfilesHold, PTL DEF Spec, NoRetroactiveDRA
=============================================================================
