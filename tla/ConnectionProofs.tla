-------------------------- MODULE ConnectionProofs ---------------------------
(***************************************************************************)
(* What the connection webhook lets into a Notebook, for every set of      *)
(* writers, Secrets and annotations and every bound: connections are       *)
(* injected once and vouched for, and nothing is denied without a cause.   *)
(*                                                                         *)
(* The invariant is about one admission at a time.  It says what the       *)
(* request has established so far (Sound), whatever the other writers do,  *)
(* and that the changes of Secrets and permissions since it began have     *)
(* been noted (Current).  That the API server refuses stale writes is      *)
(* needed for neither.                                                     *)
(***************************************************************************)
EXTENDS ConnectionWebhook, FiniteSetTheorems, FunctionTheorems, TLAPS

-----------------------------------------------------------------------------
(* The invariant *)

HomeRef(s) == [ns |-> "home", name |-> s]

\* env holds the user's own entries and one for every connection of refs.
Due(env, own, refs, intact) ==
    \A s \in Secrets :
        LET due == own[s] + (IF HomeRef(s) \in refs THEN 1 ELSE 0)
        IN  env[s] <= due /\ (intact => env[s] = due)

AllHome(refs) == \A ref \in refs : ref.ns = "home"

\* The references of the object the request was admitted against.
OldRefs(req) == Range(IF req.old = NoNotebook THEN <<>> ELSE req.old)

NewRefs(req) == Range(req.new.annotation)

\* A reference has passed checkSecretExists, or checkUserHasPermission.
Exists(req, ref) == ref.ns = "home" /\ ref \in req.exists

Cause(req) ==
    \/ Malformed \in NewRefs(req) \/ Cardinality(NewRefs(req)) > MaxConnectionSecrets
    \/ req.doubtful # {}

InProgress(req) == req.stage \in {"secrets", "access"}

\* What the old object brings into the request: its own entries and its
\* connections, all in the namespace unless its annotation does not parse.
Inherits(req) ==
    /\ Malformed \notin OldRefs(req) => AllHome(OldRefs(req))
    /\ Due(req.new.env, req.new.own, OldRefs(req), req.new.intact)

\* What the request has established.
Sound(req) ==
    /\ InProgress(req) <=> req.todo # {}
    /\ req.todo \subseteq NewRefs(req)
    /\ req.invalid # {} => req.doubtful # {}
    /\ req.stage = "denied" => Cause(req)
    /\ InProgress(req) => Malformed \notin NewRefs(req) /\ Inherits(req)
    /\ req.stage = "secrets" =>
          \A ref \in NewRefs(req) \ req.todo : ref \in req.invalid \/ Exists(req, ref)
    /\ req.stage = "access" =>
          /\ \A ref \in NewRefs(req) : ref \in req.invalid \/ Exists(req, ref)
          /\ \A ref \in NewRefs(req) \ req.todo : ref \in req.invalid \/ ref \in req.readable
    /\ req.stage = "admitted" /\ ~req.new.deleting =>
          /\ \A ref \in NewRefs(req) : Exists(req, ref) /\ ref \in req.readable
          /\ Due(req.new.env, req.new.own, NewRefs(req), req.new.intact)

\* What holds of the Secrets and permissions of now has been noted.
Current(req, secrets, readable) ==
    InProgress(req) =>
        \A ref \in NewRefs(req) :
            /\ ref.ns = "home" /\ ref.name \in secrets => ref \in req.exists
            /\ ref \in readable => ref \in req.readable
            /\ ref \in req.doubtful \/ (ref.ns = "home" /\ ref.name \in secrets /\ ref \in readable)

AdmissionInv ==
    /\ TypeOK
    /\ InjectedOnce
    /\ ConnectionsVouched
    /\ \A u \in Users : requests[u] # NoRequest =>
          Sound(requests[u]) /\ Current(requests[u], existing, allowed[u])

-----------------------------------------------------------------------------
(* The annotation and the injection *)

\* An annotation has finitely many entries, all of them entries.
LEMMA AnnotationRange ==
    ASSUME NEW value \in Annotations
    PROVE  IsFiniteSet(Range(value)) /\ Range(value) \subseteq Entries
<1>1. value \in Seq(Entries)
  BY ConnectionAssumption
<1>2. value \in [1..Len(value) -> Entries] /\ Len(value) \in Nat
  BY <1>1
<1>3. IsFiniteSet(1..Len(value))
  BY <1>2, FS_Interval
<1>4. Range(value) \subseteq Entries /\ value \in Surjection(1..Len(value), Range(value))
  BY <1>2, Fun_RangeProperties
<1>. QED BY <1>3, <1>4, FS_Surjection

\* The empty annotation names nothing.
LEMMA EmptyRange == Range(<<>>) = {}
  BY DEF Range

\* What parses is a set of references.
LEMMA ParsedRefs ==
    ASSUME NEW refs, refs \subseteq Entries
    PROVE  /\ refs \ {Malformed} \subseteq Refs
           /\ Malformed \notin refs => refs \subseteq Refs
  BY DEF Entries

\* The references that name one Secret, when all are in the namespace.
LEMMA NamedOnce ==
    ASSUME NEW refs, refs \subseteq Refs, AllHome(refs), NEW s \in Secrets
    PROVE  Cardinality({ref \in refs : ref.name = s}) = IF HomeRef(s) \in refs THEN 1 ELSE 0
<1>1. \A ref \in refs : ref.name = s => ref = HomeRef(s)
  BY DEF Refs, AllHome, HomeRef
<1>2. CASE HomeRef(s) \in refs
  <2>1. {ref \in refs : ref.name = s} = {HomeRef(s)}
    BY <1>1, <1>2 DEF HomeRef
  <2>. QED BY <1>2, <2>1, FS_Singleton
<1>3. CASE HomeRef(s) \notin refs
  <2>1. {ref \in refs : ref.name = s} = {}
    BY <1>1, <1>3
  <2>. QED BY <1>3, <2>1, FS_EmptySet
<1>. QED BY <1>2, <1>3

\* The injection counts.
LEMMA InjectionType ==
    ASSUME NEW env \in [Secrets -> Nat], NEW old, NEW current,
           IsFiniteSet(old), IsFiniteSet(current)
    PROVE  PerformConnectionInjection(env, DetermineSecretActions(old, current))
               \in [Secrets -> Nat]
<1>. DEFINE actions == DetermineSecretActions(old, current)
<1>1. IsFiniteSet(current \ old) /\ IsFiniteSet(old \ current)
  BY FS_Subset
<1>2. ASSUME NEW s \in Secrets
      PROVE  /\ Cardinality({ref \in current \ old : ref.name = s}) \in Nat
             /\ Cardinality({ref \in old \ current : ref.name = s}) \in Nat
  <2>1. /\ IsFiniteSet({ref \in current \ old : ref.name = s})
        /\ IsFiniteSet({ref \in old \ current : ref.name = s})
    BY <1>1, FS_Subset
  <2>. QED BY <2>1, FS_CardinalityType
<1>3. actions.create = current \ old /\ actions.delete = old \ current
  BY DEF DetermineSecretActions
<1>4. ASSUME NEW added \in Nat, NEW removed \in Nat, NEW n \in Nat
      PROVE  (IF removed > n + added THEN 0 ELSE n + added - removed) \in Nat
  OBVIOUS
<1>5. ASSUME NEW s \in Secrets
      PROVE  LET added   == Cardinality({ref \in actions.create : ref.name = s})
                 removed == Cardinality({ref \in actions.delete : ref.name = s})
             IN  (IF removed > env[s] + added THEN 0 ELSE env[s] + added - removed) \in Nat
  BY <1>2, <1>3, <1>4
<1>. QED BY <1>5 DEF PerformConnectionInjection

\* The injection turns what is due for the old annotation into what is due
\* for the new one.
LEMMA InjectionDue ==
    ASSUME NEW env \in [Secrets -> Nat], NEW own \in [Secrets -> Nat], NEW intact,
           NEW old, NEW current, old \subseteq Refs, current \subseteq Refs,
           AllHome(old), AllHome(current), Due(env, own, old, intact)
    PROVE  Due(PerformConnectionInjection(env, DetermineSecretActions(old, current)),
               own, current, intact)
<1>. DEFINE actions == DetermineSecretActions(old, current)
            after   == PerformConnectionInjection(env, actions)
            One(b)  == IF b THEN 1 ELSE 0
<1>1. actions.create = current \ old /\ actions.delete = old \ current
  BY DEF DetermineSecretActions
<1>2. SUFFICES ASSUME NEW s \in Secrets
               PROVE  /\ after[s] <= own[s] + One(HomeRef(s) \in current)
                      /\ intact => after[s] = own[s] + One(HomeRef(s) \in current)
  BY DEF Due
<1>3. Cardinality({ref \in actions.create : ref.name = s}) = One(HomeRef(s) \in current \ old)
  <2>1. current \ old \subseteq Refs /\ AllHome(current \ old)
    BY DEF AllHome
  <2>. QED BY <1>1, <2>1, NamedOnce
<1>4. Cardinality({ref \in actions.delete : ref.name = s}) = One(HomeRef(s) \in old \ current)
  <2>1. old \ current \subseteq Refs /\ AllHome(old \ current)
    BY DEF AllHome
  <2>. QED BY <1>1, <2>1, NamedOnce
<1>5. after[s] = LET added   == One(HomeRef(s) \in current \ old)
                     removed == One(HomeRef(s) \in old \ current)
                 IN  IF removed > env[s] + added THEN 0 ELSE env[s] + added - removed
  BY <1>3, <1>4 DEF PerformConnectionInjection
<1>6. env[s] \in Nat /\ own[s] \in Nat
  OBVIOUS
<1>7. /\ env[s] <= own[s] + One(HomeRef(s) \in old)
      /\ intact => env[s] = own[s] + One(HomeRef(s) \in old)
  BY DEF Due
<1>8. CASE HomeRef(s) \in current /\ HomeRef(s) \in old
  BY <1>5, <1>6, <1>7, <1>8
<1>9. CASE HomeRef(s) \in current /\ HomeRef(s) \notin old
  BY <1>5, <1>6, <1>7, <1>9
<1>10. CASE HomeRef(s) \notin current /\ HomeRef(s) \in old
  BY <1>5, <1>6, <1>7, <1>10
<1>11. CASE HomeRef(s) \notin current /\ HomeRef(s) \notin old
  BY <1>5, <1>6, <1>7, <1>11
<1>. QED BY <1>8, <1>9, <1>10, <1>11

-----------------------------------------------------------------------------
(* One request *)

\* The references of a request.
LEMMA RequestRefs ==
    ASSUME NEW req \in Requests
    PROVE  /\ IsFiniteSet(NewRefs(req)) /\ NewRefs(req) \subseteq Entries
           /\ IsFiniteSet(OldRefs(req)) /\ OldRefs(req) \subseteq Entries
<1>1. req.new.annotation \in Annotations /\ req.old \in Annotations \cup {NoNotebook}
  BY DEF Requests, Notebooks
<1>2. CASE req.old = NoNotebook
  BY <1>1, <1>2, AnnotationRange, EmptyRange, FS_EmptySet DEF NewRefs, OldRefs
<1>3. CASE req.old # NoNotebook
  BY <1>1, <1>3, AnnotationRange DEF NewRefs, OldRefs
<1>. QED BY <1>2, <1>3

\* A request whose references are all checked is decided soundly.
LEMMA DecideSound ==
    ASSUME NEW req \in Requests, req.todo = {},
           Malformed \notin NewRefs(req), Inherits(req),
           req.invalid # {} => req.doubtful # {},
           req.invalid = {} =>
               \A ref \in NewRefs(req) : Exists(req, ref) /\ ref \in req.readable
    PROVE  Decide(req) \in Requests /\ Sound(Decide(req))
<1>. DEFINE old     == IF req.old = NoNotebook THEN <<>> ELSE req.old
            actions == DetermineSecretActions(Parsed(old), Parsed(req.new.annotation))
            env     == PerformConnectionInjection(req.new.env, actions)
<1>1. Parsed(old) = OldRefs(req) /\ Parsed(req.new.annotation) = NewRefs(req)
  BY DEF Parsed, OldRefs, NewRefs
<1>2. req.new \in Notebooks /\ req.new.env \in [Secrets -> Nat] /\ req.new.own \in [Secrets -> Nat]
  BY DEF Requests, Notebooks
<1>3. CASE req.invalid # {}
  <2>1. Decide(req) = [req EXCEPT !.stage = "denied"]
    BY <1>3 DEF Decide
  <2>2. Decide(req) \in Requests
    BY <2>1 DEF Requests
  <2>. QED BY <1>3, <2>1, <2>2 DEF Sound, InProgress, NewRefs, Cause, Requests
<1>4. CASE req.invalid = {} /\ Unparsable(old)
  <2>1. Decide(req) = [req EXCEPT !.stage = "errored"]
    BY <1>4 DEF Decide
  <2>2. Decide(req) \in Requests
    BY <2>1 DEF Requests
  <2>. QED BY <1>4, <2>1, <2>2 DEF Sound, InProgress, NewRefs, Requests
<1>5. CASE req.invalid = {} /\ ~Unparsable(old)
  <2>1. Decide(req) = [req EXCEPT !.stage = "admitted", !.new.env = env]
    BY <1>5 DEF Decide
  <2>2. env \in [Secrets -> Nat]
    BY <1>1, <1>2, RequestRefs, InjectionType
  <2>3. Decide(req) \in Requests
    <3>1. ASSUME NEW e \in [Secrets -> Nat], NEW new, new = [req.new EXCEPT !.env = e]
          PROVE  new \in Notebooks
      BY <1>2, <3>1 DEF Notebooks
    <3>2. ASSUME NEW new \in Notebooks
          PROVE  [req EXCEPT !.stage = "admitted", !.new = new] \in Requests
      BY DEF Requests
    <3>3. Decide(req) = [req EXCEPT !.stage = "admitted", !.new = [req.new EXCEPT !.env = env]]
      BY <2>1 DEF Requests
    <3>. HIDE DEF env
    <3>. QED BY <2>2, <3>1, <3>2, <3>3
  <2>4. Malformed \notin OldRefs(req)
    BY <1>5 DEF Unparsable, OldRefs
  <2>5. OldRefs(req) \subseteq Refs /\ NewRefs(req) \subseteq Refs
    BY <2>4, RequestRefs, ParsedRefs
  <2>6. AllHome(OldRefs(req)) /\ AllHome(NewRefs(req))
    BY <1>5, <2>4 DEF Inherits, AllHome, Exists
  <2>7. Due(env, req.new.own, NewRefs(req), req.new.intact)
    BY <1>1, <1>2, <2>5, <2>6, InjectionDue DEF Inherits
  <2>8. /\ Decide(req).stage = "admitted" /\ Decide(req).todo = {} /\ Decide(req).invalid = {}
        /\ Decide(req).new.annotation = req.new.annotation
        /\ Decide(req).new.env = env /\ Decide(req).new.own = req.new.own
        /\ Decide(req).new.intact = req.new.intact
        /\ Decide(req).exists = req.exists /\ Decide(req).readable = req.readable
    BY <1>5, <2>1 DEF Requests, Notebooks
  <2>. QED BY <1>5, <2>3, <2>7, <2>8 DEF Sound, InProgress, NewRefs, Exists
<1>. QED BY <1>3, <1>4, <1>5

\* Noting the cluster of now takes nothing back.
LEMMA ObservedSound ==
    ASSUME NEW req \in Requests, Sound(req), NEW secrets \in SUBSET Secrets,
           NEW readable \in SUBSET Refs
    PROVE  /\ Observed(req, secrets, readable) \in Requests
           /\ Sound(Observed(req, secrets, readable))
           /\ Current(Observed(req, secrets, readable), secrets, readable)
<1>. DEFINE refs    == NewRefs(req) \ {Malformed}
            present == refs \cap [ns : {"home"}, name : secrets]
            after   == Observed(req, secrets, readable)
<1>1. refs \subseteq Refs
  BY RequestRefs, ParsedRefs
<1>2. after = [req EXCEPT !.exists = @ \cup present, !.readable = @ \cup (refs \cap readable),
                          !.doubtful = @ \cup (refs \ (present \cap readable))]
  BY DEF Observed, NewRefs
<1>3. after \in Requests
  BY <1>1, <1>2 DEF Requests
<1>4. /\ after.old = req.old /\ after.new = req.new /\ after.stage = req.stage
      /\ after.todo = req.todo /\ after.invalid = req.invalid
      /\ after.exists = req.exists \cup present
      /\ after.readable = req.readable \cup (refs \cap readable)
      /\ after.doubtful = req.doubtful \cup (refs \ (present \cap readable))
  BY <1>2 DEF Requests
<1>5. Sound(after)
  BY <1>4 DEF Sound, InProgress, NewRefs, OldRefs, Inherits, Cause, Exists
<1>6. Current(after, secrets, readable)
  <2>1. SUFFICES ASSUME InProgress(req), NEW ref \in NewRefs(req)
                 PROVE  /\ ref.ns = "home" /\ ref.name \in secrets => ref \in after.exists
                        /\ ref \in readable => ref \in after.readable
                        /\ \/ ref \in after.doubtful
                           \/ ref.ns = "home" /\ ref.name \in secrets /\ ref \in readable
    BY <1>4 DEF Current, InProgress, NewRefs
  <2>2. ref \in refs /\ ref \in Refs
    BY <1>1, <2>1 DEF Sound
  <2>3. ref \in present <=> ref.ns = "home" /\ ref.name \in secrets
    BY <2>2 DEF Refs
  <2>. QED BY <1>4, <2>2, <2>3
<1>. QED BY <1>3, <1>5, <1>6

\* A request is begun soundly when its object brings the right entries.
LEMMA BeginSound ==
    ASSUME NEW req \in Requests, ~req.new.deleting => Inherits(req),
           req.todo = {}, req.invalid = {}
    PROVE  Begin(req) \in Requests /\ Sound(Begin(req))
<1>1. RefsToCheck(req) = NewRefs(req)
  BY DEF RefsToCheck, Parsed, NewRefs
<1>2. CASE req.new.deleting \/ (req.old = NoNotebook /\ req.new.annotation = <<>>)
  <2>1. Begin(req) = [req EXCEPT !.stage = "admitted"]
    BY <1>2 DEF Begin
  <2>2. Begin(req) \in Requests
    BY <2>1 DEF Requests
  <2>3. ~req.new.deleting => NewRefs(req) = {} /\ OldRefs(req) = {}
    BY <1>2, EmptyRange DEF NewRefs, OldRefs
  <2>4. /\ Begin(req).stage = "admitted" /\ Begin(req).new = req.new
        /\ Begin(req).todo = {} /\ Begin(req).invalid = {}
    BY <2>1 DEF Requests
  <2>. QED BY <2>2, <2>3, <2>4 DEF Sound, InProgress, NewRefs, Inherits
<1>3. CASE ~req.new.deleting /\ Begin(req) = [req EXCEPT !.stage = "denied"]
           /\ Unparsable(req.new.annotation)
  <2>1. Begin(req) \in Requests
    BY <1>3 DEF Requests
  <2>. QED BY <1>3, <2>1 DEF Sound, InProgress, NewRefs, Cause, Unparsable, Requests
<1>4. CASE ~req.new.deleting /\ ~Unparsable(req.new.annotation)
           /\ RefsToCheck(req) = {} /\ Begin(req) = Decide(req)
  BY <1>1, <1>4, DecideSound
<1>5. CASE ~req.new.deleting /\ ~Unparsable(req.new.annotation) /\ RefsToCheck(req) # {}
           /\ Begin(req) = [req EXCEPT !.stage = "secrets", !.todo = RefsToCheck(req)]
  <2>1. Malformed \notin NewRefs(req)
    BY <1>5 DEF Unparsable, NewRefs
  <2>2. NewRefs(req) \subseteq Refs
    BY <2>1, RequestRefs, ParsedRefs
  <2>3. Begin(req) \in Requests
    <3>1. ASSUME NEW refs \in SUBSET Refs
          PROVE  [req EXCEPT !.stage = "secrets", !.todo = refs] \in Requests
      BY DEF Requests
    <3>. QED BY <1>1, <1>5, <2>2, <3>1
  <2>4. /\ Begin(req).stage = "secrets" /\ Begin(req).new = req.new /\ Begin(req).old = req.old
        /\ Begin(req).todo = NewRefs(req) /\ Begin(req).invalid = {}
    BY <1>1, <1>5 DEF Requests
  <2>. QED BY <1>1, <1>5, <2>1, <2>3, <2>4 DEF Sound, InProgress, NewRefs, OldRefs, Inherits
<1>. QED BY <1>2, <1>3, <1>4, <1>5 DEF Begin

-----------------------------------------------------------------------------
(* The steps *)

\* A request, or none, that is as the invariant wants it.
Admissible(r, secrets, readable) ==
    r # NoRequest => r \in Requests /\ Sound(r) /\ Current(r, secrets, readable)

\* The invariant, one request at a time.
LEMMA EachRequest ==
    AdmissionInv <=>
        /\ nb \in Notebooks \cup {NoNotebook} /\ InjectedOnce /\ ConnectionsVouched
        /\ requests \in [Users -> Requests \cup {NoRequest}]
        /\ \A u \in Users : Admissible(requests[u], existing, allowed[u])
        /\ existing \subseteq Secrets /\ allowed \in [Users -> SUBSET Refs]
        /\ {writes, changes, faults} \subseteq Nat
  BY DEF AdmissionInv, TypeOK, Admissible, Sound, InProgress

\* A step of one admission that leaves the cluster alone.
LEMMA OneRequest ==
    ASSUME AdmissionInv, NEW u \in Users, NEW r, Step(u, r),
           Admissible(r, existing, allowed[u]), r \in Requests \cup {NoRequest},
           UNCHANGED <<nb, existing, allowed>>, {writes', changes', faults'} \subseteq Nat
    PROVE  AdmissionInv'
<1>1. requests \in [Users -> Requests \cup {NoRequest}]
  BY DEF AdmissionInv, TypeOK
<1>2. requests' \in [Users -> Requests \cup {NoRequest}]
  BY <1>1 DEF Step
<1>3. ASSUME NEW w \in Users
      PROVE  Admissible(requests'[w], existing', allowed'[w])
  BY <1>1, EachRequest DEF Step
<1>4. InjectedOnce' /\ ConnectionsVouched'
  BY DEF AdmissionInv, InjectedOnce, ConnectionsVouched
<1>5. \A w \in Users : requests'[w] # NoRequest =>
          Sound(requests'[w]) /\ Current(requests'[w], existing', allowed'[w])
  BY <1>3 DEF Admissible
<1>6. TypeOK'
  BY <1>2, <1>5 DEF AdmissionInv, TypeOK, Sound, InProgress
<1>. QED BY <1>4, <1>5, <1>6 DEF AdmissionInv

\* A submitted write is sound when its object brings the right entries.
LEMMA SubmitSound ==
    ASSUME AdmissionInv, NEW u \in Users, NEW new \in Notebooks, Submit(u, new),
           NEW old, old = (IF nb = NoNotebook THEN NoNotebook ELSE nb.annotation),
           NEW refs, refs = Range(IF old = NoNotebook THEN <<>> ELSE old),
           ~new.deleting => /\ Malformed \notin refs => AllHome(refs)
                            /\ Due(new.env, new.own, refs, new.intact)
    PROVE  AdmissionInv'
<1>1. PICK req : req = [old |-> old, new |-> new, fresh |-> TRUE, stage |-> "secrets",
                        todo |-> {}, invalid |-> {}, exists |-> {}, readable |-> {},
                        doubtful |-> {}]
  OBVIOUS
<1>2. old \in Annotations \cup {NoNotebook}
  BY DEF AdmissionInv, TypeOK, Notebooks
<1>3. req \in Requests
  BY <1>1, <1>2 DEF Requests
<1>4. ~req.new.deleting => Inherits(req)
  BY <1>1 DEF Inherits, OldRefs
<1>5. Begin(req) \in Requests /\ Sound(Begin(req))
  BY <1>1, <1>3, <1>4, BeginSound
<1>6. PICK secrets, readable : secrets = existing /\ readable = allowed[u]
  OBVIOUS
<1>7. secrets \in SUBSET Secrets /\ readable \in SUBSET Refs
  BY <1>6 DEF AdmissionInv, TypeOK
<1>8. PICK r : r = Observed(Begin(req), secrets, readable)
  OBVIOUS
<1>9. r \in Requests /\ Sound(r) /\ Current(r, secrets, readable)
  BY <1>5, <1>7, <1>8, ObservedSound
<1>10. Step(u, r)
  BY <1>1, <1>6, <1>8 DEF Submit, Step
<1>11. UNCHANGED <<nb, existing, allowed>> /\ {writes', changes', faults'} \subseteq Nat
  BY DEF Submit, AdmissionInv, TypeOK
<1>. QED BY <1>6, <1>9, <1>10, <1>11, OneRequest DEF Admissible

\* A create brings only the writer's own entries.
LEMMA CreateKeeps ==
    ASSUME AdmissionInv, NEW u \in Users, NEW annotation \in Annotations,
           NEW own \in OwnEntries, SubmitCreate(u, annotation, own)
    PROVE  AdmissionInv'
<1>1. PICK new : new = [annotation |-> annotation, env |-> own, own |-> own, intact |-> TRUE,
                        deleting |-> FALSE, vouched |-> {}]
  OBVIOUS
<1>2. own \in [Secrets -> Nat]
  BY ConnectionAssumption
<1>3. new \in Notebooks
  BY <1>1, <1>2 DEF Notebooks
<1>4. Submit(u, new) /\ nb = NoNotebook
  BY <1>1 DEF SubmitCreate
<1>5. Due(own, own, {}, TRUE)
  BY <1>2 DEF Due
<1>6. AllHome({}) /\ new.env = own /\ new.own = own /\ new.intact = TRUE
  BY <1>1 DEF AllHome
<1>. QED BY <1>3, <1>4, <1>5, <1>6, EmptyRange, SubmitSound

\* An update brings what was due for the stored annotation, its own entries
\* exchanged, or less when a manifest without the injected ones is applied.
LEMMA UpdateKeeps ==
    ASSUME AdmissionInv, NEW u \in Users, NEW annotation \in Annotations,
           NEW own \in OwnEntries, NEW reapply \in BOOLEAN,
           SubmitUpdate(u, annotation, own, reapply)
    PROVE  AdmissionInv'
<1>1. PICK stored : stored = nb
  OBVIOUS
<1>. DEFINE edited == [s \in Secrets |-> IF stored.env[s] + own[s] < stored.own[s] THEN 0
                                         ELSE stored.env[s] + own[s] - stored.own[s]]
<1>2. PICK new : new = [stored EXCEPT !.annotation = annotation, !.own = own,
                                      !.env = IF reapply THEN own ELSE edited,
                                      !.intact = @ /\ (reapply => stored.env = stored.own)]
  OBVIOUS
<1>3. own \in [Secrets -> Nat]
  BY ConnectionAssumption
<1>4. nb # NoNotebook /\ stored \in Notebooks
  BY <1>1 DEF SubmitUpdate, AdmissionInv, TypeOK
<1>5. stored.env \in [Secrets -> Nat] /\ stored.own \in [Secrets -> Nat]
  BY <1>4 DEF Notebooks
<1>6. edited \in [Secrets -> Nat]
  <2>1. ASSUME NEW a \in Nat, NEW b \in Nat, NEW c \in Nat
        PROVE  (IF a + b < c THEN 0 ELSE a + b - c) \in Nat
    OBVIOUS
  <2>. QED BY <1>3, <1>5, <2>1
<1>7. Submit(u, new)
  BY <1>1, <1>2 DEF SubmitUpdate
<1>8. /\ new.annotation = annotation /\ new.own = own /\ new.deleting = stored.deleting
      /\ new.env = (IF reapply THEN own ELSE edited) /\ new.vouched = stored.vouched
      /\ new.intact = (stored.intact /\ (reapply => stored.env = stored.own))
  BY <1>2, <1>4 DEF Notebooks
<1>9. new \in Notebooks
  <2>1. (IF reapply THEN own ELSE edited) \in [Secrets -> Nat]
    BY <1>3, <1>6
  <2>2. (stored.intact /\ (reapply => stored.env = stored.own)) \in BOOLEAN
    OBVIOUS
  <2>3. ASSUME NEW env \in [Secrets -> Nat], NEW intact \in BOOLEAN
        PROVE  [stored EXCEPT !.annotation = annotation, !.own = own, !.env = env,
                              !.intact = intact] \in Notebooks
    BY <1>3, <1>4 DEF Notebooks
  <2>4. new = [stored EXCEPT !.annotation = annotation, !.own = own,
                             !.env = IF reapply THEN own ELSE edited,
                             !.intact = stored.intact /\ (reapply => stored.env = stored.own)]
    BY <1>2, <1>4 DEF Notebooks
  <2>. HIDE DEF edited
  <2>. QED BY <2>1, <2>2, <2>3, <2>4
<1>10. stored.annotation # NoNotebook
  BY <1>4, ConnectionAssumption DEF Notebooks
<1>11. PICK refs : refs = Range(stored.annotation)
  OBVIOUS
<1>12. ASSUME ~stored.deleting
       PROVE  /\ Malformed \notin refs => AllHome(refs)
              /\ Due(new.env, new.own, refs, new.intact)
  <2>1. Malformed \notin refs => AllHome(refs)
    BY <1>1, <1>4, <1>11, <1>12 DEF AdmissionInv, ConnectionsVouched, AllHome
  <2>2. Due(stored.env, stored.own, refs, stored.intact)
    BY <1>1, <1>4, <1>11, <1>12 DEF AdmissionInv, InjectedOnce, Due, HomeRef
  <2>3. CASE reapply
    <3>1. new.env = own /\ (new.intact => stored.intact /\ stored.env = stored.own)
      BY <1>8, <2>3
    <3>2. ASSUME NEW s \in Secrets
          PROVE  /\ own[s] <= own[s] + (IF HomeRef(s) \in refs THEN 1 ELSE 0)
                 /\ new.intact => own[s] = own[s] + (IF HomeRef(s) \in refs THEN 1 ELSE 0)
      BY <1>3, <1>5, <2>2, <3>1 DEF Due
    <3>. QED BY <1>8, <2>1, <3>1, <3>2 DEF Due
  <2>4. CASE ~reapply
    <3>1. new.env = edited /\ (new.intact => stored.intact)
      BY <1>8, <2>4
    <3>2. ASSUME NEW s \in Secrets
          PROVE  /\ edited[s] <= own[s] + (IF HomeRef(s) \in refs THEN 1 ELSE 0)
                 /\ new.intact => edited[s] = own[s] + (IF HomeRef(s) \in refs THEN 1 ELSE 0)
      <4>1. /\ stored.env[s] <= stored.own[s] + (IF HomeRef(s) \in refs THEN 1 ELSE 0)
            /\ new.intact =>
                  stored.env[s] = stored.own[s] + (IF HomeRef(s) \in refs THEN 1 ELSE 0)
        BY <2>2, <3>1 DEF Due
      <4>2. own[s] \in Nat /\ stored.env[s] \in Nat /\ stored.own[s] \in Nat
        BY <1>3, <1>5
      <4>. QED BY <4>1, <4>2
    <3>. HIDE DEF edited
    <3>. QED BY <1>8, <2>1, <3>1, <3>2 DEF Due
  <2>. QED BY <2>3, <2>4
<1>. QED BY <1>1, <1>4, <1>7, <1>8, <1>9, <1>10, <1>11, <1>12, SubmitSound

\* The users and the failures end requests.
LEMMA EndKeeps ==
    ASSUME AdmissionInv, NEW u \in Users, Acknowledge(u) \/ CheckFails(u)
    PROVE  AdmissionInv'
<1>1. Step(u, NoRequest) /\ UNCHANGED <<nb, existing, allowed>>
  BY DEF Acknowledge, CheckFails, Step
<1>2. {writes', changes', faults'} \subseteq Nat
  BY DEF Acknowledge, CheckFails, AdmissionInv, TypeOK
<1>. QED BY <1>1, <1>2, OneRequest DEF Admissible

\* checkSecretExists of one reference.
LEMMA SecretKeeps ==
    ASSUME AdmissionInv, NEW u \in Users, CheckSecret(u)
    PROVE  AdmissionInv'
<1>1. PICK req, secrets, readable :
          req = requests[u] /\ secrets = existing /\ readable = allowed[u]
  OBVIOUS
<1>2. /\ req \in Requests /\ Sound(req) /\ Current(req, secrets, readable)
      /\ req.stage = "secrets" /\ req.todo \subseteq NewRefs(req)
  BY <1>1 DEF CheckSecret, At, AdmissionInv, TypeOK, Sound
<1>3. PICK ref \in req.todo :
        LET ok   == ref.ns = "home" /\ ref.name \in secrets
            last == req.todo = {ref}
        IN  Step(u, [req EXCEPT !.stage = IF last THEN "access" ELSE @,
                                !.todo = IF last THEN RefsToCheck(req) ELSE @ \ {ref},
                                !.invalid = IF ok THEN @ ELSE @ \cup {ref}])
  BY <1>1 DEF CheckSecret
<1>. DEFINE ok      == ref.ns = "home" /\ ref.name \in secrets
            last    == req.todo = {ref}
            stage   == IF last THEN "access" ELSE "secrets"
            todo    == IF last THEN NewRefs(req) ELSE req.todo \ {ref}
            invalid == IF ok THEN req.invalid ELSE req.invalid \cup {ref}
<1>4. PICK r : r = [req EXCEPT !.stage = stage, !.todo = todo, !.invalid = invalid]
  OBVIOUS
<1>5. Step(u, r)
  BY <1>2, <1>3, <1>4 DEF RefsToCheck, Parsed, NewRefs
<1>6. /\ r.stage = stage /\ r.todo = todo /\ r.invalid = invalid
      /\ r.old = req.old /\ r.new = req.new /\ r.exists = req.exists
      /\ r.readable = req.readable /\ r.doubtful = req.doubtful
  BY <1>2, <1>4 DEF Requests
<1>7. Malformed \notin NewRefs(req) /\ NewRefs(req) \subseteq Refs /\ ref \in NewRefs(req)
  BY <1>2, RequestRefs, ParsedRefs DEF Sound, InProgress
<1>8. r \in Requests
  <2>1. todo \in SUBSET Refs /\ invalid \in SUBSET Refs
        /\ stage \in {"secrets", "access"}
    BY <1>2, <1>7 DEF Requests
  <2>2. ASSUME NEW t \in SUBSET Refs, NEW i \in SUBSET Refs, NEW g \in {"secrets", "access"}
        PROVE  [req EXCEPT !.stage = g, !.todo = t, !.invalid = i] \in Requests
    BY <1>2 DEF Requests
  <2>. HIDE DEF stage, todo, invalid
  <2>. QED BY <1>4, <2>1, <2>2
<1>9. ok => Exists(req, ref)
  BY <1>2, <1>7 DEF Current, InProgress, Exists
<1>10. ~ok => ref \in req.doubtful
  BY <1>2, <1>7 DEF Current, InProgress
<1>11. todo # {}
  BY <1>3, <1>7
<1>12. Sound(r)
  <2>1. InProgress(r) /\ r.todo # {} /\ r.todo \subseteq NewRefs(r) /\ NewRefs(r) = NewRefs(req)
    BY <1>2, <1>6, <1>11 DEF InProgress, NewRefs
  <2>2. r.invalid # {} => r.doubtful # {}
    BY <1>2, <1>6, <1>10 DEF Sound
  <2>3. Inherits(r) /\ Malformed \notin NewRefs(r)
    BY <1>2, <1>6, <2>1 DEF Sound, InProgress, Inherits, OldRefs
  <2>4. \A x \in NewRefs(req) \ (req.todo \ {ref}) : x \in r.invalid \/ Exists(r, x)
    BY <1>2, <1>6, <1>9 DEF Sound, Exists
  <2>5. r.stage = "secrets" => r.todo = req.todo \ {ref}
    BY <1>6
  <2>6. r.stage = "access" => r.todo = NewRefs(req) /\ req.todo \ {ref} = {}
    BY <1>6
  <2>7. r.stage # "denied" /\ r.stage # "admitted"
    BY <1>6
  <2>. QED BY <2>1, <2>2, <2>3, <2>4, <2>5, <2>6, <2>7 DEF Sound
<1>13. Current(r, secrets, readable)
  BY <1>2, <1>6 DEF Current, InProgress, NewRefs
<1>14. UNCHANGED <<nb, existing, allowed>> /\ {writes', changes', faults'} \subseteq Nat
  BY DEF CheckSecret, AdmissionInv, TypeOK
<1>. QED BY <1>1, <1>5, <1>8, <1>12, <1>13, <1>14, OneRequest DEF Admissible

\* checkUserHasPermission for one reference, and the verdict after the last.
LEMMA AccessKeeps ==
    ASSUME AdmissionInv, NEW u \in Users, CheckAccess(u)
    PROVE  AdmissionInv'
<1>1. PICK req, secrets, readable :
          req = requests[u] /\ secrets = existing /\ readable = allowed[u]
  OBVIOUS
<1>2. /\ req \in Requests /\ Sound(req) /\ Current(req, secrets, readable)
      /\ req.stage = "access" /\ req.todo \subseteq NewRefs(req)
  BY <1>1 DEF CheckAccess, At, AdmissionInv, TypeOK, Sound
<1>3. PICK ref \in req.todo :
        LET new == [req EXCEPT !.todo = @ \ {ref},
                               !.invalid = IF ref \in readable THEN @ ELSE @ \cup {ref}]
        IN  Step(u, IF new.todo = {} THEN Decide(new) ELSE new)
  BY <1>1 DEF CheckAccess
<1>. DEFINE invalid == IF ref \in readable THEN req.invalid ELSE req.invalid \cup {ref}
<1>4. PICK r : r = [req EXCEPT !.todo = req.todo \ {ref}, !.invalid = invalid]
  OBVIOUS
<1>5. Step(u, IF r.todo = {} THEN Decide(r) ELSE r)
  BY <1>2, <1>3, <1>4
<1>6. /\ r.stage = "access" /\ r.todo = req.todo \ {ref} /\ r.invalid = invalid
      /\ r.old = req.old /\ r.new = req.new /\ r.exists = req.exists
      /\ r.readable = req.readable /\ r.doubtful = req.doubtful
  BY <1>2, <1>4 DEF Requests
<1>7. Malformed \notin NewRefs(req) /\ NewRefs(req) \subseteq Refs /\ ref \in NewRefs(req)
  BY <1>2, RequestRefs, ParsedRefs DEF Sound, InProgress
<1>8. r \in Requests
  <2>1. invalid \in SUBSET Refs /\ req.todo \ {ref} \in SUBSET Refs
    BY <1>2, <1>7 DEF Requests
  <2>2. ASSUME NEW t \in SUBSET Refs, NEW i \in SUBSET Refs
        PROVE  [req EXCEPT !.todo = t, !.invalid = i] \in Requests
    BY <1>2 DEF Requests
  <2>. HIDE DEF invalid
  <2>. QED BY <1>4, <2>1, <2>2
<1>9. ref \in readable => ref \in req.readable
  BY <1>2, <1>7 DEF Current, InProgress
<1>10. ref \notin readable => ref \in req.doubtful
  BY <1>2, <1>7 DEF Current, InProgress
<1>11. /\ NewRefs(r) = NewRefs(req) /\ Malformed \notin NewRefs(r) /\ Inherits(r)
       /\ r.invalid # {} => r.doubtful # {}
  <2>1. NewRefs(r) = NewRefs(req)
    BY <1>6 DEF NewRefs
  <2>2. Inherits(r)
    BY <1>2, <1>6 DEF Sound, InProgress, Inherits, OldRefs
  <2>3. r.invalid # {} => r.doubtful # {}
    BY <1>2, <1>6, <1>10 DEF Sound
  <2>. QED BY <1>7, <2>1, <2>2, <2>3
<1>12. /\ \A x \in NewRefs(r) : x \in r.invalid \/ Exists(r, x)
       /\ \A x \in NewRefs(r) \ r.todo : x \in r.invalid \/ x \in r.readable
  BY <1>2, <1>6, <1>9, <1>11 DEF Sound, Exists
<1>13. Current(r, secrets, readable)
  BY <1>2, <1>6, <1>11 DEF Current, InProgress
<1>14. UNCHANGED <<nb, existing, allowed>> /\ {writes', changes', faults'} \subseteq Nat
  BY DEF CheckAccess, AdmissionInv, TypeOK
<1>15. CASE r.todo = {}
  <2>1. Decide(r) \in Requests /\ Sound(Decide(r))
    BY <1>8, <1>11, <1>12, <1>15, DecideSound
  <2>2. Current(Decide(r), secrets, readable)
    <3>1. Decide(r).stage \in {"denied", "errored", "admitted"}
      BY <1>8 DEF Decide, Requests
    <3>. QED BY <3>1 DEF Current, InProgress
  <2>. QED BY <1>1, <1>5, <1>14, <1>15, <2>1, <2>2, OneRequest DEF Admissible
<1>16. CASE r.todo # {}
  <2>1. Sound(r)
    <3>1. InProgress(r) /\ r.todo \subseteq NewRefs(r)
      BY <1>2, <1>6, <1>11 DEF InProgress
    <3>. QED BY <1>6, <1>11, <1>12, <1>16, <3>1 DEF Sound
  <2>. QED BY <1>1, <1>5, <1>8, <1>13, <1>14, <1>16, <2>1, OneRequest DEF Admissible
<1>. QED BY <1>15, <1>16

\* Every change of Secrets or permissions is noted by every admission that
\* may still be looking.
LEMMA ClusterKeeps ==
    ASSUME AdmissionInv, NEW secrets, NEW perms, ChangeCluster(secrets, perms),
           secrets \subseteq Secrets, perms \in [Users -> SUBSET Refs]
    PROVE  AdmissionInv'
<1>1. /\ existing' = secrets /\ allowed' = perms /\ nb' = nb
      /\ {writes', changes', faults'} \subseteq Nat
  BY DEF ChangeCluster, AdmissionInv, TypeOK
<1>2. ASSUME NEW u \in Users
      PROVE  /\ requests'[u] \in Requests \cup {NoRequest}
             /\ Admissible(requests'[u], secrets, perms[u])
  <2>1. PICK req : req = requests[u]
    OBVIOUS
  <2>2. req # NoRequest => req \in Requests /\ Sound(req)
    BY <2>1 DEF AdmissionInv, TypeOK
  <2>3. CASE Validating(u)
    <3>1. requests'[u] = Observed(req, secrets, perms[u]) /\ req # NoRequest
      BY <2>1, <2>3 DEF ChangeCluster, Validating
    <3>. QED BY <2>2, <3>1, ObservedSound DEF Admissible
  <2>4. CASE ~Validating(u)
    <3>1. requests'[u] = req
      BY <2>1, <2>4 DEF ChangeCluster
    <3>2. req # NoRequest => ~InProgress(req)
      BY <2>1, <2>4 DEF Validating, InProgress
    <3>. QED BY <2>2, <3>1, <3>2 DEF Admissible, Current
  <2>. QED BY <2>3, <2>4
<1>3. requests' \in [Users -> Requests \cup {NoRequest}]
  BY <1>2 DEF ChangeCluster
<1>4. InjectedOnce' /\ ConnectionsVouched'
  BY <1>1 DEF AdmissionInv, InjectedOnce, ConnectionsVouched
<1>5. \A u \in Users : requests'[u] # NoRequest =>
          Sound(requests'[u]) /\ Current(requests'[u], existing', allowed'[u])
  BY <1>1, <1>2 DEF Admissible
<1>6. TypeOK'
  BY <1>1, <1>3, <1>5 DEF AdmissionInv, TypeOK, Sound, InProgress
<1>. QED BY <1>4, <1>5, <1>6 DEF AdmissionInv

\* What was admitted against another object changes nothing but its freshness.
LEMMA OutdatedKeeps ==
    ASSUME AdmissionInv, UNCHANGED <<existing, allowed, writes, changes, faults>>,
           NEW reqs \in [Users -> Requests \cup {NoRequest}], requests' = Outdated(reqs),
           \A u \in Users : reqs[u] \in {requests[u], NoRequest},
           nb' \in Notebooks \cup {NoNotebook}, InjectedOnce', ConnectionsVouched'
    PROVE  AdmissionInv'
<1>1. ASSUME NEW u \in Users
      PROVE  /\ requests'[u] \in Requests \cup {NoRequest}
             /\ Admissible(requests'[u], existing, allowed[u])
  <2>1. requests'[u] = IF reqs[u] = NoRequest THEN NoRequest
                       ELSE [reqs[u] EXCEPT !.fresh = FALSE]
    BY DEF Outdated
  <2>2. CASE reqs[u] = NoRequest
    BY <2>1, <2>2 DEF Admissible
  <2>3. CASE reqs[u] # NoRequest
    <3>1. PICK req, secrets, readable :
              req = reqs[u] /\ secrets = existing /\ readable = allowed[u]
      OBVIOUS
    <3>2. req \in Requests /\ Sound(req) /\ Current(req, secrets, readable)
      BY <2>3, <3>1 DEF AdmissionInv
    <3>3. PICK r : r = [req EXCEPT !.fresh = FALSE]
      OBVIOUS
    <3>4. r \in Requests
      BY <3>2, <3>3 DEF Requests
    <3>5. /\ r.old = req.old /\ r.new = req.new /\ r.stage = req.stage
          /\ r.todo = req.todo /\ r.invalid = req.invalid /\ r.exists = req.exists
          /\ r.readable = req.readable /\ r.doubtful = req.doubtful
      BY <3>2, <3>3 DEF Requests
    <3>6. Sound(r)
      BY <3>2, <3>5 DEF Sound, InProgress, NewRefs, OldRefs, Inherits, Cause, Exists
    <3>7. Current(r, secrets, readable)
      BY <3>2, <3>5 DEF Current, InProgress, NewRefs
    <3>. QED BY <2>1, <2>3, <3>1, <3>3, <3>4, <3>6, <3>7 DEF Admissible
  <2>. QED BY <2>2, <2>3
<1>2. requests' \in [Users -> Requests \cup {NoRequest}]
  BY <1>1 DEF Outdated
<1>3. \A u \in Users : requests'[u] # NoRequest =>
          Sound(requests'[u]) /\ Current(requests'[u], existing', allowed'[u])
  BY <1>1 DEF Admissible
<1>4. TypeOK'
  BY <1>2, <1>3 DEF AdmissionInv, TypeOK, Sound, InProgress
<1>. QED BY <1>3, <1>4 DEF AdmissionInv

\* Deleting the Notebook, or marking it.
LEMMA DeleteKeeps ==
    ASSUME AdmissionInv, NEW finalizer \in BOOLEAN, DeleteNotebook(finalizer)
    PROVE  AdmissionInv'
<1>1. nb \in Notebooks /\ requests \in [Users -> Requests \cup {NoRequest}]
  BY DEF DeleteNotebook, AdmissionInv, TypeOK
<1>2. nb' = NoNotebook \/ (nb' = [nb EXCEPT !.deleting = TRUE])
  BY DEF DeleteNotebook, Store
<1>3. nb' = NoNotebook \/ (nb' \in Notebooks /\ nb'.deleting)
  BY <1>1, <1>2 DEF Notebooks
<1>4. InjectedOnce' /\ ConnectionsVouched'
  BY <1>3 DEF InjectedOnce, ConnectionsVouched
<1>5. PICK reqs : reqs = requests
  OBVIOUS
<1>6. requests' = Outdated(reqs) /\ UNCHANGED <<existing, allowed, writes, changes, faults>>
  BY <1>5 DEF DeleteNotebook
<1>. QED BY <1>1, <1>3, <1>4, <1>5, <1>6, OutdatedKeeps

\* The commit of an admitted write.
LEMMA CommitKeeps ==
    ASSUME AdmissionInv, NEW u \in Users, Commit(u)
    PROVE  AdmissionInv'
<1>1. PICK req : req = requests[u]
  OBVIOUS
<1>2. /\ req \in Requests /\ Sound(req) /\ req.stage = "admitted"
      /\ requests \in [Users -> Requests \cup {NoRequest}]
  BY <1>1 DEF Commit, At, AdmissionInv, TypeOK
<1>3. UNCHANGED <<existing, allowed, writes, changes, faults>>
  BY DEF Commit
<1>4. CASE ~req.fresh
  <2>1. Step(u, NoRequest) /\ UNCHANGED nb
    BY <1>1, <1>4 DEF Commit
  <2>2. {writes', changes', faults'} \subseteq Nat
    BY <1>3 DEF AdmissionInv, TypeOK
  <2>. QED BY <1>3, <2>1, <2>2, OneRequest DEF Admissible
<1>5. CASE req.fresh
  <2>1. PICK reqs : reqs = [requests EXCEPT ![u] = NoRequest]
    OBVIOUS
  <2>2. /\ reqs \in [Users -> Requests \cup {NoRequest}] /\ requests' = Outdated(reqs)
        /\ \A w \in Users : reqs[w] \in {requests[w], NoRequest}
    BY <1>1, <1>2, <1>5, <2>1 DEF Commit
  <2>3. nb' = [req.new EXCEPT !.vouched = req.exists \cap req.readable]
    BY <1>1, <1>5 DEF Commit, Store
  <2>4. /\ nb' \in Notebooks /\ nb'.annotation = req.new.annotation
        /\ nb'.env = req.new.env /\ nb'.own = req.new.own /\ nb'.intact = req.new.intact
        /\ nb'.deleting = req.new.deleting /\ nb'.vouched = req.exists \cap req.readable
    BY <1>2, <2>3 DEF Requests, Notebooks
  <2>5. ~req.new.deleting =>
            /\ \A ref \in NewRefs(req) : Exists(req, ref) /\ ref \in req.readable
            /\ Due(req.new.env, req.new.own, NewRefs(req), req.new.intact)
    BY <1>2 DEF Sound
  <2>6. InjectedOnce'
    BY <2>4, <2>5 DEF InjectedOnce, Due, HomeRef, NewRefs
  <2>7. ConnectionsVouched'
    BY <2>4, <2>5 DEF ConnectionsVouched, NewRefs, Exists
  <2>. QED BY <1>3, <2>2, <2>4, <2>6, <2>7, OutdatedKeeps
<1>. QED BY <1>4, <1>5

-----------------------------------------------------------------------------
(* The theorems *)

\* There is no request yet, and a legacy Notebook names no connection.
LEMMA AdmissionInit == Init => AdmissionInv
<1>. SUFFICES ASSUME Init PROVE AdmissionInv
  OBVIOUS
<1>1. TypeOK
  BY DEF Init, TypeOK, Legacy
<1>2. nb # NoNotebook => nb = Legacy /\ Range(Legacy.annotation) = {Malformed}
  BY DEF Init, Legacy, Range
<1>3. InjectedOnce
  <2>1. ASSUME NEW s \in Secrets
        PROVE  [ns |-> "home", name |-> s] # Malformed
    BY DEF Malformed
  <2>2. CASE nb # NoNotebook
    <3>1. ASSUME NEW s \in Secrets
          PROVE  /\ nb.own[s] = 0 /\ nb.env[s] = 0
                 /\ [ns |-> "home", name |-> s] \notin Range(nb.annotation)
      BY <1>2, <2>1, <2>2 DEF Legacy
    <3>2. ASSUME NEW s \in Secrets
          PROVE  LET due == nb.own[s] + (IF [ns |-> "home", name |-> s] \in Range(nb.annotation)
                                         THEN 1 ELSE 0)
                 IN  nb.env[s] = due /\ due = 0
      BY <3>1
    <3>3. 0 <= 0
      OBVIOUS
    <3>. QED BY <3>2, <3>3, Zenon DEF InjectedOnce
  <2>. QED BY <2>2 DEF InjectedOnce
<1>4. ConnectionsVouched
  BY <1>2 DEF ConnectionsVouched
<1>5. \A u \in Users : requests[u] = NoRequest
  BY DEF Init
<1>. QED BY <1>1, <1>3, <1>4, <1>5 DEF AdmissionInv

LEMMA AdmissionNext == AdmissionInv /\ [Next]_vars => AdmissionInv'
<1>. SUFFICES ASSUME AdmissionInv, [Next]_vars PROVE AdmissionInv'
  OBVIOUS
<1>1. ASSUME NEW u \in Users, NEW annotation \in Annotations, NEW own \in OwnEntries,
             \/ SubmitCreate(u, annotation, own)
             \/ \E reapply \in BOOLEAN : SubmitUpdate(u, annotation, own, reapply)
      PROVE  AdmissionInv'
  BY <1>1, CreateKeeps, UpdateKeeps
<1>2. ASSUME NEW u \in Users, Acknowledge(u) \/ Commit(u) PROVE AdmissionInv'
  BY <1>2, EndKeeps, CommitKeeps
<1>3. ASSUME NEW finalizer \in BOOLEAN, DeleteNotebook(finalizer) PROVE AdmissionInv'
  BY <1>3, DeleteKeeps
<1>4. ASSUME NEW s \in Secrets, \/ ChangeCluster(existing \cup {s}, allowed)
                                \/ ChangeCluster(existing \ {s}, allowed)
      PROVE  AdmissionInv'
  <2>1. PICK perms : perms = allowed
    OBVIOUS
  <2>2. PICK secrets : secrets \in {existing \cup {s}, existing \ {s}}
                       /\ ChangeCluster(secrets, perms)
    BY <1>4, <2>1
  <2>3. secrets \subseteq Secrets /\ perms \in [Users -> SUBSET Refs]
    BY <2>1, <2>2 DEF AdmissionInv, TypeOK
  <2>. QED BY <2>2, <2>3, ClusterKeeps
<1>5. ASSUME NEW u \in Users, NEW ref \in [ns : {"home"}, name : Secrets],
             \/ ChangeCluster(existing, [allowed EXCEPT ![u] = @ \cup {ref}])
             \/ ChangeCluster(existing, [allowed EXCEPT ![u] = @ \ {ref}])
      PROVE  AdmissionInv'
  <2>1. PICK secrets : secrets = existing
    OBVIOUS
  <2>2. PICK perms : /\ perms \in {[allowed EXCEPT ![u] = @ \cup {ref}],
                                   [allowed EXCEPT ![u] = @ \ {ref}]}
                     /\ ChangeCluster(secrets, perms)
    BY <1>5, <2>1
  <2>3. secrets \subseteq Secrets /\ ref \in Refs /\ allowed \in [Users -> SUBSET Refs]
    BY <2>1 DEF AdmissionInv, TypeOK, Refs
  <2>4. perms \in [Users -> SUBSET Refs]
    BY <2>2, <2>3
  <2>. QED BY <2>2, <2>3, <2>4, ClusterKeeps
<1>6. ASSUME NEW u \in Users, CheckSecret(u) \/ CheckAccess(u) \/ CheckFails(u)
      PROVE  AdmissionInv'
  BY <1>6, SecretKeeps, AccessKeeps, EndKeeps
<1>7. CASE UNCHANGED vars
  BY <1>7 DEF vars, AdmissionInv, TypeOK, InjectedOnce, ConnectionsVouched
<1>. QED BY <1>1, <1>2, <1>3, <1>4, <1>5, <1>6, <1>7 DEF Next, Environment, Handler

\* The inductive invariant of the admission, for every instance.
THEOREM AdmissionHolds == Spec => []AdmissionInv
<1>. QED BY AdmissionInit, AdmissionNext, PTL DEF Spec

\* Type correctness: among others, the counts of envFrom entries stay natural
\* and every reference checked by the handler is one that parsed.
THEOREM ConnectionTypes == Spec => []TypeOK
<1>1. AdmissionInv => TypeOK
  BY DEF AdmissionInv
<1>. QED BY <1>1, AdmissionHolds, PTL

\* A connection is injected exactly once for as long as the annotation names
\* it, whatever several writers submit and whichever of their writes commit.
THEOREM ConnectionsInjectedOnce == Spec => []InjectedOnce
<1>1. AdmissionInv => InjectedOnce
  BY DEF AdmissionInv
<1>. QED BY <1>1, AdmissionHolds, PTL

\* The stored connections existed and were readable by the last writer while
\* its write was being admitted, however Secrets and permissions changed.
THEOREM ConnectionsAreVouched == Spec => []ConnectionsVouched
<1>1. AdmissionInv => ConnectionsVouched
  BY DEF AdmissionInv
<1>. QED BY <1>1, AdmissionHolds, PTL

\* A denial has a cause that existed during the admission.
THEOREM DenialsHaveCause == Spec => []DeniedForCause
<1>1. AdmissionInv => DeniedForCause
  BY DEF AdmissionInv, DeniedForCause, At, Sound, Cause, NewRefs
<1>. QED BY <1>1, AdmissionHolds, PTL
=============================================================================
