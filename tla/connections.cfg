\* Two writers, two Secrets: what admission lets into the Notebook.
CONSTANTS
    Users = {u1, u2}
    Secrets = {"s1", "s2"}
    Annotations <- MCAnnotations
    OwnEntries <- MCOwnEntries
    MaxConnectionSecrets = 2
    MaxWrites = 3
    MaxChanges = 1
    MaxFaults = 1
    NoNotebook = NoNotebook
    NoRequest = NoRequest
SPECIFICATION Spec
CHECK_DEADLOCK FALSE
INVARIANTS
    TypeOK
    InjectedOnce
    ConnectionsVouched
    DeniedForCause
SYMMETRY MCSymmetry
