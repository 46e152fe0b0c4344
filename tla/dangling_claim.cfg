\* mutating.go:730-731 against a reference that is dropped while no container bears the Notebook's name.
CONSTANTS
    ProfileNames = {"a", "b"}
    Contents <- MCContents
    InitialProfiles <- MCProfiles
    Templates = {"gpu"}
    Layouts <- RenamedLayouts
    MaxWrites = 4
    MaxEdits = 0
    MaxFaults = 0
    NoNotebook = NoNotebook
    NoProfile = NoProfile
    NoRequest = NoRequest
SPECIFICATION Spec
CHECK_DEADLOCK FALSE
INVARIANT
    NoDanglingClaim
