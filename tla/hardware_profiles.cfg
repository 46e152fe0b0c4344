\* Profiles are selected, switched, dropped, edited and deleted in any order.
CONSTANTS
    ProfileNames = {"a", "b"}
    Contents <- MCContents
    InitialProfiles <- MCProfiles
    Templates = {"gpu"}
    Layouts <- MCLayouts
    MaxWrites = 4
    MaxEdits = 2
    MaxFaults = 1
    NoNotebook = NoNotebook
    NoProfile = NoProfile
    NoRequest = NoRequest
SPECIFICATION Spec
CHECK_DEADLOCK FALSE
INVARIANTS
    TypeOK
    ClaimOfReference
    RemovalLeavesNothing
    NoDanglingClaim
    UserPartKept
PROPERTY NoRetroactiveDRA
