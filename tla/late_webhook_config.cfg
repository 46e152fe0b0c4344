\* README.md:119-121 against a webhook configuration installed after the start.
CONSTANTS
    Replicas = {r1}
    ClusterGroups <- NoProvider
    Usable = {"p1"}
    Unusable = {}
    InitialProfiles <- OneOrNone
    Installed <- AllOrNone
    MaxDisturbances = 1
    NoReplica = NoReplica
    NoProfile = "no APIServer"
    Unread = "unread"
SPECIFICATION Spec
CHECK_DEADLOCK FALSE
PROPERTY
    NoServerNoConfiguration
