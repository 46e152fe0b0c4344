\* Starts, restarts and the ensurer against late, replaced and collected objects.
CONSTANTS
    Replicas = {r1, r2}
    ClusterGroups <- AnyProvider
    Usable = {"p1", "p2"}
    Unusable = {"bad"}
    InitialProfiles <- OneOrNone
    Installed <- AllOrNone
    MaxDisturbances = 2
    NoReplica = NoReplica
    NoProfile = "no APIServer"
    Unread = "unread"
SPECIFICATION Spec
CHECK_DEADLOCK FALSE
INVARIANTS
    TypeOK
    ServedWhereProvided
PROPERTIES
    CertificatesConfigured
    PostureFollowsCluster
    SomebodyServes
