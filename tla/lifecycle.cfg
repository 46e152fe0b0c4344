\* The life of the CR: edits, removal, deletion, re-creation, one fault anywhere.
CONSTANTS
    Rendered <- FullManifests
    ClusterScoped <- MCClusterScoped
    Uncollected <- MCUncollected
    Unowned <- MCUnowned
    Unwatched <- MCUnwatched
    ApplicationsNamespace = "opendatahub"
    Specs <- LifecycleSpecs
    PlatformConfigs <- StandaloneOnly
    MaxUid = 2
    MaxGeneration = 2
    MaxLag = 2
    MaxFaults = 1
    MaxDrift = 0
    NoCR = NoCR
    Absent = Absent
SPECIFICATION Spec
INVARIANTS
    TypeOK
    NoOrphans
    FinalizerInv
    RemovedIsClean
    ReadyMeansApplied
    EvidenceBacked
PROPERTIES
    NoLostUpdate
    ImplementsOwnership
