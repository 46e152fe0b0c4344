\* Deletions, spec edits and moves between platforms come to an end; faults and drift of watched operands are healed.
CONSTANTS
    Rendered <- MonitorManifests
    ClusterScoped <- MCClusterScoped
    Uncollected <- MCUncollected
    Unowned <- MCUnowned
    Unwatched <- MCUnwatched
    ApplicationsNamespace = ""
    Specs <- MovingSpecs
    PlatformConfigs <- StandaloneOnly
    MaxUid = 1
    MaxGeneration = 2
    MaxLag = 1
    MaxFaults = 1
    MaxDrift = 1
    NoCR = NoCR
    Absent = Absent
SPECIFICATION FairSpec
INVARIANTS
    StatusInv
PROPERTIES
    DeletionCompletes
    SpecObserved
    EventuallyReady
