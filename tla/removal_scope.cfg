\* README.md:22 against an edit of spec.platform.
CONSTANTS
    Rendered <- SmallManifests
    ClusterScoped <- MCClusterScoped
    Uncollected <- MCUncollected
    Unowned <- MCUnowned
    Unwatched <- MCUnwatched
    ApplicationsNamespace = ""
    Specs <- PlatformSpecs
    PlatformConfigs <- StandaloneOnly
    MaxUid = 1
    MaxGeneration = 3
    MaxLag = 1
    MaxFaults = 0
    MaxDrift = 0
    NoCR = NoCR
    Absent = Absent
SPECIFICATION Spec
INVARIANT RemovedLeavesNothing
