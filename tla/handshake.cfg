\* The version handshake while the ConfigMap changes at any moment, and its end.
CONSTANTS
    Rendered <- TinyManifests
    ClusterScoped <- MCClusterScoped
    Uncollected <- MCUncollected
    Unowned <- MCUnowned
    Unwatched <- MCUnwatched
    ApplicationsNamespace = "opendatahub"
    Specs <- OneSpec
    PlatformConfigs <- Handshakes
    MaxUid = 1
    MaxGeneration = 1
    MaxLag = 1
    MaxFaults = 1
    MaxDrift = 0
    NoCR = NoCR
    Absent = Absent
SPECIFICATION FairSpec
INVARIANT ReadyMeansHandshaken
PROPERTIES
    VersionChangeAnnounced
    EventuallyReady
