--------------------------- MODULE PlatformConfig ---------------------------
(***************************************************************************)
(* The pure functions of internal/platform and internal/platformconfig:    *)
(* where operands are deployed, and which distribution and platform        *)
(* version the orchestrator asks for through the ConfigMap                 *)
(* odh-workbenches-config.                                                 *)
(*                                                                         *)
(* A ConfigMap is a record [present, name, version, platformVersion] whose *)
(* strings are the trimmed data values; "" is a missing key.  The string   *)
(* MalformedVersion stands for every distribution.version the validation   *)
(* rejects (longer than 64 runes, or with a control character).            *)
(***************************************************************************)
OpenDataHub      == "OpenDataHub"
SelfManagedRhoai == "SelfManagedRhoai"          \* spec.platform
SelfManagedRHOAI == "SelfManagedRHOAI"          \* distribution.name
Standalone       == "Standalone"
MalformedVersion == "malformed"

\* That the literals below are strings is not known to the provers.
ASSUME LiteralsAssumption ==
    {"", "0.0.0", "OpenDataHub", "SelfManagedRHOAI", "Standalone",
     "opendatahub", "redhat-ods-applications"} \subseteq STRING

Distributions == [name : STRING, version : STRING]
NoDistribution == [name |-> "", version |-> ""]

----------------------------------------------------------------------------
(* internal/platform *)

DefaultApplicationsNamespace(platform) ==
    IF platform = SelfManagedRhoai THEN "redhat-ods-applications" ELSE "opendatahub"

DefaultLegacyWorkbenchNamespace(platform) ==
    IF platform = SelfManagedRhoai THEN "rhods-notebooks" ELSE "opendatahub"

\* APPLICATIONS_NAMESPACE when it is configured (and a valid DNS label; an
\* invalid value is the same as ""), the platform's default otherwise.
ResolveOperandNamespace(configured, platform) ==
    IF configured # "" THEN configured ELSE DefaultApplicationsNamespace(platform)

----------------------------------------------------------------------------
(* internal/platformconfig *)

\* The two validations of validateDistributionFields.
ValidDistributionFields(cm) ==
    /\ cm.name \in {"", OpenDataHub, SelfManagedRHOAI, Standalone}
    /\ cm.version # MalformedVersion

\* A missing ConfigMap yields the empty distribution; the error case is
\* ~ ValidDistributionFields, tested by the caller.
ReadDesiredDistribution(cm) ==
    IF cm.present THEN [name |-> cm.name, version |-> cm.version] ELSE NoDistribution

ReadPlatformVersion(cm) == IF cm.present THEN cm.platformVersion ELSE ""

\* The reconciler passes "" as the operator version, so the version is 0.0.0.
StandaloneDistribution == [name |-> Standalone, version |-> "0.0.0"]

DistributionNameFromPlatform(platform) ==
    CASE platform = SelfManagedRhoai -> SelfManagedRHOAI
      [] platform = OpenDataHub      -> OpenDataHub
      [] OTHER                       -> ""

\* A name missing from the ConfigMap comes from spec.platform, then Standalone;
\* a missing version is the standalone one.
ResolveDesiredDistribution(desired, platform) ==
    LET derived == IF desired.name # "" THEN desired.name
                   ELSE DistributionNameFromPlatform(platform)
    IN  IF desired = NoDistribution THEN StandaloneDistribution
        ELSE [name    |-> IF derived # "" THEN derived ELSE Standalone,
              version |-> IF desired.version # "" THEN desired.version ELSE "0.0.0"]

DistributionAligned(desired, current) == desired.name # "" /\ desired = current

\* Only Standalone clusters skip the platform version handshake.
HandshakeRequired(desired) == desired.name # Standalone

\* Faulty variant: two unset versions count as a completed handshake.
HandshakeCompleteUnset(platformVersion, recorded) == recorded = platformVersion

HandshakeComplete(platformVersion, recorded) ==
    platformVersion # "" /\ recorded = platformVersion
=============================================================================
