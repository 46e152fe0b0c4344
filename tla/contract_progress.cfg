\* Evidence is published, withdrawn and cleared in the end.
CONSTANTS
    Components <- OneController
    Reassigns = FALSE
    MaxContract = 1
    MaxGeneration = 2
    MaxDisturb = 1
    MaxFaults = 1
SPECIFICATION Spec
CHECK_DEADLOCK FALSE
PROPERTIES
    EvidenceConfirmed
    EvidenceWithdrawn
    
