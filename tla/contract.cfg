\* A contract is assigned to a running component with two notebook controllers.
CONSTANTS
    Components <- BothControllers
    Reassigns = FALSE
    MaxContract = 1
    MaxGeneration = 2
    MaxDisturb = 0
    MaxFaults = 1
SPECIFICATION Spec
CHECK_DEADLOCK FALSE
INVARIANTS
    TypeOK
    EvidenceSound
