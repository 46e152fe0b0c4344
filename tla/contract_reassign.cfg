\* ingress_contract.go:90-91 against a contract that is withdrawn and assigned again.
CONSTANTS
    Components <- OneController
    Reassigns = TRUE
    MaxContract = 1
    MaxGeneration = 4
    MaxDisturb = 0
    MaxFaults = 0
SPECIFICATION Spec
CHECK_DEADLOCK FALSE
INVARIANT EvidenceSound
