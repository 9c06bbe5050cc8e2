SPECIFICATION Spec
CONSTANTS
    ana = ana
    ben = ben
    System = System
    None = None
    Findings = {finding}
    Users = {ana, ben}
    OpeningQueue <- OpensInCompliance
    RolesOf <- MCRolesOf
    MaxTrail = 4
INVARIANTS
    AuditTrailExplainsItem
PROPERTIES
    ClaimIsNeverTakenOver
    ImplementsLifecycle
