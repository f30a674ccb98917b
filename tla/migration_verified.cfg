\* A migration that changes tiers passes its verification.
CONSTANTS
    Ids <- MCIds
    o1 = o1
    o2 = o2
    Owners = {o1, o2}
    Tiers = {"Critical", "Noise"}
    Payloads = {1}
    Times = {1, 3}
    Secrets = {}
    Absent = Absent
    Exports <- MCExports
    Transforms <- MCTransforms
    Policies <- MCPolicies
    Thresholds = {0, 1}
    Moments = {3}
    MaxLog = 3
    MaxExportLog = 2
    MaxTransforms = 2
SPECIFICATION Spec
CHECK_DEADLOCK FALSE
INVARIANTS VerifiedOpens
