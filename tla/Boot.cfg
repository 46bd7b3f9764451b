SPECIFICATION Spec
CONSTANTS
    Agents = {a1, a2}
    Other = Other
    MaxAgentKeys = 1
    MaxEventAgents = 1
    MaxCount = 2
    MaxBuffer = 1
    Sent <- MCSent
    MaxSent = 2
    MaxKeys = 2
    MaxBoots = 4
SYMMETRY Symmetry
INVARIANTS TypeOK ExactTotals LegacyServed IdentityContinues BackupSurvives
CHECK_DEADLOCK FALSE
