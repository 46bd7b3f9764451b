SPECIFICATION Spec
CONSTANTS
    Phrases <- ThePhrases
    Within = {}
    FingerprintBits = 2
    ValidNames = {"pg", "nonascii"}
    PlainNames = {"pg"}
    OtherSlug = "p-"
    Critical <- TheCritical
    Distrusted <- TheDistrusted
    NoLicense = "none"
    NoCard = NoCard
    Hole = Hole
    Drafts <- TheDrafts
    Transcripts <- TheTranscripts
    FingerprintOf <- TheFingerprints
    ExternalAnswers <- TheAnswers
    MaxExtFindings = 1
    MaxPublications = 2
    NoSkill = NoSkill
    NoVisit = NoVisit
    NoCopy = NoCopy
    Missing = Missing
INVARIANTS TypeOK AsAdvertised HonestIsCleared ListedInstalls
