SPECIFICATION TracingSpec
CONSTANTS
    Phrases <- ThePhrases
    Within <- TheWithin
    FingerprintBits = 4
    Skills = {k1}
    Sources <- EchoSources
    OrderIds = {o1, o2}
    Fingerprinted <- EchoFingerprints
    MaxListings = 1
    Hidden <- NobodyHides
    Mixed = FALSE
    NoOrder = NoOrder
    NoLeak = NoLeak
SYMMETRY Symmetry
INVARIANT ParaphraseNeverMisattributes
CHECK_DEADLOCK FALSE
