SPECIFICATION TracingSpec
CONSTANTS
    Phrases <- ThePhrases
    Within <- TheWithin
    FingerprintBits = 4
    Skills = {k1, k2}
    Sources <- AllSources
    OrderIds = {o1, o2}
    Fingerprinted <- SomeFingerprints
    MaxListings = 2
    Hidden <- AuthorsHide
    Mixed = FALSE
    NoOrder = NoOrder
    NoLeak = NoLeak
SYMMETRY Symmetry
INVARIANTS NamesOnlyTheLeaker EnoughIsTraced ChannelsNameTheLeaker
CHECK_DEADLOCK FALSE
