SPECIFICATION Spec
CONSTANTS
    Packages <- MCPackages
    Submissions = {r1, r2}
    Buyers = {b1}
    OrderIds = {o1}
    Tokens = {t1, t2}
    Codes = {c1, c2}
    MaxPublications = 3
    NoPackage = NoPackage
    NoOrder = NoOrder
    Nobody = Nobody
SYMMETRY Symmetry
INVARIANTS TypeOK OneTokenPerCode HistoryClimbs
PROPERTIES ImplementsCatalogue
CHECK_DEADLOCK FALSE
