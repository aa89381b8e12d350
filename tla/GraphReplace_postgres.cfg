CONSTANTS
    Writer = {w1, w2}
    Doc <- Documents
    NoDoc = NoDoc
    Key <- Keys
    Content <- Documented
    NoRow = NoRow
    Kept = Kept
    Populates = TRUE
    MaxTransactions = 4
SYMMETRY WriterSymmetry
SPECIFICATION Spec
INVARIANTS LatestIsPresent StrangersAreRivals
CHECK_DEADLOCK FALSE
