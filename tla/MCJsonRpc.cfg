SPECIFICATION FairSpec
CONSTANTS
    Conns = {c1, c2}
    Features = {f1}
    Intents = {"pause", "seek"}
    Offers <- MCOffers
    InResult = {"subscribe"}
    Media <- MCMedia
    Seeks <- MCSeeks
    Times = {1, 4}
    MaxIntents = 2
    MaxQueries = 1
    NoConn = NoConn
INVARIANTS
    SentAsDeclared
    SeekWithinRange
    IntentIdsIncrease
PROPERTY
    RequestsAreAnswered
CHECK_DEADLOCK FALSE
