SPECIFICATION Spec
CONSTANTS
    whole = whole  shared = shared  feeless = feeless
    tWhole = tWhole  tBoth = tBoth  tFeeless = tFeeless  tNested = tNested
    tOdd = tOdd
    Unreadable = Unreadable
    NoExpectation = NoExpectation
    Headline <- MCHeadline
    Sponsored <- MCSponsored
    RawMatch <- MCRawMatch
    ChainMatch <- MCChainMatch
    ServerKey <- MCServerKey
    Forged <- MCForged
    Call = {c1, c2, c3}
    Tx = {tWhole}
    ChargeRequest = {whole}
    Endpoints = {whole}
    Lifetimes = {1}
    HasSigner = TRUE
    Durable = TRUE
    Lagging = TRUE
    MaxTime = 1
    MaxIssued = 1
    MaxFaults = 1
    MaxCrashes = 1
CHECK_DEADLOCK FALSE
SYMMETRY CallSymmetry
INVARIANTS TypeOK AtMostOneReceipt RefusalIsJust
PROPERTIES ConsumedIsFinal ImplementsPromise
