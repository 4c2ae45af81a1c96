SPECIFICATION FairSpec
CONSTANTS
    whole = whole  shared = shared  feeless = feeless
    tWhole = tWhole  tBoth = tBoth  tFeeless = tFeeless  tNested = tNested
    tOdd = tOdd
    Unreadable = Unreadable
    NoExpectation = NoExpectation
    Headline <- MCHeadline
    Sponsored <- MCSponsored
    RawMatch <- MCRawMatch
    ChainMatch <- MCChainMatch
    ServerKey <- MCServerKey
    Forged <- MCForged
    Call = {c1, c2, c3}
    Tx = {tWhole}
    ChargeRequest = {whole, feeless}
    Endpoints = {}
    Lifetimes = {1, Unreadable}
    HasSigner = FALSE
    Durable = TRUE
    Lagging = FALSE
    MaxTime = 0
    MaxIssued = 1
    MaxFaults = 1
    MaxCrashes = 1
CHECK_DEADLOCK FALSE
PROPERTIES EveryCallEnds PaidIsServed
