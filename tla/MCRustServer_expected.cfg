SPECIFICATION Spec
CONSTANTS
    whole = whole  shared = shared  feeless = feeless
    tWhole = tWhole  tBoth = tBoth  tFeeless = tFeeless  tNested = tNested
    tOdd = tOdd
    Unreadable = Unreadable
    NoExpectation = NoExpectation
    Headline <- MCHeadline
    Sponsored <- MCSponsored
    RawMatch <- MCRawMatch
    ChainMatch <- MCChainMatch
    ServerKey <- MCServerKey
    Forged <- MCForged
    Call = {c1, c2}
    Tx = {tWhole, tBoth}
    ChargeRequest = {whole, shared}
    Endpoints = {whole, shared}
    Lifetimes = {1}
    HasSigner = TRUE
    Durable = TRUE
    Lagging = FALSE
    MaxTime = 1
    MaxIssued = 2
    MaxFaults = 0
    MaxCrashes = 0
CHECK_DEADLOCK FALSE
INVARIANT ExpectedIsPaid
