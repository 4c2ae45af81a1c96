SPECIFICATION Spec
CONSTANTS
    whole = whole  shared = shared  feeless = feeless
    tWhole = tWhole  tBoth = tBoth  tFeeless = tFeeless  tNested = tNested
    tOdd = tOdd
    Unreadable = Unreadable
    NoExpectation = NoExpectation
    Headline <- MCHeadline
    Sponsored <- MCSponsored
    RawMatch <- MCRawMatch
    ChainMatch <- MCChainMatch
    ServerKey <- MCServerKey
    Forged <- MCForged
    Call = {c1, c2}
    Tx = {tWhole, tFeeless, tOdd}
    ChargeRequest = {whole, feeless}
    Endpoints = {}
    Lifetimes = {1}
    HasSigner = TRUE
    Durable = FALSE
    Lagging = FALSE
    MaxTime = 0
    MaxIssued = 2
    MaxFaults = 1
    MaxCrashes = 1
CHECK_DEADLOCK FALSE
SYMMETRY CallSymmetry
INVARIANTS ReceiptMeansPaid OnlyVerifiedLeaves OnlySponsoredCosigned AtMostOneReceipt
PROPERTIES ImplementsPromise
