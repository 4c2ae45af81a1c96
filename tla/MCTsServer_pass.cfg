SPECIFICATION FairSpec
CONSTANTS
    whole = whole  feeless = feeless  tWhole = tWhole  tFeeless = tFeeless
    any = any  payer = payer  presenter = presenter
    Sponsored <- MCSponsored
    ChainMatch <- MCChainMatch
    ServerKey <- MCServerKey
    Call = {any, payer, presenter}
    Tx = {tWhole, tFeeless}
    ChargeRequest = {whole, feeless}
    HasSigner <- MCHasSigner
    Presented <- MCPresented
    Durable = TRUE
    Lagging = FALSE
    MaxFaults = 1
    MaxCrashes = 1
CHECK_DEADLOCK FALSE
INVARIANTS TypeOK ReceiptMeansPaid ReplayRefused
PROPERTIES EveryCallEnds PaidIsServed
