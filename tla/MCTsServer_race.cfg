SPECIFICATION Spec
CONSTANTS
    whole = whole  feeless = feeless  tWhole = tWhole  tFeeless = tFeeless
    any = any  payer = payer  presenter = presenter
    Sponsored <- MCSponsored
    ChainMatch <- MCChainMatch
    ServerKey <- MCServerKey
    Call = {payer, presenter}
    Tx = {tWhole}
    ChargeRequest = {whole}
    HasSigner <- MCHasSigner
    Presented <- MCPresented
    Durable = TRUE
    Lagging = FALSE
    MaxFaults = 0
    MaxCrashes = 0
CHECK_DEADLOCK FALSE
INVARIANT AtMostOneReceipt
