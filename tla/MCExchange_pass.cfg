SPECIFICATION FairSpec
CONSTANTS
    s1 = s1
    s2 = s2
    Server <- MCServer
    realm <- MCRealm
    secret_key <- MCKey
    decimals <- MCDecimals
    default_expires = 2
    Offer <- MCOffer
    Draft <- MCDraft
    Foreign <- MCForeign
    Radix = 3
    U64 = 16
    U128 = 256
    MaxAmount <- MCMaxAmount
    MaxTokenLen = 14
    MaxIssued = 2
    MaxTime = 2
INVARIANTS
    TypeOK
    ChallengeArrives
    IdentityBinds
    OnlyIssuedIsServed
    PriceIsPaid
    HonestIsServed
    ChecksAgree
PROPERTIES
    NoLateAdmission
    ExchangeEnds
CHECK_DEADLOCK FALSE
