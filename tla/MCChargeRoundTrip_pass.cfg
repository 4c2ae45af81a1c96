SPECIFICATION FairSpec
CONSTANTS
    payment = payment
    Tx = {payment}
    Unset = Unset
    Lagging = FALSE
    Scenario <- MCScenario
    MaxFaults = 1
CHECK_DEADLOCK FALSE
INVARIANTS TypeOK RefusedIsFree ServedIsMeant AgreementIsEnough
PROPERTIES EveryChargeEnds
