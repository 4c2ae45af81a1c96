SPECIFICATION Spec
CONSTANTS
    payment = payment
    Tx = {payment}
    Unset = Unset
    Lagging = FALSE
    Scenario <- MCSponsoredPush
    MaxFaults = 0
CHECK_DEADLOCK FALSE
INVARIANT RefusedIsFree
