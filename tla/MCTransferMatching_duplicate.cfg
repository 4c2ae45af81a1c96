SPECIFICATION Spec
CONSTANTS
    a = a  b = b  usdc = usdc  other = other  sol = sol
    Owner = {a, b}
    Asset = {usdc, other, sol}
    Native = sol
    Dangling = Dangling
    Request <- MCRequest
    Composable <- MCComposable
    MaxSafe = 1
    AsNumber <- MCAsNumber
    SplitLimit = 2
    U64 = 4
    MaxTransfers = 2
CHECK_DEADLOCK FALSE
INVARIANTS RustSharesArePaid
