SPECIFICATION Spec
CONSTANTS
    Codes = {c1}
    Redeemers = {r1, r2}
    SetMayFail = FALSE
    DeleteMayFail = FALSE
INVARIANTS RedeemedOnce
