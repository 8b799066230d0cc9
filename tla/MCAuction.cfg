CONSTANTS
    Roles = {r1, r2, r3}
    Listings = {l1, l2}
    Calls = {c1, c2}
    Price <- MCPrice
    Qty <- MCQty
    Purse = 2
    Stock = 1
    Income = 2
    MaxLevel = 2
    None = None
SPECIFICATION Spec
INVARIANTS TypeOK OfferedIsEscrowed SoldIsSettled PaidIsCharged ChargedOwns
PROPERTIES SoldIsFinal RolesAreAtomic
SYMMETRY Symmetry
CHECK_DEADLOCK FALSE
