CONSTANTS
    Roles = {r1, r2, r3}
    Listings = {l1}
    Calls = {c1, c2, c3}
    Price <- MCPrice
    Qty <- MCQty
    Purse = 2
    Stock = 1
    Income = 2
    MaxLevel = 2
    None = None
SPECIFICATION Spec
SYMMETRY Symmetry
INVARIANT OneBuyerPerListing
CHECK_DEADLOCK FALSE
