CONSTANTS
    l1 = l1
    l2 = l2
    None = None
    Line = {l1, l2}
    Quantity = {1, 3}
    Price <- Prices
    Rate <- Rates
    HalfDown <- Down
    HalfCut <- Cut
    TaxHalfDown <- TaxDown
    MaxCents = 19600
SPECIFICATION Spec
INVARIANTS TypeOK HeaderChecks
PROPERTIES LinesKept BlankEditSettles
