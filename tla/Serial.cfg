CONSTANTS
    r1 = r1
    r2 = r2
    r3 = r3
    r4 = r4
    s1 = s1
    s2 = s2
    c1 = c1
    c2 = c2
    Request = {r1, r2, r3}
    Seed = {s1}
    Customer = {c1}
    Year = {2026}
    Inputs <- SerialInputs
    SeedBook <- AnySeed
    PoolSize = 1
    None = None
SPECIFICATION SerialSpec
SYMMETRY OthersAlike
INVARIANTS TimelineIsPath MoneyFromItems
PROPERTIES LifecycleSpec EditOnlyWhileDraft
