CONSTANTS
    None = None
    r1 = r1
    r2 = r2
    r3 = r3
    a1 = a1
    c1 = c1
    Request = {r1, r2, r3}
    Address = {a1}
    SeedCustomer = {c1}
    Inputs <- SomeInputs
SPECIFICATION Spec
SYMMETRY RequestSymmetry
INVARIANTS TypeOK EmailsUnique
PROPERTIES LockedOutStays RemovedIsHistory BarredEditsNothing
CHECK_DEADLOCK FALSE
