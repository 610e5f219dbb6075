CONSTANTS
    r1 = r1
    r2 = r2
    r3 = r3
    r4 = r4
    u1 = u1
    u2 = u2
    Unopened = Unopened
    Closed = Closed
    Request = {r1, r2, r3, r4}
    User = {u1}
SPECIFICATION SerialSpec
SYMMETRY RequestSymmetry
INVARIANTS RotatedOnce
PROPERTIES FamiliesSpec
