CONSTANTS
    i1 = i1
    i2 = i2
    i3 = i3
    c1 = c1
    c2 = c2
    c3 = c3
    Absent = Absent
    Deleted = Deleted
    Invoice = {i1, i2, i3}
    Client = {c1, c2, c3}
    Moment = {1, 2, 3}
    Now = 24306
    Limits = {1, 2}
    MaxWrites = 2
    Value <- Values
    Start <- Starts
SYMMETRY Alike
SPECIFICATION ReadsSpec
INVARIANTS TypeOK NoMoreMissedThanLeft NoMoreRepeatedThanEntered
PROPERTIES CardsAgree
CHECK_DEADLOCK FALSE
