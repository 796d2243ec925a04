SPECIFICATION SerialSpec
CONSTANTS
    r1 = r1  r2 = r2  r3 = r3
    ann = ann  bob = bob
    k1 = k1
    m1 = m1  m2 = m2
    s1 = s1
    Joint = Joint
    NoId = NoId
    Rows = {r1, r2, r3}
    Settlements = {k1}
    Months = {m1, m2}
    Sessions = {s1}
    Persons = {ann, bob}
    Amounts <- BothSigns
    Splits <- TwoSplits
SYMMETRY Interchangeable
INVARIANT TypeOK
INVARIANT LinkedLegsExcluded
PROPERTY LockedMonthFrozen
PROPERTY NoSilentEdit
