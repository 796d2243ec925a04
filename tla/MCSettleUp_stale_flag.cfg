SPECIFICATION UntaggedSpec
CONSTANTS
    r1 = r1  r2 = r2
    ann = ann  bob = bob
    k1 = k1  k2 = k2
    m1 = m1  m2 = m2
    s1 = s1  s2 = s2
    Joint = Joint
    NoId = NoId
    Rows = {r1}
    Settlements = {k1, k2}
    Months = {m1}
    Sessions = {s1, s2}
    Persons = {ann, bob}
    Amounts <- MoneyOut
    Splits <- TwoSplits
SYMMETRY AllInterchangeable
INVARIANT LinkedLegsExcluded
