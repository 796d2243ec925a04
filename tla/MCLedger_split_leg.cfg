SPECIFICATION Spec
CONSTANTS
    k1 = k1
    s1 = s1
    LastMonth = 1
    Year <- OneYear
    Settlements = {k1}
    Sessions = {s1}
    Charges = {0, 1}
    Amounts = {1}
    LegShares = {1}
PROPERTY PaymentsKeepPromise
