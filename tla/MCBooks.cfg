SPECIFICATION BooksSpec
CONSTANTS
    k1 = k1  k2 = k2
    s1 = s1  s2 = s2
    LastMonth = 3
    Year <- TwoYears
    Settlements = {k1, k2}
    Sessions = {s1, s2}
    Charges <- EitherWay
    Amounts = {1, 3}
    LegShares = {}
SYMMETRY Interchangeable
INVARIANT OutstandingIsNet
PROPERTY PaymentsKeepPromise
PROPERTY WaiversClear
