SPECIFICATION Spec
CONSTANTS
    a1 = a1  a2 = a2
    ann = ann  bob = bob
    t1 = t1  t2 = t2
    x = x  y = y
    c1 = c1  c2 = c2
    Web = Web
    Mcp = Mcp
    AnyTool = AnyTool
    Actions = {a1, a2}
    Persons = {ann, bob}
    Tools = {t1, t2}
    Inputs = {x, y}
    Calls = {c1, c2}
    TTL = 1
    MaxTime = 3
SYMMETRY Interchangeable
INVARIANT RunsAtMostOnce
INVARIANT CancelledNeverRuns
PROPERTY OnlyPreviewsRun
PROPERTY RefusalKeepsPending
