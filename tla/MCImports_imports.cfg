SPECIFICATION Spec
CONSTANTS
    r1 = r1  r2 = r2
    ann = ann  bob = bob
    s1 = s1
    Joint = Joint
    Manual = Manual
    Ids = {r1, r2}
    Persons = {ann, bob}
    LastDay = 2
    Twins = 2
    Texts <- TwoTexts
    TagSplit <- UnevenSplits
    Files <- TwinFiles
    HandSplits = {50}
    MaxUploads = 2
    Sessions = {s1}
SYMMETRY Interchangeable
INVARIANT StoredOnce
INVARIANT OneHome
INVARIANT MovesReturnHome
PROPERTY TrueReplace
PROPERTY UploadsKeepTheRest
CHECK_DEADLOCK FALSE
