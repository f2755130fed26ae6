\* writeInitRecord on an existing database accepts any key.
CONSTANTS
    Keys = {k1, k2}
    Segments = {s1, s2}
    NoKey = NoKey
    NoSeg = NoSeg
    Failed = Failed
    MaxRecords = 3
    MaxFailures = 0
SPECIFICATION Spec
INVARIANT SessionKeyMatches
