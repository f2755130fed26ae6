\* A failed append of the INIT record leaves a torn record that loadIndexes
\* cannot read past.
CONSTANTS
    Keys = {k1, k2}
    Segments = {s1, s2}
    NoKey = NoKey
    NoSeg = NoSeg
    Failed = Failed
    MaxRecords = 3
    MaxFailures = 1
SPECIFICATION Spec
INVARIANT TornTailTolerated
