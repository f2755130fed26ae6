\* Journal replay refines the abstract journal, with readers at every
\* point and up to two failed appends (torn records) anywhere in a toc of
\* up to four records.
CONSTANTS
    Keys = {k1, k2}
    Segments = {s1, s2}
    NoKey = NoKey
    NoSeg = NoSeg
    Failed = Failed
    MaxRecords = 4
    MaxFailures = 2
SPECIFICATION Spec
INVARIANT TypeOK
PROPERTY JournalRefinement
