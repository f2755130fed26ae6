\* The locator scans r1, r2, r1 while the databases d1, d2 (under r1) and
\* d3 (under r2) are created, with one failed append.
CONSTANTS
    r1 = r1
    r2 = r2
    d1 = d1
    d2 = d2
    d3 = d3
    s1 = s1
    NoKey = NoKey
    NoSeg = NoSeg
    Failed = Failed
    Wild = Wild
    Always = Always
    Attrs <- MCAttrs
    Values <- MCValues
    SchemaRule <- MCSchemaRule
    Roots <- MCRoots
    RootList <- MCRootList
    Dirs <- MCDirs
    DirRoot <- MCDirRoot
    DirKey <- MCDirKey
    Keys <- MCKeys
    Segments <- MCSegments
    Segment = s1
    Requests <- MCRequests
    PatternMatches <- MCPatternMatches
    MaxFailures = 1
SPECIFICATION Spec

INVARIANT ReturnsEveryReadableDatabase
