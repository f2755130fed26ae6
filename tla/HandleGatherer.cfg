\* Up to four handles from two files before each dataHandle, in both
\* modes.
CONSTANTS
    r1 = r1
    r2 = r2
    Resources = {r1, r2}
    MaxOffset = 2
    MaxAdds = 4
SPECIFICATION Spec
SYMMETRY Symmetry
INVARIANT NoByteLostOrDuplicated
INVARIANT UnsortedKeepsOrder
