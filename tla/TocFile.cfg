\* Two writers race writeInitRecord and append through O_APPEND; w1 rounds
\* records to blocks of two units, w2 to blocks of four; up to two writes are
\* cut short.
CONSTANTS
    w1 = w1
    w2 = w2
    Writers = {w1, w2}
    DbKey = DbKey
    Segments = {s1, s2}
    NoSeg = NoSeg
    BlockOf <- MCBlockOf
    MaxAppends = 2
    MaxFailures = 2
SYMMETRY Symmetry
SPECIFICATION Spec
INVARIANT FileReadsAsJournal
