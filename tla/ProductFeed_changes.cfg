\* Up to seven products in pages of two, at most three pages: catalogues that
\* end within a page, with a page, with the last page allowed and behind it.
CONSTANTS
    PageSize = 2
    MaxPages = 3
    MaxAttempts = 2
    MaxSize = 7
    MaxChanges = 3
    MayRepeat = TRUE
SPECIFICATION Spec
INVARIANTS TypeOK StableSourceIsWhole NoProductTwice MissedOnlyByShift
PROPERTY ReadingEnds
CHECK_DEADLOCK FALSE
