\* Two different entries tell a lost, a repeated and a misplaced leaf apart;
\* four lines let a malformed line come before, between and after two
\* collections.
SPECIFICATION Spec
CONSTANTS
    Entries = {a, b}
    Malformed = Malformed
    MaxLines = 4
CONSTRAINT LogIsShort
SYMMETRY Symmetric
INVARIANTS
    TypeOK
    LeavesAreNumbered
    NoMeasurementLost
    RootTellsTheLog
    CleanReportIsRebuild
PROPERTY
    ActsAsAgent
