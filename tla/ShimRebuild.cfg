\* A log of a few lines, one of which does not parse.
SPECIFICATION Spec
CONSTANTS
    Entries = {a}
    Malformed = Malformed
    MaxLines = 3
CONSTRAINT LogIsShort
INVARIANT IncrementalIsRebuild
