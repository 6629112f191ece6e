SPECIFICATION Spec
CONSTANTS
    Malformed = Malformed
    Entries = {a, b}
    MaxLen = 8
CHECK_DEADLOCK FALSE
INVARIANTS
    TreeIsBalanced
    IncrementalIsFull
    ProofLeadsToRoot
    RootDeterminesLog
