SPECIFICATION Spec
CONSTANTS
    Requests = {r1, r2, r3}
    None = None
    MaxAttempts = 2
    MaxCodes = 3
SYMMETRY Symmetry
INVARIANTS
    RowBesideAccount
    AccountIsLastSubmission
    TriesBounded
    LastMailWorks
    CompletionSignsIn
CHECK_DEADLOCK FALSE
