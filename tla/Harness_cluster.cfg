SPECIFICATION Spec
CONSTANTS
    None = None
    N = 3
    KillChoices = {0, 2, None}
INVARIANT TypeOK
INVARIANT VerifiesWholeCluster
INVARIANT SuccessNeedsRecords
PROPERTY Returns
CHECK_DEADLOCK FALSE
