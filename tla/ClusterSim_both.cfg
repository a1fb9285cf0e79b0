SPECIFICATION FairSpec
CONSTANTS
    N = 3
    None = None
INVARIANT TypeOK
INVARIANT IsolatedNodeFails
PROPERTY Ends
CHECK_DEADLOCK FALSE
