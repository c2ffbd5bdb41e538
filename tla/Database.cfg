\* Two identifiers, an index that grows, and nine calls, commits and crashes.
SPECIFICATION Spec
CONSTANTS
    Places = {1, 2, 3, 4, 5, 6, 7, 8, 9, 10, 11}
    MaxOid = 2
    HandlesPerPage = 2
    FirstUserId = 1
    InitIndex <- MCIndex
    InitBitmap = 3
    Bodies <- MCBodies
    Careful = TRUE
    MaxCalls = 9
    Place <- FirstFit
INVARIANT CommittedUntouched
INVARIANT BitmapExact
PROPERTY ImplementsStore
CHECK_DEADLOCK FALSE
