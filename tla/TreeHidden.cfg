SPECIFICATION Spec
CONSTANTS
    Names <- MCNames
    Dot = dot
    Chars <- MCChars
    MaxQuery = 2
CHECK_DEADLOCK FALSE
INVARIANT MatchesAreReachable
