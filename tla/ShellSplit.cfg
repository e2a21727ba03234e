CONSTANTS
    Alphabet = {"a", " ", "\"", "'"}
    MaxLen = 4

SPECIFICATION Spec

INVARIANT SplitsLikeShell
