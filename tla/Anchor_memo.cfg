\* Two pairs and a token, one pass at a time beside the operator, two calls in one process.
SPECIFICATION MCSpec
CONSTANTS
    Pair = {p1, p2}
    Token = {k}
    Pass = {night}
    Reader = {a, b}
    MaxClock = 1
    Key = {1, 2, 3, 4, 5}
    Decision = {yes, no}
    Unread = Unread
INVARIANTS MemoIsHonest RootIsDetermined ProofsVerify
SYMMETRY Alike
CHECK_DEADLOCK FALSE
