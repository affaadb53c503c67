CONSTANTS
    N = 4
    MaxN = 2
    Fits = {"first"}
    LeaveTop = FALSE
SPECIFICATION Spec
CHECK_DEADLOCK FALSE
INVARIANT GivenUnlinked
