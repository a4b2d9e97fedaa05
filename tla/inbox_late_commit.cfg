SPECIFICATION Spec
CONSTANTS
    Stream = {s1, s2}
    Sender = {p1, p2}
    Drainer = {d1}
    Lookalike = {}
    Limits = {1, 2}
    None = None
    MaxChunks = 2
INVARIANTS NothingSkipped
CHECK_DEADLOCK FALSE
