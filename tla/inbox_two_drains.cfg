SPECIFICATION Spec
CONSTANTS
    Stream = {s1}
    Sender = {p1}
    Drainer = {d1, d2}
    Lookalike = {}
    Limits = {1, 2}
    None = None
    MaxChunks = 2
INVARIANTS HandedOnce
CHECK_DEADLOCK FALSE
