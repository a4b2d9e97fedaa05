SPECIFICATION FairSpec
CONSTANTS
    Stream = {s1, s2}
    Sender = {p1, p2}
    Drainer = {d1}
    Lookalike = {}
    Limits = {2}
    None = None
    MaxChunks = 3
INVARIANTS TypeOK SequencesDense HandedOnce
PROPERTIES CursorNeverBack InboxAdvances
CHECK_DEADLOCK FALSE
