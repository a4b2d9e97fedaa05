SPECIFICATION FairSpec
CONSTANTS
    Stream = {s1, s2}
    Sender = {p1}
    Drainer = {d1}
    Lookalike = {s2}
    Limits = {1}
    None = None
    MaxChunks = 2
PROPERTIES InboxAdvances
CHECK_DEADLOCK FALSE
