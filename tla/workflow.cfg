SPECIFICATION FairSpec
CONSTANTS
    build = build
    check = check
    Node <- MCNode
    Edge <- MCEdge
    MaxAttempts <- MCMaxAttempts
    Task = {t1, t2}
    Handler = {h1, h2}
    Ticker = {h2}
    Stamp = {s1, s2, s3, s4, s5}
    None = None
    Start = Start
    Timed = {check}
    Plan = {build}
    Approval = {check}
    Ends <- MCEnds
    MaxIncidents = 1
INVARIANTS TypeOK CurrentTaskAtNode AttemptBudget
PROPERTIES PathSpec ReservationResolved
CHECK_DEADLOCK FALSE
