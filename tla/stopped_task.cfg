SPECIFICATION Spec
CONSTANTS
    child = child
    mid = mid
    top = top
    aside = aside
    spare = spare
    Task <- MCTask
    Needs <- MCNeeds
    Handler = {h1, h2}
    Sweeper = {h2}
    None = None
    Settled = {top}
    Integration = {top}
    CancelScope = {aside}
    Spare = {spare}
    Flow = {child}
    Paused = {aside, spare}
    Fails = {mid}
    Touched = {child, mid}
    MaxAttempts <- MCMaxAttempts
    MaxIncidents = 1
PROPERTIES StoppedUntilOperator
CHECK_DEADLOCK FALSE
