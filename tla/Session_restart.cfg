SPECIFICATION FairSpec
CONSTANTS
    a = a
    b = b
    d1 = d1
    q1 = q1
    q2 = q2
    s1 = s1
    s2 = s2
    Message = {a, b}
    Device = {d1}
    PeerRequest = {}
    Subscriber = {s1}
    Waiter = {}
    Eager = {s1}
    Form <- Readable
    Roster = {{d1}}
    Behaviour = {}
    MaxSubmits = 3
    MaxSubmitRetries = 1
    MaxInitRetries = 1
    MaxFaults = 1
    MaxRestarts = 1
    Capacity = 1
    Sender <- MCSender
    Fits <- MCFits
    Clock <- StuckClock
CHECK_DEADLOCK FALSE
PROPERTIES
    RestartLosesNothing
    EveryTokenSettles
