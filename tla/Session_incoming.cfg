SPECIFICATION Spec
CONSTANTS
    a = a
    b = b
    d1 = d1
    q1 = q1
    q2 = q2
    s1 = s1
    s2 = s2
    Message = {}
    Device = {d1}
    PeerRequest = {q1, q2}
    Subscriber = {s1, s2}
    Waiter = {s2}
    Eager = {}
    Form <- Damaged
    Roster = {{d1}}
    Behaviour = {"leave", "dispose"}
    MaxSubmits = 0
    MaxSubmitRetries = 1
    MaxInitRetries = 0
    MaxFaults = 1
    MaxRestarts = 0
    Capacity = 2
    Sender <- MCSender
    Fits <- MCFits
    Clock <- StuckClock
CHECK_DEADLOCK FALSE
INVARIANTS
    RequestsAreHandledOnce
PROPERTIES
    DisposedStaysSilent
