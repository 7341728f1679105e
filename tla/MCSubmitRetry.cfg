SPECIFICATION Spec
CONSTANTS
    session = session
    outbox = outbox
    chat = chat
    c1 = c1
    c2 = c2
    Writer = {session, outbox, chat}
    Channel = {c1, c2}
    Unbounded = Unbounded
    Quota = 1
    MaxFaults = 1
    MaxClock = 1
    ChannelOf <- MCChannelOf
    Attempts <- MCAttempts
    PriorityAttempts <- MCPriorityAttempts
    Found <- MCFound
CHECK_DEADLOCK FALSE
INVARIANTS
    NoTies
    ClearsReportedFloor
PROPERTIES
    EverySubmissionSettles
