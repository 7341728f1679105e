SPECIFICATION Spec
CONSTANTS
    None = None
    Method <- MCMethod
    Registration = {r1, r2, r3}
    Call = {x1}
    NoChain = NoChain
    Chain = {g1, g2}
    Supported = {g1}
    Follow = {f1, f2}
    HeadOp = {h1}
    Spec_ = {s1}
    Broadcast = {b1, b2}
    MaxScheduled = 7
    Budget = 2
    MaxQueued = 3
    Locker = {l1, l2}
    Connector = {k1}
    MaxClients = 2
    MaxTransports = 2
    MaxResolves = 3
    Function = {p1, p2}
    MaxHandles = 4
    MaxListeners = 2
    MaxMicrotasks = 2
    HostCall = {w1, w2}
    Body = {y1}
    MaxSignals = 3
    MaxKeys = 2
    Import <- MCImport
    Source = {m1, m2}
    NoSource = NoSource
    Connection = {"c1", "c2"}
    WithRuntime <- MCSharedPayload
    Eager = {"c1", "c2"}
    Rpc = {q1}
    MaxFollows = 2
    Renderer = {d1, d2}
    DrawnBody = {z1, z2}
    MaxTrees = 3
    NoRenderer = NoRenderer
    Device = {"a1", "b1", "b2"}
    Running = {"a1", "b1"}
    Author = {"a1"}
    Owner <- MCOwner
    Pin <- MCPin
    Note = {1}
    MaxDeviceKeys = 2
    MaxChanges = 1
    MaxRestarts = 2
    Widget = {v1, v2, v3}
    MaxCommits = 2
CHECK_DEADLOCK FALSE
INVARIANT
    RefollowReachesTheHost
