SPECIFICATION FairSpec
CONSTANTS
    Sub = {c1, c2}
    MaxDrops = 3
    Listener = {l1, l2, l3}
    MaxStatements = 2
    Watcher = {w1, w2}
    Asker = {a1}
    MaxValues = 2
    MaxStreams = 2
    Download = {p1, p2}
    MaxLength = 4
    Request <- MCRequest
    MaxAborts = 1
    Message = {"m1", "m2"}
    Delivery <- MCDelivery
    Session = {s1, s2}
    Removal = {d1, d2}
    MaxGrants = 1
    MaxFlows = 3
    MaxAnswers = 2
CHECK_DEADLOCK FALSE
INVARIANTS
    ListenersShareOneFeed
    WatchersSeeTheChain
    FileIsWhole
    HandledOnce
    SessionsAgree
    PairingIsInReach
PROPERTIES
    ConsumersAreReached
    EveryCallEnds
