SPECIFICATION Spec
CONSTANTS
    a = a
    b = b
    big = big
    d1 = d1
    d2 = d2
    q1 = q1
    Message = {a, b, big}
    Device = {d1, d2}
    PeerRequest = {q1}
    MaxSubmits = 4
    Fits <- MCFits
    Restorable <- MCRestorable
SYMMETRY Symmetry
INVARIANTS
    EveryWaiterIsOwned
    OneOwnerPerToken
    QueueBehindLiveBatch
    TokenWithItsMessage
PROPERTIES
    FIFO
