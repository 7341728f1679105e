SPECIFICATION FairSpec
CONSTANTS
    Call = {c1, c2}
    Shake = {s1, s2}
CHECK_DEADLOCK FALSE
INVARIANTS
    WaitIsCarried
    WithdrawalFollows
PROPERTIES
    IsRemoteCall
    EveryRequestEnds
