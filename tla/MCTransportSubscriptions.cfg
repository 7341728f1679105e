SPECIFICATION Spec
CONSTANTS
    key = key
    Caller = {a, b, d}
    Key = {key}
    KeyOf <- MCKeyOf
    Callback = {a, b, d}
    CallbackOf <- Own
    Stream = {s1, s2}
    None = None
    MaxValues = 1
SYMMETRY Symmetry
CHECK_DEADLOCK FALSE
INVARIANTS
    StreamsAreServed
    CallersStayAttached
