SPECIFICATION Spec
CONSTANTS
    k1 = k1
    stray = stray
    Pollers = {p1}
    Pushers = {w1}
    Polled = {s1, s2}
    Pushed = {s3, stray}
    Malformed = {}
    Invalid = {}
    Kids = {k1}
    KeyOf <- MCKeyOf
    MaxAge = 2
    Interval = 1
    Timeout = 1
    None = None

SYMMETRY MCSymmetry
INVARIANTS RecordedIsReturned NothingLost
PROPERTIES PublishedKeysAreKnown RemovedKeysStop
