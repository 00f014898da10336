SPECIFICATION LiveSpec
CONSTANTS
    s1 = s1  s2 = s2  s3 = s3
    Nobody = Nobody
    Subs = {s1, s2, s3}
    Cap = 1
    MaxEvents = 1
    MaxSubscribes = 1
INVARIANTS Completeness AbortLosesOne
PROPERTIES EvictionExact LockReleased
CHECK_DEADLOCK FALSE
