CONSTANTS
    Pushers = {p3}
    Bounded = {p1, p2}
    Consumers = {c1}
    Spsc = {p3, c1}
    Capacity = 4
    MaxPushes = 8
SPECIFICATION Safety
INVARIANTS
    TypeOK
    BoundedPushSucceeds
    LatestIsLast
    NewestSurvives
