CONSTANTS
    Threads = {t1, t2}
    box1 = box1
    box2 = box2
    Boxes = {box1, box2}
    Assignments <- BothWays
    Values = {v1}
    Moved = moved
    Nothing = nothing
    Thrown = thrown
    Nobody = nobody
SPECIFICATION Spec
PROPERTIES
    LockIsReleased
CHECK_DEADLOCK FALSE
