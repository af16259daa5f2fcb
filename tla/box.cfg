CONSTANTS
    Threads = {t1, t2}
    box1 = box1
    box2 = box2
    Boxes = {box1, box2}
    Assignments <- OneWay
    Values = {v1}
    Moved = moved
    Nothing = nothing
    Thrown = thrown
    Nobody = nobody
SPECIFICATION Spec
INVARIANTS
    TypeOK
    LockNeverFails
PROPERTIES
    ImplementsRegisters
    CallsEnd
