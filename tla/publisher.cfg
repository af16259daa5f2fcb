CONSTANTS
    Clients = {owner, rt}
    Owner = owner
    Loop = loop
    Nobody = nobody
    Messages = {m1, m2}
    DefaultMsg = default
    MaxAccepted = 3
SPECIFICATION Spec
INVARIANTS
    TypeOK
    HandoffOrder
    ReadyIsStable
    JoinNeverBlocks
PROPERTIES
    ImplementsMailbox
    DestructorTerminates
    TurnComesBack
