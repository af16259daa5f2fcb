CONSTANTS
    Threads = {controller, helper}
    Requesters = {controller}
    Runner = runner
    Nobody = nobody
SPECIFICATION Spec
INVARIANTS
    TypeOK
    ResultMatchesOutcome
    FeedbackIsSound
PROPERTIES
    RequestIsServed
    CancelIsServed
