CONSTANTS
    Threads = {controller, helper}
    Requesters = {controller}
    Runner = runner
    Nobody = nobody
SPECIFICATION AnsweringSpec
PROPERTIES
    CancelingGoalEnds
