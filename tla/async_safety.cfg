CONSTANTS
    owner = owner
    rt = rt
    Clients = {owner, rt}
    May <- MayAnything
    ParamSets <- AllParams
    MaxTriggers = 3
SPECIFICATION Safety
INVARIANTS
    TypeOK
    CallbackOncePerTrigger
    WaitMeansFinished
    PauseIsQuiet
