CONSTANTS
    owner = owner
    rt = rt
    Clients = {owner, rt}
    May <- MayRecover
    ParamSets <- ValidParams
    MaxTriggers = 2
SPECIFICATION Safety
INVARIANTS
    ExceptionIsRethrown
