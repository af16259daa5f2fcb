CONSTANTS
    owner = owner
    rt = rt
    Clients = {owner, rt}
    May <- MayRealtimeLoop
    ParamSets <- ValidParams
    MaxTriggers = 2
SPECIFICATION Spec
PROPERTIES
    StopTerminates
    PauseTerminates
    TriggerIsServed
    DetachedCycles
    WaiterIsNotified
