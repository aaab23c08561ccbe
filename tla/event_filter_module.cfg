SPECIFICATION PartSpec
CONSTANTS
    Thread = {t1}
    Reloader = {r1, r2}
    Std = {std}
    Noop = noop
    MaxReloads = 3
    Callsite <- MCCallsites
    Target <- MCTargets
    Length <- MCLengths
    OffWord <- Off
    LevelOf <- MCLevelOf
    Fields <- MCClauses
    Labels <- MCLabelSets
    Level = {1, 2}
    DefaultLevel = 2
    MaxDirectives = 1
    Threads = {t1, t2}
    Tasks = {f1}
    Observers = {o1, o2}
    RingCap = 1
    MaxGuards = 2
    MaxEmits = 2
    MaxSaves = 3
    MaxOther = 1
INVARIANT AlwaysIsAllowed
CHECK_DEADLOCK FALSE
