SPECIFICATION PartSpec
CONSTANTS
    Thread = {t1, t2}
    Reloader = {r1}
    Std = {std, std2}
    Noop = noop
    MaxReloads = 1
    Callsite <- MCCallsites
    Target <- MCTargets
    Length <- MCLengths
    OffWord <- Off
    LevelOf <- MCLevelOf
    Fields <- MCClauses
    Labels <- MCLabelSets
    Level = {1, 2}
    DefaultLevel = 2
    MaxDirectives = 3
    Threads = {t1, t2}
    Tasks = {f1}
    Observers = {o1, o2}
    RingCap = 1
    MaxGuards = 2
    MaxEmits = 2
    MaxSaves = 3
    MaxOther = 1
INVARIANTS DecisionIsCurrent CacheAgrees StagesAgree OverrideSeen ReloadsLatest
SYMMETRY ThreadSymmetry
CHECK_DEADLOCK FALSE
