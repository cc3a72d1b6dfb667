\* Two workers; calls may fail and the process die.
CONSTANTS
    Apps = {"plain", "long1", "long2"}
    Stem <- MCStem
    Charts = {"long1"}
    Keys <- MCKeys
    Secrets <- MCSecrets
    Texts = {"null", "x", "y"}
    Worlds <- MCWorlds
    Runners = {r1, r2}
    Faults = TRUE
    MaxPlans = 3
SPECIFICATION Spec
INVARIANTS
    TypeOK
    
    CleanedUp
PROPERTIES
    DeletesOnlyOwn
CHECK_DEADLOCK FALSE
