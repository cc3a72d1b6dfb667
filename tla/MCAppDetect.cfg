\* All situations; calls to Argo CD may fail.
CONSTANTS
    app = app
    Apps = {app}
    Inputs <- MCInputs
    Faults = TRUE
SPECIFICATION Spec
INVARIANTS
    TypeOK
    GlobIsDoubleStar
    
    
    TypesAgree
CHECK_DEADLOCK FALSE
