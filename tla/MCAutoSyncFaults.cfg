\* Two children, one of them not of an ApplicationSet; one worker, calls that fail, a process
\* that dies, locks that vanish.
CONSTANTS
    child = child
    plain = plain
    parent = parent
    set = set
    Apps <- MCLarge
    AppSets = {set}
    Owner <- MCOwner
    Parents <- MCParents
    Automated <- MCAutomated
    PRs = {p1}
    Workers = {w1}
    Unlocks = TRUE
    Faults = TRUE
    OneTaskPerPR = TRUE
    NoApp = NoApp
    NoPR = NoPR
    NoSet = NoSet
SPECIFICATION Spec
SYMMETRY MCSymmetry

    
PROPERTIES
    ChildrenFirst
