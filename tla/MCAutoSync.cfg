\* Two workers for two pull requests; nothing fails and nobody unlocks.
CONSTANTS
    child = child
    plain = plain
    parent = parent
    set = set
    Apps <- MCFamily
    AppSets = {set}
    Owner <- MCOwner
    Parents <- MCParents
    Automated <- MCAutomated
    PRs = {p1, p2}
    Workers = {w1, w2}
    Unlocks = FALSE
    Faults = FALSE
    OneTaskPerPR = TRUE
    NoApp = NoApp
    NoPR = NoPR
    NoSet = NoSet
SPECIFICATION Spec
SYMMETRY MCSymmetry
INVARIANTS
    TypeOK
    PolicyKept
    TemplatesKept
