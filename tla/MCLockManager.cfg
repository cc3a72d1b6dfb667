\* Two workers, one application, two pull requests, calls that fail part-way.
CONSTANTS
    Apps = {a1}
    PRs = {p1, p2}
    Number <- MCDistinct
    Workers = {w1, w2}
    LockTTL = 2
    Faults = TRUE
    NoPR = NoPR
    NoApp = NoApp
SPECIFICATION Spec
SYMMETRY MCSymmetry
INVARIANTS
    TypeOK
    Exclusive
    ListedWhileHeld
    PlanFromHolder
PROPERTIES
    
    ImplementsExclusiveLock
