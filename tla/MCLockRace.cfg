\* Two workers plan one application for two pull requests; nothing fails.
CONSTANTS
    Apps = {a1}
    PRs = {p1, p2}
    Number <- MCDistinct
    Workers = {w1, w2}
    LockTTL = 2
    Faults = FALSE
    NoPR = NoPR
    NoApp = NoApp
SPECIFICATION Spec
SYMMETRY MCSymmetry
INVARIANTS
    NeverTwoHolders
