\* Two workers, two pull requests; the number of tasks ends a behaviour.
CONSTANTS
    p1 = p1
    p2 = p2
    multi = multi
    fresh = fresh
    Apps = {multi, fresh}
    PRs = {p1, p2}
    Workers = {w1, w2}
    Kind <- MCKind
    Tracks <- MCTracks
    Manages <- MCManages
    Affects <- MCAffects
    New <- MCNew
    Deleted <- MCDeleted
    Changed <- MCChanged
    AutoMerge = TRUE
    SkipNoChanges = TRUE
    DryRuns = TRUE
    Unlocks = TRUE
    Faults = TRUE
    OneTaskPerPR = TRUE
    MaxTasks = 4
    NoPR = NoPR
SPECIFICATION Spec
SYMMETRY MCSymmetry
INVARIANTS
    TypeOK
    OnlyPlannedRevisions
    TargetsReturn
PROPERTIES
    
    MergedIsDeployed
CHECK_DEADLOCK FALSE
