\* One pull request that adds an application, one worker, no faults.
CONSTANTS
    p1 = p1
    p2 = p2
    multi = multi
    fresh = fresh
    Apps = {fresh}
    PRs = {p1}
    Workers = {w1}
    Kind <- MCKind
    Tracks <- MCTracks
    Manages <- MCManages
    Affects <- MCAffects
    New <- MCNew
    Deleted <- MCDeleted
    Changed <- MCChanged
    AutoMerge = TRUE
    SkipNoChanges = TRUE
    DryRuns = TRUE
    Unlocks = FALSE
    Faults = FALSE
    OneTaskPerPR = TRUE
    MaxTasks = 4
    NoPR = NoPR
SPECIFICATION Spec
SYMMETRY MCSymmetry
PROPERTIES
    PlansKeepApplications
CHECK_DEADLOCK FALSE
