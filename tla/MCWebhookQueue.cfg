\* One worker and one goroutine of the handler; calls fail and one process dies.
CONSTANTS
    push = push
    merge = merge
    comment = comment
    gitlabPR = gitlabPR
    githubPR = githubPR
    Deliveries = {push, merge, comment}
    Payload <- MCPayload
    PRs = {gitlabPR, githubPR}
    PR <- MCPR
    Workers = {w1}
    Slots = {g1}
    Executors = {"gitlab"}
    QueueEnabled = TRUE
    Autoplan = TRUE
    MaxRetry = 1
    MaxPosts <- MCPosts
    MaxCrashes = 1
    Faults = TRUE
    None = None
SPECIFICATION FairSpec
INVARIANTS
    TypeOK
    NothingForgotten
    HopelessOnce
    ClosedIsUnlocked
PROPERTIES
    TasksEnd
CHECK_DEADLOCK FALSE
