\* Two requests at a time; one address.
CONSTANTS
    People <- MCPeople
    AllowedOrgs = {"org"}
    AllowedGroups = {"group"}
    AllowedDomains = {}
    GroupsClaim = TRUE
    Assignments <- MCAssignments
    DefaultRole = "user"
    Handlers = {h1, h2}
    Addresses = {a1}
    MaxAttempts = 2
    Window = 2
    Worlds <- MCWorlds
    Faults = TRUE
SYMMETRY Symmetry
SPECIFICATION Spec
INVARIANTS
    TypeOK
    ListedWhileLive
    AdminsRemain
    LimitIsExact
PROPERTIES
    EndedStaysEnded
CHECK_DEADLOCK FALSE
