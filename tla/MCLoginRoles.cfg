\* As MCLogin.cfg: the role of the configuration has no effect.
CONSTANTS
    People <- MCPeople
    AllowedOrgs = {"org"}
    AllowedGroups = {"group"}
    AllowedDomains = {}
    GroupsClaim = TRUE
    Assignments <- MCAssignments
    DefaultRole = "user"
    Handlers = {h1, h2}
    Addresses = {a1}
    MaxAttempts = 2
    Window = 2
    Worlds <- MCWorlds
    Faults = TRUE
SYMMETRY Symmetry
SPECIFICATION Spec
INVARIANT
    ConfiguredRole
CHECK_DEADLOCK FALSE
