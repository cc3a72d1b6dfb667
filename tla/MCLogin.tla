-------------------------------- MODULE MCLogin --------------------------------
(* Small instances of Login for TLC: an administrator by GitHub team, one by GitLab   *)
(* group, one by email domain, and a basic user that the configuration calls admin.        *)
EXTENDS Login, TLC

MCAlice == [id |-> "alice", provider |-> "github", email |-> NoEmail, orgs |-> {"org"},
            groups |-> {"team"}, role |-> "user"]
MCBob == [id |-> "bob", provider |-> "gitlab", email |-> [name |-> "bob", domain |-> "site"],
          orgs |-> {}, groups |-> {"group"}, role |-> "user"]
MCCarol == [id |-> "carol", provider |-> "oidc", email |-> [name |-> "carol", domain |-> "site"],
            orgs |-> {}, groups |-> {}, role |-> "user"]
MCLocal == [id |-> "local", provider |-> "basic", email |-> [name |-> "local", domain |-> "local"],
            orgs |-> {}, groups |-> {}, role |-> "user"]
MCDev == [id |-> "dev", provider |-> "basic", email |-> [name |-> "dev", domain |-> "dev"],
          orgs |-> {}, groups |-> {}, role |-> "admin"]
MCPeople == {MCAlice, MCBob, MCCarol, MCLocal, MCDev}
MCAssignments == <<[kind |-> "team", value |-> "team", role |-> "admin", provider |-> "github"],
                   [kind |-> "domain", value |-> "site", role |-> "owner", provider |-> ""],
                   [kind |-> "domain", value |-> "local", role |-> "admin", provider |-> "basic"],
                   [kind |-> "group", value |-> "group", role |-> "admin", provider |-> ""]>>

Using(people, m, n, t) ==
    [people |-> people, states |-> m, sessions |-> n, time |-> t]
MCWorlds == {Using({MCAlice, MCBob}, 1, 2, 0),        \* two administrators
             Using({MCCarol, MCLocal}, 2, 1, 0),      \* two callbacks
             Using({MCDev}, 0, 1, 4)}                 \* passwords only
Symmetry == Permutations(Handlers)
==============================================================================
