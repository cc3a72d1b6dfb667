--------------------------------- MODULE Roles ---------------------------------
(***************************************************************************)
(* Who may log in and with which role: Exchange of the providers           *)
(* (internal/auth/github.go, gitlab.go, oidc.go, basic.go) and             *)
(* ConfigRoleResolver (internal/auth/rbac.go).                             *)
(*                                                                         *)
(* A person has an identity at a provider: a user ID, an email address     *)
(* (its name and domain, or NoEmail), groups (GitHub teams, GitLab groups  *)
(* or a claim), organizations and, with basic authentication, the role of  *)
(* the configuration.  An assignment's pattern is an email address, a      *)
(* domain, a team or a group.                                              *)
(***************************************************************************)
EXTENDS Naturals, Sequences, FiniteSetsExt

CONSTANTS
    People,
    AllowedOrgs, AllowedGroups, AllowedDomains,  \* empty: no restriction
    GroupsClaim,                                 \* whether OIDC groups are configured
    Assignments, DefaultRole

RoleNames == {"admin", "user"}                   \* the valid ones
NoRole == "none"
NoEmail == [name |-> "", domain |-> ""]

ASSUME RolesAssumption ==
    /\ GroupsClaim \in BOOLEAN
    /\ \A p \in People : p.provider \in {"github", "gitlab", "oidc", "basic"} /\ p.role \in RoleNames
    /\ DOMAIN Assignments \subseteq Nat
    /\ \A i \in DOMAIN Assignments :
          Assignments[i].kind \in {"email", "domain", "team", "group"}

\* Exchange refuses who is in none of the allowed organizations, groups or domains.
Admitted(p) ==
    CASE p.provider = "github" -> AllowedOrgs = {} \/ p.orgs \cap AllowedOrgs # {}
      [] p.provider = "gitlab" -> AllowedGroups = {} \/ p.groups \cap AllowedGroups # {}
      [] p.provider = "oidc"   -> AllowedDomains = {} \/ p.email.domain \in AllowedDomains
      [] OTHER                 -> TRUE

\* The groups a login knows.  GitLab's are fetched only for the restriction.
Groups(p) ==
    CASE p.provider = "gitlab" -> IF AllowedGroups = {} THEN {} ELSE p.groups
      [] p.provider = "oidc"   -> IF GroupsClaim THEN p.groups ELSE {}
      [] p.provider = "basic"  -> {}
      [] OTHER                 -> p.groups

User(p) == [id |-> p.id, provider |-> p.provider, email |-> p.email, groups |-> Groups(p),
            role |-> IF p.provider = "basic" THEN p.role ELSE NoRole]

\* Teams that cannot be fetched are not fatal.
Users(p, faults) ==
    {User(p)} \union (IF faults /\ p.provider = "github"
                      THEN {[User(p) EXCEPT !.groups = {}]} ELSE {})

\* matchesAssignment.
Matches(u, a) ==
    /\ a.provider \in {"", u.provider}
    /\ CASE a.kind = "team"   -> u.provider = "github" /\ a.value \in u.groups
         [] a.kind = "group"  -> a.value \in u.groups
         [] a.kind = "email"  -> u.email # NoEmail /\ u.email = a.value
         [] OTHER             -> u.email # NoEmail /\ u.email.domain = a.value

Applying(u) ==
    {i \in DOMAIN Assignments : Matches(u, Assignments[i]) /\ Assignments[i].role \in RoleNames}

\* The first assignment that matches and has a valid role, or the default.
AssignedRole(u) ==
    IF Applying(u) # {} THEN Assignments[Min(Applying(u))].role
    ELSE IF DefaultRole \in RoleNames THEN DefaultRole ELSE "user"

\* ResolveRole: a role that was set for the user comes first.
ResolveRole(set, u) == IF set \in RoleNames THEN set ELSE AssignedRole(u)
==============================================================================
