---------------------------- MODULE ExclusiveLock ----------------------------
(***************************************************************************)
(* What internal/lock promises its callers (README.md, "Application        *)
(* Locking"): an application is held by at most one pull request, and the  *)
(* lock passes from one holder to the next only through being free.        *)
(* The promise is made per application and only while nothing has damaged  *)
(* its lock record: `tainted' collects the applications it was lost for.   *)
(***************************************************************************)
CONSTANTS Apps, PRs, NoPR

VARIABLES
    holder,   \* holder[a]: the pull request that holds a, or NoPR
    claims,   \* claims[a]: the pull requests that were granted a and not released
    tainted   \* applications whose lock record was damaged

vars == <<holder, claims, tainted>>

Init == /\ holder  = [a \in Apps |-> NoPR]
        /\ claims  = [a \in Apps |-> {}]
        /\ tainted = {}

\* A free application is granted to one pull request.
Acquire(a) == /\ holder[a] = NoPR
              /\ \E p \in PRs : holder'[a] = p /\ claims'[a] = {p}

\* The lock is released, or it expires: every claim on it ends.
Release(a) == holder'[a] = NoPR /\ claims'[a] = {}

Keep(a) == holder'[a] = holder[a] /\ claims'[a] = claims[a]

\* Applications change independently; nothing is promised about a tainted one.
Next == /\ tainted \subseteq tainted'
        /\ \A a \in Apps \ tainted' : Acquire(a) \/ Release(a) \/ Keep(a)

Spec == Init /\ [][Next]_vars
==============================================================================
