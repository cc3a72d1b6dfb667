--------------------------------- MODULE Login ---------------------------------
(***************************************************************************)
(* Logins, sessions and roles (internal/auth/session.go, middleware.go,    *)
(* the auth handlers of internal/server/routes.go and ratelimit.go).       *)
(*                                                                         *)
(* The server handles several requests at a time; each goes to Redis one   *)
(* command at a time.  Sessions and OAuth states expire.  Attempts with a  *)
(* password are limited for each address in a window of time.              *)
(*                                                                         *)
(* DropKey, NeedsNoRole, SavesRole, DropUnread and OfAnyone are faulty     *)
(* variants of the definition after them.                                  *)
(***************************************************************************)
EXTENDS Roles, FiniteSets

CONSTANTS
    Handlers,
    Addresses,
    MaxAttempts, Window,  \* loginRateLimiter: attempts in a window
    Worlds,               \* who uses the server, and how much
    Faults                \* whether a call may fail

ASSUME LoginAssumption ==
    /\ MaxAttempts \in Nat /\ Window \in Nat /\ Faults \in BOOLEAN
    /\ \A w \in Worlds : w.people \subseteq People /\ {w.states, w.sessions, w.time} \subseteq Nat

VARIABLES
    world,      \* the people, and bounds: of states and sessions issued, and of time
    states,     \* [issued, live]: OAuth states
    sessions,   \* Redis: the user of each session issued, or NoUser
    index,      \* Redis: the sessions that are listed
    override,   \* Redis: the role set for a user
    tried,      \* the times of the attempts of each address that were let through
    attempts,   \* the rate limiter: those of them whose times it holds, by number
    now,
    handler,    \* the request each is working on
    \* History.
    unlisted,   \* sessions that a failed call left out of the index
    disturbed   \* two role changes overlapped, or an override could not be read

vars == <<world, states, sessions, index, override, attempts, now, handler, tried, unlisted,
          disturbed>>
history == <<tried, unlisted, disturbed>>

Ids == {p.id : p \in People}
NoUser == [id |-> "none"]
Known == UNION {Users(p, TRUE) : p \in world.people}
AllUsers == {[u EXCEPT !.role = r] : u \in Known, r \in RoleNames \union {NoRole}}

Idle == [pc |-> "idle", op |-> "none", of |-> 0, user |-> NoUser, todo |-> {}]
Set(r, k) == handler' = [handler EXCEPT ![r] = k]

TypeOK == /\ states.issued \in 0..world.states /\ states.live \subseteq 1..states.issued
          /\ Len(sessions) <= world.sessions
          /\ \A s \in DOMAIN sessions :
                sessions[s] = NoUser \/ (sessions[s] \in AllUsers /\ sessions[s].role # NoRole)
          /\ index \subseteq DOMAIN sessions /\ unlisted \subseteq DOMAIN sessions
          /\ override \in [Ids -> RoleNames \union {NoRole}]
          /\ \A a \in Addresses : tried[a] \in Seq(0..now) /\ attempts[a] \subseteq DOMAIN tried[a]
          /\ now \in 0..world.time /\ disturbed \in BOOLEAN
          /\ \A r \in Handlers :
                LET k == handler[r] IN
                /\ k.pc \in {"idle", "consume", "exchange", "resolve", "store", "index",
                             "role", "act", "unindex", "listing"}
                /\ k.pc \in {"index", "role", "act", "unindex", "listing"} => k.of \in DOMAIN sessions
                /\ k.pc = "act" /\ k.op # "logout" => k.user.role = "admin"

Init == /\ world \in Worlds
        /\ states = [issued |-> 0, live |-> {}]
        /\ sessions = <<>> /\ index = {}
        /\ override = [i \in Ids |-> NoRole]
        /\ attempts = [a \in Addresses |-> {}]
        /\ now = 0
        /\ handler = [r \in Handlers |-> Idle]
        /\ tried = [a \in Addresses |-> <<>>]
        /\ unlisted = {} /\ disturbed = FALSE

-----------------------------------------------------------------------------
(* Time. *)

StateExpires ==
    /\ \E s \in states.live : states' = [states EXCEPT !.live = @ \ {s}]
    /\ UNCHANGED <<world, sessions, index, override, attempts, now, handler, history>>

SessionExpires ==
    /\ \E s \in {t \in DOMAIN sessions : sessions[t] # NoUser} :
          sessions' = [sessions EXCEPT ![s] = NoUser]
    /\ UNCHANGED <<world, states, index, override, attempts, now, handler, history>>

Tick ==
    /\ now < world.time /\ now' = now + 1
    /\ UNCHANGED <<world, states, sessions, index, override, attempts, handler, history>>

-----------------------------------------------------------------------------
(* The rate limiter. *)

\* Those after the cutoff.
DropKey(a) == IF \E i \in attempts[a] : tried[a][i] + Window <= now THEN {} ELSE attempts[a]
Recent(a) == {i \in attempts[a] : tried[a][i] + Window > now}

Allowed(a) == Cardinality(Recent(a)) < MaxAttempts

\* The goroutine's sweep.
Cleanup ==
    /\ attempts' = [a \in Addresses |-> Recent(a)]
    /\ UNCHANGED <<world, states, sessions, index, override, now, handler, history>>

\* handleBasicLogin, where configured: an attempt counts even if the password is wrong.
BasicLogin(r) ==
    /\ handler[r].pc = "idle" /\ \E p \in world.people : p.provider = "basic"
    /\ \E a \in Addresses :
          IF Allowed(a)
          THEN /\ attempts' = [attempts EXCEPT ![a] = Recent(a) \union {Len(tried[a]) + 1}]
               /\ tried' = [tried EXCEPT ![a] = Append(@, now)]
               /\ \/ UNCHANGED handler
                  \/ \E p \in {q \in world.people : q.provider = "basic"} :
                        Set(r, [Idle EXCEPT !.pc = "resolve", !.op = "login", !.user = User(p)])
          ELSE attempts' = [attempts EXCEPT ![a] = Recent(a)] /\ UNCHANGED <<tried, handler>>
    /\ UNCHANGED <<world, states, sessions, index, override, now, unlisted, disturbed>>

-----------------------------------------------------------------------------
(* Login with a provider, and CreateSession. *)

StartLogin ==
    /\ states.issued < world.states
    /\ states' = [issued |-> states.issued + 1, live |-> states.live \union {states.issued + 1}]
    /\ UNCHANGED <<world, sessions, index, override, attempts, now, handler, history>>

\* ValidateState reads the state and then deletes it; that error is ignored.
Callback(r) ==
    /\ handler[r].pc = "idle"
    /\ \E s \in states.live : Set(r, [Idle EXCEPT !.pc = "consume", !.op = "login", !.of = s])
    /\ UNCHANGED <<world, states, sessions, index, override, attempts, now, history>>

ConsumeState(r) ==
    /\ handler[r].pc = "consume"
    /\ \/ states' = [states EXCEPT !.live = @ \ {handler[r].of}]
       \/ Faults /\ UNCHANGED states
    /\ Set(r, [handler[r] EXCEPT !.pc = "exchange", !.of = 0])
    /\ UNCHANGED <<world, sessions, index, override, attempts, now, history>>

Exchange(r) ==
    /\ handler[r].pc = "exchange"
    /\ \/ Set(r, Idle)
       \/ \E p \in {q \in world.people : q.provider # "basic" /\ Admitted(q)}, u \in Known :
             /\ u \in Users(p, Faults)
             /\ Set(r, [handler[r] EXCEPT !.pc = "resolve", !.user = u])
    /\ UNCHANGED <<world, states, sessions, index, override, attempts, now, history>>

\* ResolveRole goes by the assignments if the override cannot be read.
Resolved(u) == {[u EXCEPT !.role = ResolveRole(override[u.id], u)]}
               \union (IF Faults THEN {[u EXCEPT !.role = AssignedRole(u)]} ELSE {})
Resolve(u) == disturbed' = (disturbed \/ u.role # ResolveRole(override[u.id], u))

ResolveForSession(r) ==
    /\ handler[r].pc = "resolve"
    /\ \E u \in Resolved(handler[r].user) :
          Resolve(u) /\ Set(r, [handler[r] EXCEPT !.pc = "store", !.user = u])
    /\ UNCHANGED <<world, states, sessions, index, override, attempts, now, tried, unlisted>>

StoreSession(r) ==
    /\ handler[r].pc = "store"
    /\ \/ /\ Len(sessions) < world.sessions
          /\ sessions' = Append(sessions, handler[r].user)
          /\ Set(r, [handler[r] EXCEPT !.pc = "index", !.of = Len(sessions) + 1])
       \/ (Faults \/ Len(sessions) = world.sessions) /\ Set(r, Idle) /\ UNCHANGED sessions
    /\ UNCHANGED <<world, states, index, override, attempts, now, history>>

IndexSession(r) ==
    /\ handler[r].pc = "index"
    /\ \/ index' = index \union {handler[r].of} /\ UNCHANGED unlisted
       \/ Faults /\ unlisted' = unlisted \union {handler[r].of} /\ UNCHANGED index
    /\ Set(r, Idle)
    /\ UNCHANGED <<world, states, sessions, override, attempts, now, tried, disturbed>>

-----------------------------------------------------------------------------
(* Requests with a session. *)

\* Authenticate gets the session, and then the role; for some requests it must be admin.
Request(r) ==
    /\ handler[r].pc = "idle"
    /\ \E s \in DOMAIN sessions, op \in {"logout", "list", "update"} :
          /\ sessions[s] # NoUser
          /\ Set(r, [Idle EXCEPT !.pc = "role", !.op = op, !.of = s, !.user = sessions[s]])
    /\ UNCHANGED <<world, states, sessions, index, override, attempts, now, history>>

NeedsNoRole(r, u) == [handler[r] EXCEPT !.pc = "act", !.user = u]
Authenticated(r, u) ==
    IF u.role = "admin" \/ handler[r].op = "logout"
    THEN [handler[r] EXCEPT !.pc = "act", !.user = u] ELSE Idle
SavesRole(r) ==
    /\ handler[r].pc = "role"
    /\ \E u \in Resolved(handler[r].user) : Resolve(u) /\ Set(r, Authenticated(r, u))
    /\ sessions' = [sessions EXCEPT ![handler[r].of] =
                      [handler[r].user EXCEPT !.role = ResolveRole(override[handler[r].user.id], handler[r].user)]]
    /\ UNCHANGED <<world, states, index, override, attempts, now, tried, unlisted>>
Authenticate(r) ==
    /\ handler[r].pc = "role"
    /\ \E u \in Resolved(handler[r].user) : Resolve(u) /\ Set(r, Authenticated(r, u))
    /\ UNCHANGED <<world, states, sessions, index, override, attempts, now, tried, unlisted>>

Acts(r, op) == handler[r].pc = "act" /\ handler[r].op = op

\* DestroySession: an error of the second command is ignored.
Logout(r) ==
    /\ Acts(r, "logout")
    /\ \/ /\ sessions' = [sessions EXCEPT ![handler[r].of] = NoUser]
          /\ Set(r, [handler[r] EXCEPT !.pc = "unindex"])
       \/ Faults /\ Set(r, Idle) /\ UNCHANGED sessions
    /\ UNCHANGED <<world, states, index, override, attempts, now, history>>

Unindex(r) ==
    /\ handler[r].pc = "unindex"
    /\ \/ index' = index \ {handler[r].of}
       \/ Faults /\ UNCHANGED index
    /\ Set(r, Idle)
    /\ UNCHANGED <<world, states, sessions, override, attempts, now, history>>

\* ListAll: sessions that are gone leave the index; those that cannot be read are skipped.
ListUsers(r) ==
    /\ Acts(r, "list")
    /\ Set(r, [handler[r] EXCEPT !.pc = "listing", !.todo = index])
    /\ UNCHANGED <<world, states, sessions, index, override, attempts, now, history>>

DropUnread(r) ==
    /\ handler[r].pc = "listing" /\ handler[r].todo # {}
    /\ \E s \in handler[r].todo :
          /\ Set(r, [handler[r] EXCEPT !.todo = @ \ {s}])
          /\ Faults \/ sessions[s] = NoUser
          /\ index' = index \ {s}
    /\ UNCHANGED <<world, states, sessions, override, attempts, now, history>>
ListOne(r) ==
    /\ handler[r].pc = "listing" /\ handler[r].todo # {}
    /\ \E s \in handler[r].todo :
          /\ Set(r, [handler[r] EXCEPT !.todo = @ \ {s}])
          /\ \/ (sessions[s] = NoUser) /\ index' = index \ {s}
             \/ (Faults \/ sessions[s] # NoUser) /\ UNCHANGED index
    /\ UNCHANGED <<world, states, sessions, override, attempts, now, history>>

Listed(r) ==
    /\ handler[r].pc = "listing" /\ handler[r].todo = {}
    /\ Set(r, Idle)
    /\ UNCHANGED <<world, states, sessions, index, override, attempts, now, history>>

\* handleUpdateUserRole: not of oneself.
OfAnyone(r, i) == TRUE
OfAnother(r, i) == i # handler[r].user.id
UpdateRole(r) ==
    /\ Acts(r, "update")
    /\ \E i \in {p.id : p \in world.people}, role \in RoleNames :
          IF OfAnother(r, i)
          THEN /\ override' = [override EXCEPT ![i] = role]
               /\ disturbed' = (disturbed \/ \E q \in Handlers \ {r} : Acts(q, "update"))
          ELSE UNCHANGED <<override, disturbed>>
    /\ Set(r, Idle)
    /\ UNCHANGED <<world, states, sessions, index, attempts, now, tried, unlisted>>

-----------------------------------------------------------------------------
Next == \/ StateExpires \/ SessionExpires \/ Tick \/ Cleanup \/ StartLogin
        \/ \E r \in Handlers :
              \/ BasicLogin(r) \/ Callback(r) \/ ConsumeState(r) \/ Exchange(r)
              \/ ResolveForSession(r) \/ StoreSession(r) \/ IndexSession(r)
              \/ Request(r) \/ Authenticate(r) \/ Logout(r) \/ Unindex(r)
              \/ ListUsers(r) \/ ListOne(r) \/ Listed(r) \/ UpdateRole(r)

Spec == Init /\ [][Next]_vars

-----------------------------------------------------------------------------
(* Properties. *)

\* authentication.md:452-456: a session that was logged out or expired stays so, whatever
\* requests that it had begun go on to do.
EndedStaysEnded ==
    [][\A s \in DOMAIN sessions : sessions[s] = NoUser => sessions'[s] = NoUser]_vars

\* session.go:162 "returns all active sessions": a session is in the index as long as it
\* lives, also while it is listed or removed by others; but for a failed call that the
\* login takes as not fatal, and while the login has not answered.
ListedWhileLive ==
    \A s \in DOMAIN sessions :
       \/ sessions[s] = NoUser
       \/ s \in index \union unlisted
       \/ \E r \in Handlers : handler[r].pc = "index" /\ handler[r].of = s

\* routes.go:623 "Prevent admins from modifying their own role": so that there is always an
\* administrator; unless two role changes overlap or a role that was set could not be read.
AdminsRemain ==
    ~disturbed /\ (\E u \in Known : AssignedRole(u) = "admin") =>
       \E u \in Known : ResolveRole(override[u.id], u) = "admin"

\* ratelimit.go:22: "rejects requests that exceed the configured maximum within the time
\* window", and no others, with the sweep at any time.
LimitIsExact ==
    \A a \in Addresses :
       LET tries == {i \in DOMAIN tried[a] : tried[a][i] + Window > now} IN
       /\ Cardinality(tries) <= MaxAttempts
       /\ Allowed(a) <=> Cardinality(tries) < MaxAttempts

\* authentication.md:329-336: a user of the basic provider has the role that the
\* configuration gives it, if nothing else is set or assigned.
ConfiguredRole ==
    \A p \in {q \in People : q.provider = "basic"} :
       (\A i \in DOMAIN Assignments : ~Matches(User(p), Assignments[i])) /\ override[p.id] = NoRole
       => \A s \in DOMAIN sessions : sessions[s].id = p.id => sessions[s].role = p.role
==============================================================================
