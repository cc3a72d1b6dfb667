------------------------------ MODULE LoginProofs ------------------------------
(* Proofs about Login: what has ended stays ended, what lives is listed, an    *)
(* administrator remains, and exactly the attempts over the limit are refused.   *)
EXTENDS Login, WellFoundedInduction, FiniteSetTheorems, TLAPS

Valid == RoleNames \union {NoRole}

\* What a request carries at each point: a session that was issued; a user that is known;
\* one that has ended where it is taken off the list; an administrator where it acts as one.
Carrying(k) ==
    /\ k.pc \in {"index", "role", "act", "unindex", "listing"} => k.of \in DOMAIN sessions
    /\ k.pc \in {"resolve", "store", "role", "act"} => k.user \in AllUsers
    /\ k.pc \in {"store", "act"} => k.user.role \in RoleNames
    /\ k.pc = "unindex" => sessions[k.of] = NoUser
    /\ k.pc = "act" /\ k.op # "logout" => k.user.role = "admin"

Handled == [pc : {"idle", "consume", "exchange", "resolve", "store", "index", "role", "act",
                  "unindex", "listing"},
            op : {"none", "login", "logout", "list", "update"},
            of : Nat, user : AllUsers \union {NoUser}, todo : SUBSET Nat]

Issued == {u \in AllUsers : u.role \in RoleNames} \union {NoUser}

Served == /\ world \in Worlds
          /\ states \in [issued : Nat, live : SUBSET Nat]
          /\ sessions \in Seq(Issued) /\ index \subseteq Nat
          /\ override \in [Ids -> Valid]
          /\ handler \in [Handlers -> Handled]
          /\ \A r \in Handlers : Carrying(handler[r])

\* Whoever is about to change a role is an administrator still.
Entitled == ~disturbed => \A r \in Handlers : Acts(r, "update") =>
                             ResolveRole(override[handler[r].user.id], handler[r].user) = "admin"

-----------------------------------------------------------------------------
(* Users and roles. *)

\* What is known of a user, but for the role.
Alike(u, v) == /\ u.id = v.id /\ u.provider = v.provider /\ u.email = v.email /\ u.groups = v.groups
               /\ u = [id |-> u.id, provider |-> u.provider, email |-> u.email,
                       groups |-> u.groups, role |-> u.role]

LEMMA KnownUsers ==
    ASSUME world \in Worlds
    PROVE  \A v \in Known : Alike(v, v) /\ v.id \in Ids /\ v.role \in Valid
  <1> SUFFICES ASSUME NEW p \in world.people, NEW v \in Users(p, TRUE)
               PROVE  Alike(v, v) /\ v.id \in Ids /\ v.role \in Valid
    BY DEF Known
  <1>1. p \in People /\ p.role \in RoleNames
    BY LoginAssumption, RolesAssumption
  <1>2. CASE v = User(p)
    BY <1>1, <1>2 DEF User, Alike, Ids, Valid
  <1>3. CASE v = [User(p) EXCEPT !.groups = {}]
    BY <1>1, <1>3 DEF User, Alike, Ids, Valid
  <1>4. QED
    BY <1>2, <1>3 DEF Users

LEMMA AllUsersAlike ==
    ASSUME world \in Worlds, NEW u \in AllUsers
    PROVE  \E v \in Known : Alike(u, v) /\ u.id \in Ids /\ u.role \in Valid
  <1>1. PICK v \in Known, x \in Valid : u = [v EXCEPT !.role = x]
    BY DEF AllUsers, Valid
  <1>2. Alike(v, v) /\ v.id \in Ids
    BY KnownUsers
  <1>3. u = [id |-> v.id, provider |-> v.provider, email |-> v.email, groups |-> v.groups, role |-> x]
    BY <1>1, <1>2 DEF Alike
  <1>4. QED
    BY <1>1, <1>2, <1>3 DEF Alike

\* With another role it is a user still.
LEMMA WithRole ==
    ASSUME world \in Worlds, NEW u \in AllUsers, NEW x \in Valid
    PROVE  /\ [u EXCEPT !.role = x] \in AllUsers
           /\ [u EXCEPT !.role = x].role = x /\ [u EXCEPT !.role = x].id = u.id
           /\ Alike([u EXCEPT !.role = x], u)
  <1>1. PICK v \in Known : Alike(u, v)
    BY AllUsersAlike
  <1>2. Alike(v, v)
    BY KnownUsers
  <1>3. [u EXCEPT !.role = x] = [v EXCEPT !.role = x]
    BY <1>1, <1>2 DEF Alike
  <1>4. [v EXCEPT !.role = x] \in AllUsers
    BY DEF AllUsers, Valid
  <1>5. QED
    BY <1>1, <1>3, <1>4 DEF Alike

LEMMA KnownIsUser ==
    ASSUME world \in Worlds, NEW v \in Known
    PROVE  v \in AllUsers
  <1>1. Alike(v, v) /\ v.role \in Valid
    BY KnownUsers
  <1>2. v = [v EXCEPT !.role = v.role]
    BY <1>1 DEF Alike
  <1>3. QED
    BY <1>1, <1>2 DEF AllUsers, Valid

\* Assignments do not go by a role.
LEMMA SameAssigned ==
    ASSUME NEW u, NEW v, Alike(u, v)
    PROVE  AssignedRole(u) = AssignedRole(v)
  <1>1. \A i \in DOMAIN Assignments : Matches(u, Assignments[i]) <=> Matches(v, Assignments[i])
    BY DEF Alike, Matches
  <1>2. Applying(u) = Applying(v)
    BY <1>1 DEF Applying
  <1>3. QED
    BY <1>2 DEF AssignedRole

LEMMA Least ==
    ASSUME NEW S \in SUBSET Nat, S # {}
    PROVE  Min(S) \in S
  <1>1. PICK x \in S : \A y \in S : ~(<<y, x>> \in OpToRel(<, Nat))
    BY NatLessThanWellFounded, WFMin
  <1>2. ASSUME NEW y \in S
        PROVE  x <= y
    <2> DEFINE e == <<y, x>>
    <2>1. e \in Nat \X Nat /\ e[1] = y /\ e[2] = x
      OBVIOUS
    <2>2. ~(e[1] < e[2])
      BY <1>1, <2>1, Zenon DEF OpToRel
    <2>3. QED
      BY <2>1, <2>2
  <1>3. QED
    BY <1>1, <1>2 DEF Min

\* Every user gets a valid role.
LEMMA RoleIsValid ==
    ASSUME NEW u, NEW x
    PROVE  AssignedRole(u) \in RoleNames /\ ResolveRole(x, u) \in RoleNames
  <1>1. CASE Applying(u) # {}
    <2>1. Applying(u) \subseteq Nat
      BY RolesAssumption DEF Applying
    <2>2. Min(Applying(u)) \in Applying(u)
      BY <1>1, <2>1, Least
    <2>3. QED
      BY <1>1, <2>2 DEF AssignedRole, Applying, ResolveRole
  <1>2. CASE Applying(u) = {}
    BY <1>2 DEF AssignedRole, ResolveRole, RoleNames
  <1>3. QED
    BY <1>1, <1>2

\* What a role is resolved to.
LEMMA ResolvedUsers ==
    ASSUME world \in Worlds, NEW w \in AllUsers, NEW u \in Resolved(w)
    PROVE  u \in AllUsers /\ u.role \in RoleNames /\ u.id = w.id /\ Alike(u, w)
  <1>1. PICK x \in RoleNames : u = [w EXCEPT !.role = x]
    BY RoleIsValid DEF Resolved
  <1>2. x \in Valid
    BY DEF Valid
  <1>3. QED
    BY <1>1, <1>2, WithRole

-----------------------------------------------------------------------------
(* The invariant. *)

LEMMA InitServed == Init => Served /\ Entitled
  <1>1. Idle \in Handled
    BY DEF Idle, Handled
  <1> SUFFICES ASSUME Init PROVE Served /\ Entitled
    OBVIOUS
  <1>2. /\ world \in Worlds /\ states \in [issued : Nat, live : SUBSET Nat]
        /\ sessions \in Seq(Issued) /\ index \subseteq Nat
    BY DEF Init
  <1>3. override \in [Ids -> Valid]
    BY DEF Init, Valid
  <1>4. handler \in [Handlers -> Handled] /\ \A r \in Handlers : handler[r].pc = "idle"
    BY <1>1 DEF Init, Idle
  <1>5. QED
    BY <1>2, <1>3, <1>4 DEF Served, Entitled, Carrying, Acts

\* A request goes on, and what it does leaves what the others carry.
LEMMA GoesOn ==
    ASSUME Served, NEW r \in Handlers, NEW k \in Handled, Set(r, k), world' = world,
           states' \in [issued : Nat, live : SUBSET Nat], index' \subseteq Nat,
           override' \in [Ids -> Valid],
           sessions' \in Seq(Issued), DOMAIN sessions \subseteq DOMAIN sessions',
           \A s \in DOMAIN sessions : sessions[s] = NoUser => sessions'[s] = NoUser,
           Carrying(k)'
    PROVE  Served'
  <1>1. AllUsers' = AllUsers
    BY DEF AllUsers, Known
  <1>2. handler' = [handler EXCEPT ![r] = k]
    BY DEF Set
  <1>3. handler' \in [Handlers -> Handled]
    BY <1>2 DEF Served
  <1>4. ASSUME NEW q \in Handlers
        PROVE  Carrying(handler[q])'
    <2>1. CASE q = r
      BY <1>2, <2>1 DEF Served
    <2>2. CASE q # r
      <3>1. handler'[q] = handler[q]
        BY <1>2, <2>2 DEF Served
      <3>2. QED
        BY <1>1, <3>1 DEF Served, Carrying
    <2>3. QED
      BY <2>1, <2>2
  <1>5. Handled' = Handled /\ Issued' = Issued
    BY <1>1 DEF Handled, Issued
  <1>6. QED
    BY <1>3, <1>4, <1>5 DEF Served

\* The same where no request goes on.
LEMMA Stays ==
    ASSUME Served, handler' = handler, world' = world,
           states' \in [issued : Nat, live : SUBSET Nat], index' \subseteq Nat,
           override' \in [Ids -> Valid],
           sessions' \in Seq(Issued), DOMAIN sessions \subseteq DOMAIN sessions',
           \A s \in DOMAIN sessions : sessions[s] = NoUser => sessions'[s] = NoUser
    PROVE  Served'
  <1>1. AllUsers' = AllUsers
    BY DEF AllUsers, Known
  <1>2. \A q \in Handlers : Carrying(handler[q])'
    BY <1>1 DEF Served, Carrying
  <1>3. Handled' = Handled /\ Issued' = Issued
    BY <1>1 DEF Handled, Issued
  <1>4. QED
    BY <1>2, <1>3 DEF Served

\* Redis holds what it held but for one session that ends.
LEMMA SessionEnds ==
    ASSUME Served, NEW s \in DOMAIN sessions, sessions' = [sessions EXCEPT ![s] = NoUser]
    PROVE  /\ sessions' \in Seq(Issued) /\ DOMAIN sessions' = DOMAIN sessions
           /\ sessions'[s] = NoUser
           /\ \A t \in DOMAIN sessions : t # s => sessions'[t] = sessions[t]
  BY DEF Served, Issued

LEMMA Shape ==
    ASSUME Served, NEW r \in Handlers
    PROVE  /\ handler[r] \in Handled
           /\ handler[r].user \in AllUsers \union {NoUser} /\ handler[r].of \in Nat
           /\ Carrying(handler[r])
           /\ sessions \in Seq(Issued) /\ DOMAIN sessions \subseteq Nat
           /\ states \in [issued : Nat, live : SUBSET Nat] /\ index \subseteq Nat
           /\ override \in [Ids -> Valid] /\ world \in Worlds
  BY DEF Served, Handled

LEMMA EnvironmentServed ==
    ASSUME Served, StateExpires \/ SessionExpires \/ Tick \/ Cleanup \/ StartLogin
    PROVE  Served'
  <1> USE DEF Served
  <1>1. CASE StateExpires
    BY <1>1, Stays DEF StateExpires, history
  <1>2. CASE SessionExpires
    <2>1. PICK s \in DOMAIN sessions : sessions' = [sessions EXCEPT ![s] = NoUser]
      BY <1>2 DEF SessionExpires
    <2>2. QED
      BY <1>2, <2>1, SessionEnds, Stays DEF SessionExpires
  <1>3. CASE Tick \/ Cleanup
    BY <1>3, Stays DEF Tick, Cleanup
  <1>4. CASE StartLogin
    BY <1>4, Stays DEF StartLogin, history
  <1>5. QED
    BY <1>1, <1>2, <1>3, <1>4

LEMMA LoginServed ==
    ASSUME Served, NEW r \in Handlers,
           \/ BasicLogin(r) \/ Callback(r) \/ ConsumeState(r) \/ Exchange(r)
           \/ ResolveForSession(r) \/ StoreSession(r) \/ IndexSession(r)
    PROVE  Served'
  <1>1. /\ handler[r] \in Handled
        /\ handler[r].user \in AllUsers \union {NoUser} /\ handler[r].of \in Nat
        /\ sessions \in Seq(Issued) /\ DOMAIN sessions \subseteq Nat
        /\ states \in [issued : Nat, live : SUBSET Nat] /\ index \subseteq Nat
        /\ override \in [Ids -> Valid] /\ world \in Worlds
    BY Shape
  <1>2. Idle \in Handled /\ Idle.pc = "idle"
    BY DEF Idle, Handled
  <1>3. ASSUME NEW u \in Known
        PROVE  u \in AllUsers
    BY <1>1, KnownIsUser
  <1>4. CASE BasicLogin(r)
    <2>1. /\ UNCHANGED <<world, states, sessions, index, override>>
      BY <1>4 DEF BasicLogin
    <2>2. CASE UNCHANGED handler
      BY <1>1, <2>1, <2>2, Stays
    <2>3. CASE ~UNCHANGED handler
      <3>1. PICK p \in world.people : Set(r, [Idle EXCEPT !.pc = "resolve", !.op = "login", !.user = User(p)])
        BY <1>4, <2>3 DEF BasicLogin
      <3>2. User(p) \in AllUsers
        BY <1>3 DEF Known, Users
      <3>3. PICK k : k = [Idle EXCEPT !.pc = "resolve", !.op = "login", !.user = User(p)]
        OBVIOUS
      <3>4. k \in Handled /\ k.pc = "resolve" /\ k.user = User(p)
        BY <3>2, <3>3 DEF Idle, Handled
      <3>5. AllUsers' = AllUsers
        BY <2>1 DEF AllUsers, Known
      <3>6. Carrying(k)'
        BY <3>2, <3>4, <3>5 DEF Carrying
      <3>7. QED
        BY <1>1, <2>1, <3>1, <3>3, <3>4, <3>6, GoesOn
    <2>4. QED
      BY <2>2, <2>3
  <1>5. CASE Callback(r)
    <2>1. PICK s \in states.live : Set(r, [Idle EXCEPT !.pc = "consume", !.op = "login", !.of = s])
      BY <1>5 DEF Callback
    <2>2. PICK k : k = [Idle EXCEPT !.pc = "consume", !.op = "login", !.of = s]
      OBVIOUS
    <2>3. k \in Handled /\ k.pc = "consume"
      BY <1>1, <2>2 DEF Idle, Handled
    <2>4. Carrying(k)'
      BY <2>3 DEF Carrying
    <2>5. QED
      BY <1>1, <1>5, <2>1, <2>2, <2>3, <2>4, GoesOn DEF Callback
  <1>6. CASE ConsumeState(r)
    <2>1. PICK k : k = [handler[r] EXCEPT !.pc = "exchange", !.of = 0]
      OBVIOUS
    <2>2. k \in Handled /\ k.pc = "exchange"
      BY <1>1, <2>1 DEF Handled
    <2>3. Carrying(k)'
      BY <2>2 DEF Carrying
    <2>4. states' \in [issued : Nat, live : SUBSET Nat]
      BY <1>1, <1>6 DEF ConsumeState
    <2>5. QED
      BY <1>1, <1>6, <2>1, <2>2, <2>3, <2>4, GoesOn DEF ConsumeState
  <1>7. CASE Exchange(r)
    <2>1. UNCHANGED <<world, states, sessions, index, override>>
      BY <1>7 DEF Exchange
    <2>2. CASE Set(r, Idle)
      <3>1. Carrying(Idle)'
        BY DEF Carrying, Idle
      <3>2. QED
        BY <1>1, <1>2, <2>1, <2>2, <3>1, GoesOn
    <2>3. CASE ~Set(r, Idle)
      <3>1. PICK u \in Known : Set(r, [handler[r] EXCEPT !.pc = "resolve", !.user = u])
        BY <1>7, <2>3 DEF Exchange
      <3>2. PICK k : k = [handler[r] EXCEPT !.pc = "resolve", !.user = u]
        OBVIOUS
      <3>3. k \in Handled /\ k.pc = "resolve" /\ k.user \in AllUsers
        BY <1>1, <1>3, <3>2 DEF Handled
      <3>4. AllUsers' = AllUsers
        BY <2>1 DEF AllUsers, Known
      <3>5. Carrying(k)'
        BY <3>3, <3>4 DEF Carrying
      <3>6. QED
        BY <1>1, <2>1, <3>1, <3>2, <3>3, <3>5, GoesOn
    <2>4. QED
      BY <2>2, <2>3
  <1>8. CASE ResolveForSession(r)
    <2>1. /\ UNCHANGED <<world, states, sessions, index, override>>
          /\ handler[r].user \in AllUsers
      BY <1>8, Shape DEF ResolveForSession, Carrying
    <2>2. PICK u \in Resolved(handler[r].user) : Set(r, [handler[r] EXCEPT !.pc = "store", !.user = u])
      BY <1>8 DEF ResolveForSession
    <2>3. u \in AllUsers /\ u.role \in RoleNames
      BY <1>1, <2>1, <2>2, ResolvedUsers
    <2>4. PICK k : k = [handler[r] EXCEPT !.pc = "store", !.user = u]
      OBVIOUS
    <2>5. k \in Handled /\ k.pc = "store" /\ k.user = u
      BY <1>1, <2>3, <2>4 DEF Handled
    <2>6. AllUsers' = AllUsers
      BY <2>1 DEF AllUsers, Known
    <2>7. Carrying(k)'
      BY <2>3, <2>5, <2>6 DEF Carrying
    <2>8. QED
      BY <1>1, <2>1, <2>2, <2>4, <2>5, <2>7, GoesOn
  <1>9. CASE StoreSession(r)
    <2>1. UNCHANGED <<world, states, index, override>>
      BY <1>9 DEF StoreSession
    <2>2. CASE Set(r, Idle) /\ UNCHANGED sessions
      <3>1. Carrying(Idle)'
        BY DEF Carrying, Idle
      <3>2. QED
        BY <1>1, <1>2, <2>1, <2>2, <3>1, GoesOn
    <2>3. CASE /\ sessions' = Append(sessions, handler[r].user)
               /\ Set(r, [handler[r] EXCEPT !.pc = "index", !.of = Len(sessions) + 1])
      <3>1. handler[r].user \in Issued
        BY <1>9, Shape DEF StoreSession, Carrying, Issued
      <3>2. /\ sessions' \in Seq(Issued) /\ DOMAIN sessions \subseteq DOMAIN sessions'
            /\ Len(sessions) + 1 \in DOMAIN sessions' /\ Len(sessions) + 1 \in Nat
            /\ \A s \in DOMAIN sessions : sessions'[s] = sessions[s]
        BY <1>1, <2>3, <3>1
      <3>3. PICK k : k = [handler[r] EXCEPT !.pc = "index", !.of = Len(sessions) + 1]
        OBVIOUS
      <3>4. k \in Handled /\ k.pc = "index" /\ k.of = Len(sessions) + 1
        BY <1>1, <3>2, <3>3 DEF Handled
      <3>5. Carrying(k)'
        BY <3>2, <3>4 DEF Carrying
      <3>6. QED
        BY <1>1, <2>1, <2>3, <3>2, <3>3, <3>4, <3>5, GoesOn
    <2>4. QED
      BY <1>9, <2>2, <2>3 DEF StoreSession
  <1>10. CASE IndexSession(r)
    <2>1. Carrying(Idle)'
      BY DEF Carrying, Idle
    <2>2. index' \subseteq Nat
      BY <1>1, <1>10 DEF IndexSession
    <2>3. QED
      BY <1>1, <1>2, <1>10, <2>1, <2>2, GoesOn DEF IndexSession
  <1>11. QED
    BY <1>4, <1>5, <1>6, <1>7, <1>8, <1>9, <1>10

LEMMA RequestServed ==
    ASSUME Served, NEW r \in Handlers,
           \/ Request(r) \/ Authenticate(r) \/ Logout(r) \/ Unindex(r)
           \/ ListUsers(r) \/ ListOne(r) \/ Listed(r) \/ UpdateRole(r)
    PROVE  Served'
  <1>1. /\ handler[r] \in Handled
        /\ handler[r].user \in AllUsers \union {NoUser} /\ handler[r].of \in Nat
        /\ sessions \in Seq(Issued) /\ DOMAIN sessions \subseteq Nat
        /\ states \in [issued : Nat, live : SUBSET Nat] /\ index \subseteq Nat
        /\ override \in [Ids -> Valid] /\ world \in Worlds
        /\ Carrying(handler[r])
    BY Shape
  <1>2. Idle \in Handled /\ Carrying(Idle)'
    BY DEF Idle, Handled, Carrying
  <1>3. world' = world => AllUsers' = AllUsers
    BY DEF AllUsers, Known
  <1>4. CASE Request(r)
    <2>1. PICK s \in DOMAIN sessions, op \in {"logout", "list", "update"} :
             /\ sessions[s] # NoUser
             /\ Set(r, [Idle EXCEPT !.pc = "role", !.op = op, !.of = s, !.user = sessions[s]])
      BY <1>4 DEF Request
    <2>2. sessions[s] \in AllUsers
      BY <1>1, <2>1 DEF Issued
    <2>3. PICK k : k = [Idle EXCEPT !.pc = "role", !.op = op, !.of = s, !.user = sessions[s]]
      OBVIOUS
    <2>4. k \in Handled /\ k.pc = "role" /\ k.of = s /\ k.user \in AllUsers
      BY <1>1, <2>2, <2>3 DEF Idle, Handled
    <2>5. Carrying(k)'
      BY <1>3, <1>4, <2>4 DEF Carrying, Request
    <2>6. QED
      BY <1>1, <1>4, <2>1, <2>3, <2>4, <2>5, GoesOn DEF Request
  <1>5. CASE Authenticate(r)
    <2>1. /\ UNCHANGED <<world, states, sessions, index, override>>
          /\ handler[r].user \in AllUsers /\ handler[r].of \in DOMAIN sessions
      BY <1>1, <1>5 DEF Authenticate, Carrying
    <2>2. PICK u \in Resolved(handler[r].user) : Set(r, Authenticated(r, u))
      BY <1>5 DEF Authenticate
    <2>3. u \in AllUsers /\ u.role \in RoleNames
      BY <1>1, <2>1, <2>2, ResolvedUsers
    <2>4. CASE u.role = "admin" \/ handler[r].op = "logout"
      <3>1. PICK k : k = [handler[r] EXCEPT !.pc = "act", !.user = u]
        OBVIOUS
      <3>2. /\ k \in Handled /\ k.pc = "act" /\ k.user = u
            /\ k.of = handler[r].of /\ k.op = handler[r].op
        BY <1>1, <2>3, <3>1 DEF Handled
      <3>3. Carrying(k)'
        BY <1>3, <2>1, <2>3, <2>4, <3>2 DEF Carrying
      <3>4. QED
        BY <1>1, <2>1, <2>2, <2>4, <3>1, <3>2, <3>3, GoesOn DEF Authenticated
    <2>5. CASE ~(u.role = "admin" \/ handler[r].op = "logout")
      BY <1>1, <1>2, <2>1, <2>2, <2>5, GoesOn DEF Authenticated
    <2>6. QED
      BY <2>4, <2>5
  <1>6. CASE Logout(r)
    <2>1. UNCHANGED <<world, states, index, override>> /\ handler[r].of \in DOMAIN sessions
      BY <1>1, <1>6 DEF Logout, Acts, Carrying
    <2>2. CASE /\ sessions' = [sessions EXCEPT ![handler[r].of] = NoUser]
               /\ Set(r, [handler[r] EXCEPT !.pc = "unindex"])
      <3>1. PICK k : k = [handler[r] EXCEPT !.pc = "unindex"]
        OBVIOUS
      <3>2. k \in Handled /\ k.pc = "unindex" /\ k.of = handler[r].of
        BY <1>1, <3>1 DEF Handled
      <3>3. /\ sessions' \in Seq(Issued) /\ DOMAIN sessions' = DOMAIN sessions
            /\ sessions'[handler[r].of] = NoUser
            /\ \A t \in DOMAIN sessions : t # handler[r].of => sessions'[t] = sessions[t]
        BY <2>1, <2>2, SessionEnds
      <3>4. Carrying(k)'
        BY <2>1, <3>2, <3>3 DEF Carrying
      <3>5. QED
        BY <1>1, <2>1, <2>2, <3>1, <3>2, <3>3, <3>4, GoesOn
    <2>3. CASE Set(r, Idle) /\ UNCHANGED sessions
      BY <1>1, <1>2, <2>1, <2>3, GoesOn
    <2>4. QED
      BY <1>6, <2>2, <2>3 DEF Logout
  <1>7. CASE Unindex(r)
    <2>1. index' \subseteq Nat
      BY <1>1, <1>7 DEF Unindex
    <2>2. QED
      BY <1>1, <1>2, <1>7, <2>1, GoesOn DEF Unindex
  <1>8. CASE ListUsers(r)
    <2>1. PICK k : k = [handler[r] EXCEPT !.pc = "listing", !.todo = index]
      OBVIOUS
    <2>2. k \in Handled /\ k.pc = "listing" /\ k.of = handler[r].of
      BY <1>1, <2>1 DEF Handled
    <2>3. Carrying(k)'
      BY <1>1, <1>8, <2>2 DEF Carrying, ListUsers, Acts
    <2>4. QED
      BY <1>1, <1>8, <2>1, <2>2, <2>3, GoesOn DEF ListUsers
  <1>9. CASE ListOne(r)
    <2>1. PICK s \in handler[r].todo : Set(r, [handler[r] EXCEPT !.todo = @ \ {s}])
      BY <1>9 DEF ListOne
    <2>2. PICK k : k = [handler[r] EXCEPT !.todo = @ \ {s}]
      OBVIOUS
    <2>3. k \in Handled /\ k.pc = "listing" /\ k.of = handler[r].of
      BY <1>1, <1>9, <2>2 DEF Handled, ListOne
    <2>4. Carrying(k)'
      BY <1>1, <1>9, <2>3 DEF Carrying, ListOne
    <2>5. index' \subseteq Nat /\ UNCHANGED <<world, states, sessions, override>>
      BY <1>1, <1>9 DEF ListOne
    <2>6. QED
      BY <1>1, <2>1, <2>2, <2>3, <2>4, <2>5, GoesOn
  <1>10. CASE Listed(r)
    BY <1>1, <1>2, <1>10, GoesOn DEF Listed
  <1>11. CASE UpdateRole(r)
    <2>1. UNCHANGED <<world, states, sessions, index>> /\ Set(r, Idle)
      BY <1>11 DEF UpdateRole
    <2>2. override' \in [Ids -> Valid]
      BY <1>1, <1>11 DEF UpdateRole, Valid
    <2>3. QED
      BY <1>1, <1>2, <2>1, <2>2, GoesOn
  <1>12. QED
    BY <1>4, <1>5, <1>6, <1>7, <1>8, <1>9, <1>10, <1>11

LEMMA NextServed == Served /\ [Next]_vars => Served'
  <1>1. ASSUME Served, UNCHANGED vars
        PROVE  Served'
    BY <1>1, Stays DEF vars, Served
  <1>2. QED
    BY <1>1, EnvironmentServed, LoginServed, RequestServed DEF Next

\* The inductive invariant: types, and what a request relies on between two commands.
THEOREM AlwaysServed == Spec => []Served
  BY InitServed, NextServed, PTL DEF Spec

-----------------------------------------------------------------------------
(* Sessions. *)

\* Only three kinds of steps change the sessions.
LEMMA SessionSteps ==
    ASSUME Served, Next
    PROVE  \/ sessions' = sessions
           \/ \E s \in DOMAIN sessions : sessions' = [sessions EXCEPT ![s] = NoUser]
           \/ \E r \in Handlers : StoreSession(r) /\ sessions' = Append(sessions, handler[r].user)
  <1>1. CASE StateExpires \/ SessionExpires \/ Tick \/ Cleanup \/ StartLogin
    BY <1>1 DEF StateExpires, SessionExpires, Tick, Cleanup, StartLogin
  <1>2. ASSUME NEW r \in Handlers,
               \/ BasicLogin(r) \/ Callback(r) \/ ConsumeState(r) \/ Exchange(r)
               \/ ResolveForSession(r) \/ IndexSession(r) \/ Request(r) \/ Authenticate(r)
               \/ Unindex(r) \/ ListUsers(r) \/ ListOne(r) \/ Listed(r) \/ UpdateRole(r)
        PROVE  sessions' = sessions
    BY <1>2 DEF BasicLogin, Callback, ConsumeState, Exchange, ResolveForSession, IndexSession,
                Request, Authenticate, Unindex, ListUsers, ListOne, Listed, UpdateRole
  <1>3. ASSUME NEW r \in Handlers, Logout(r)
        PROVE  \/ sessions' = sessions
               \/ \E s \in DOMAIN sessions : sessions' = [sessions EXCEPT ![s] = NoUser]
    BY <1>3 DEF Logout, Acts, Served, Carrying
  <1>4. ASSUME NEW r \in Handlers, StoreSession(r)
        PROVE  sessions' = sessions \/ sessions' = Append(sessions, handler[r].user)
    BY <1>4 DEF StoreSession
  <1>5. QED
    BY <1>1, <1>2, <1>3, <1>4 DEF Next

\* authentication.md:452-456: a session that was logged out or expired never lives again,
\* whatever any number of requests that had begun with it go on to do.
THEOREM EndedIsEnded == Spec => EndedStaysEnded
  <1>1. Served /\ [Next]_vars =>
          [\A s \in DOMAIN sessions : sessions[s] = NoUser => sessions'[s] = NoUser]_vars
    <2> SUFFICES ASSUME Served, Next
                 PROVE  \A s \in DOMAIN sessions : sessions[s] = NoUser => sessions'[s] = NoUser
      OBVIOUS
    <2>1. CASE sessions' = sessions
      BY <2>1
    <2>2. CASE \E s \in DOMAIN sessions : sessions' = [sessions EXCEPT ![s] = NoUser]
      BY <2>2, SessionEnds
    <2>3. ASSUME NEW r \in Handlers, StoreSession(r), sessions' = Append(sessions, handler[r].user)
          PROVE  \A s \in DOMAIN sessions : sessions'[s] = sessions[s]
      <3>1. handler[r].user \in Issued /\ sessions \in Seq(Issued)
        BY <2>3 DEF Served, Carrying, StoreSession, Issued
      <3>2. QED
        BY <2>3, <3>1
    <2>4. QED
      BY <2>1, <2>2, <2>3, SessionSteps
  <1>2. QED
    BY <1>1, AlwaysServed, PTL DEF Spec, EndedStaysEnded

\* A session s is listed, or its end or its omission has made up for it.
Shown(s) == sessions[s] = NoUser \/ s \in index \union unlisted

LEMMA StepListed ==
    ASSUME Served, ListedWhileLive, NEW r \in Handlers, NEW s \in DOMAIN sessions,
           s \in DOMAIN sessions', sessions'[s] \in {sessions[s], NoUser},
           s \in index => s \in index' \/ sessions[s] = NoUser,
           unlisted \subseteq unlisted',
           \/ handler' = handler
           \/ \E k : /\ handler' = [handler EXCEPT ![r] = k]
                     /\ handler[r].pc = "index" /\ handler[r].of = s => s \in index' \union unlisted'
    PROVE  \/ Shown(s)'
           \/ \E q \in Handlers : handler'[q].pc = "index" /\ handler'[q].of = s
  <1>1. CASE Shown(s)
    BY <1>1 DEF Shown
  <1>2. CASE ~Shown(s)
    <2>1. PICK q \in Handlers : handler[q].pc = "index" /\ handler[q].of = s
      BY <1>2 DEF ListedWhileLive, Shown
    <2>2. handler'[q] = handler[q] \/ s \in index' \union unlisted'
      BY <2>1 DEF Served
    <2>3. QED
      BY <2>1, <2>2 DEF Shown
  <1>3. QED
    BY <1>1, <1>2

LEMMA NextListed ==
    ASSUME Served, Served', ListedWhileLive, Next
    PROVE  ListedWhileLive'
  <1>1. CASE StateExpires \/ Tick \/ Cleanup \/ StartLogin
    BY <1>1 DEF StateExpires, Tick, Cleanup, StartLogin, history, ListedWhileLive
  <1>2. CASE SessionExpires
    <2>1. PICK s \in DOMAIN sessions : sessions' = [sessions EXCEPT ![s] = NoUser]
      BY <1>2 DEF SessionExpires
    <2>2. /\ DOMAIN sessions' = DOMAIN sessions
          /\ \A t \in DOMAIN sessions : sessions'[t] = sessions[t] \/ sessions'[t] = NoUser
      BY <2>1, SessionEnds
    <2>3. QED
      BY <1>2, <2>2 DEF SessionExpires, history, ListedWhileLive
  <1>3. ASSUME NEW r \in Handlers, handler[r].pc # "index",
               \/ UNCHANGED handler \/ \E k : Set(r, k),
               UNCHANGED <<index, unlisted>>,
               DOMAIN sessions' = DOMAIN sessions,
               \A t \in DOMAIN sessions : sessions'[t] \in {sessions[t], NoUser}
        PROVE  ListedWhileLive'
    BY <1>3, StepListed DEF ListedWhileLive, Shown, Set
  <1>4. ASSUME NEW r \in Handlers,
               \/ BasicLogin(r) \/ Callback(r) \/ ConsumeState(r) \/ Exchange(r)
               \/ ResolveForSession(r) \/ Request(r) \/ Authenticate(r)
               \/ ListUsers(r) \/ Listed(r) \/ UpdateRole(r)
        PROVE  ListedWhileLive'
    <2>1. /\ handler[r].pc # "index" /\ UNCHANGED <<sessions, index, unlisted>>
          /\ UNCHANGED handler \/ \E k : Set(r, k)
      BY <1>4 DEF BasicLogin, Callback, ConsumeState, Exchange, ResolveForSession, Request,
                  Authenticate, ListUsers, Listed, UpdateRole, Acts, history
    <2>2. QED
      BY <1>3, <2>1
  <1>5. ASSUME NEW r \in Handlers, Logout(r)
        PROVE  ListedWhileLive'
    <2>1. /\ handler[r].pc # "index" /\ UNCHANGED <<index, unlisted>> /\ \E k : Set(r, k)
          /\ handler[r].of \in DOMAIN sessions
      BY <1>5 DEF Logout, Acts, history, Served, Carrying
    <2>2. CASE UNCHANGED sessions
      BY <1>3, <2>1, <2>2
    <2>3. CASE sessions' = [sessions EXCEPT ![handler[r].of] = NoUser]
      <3>1. /\ DOMAIN sessions' = DOMAIN sessions
            /\ \A t \in DOMAIN sessions : sessions'[t] \in {sessions[t], NoUser}
        BY <2>1, <2>3, SessionEnds
      <3>2. QED
        BY <1>3, <2>1, <3>1
    <2>4. QED
      BY <1>5, <2>2, <2>3 DEF Logout
  <1>6. ASSUME NEW r \in Handlers, StoreSession(r)
        PROVE  ListedWhileLive'
    <2>1. /\ handler[r].pc = "store" /\ UNCHANGED <<index, unlisted>> /\ \E k : Set(r, k)
      BY <1>6 DEF StoreSession, history
    <2>2. CASE UNCHANGED sessions
      BY <1>3, <2>1, <2>2
    <2>3. CASE /\ sessions' = Append(sessions, handler[r].user)
               /\ Set(r, [handler[r] EXCEPT !.pc = "index", !.of = Len(sessions) + 1])
      <3>1. /\ handler[r].user \in Issued /\ sessions \in Seq(Issued)
        BY <2>1 DEF Served, Carrying, Issued
      <3>2. /\ DOMAIN sessions' = DOMAIN sessions \union {Len(sessions) + 1}
            /\ \A t \in DOMAIN sessions : sessions'[t] = sessions[t]
        BY <2>3, <3>1
      <3>3. handler'[r].pc = "index" /\ handler'[r].of = Len(sessions) + 1
        BY <2>3 DEF Set, Served, Handled
      <3>4. ASSUME NEW t \in DOMAIN sessions
            PROVE  Shown(t)' \/ \E q \in Handlers : handler'[q].pc = "index" /\ handler'[q].of = t
        BY <2>1, <3>2, StepListed DEF Set
      <3>5. QED
        BY <3>2, <3>3, <3>4 DEF ListedWhileLive, Shown
    <2>4. QED
      BY <1>6, <2>2, <2>3 DEF StoreSession
  <1>7. ASSUME NEW r \in Handlers, IndexSession(r) \/ Unindex(r) \/ ListOne(r)
        PROVE  ListedWhileLive'
    <2>1. /\ UNCHANGED sessions /\ unlisted \subseteq unlisted' /\ \E k : Set(r, k)
      BY <1>7 DEF IndexSession, Unindex, ListOne, history
    <2>2. \A s \in DOMAIN sessions : s \in index => s \in index' \/ sessions[s] = NoUser
      BY <1>7 DEF IndexSession, Unindex, ListOne, Served, Carrying
    <2>3. handler[r].pc = "index" => handler[r].of \in index' \union unlisted'
      BY <1>7 DEF IndexSession, Unindex, ListOne
    <2>4. QED
      BY <2>1, <2>2, <2>3, StepListed DEF ListedWhileLive, Shown, Set
  <1>8. QED
    BY <1>1, <1>2, <1>4, <1>5, <1>6, <1>7 DEF Next

\* session.go:162: the list of sessions has every one that lives, however logins, logouts,
\* lists that clean up and expiry overlap; but where the login was told that listing failed.
THEOREM LiveIsListed == Spec => []ListedWhileLive
  <1>1. Init => ListedWhileLive
    BY DEF Init, ListedWhileLive
  <1>2. ListedWhileLive /\ UNCHANGED vars => ListedWhileLive'
    BY DEF vars, ListedWhileLive
  <1>3. QED
    BY <1>1, <1>2, NextListed, AlwaysServed, PTL DEF Spec

-----------------------------------------------------------------------------
(* Administrators. *)

\* Only an update changes a role, and the role of another one than who asks for it.
LEMMA RoleSteps ==
    ASSUME Served, Next
    PROVE  \/ override' = override
           \/ \E r \in Handlers, i \in Ids, x \in RoleNames :
                 /\ UpdateRole(r) /\ i # handler[r].user.id
                 /\ override' = [override EXCEPT ![i] = x]
                 /\ ~disturbed' => ~disturbed /\ \A q \in Handlers \ {r} : ~Acts(q, "update")
  <1>1. CASE StateExpires \/ SessionExpires \/ Tick \/ Cleanup \/ StartLogin
    BY <1>1 DEF StateExpires, SessionExpires, Tick, Cleanup, StartLogin
  <1>2. ASSUME NEW r \in Handlers,
               \/ BasicLogin(r) \/ Callback(r) \/ ConsumeState(r) \/ Exchange(r)
               \/ ResolveForSession(r) \/ StoreSession(r) \/ IndexSession(r) \/ Request(r)
               \/ Authenticate(r) \/ Logout(r) \/ Unindex(r) \/ ListUsers(r) \/ ListOne(r)
               \/ Listed(r)
        PROVE  override' = override
    BY <1>2 DEF BasicLogin, Callback, ConsumeState, Exchange, ResolveForSession, StoreSession,
                IndexSession, Request, Authenticate, Logout, Unindex, ListUsers, ListOne, Listed
  <1>3. ASSUME NEW r \in Handlers, UpdateRole(r), override' # override
        PROVE  \E i \in Ids, x \in RoleNames :
                 /\ i # handler[r].user.id
                 /\ override' = [override EXCEPT ![i] = x]
                 /\ ~disturbed' => ~disturbed /\ \A q \in Handlers \ {r} : ~Acts(q, "update")
    <2>1. PICK i \in {p.id : p \in world.people}, x \in RoleNames :
             /\ OfAnother(r, i)
             /\ override' = [override EXCEPT ![i] = x]
             /\ disturbed' = (disturbed \/ \E q \in Handlers \ {r} : Acts(q, "update"))
      BY <1>3 DEF UpdateRole
    <2>2. override' = [override EXCEPT ![i] = x] /\ i # handler[r].user.id
      BY <2>1 DEF OfAnother
    <2>3. ~disturbed' => ~disturbed /\ \A q \in Handlers \ {r} : ~Acts(q, "update")
      BY <2>1
    <2>4. i \in Ids
      BY LoginAssumption DEF Served, Ids
    <2>5. QED
      BY <2>2, <2>3, <2>4
  <1>4. QED
    BY <1>1, <1>2, <1>3 DEF Next

\* A request comes to act as an administrator only by finding that its user is one.
LEMMA ActingSteps ==
    ASSUME Served, Next, override' = override, NEW q \in Handlers, Acts(q, "update")', ~disturbed'
    PROVE  \/ Acts(q, "update") /\ handler'[q].user = handler[q].user /\ ~disturbed
           \/ ResolveRole(override[handler'[q].user.id], handler'[q].user) = "admin"
  <1>1. /\ handler \in [Handlers -> Handled] /\ world \in Worlds
        /\ \A r \in Handlers : Carrying(handler[r])
    BY DEF Served
  <1>2. CASE StateExpires \/ SessionExpires \/ Tick \/ Cleanup \/ StartLogin
    BY <1>2 DEF StateExpires, SessionExpires, Tick, Cleanup, StartLogin, Acts, history
  <1>4. ASSUME NEW r \in Handlers,
               \/ BasicLogin(r) \/ Callback(r) \/ ConsumeState(r) \/ Exchange(r)
               \/ ResolveForSession(r) \/ StoreSession(r) \/ IndexSession(r) \/ Request(r)
               \/ Logout(r) \/ Unindex(r) \/ ListUsers(r) \/ ListOne(r) \/ Listed(r)
               \/ UpdateRole(r)
        PROVE  Acts(q, "update") /\ handler'[q].user = handler[q].user /\ ~disturbed
    <2>1. ~disturbed
      BY <1>4 DEF BasicLogin, Callback, ConsumeState, Exchange, ResolveForSession, Resolve,
                  StoreSession, IndexSession, Request, Logout, Unindex, ListUsers, ListOne,
                  Listed, UpdateRole, history
    <2>2. handler'[q] = handler[q] \/ handler'[q].pc # "act"
      <3>1. CASE handler' = handler
        BY <3>1
      <3>2. CASE Set(r, Idle)
        BY <1>1, <3>2 DEF Set, Idle
      <3>3. ASSUME NEW p \in world.people,
                   Set(r, [Idle EXCEPT !.pc = "resolve", !.op = "login", !.user = User(p)])
            PROVE  handler'[q] = handler[q] \/ handler'[q].pc # "act"
        BY <1>1, <3>3 DEF Set, Idle
      <3>4. ASSUME NEW op, NEW s, NEW u,
                   \/ Set(r, [Idle EXCEPT !.pc = "consume", !.op = "login", !.of = s])
                   \/ Set(r, [Idle EXCEPT !.pc = "role", !.op = op, !.of = s, !.user = u])
            PROVE  handler'[q] = handler[q] \/ handler'[q].pc # "act"
        BY <1>1, <3>4 DEF Set, Idle
      <3>5. ASSUME NEW x \in {"exchange", "resolve", "store", "index", "unindex", "listing"},
                   NEW u, NEW s, NEW t,
                   \/ Set(r, [handler[r] EXCEPT !.pc = x, !.of = s])
                   \/ Set(r, [handler[r] EXCEPT !.pc = x, !.user = u])
                   \/ Set(r, [handler[r] EXCEPT !.pc = x, !.todo = t])
                   \/ Set(r, [handler[r] EXCEPT !.pc = x])
            PROVE  handler'[q] = handler[q] \/ handler'[q].pc # "act"
        BY <1>1, <3>5 DEF Set, Handled
      <3>6. ASSUME NEW s, handler[r].pc = "listing", Set(r, [handler[r] EXCEPT !.todo = @ \ {s}])
            PROVE  handler'[q] = handler[q] \/ handler'[q].pc # "act"
        BY <1>1, <3>6 DEF Set, Handled
      <3>7. CASE BasicLogin(r) \/ Callback(r) \/ Request(r)
        BY <3>1, <3>3, <3>4, <3>7 DEF BasicLogin, Callback, Request
      <3>8. CASE ConsumeState(r) \/ Exchange(r) \/ ResolveForSession(r) \/ StoreSession(r) \/ Logout(r)
        BY <3>2, <3>5, <3>8 DEF ConsumeState, Exchange, ResolveForSession, StoreSession, Logout
      <3>9. CASE \/ IndexSession(r) \/ Unindex(r) \/ ListUsers(r) \/ ListOne(r) \/ Listed(r)
                  \/ UpdateRole(r)
        BY <3>2, <3>5, <3>6, <3>9 DEF IndexSession, Unindex, ListUsers, ListOne, Listed, UpdateRole
      <3>10. QED
        BY <1>4, <3>7, <3>8, <3>9
    <2>3. QED
      BY <2>1, <2>2 DEF Acts
  <1>5. ASSUME NEW r \in Handlers, Authenticate(r)
        PROVE  \/ Acts(q, "update") /\ handler'[q].user = handler[q].user /\ ~disturbed
               \/ ResolveRole(override[handler'[q].user.id], handler'[q].user) = "admin"
    <2>1. PICK u \in Resolved(handler[r].user) :
             /\ disturbed' = (disturbed \/ u.role # ResolveRole(override[u.id], u))
             /\ handler' = [handler EXCEPT ![r] = Authenticated(r, u)]
      BY <1>5 DEF Authenticate, Resolve, Set
    <2>2. ~disturbed /\ u.role = ResolveRole(override[u.id], u)
      BY <2>1
    <2>3. CASE q # r
      BY <1>1, <2>1, <2>2, <2>3 DEF Acts
    <2>4. CASE q = r
      <3>1. handler'[q] = Authenticated(r, u)
        BY <1>1, <2>1, <2>4
      <3>2. u.role = "admin" \/ handler[r].op = "logout"
        BY <3>1 DEF Authenticated, Acts, Idle
      <3>3. handler'[q] = [handler[r] EXCEPT !.pc = "act", !.user = u]
        BY <3>1, <3>2 DEF Authenticated
      <3>4. handler'[q].user = u /\ handler'[q].op = handler[r].op
        BY <1>1, <3>3 DEF Handled
      <3>5. QED
        BY <2>2, <3>2, <3>4 DEF Acts
    <2>5. QED
      BY <2>3, <2>4
  <1>6. QED
    BY <1>2, <1>4, <1>5 DEF Next

LEMMA NextEntitled ==
    ASSUME Served, Entitled, Next
    PROVE  Entitled'
  <1> SUFFICES ASSUME ~disturbed', NEW q \in Handlers, Acts(q, "update")'
               PROVE  ResolveRole(override'[handler'[q].user.id], handler'[q].user) = "admin"
    BY DEF Entitled
  <1>1. CASE override' = override
    BY <1>1, ActingSteps DEF Entitled
  <1>2. ASSUME NEW r \in Handlers, UpdateRole(r),
               \A p \in Handlers \ {r} : ~Acts(p, "update")
        PROVE  FALSE
    <2>1. handler' = [handler EXCEPT ![r] = Idle] /\ handler \in [Handlers -> Handled]
      BY <1>2 DEF UpdateRole, Set, Served
    <2>2. QED
      BY <1>2, <2>1 DEF Acts, Idle
  <1>3. QED
    BY <1>1, <1>2, RoleSteps

LEMMA NextAdmins ==
    ASSUME Served, Entitled, AdminsRemain, Next
    PROVE  AdminsRemain'
  <1> SUFFICES ASSUME ~disturbed', \E u \in Known : AssignedRole(u) = "admin", Known' = Known
               PROVE  \E u \in Known : ResolveRole(override'[u.id], u) = "admin"
    <2>1. world' = world
      BY DEF Next, StateExpires, SessionExpires, Tick, Cleanup, StartLogin, BasicLogin, Callback,
             ConsumeState, Exchange, ResolveForSession, StoreSession, IndexSession, Request,
             Authenticate, Logout, Unindex, ListUsers, ListOne, Listed, UpdateRole
    <2>2. QED
      BY <2>1 DEF AdminsRemain, Known
  <1>1. CASE override' = override
    <2>1. ~disturbed
      BY DEF Next, StateExpires, SessionExpires, Tick, Cleanup, StartLogin, BasicLogin, Callback,
             ConsumeState, Exchange, ResolveForSession, StoreSession, IndexSession, Request,
             Authenticate, Logout, Unindex, ListUsers, ListOne, Listed, UpdateRole, Resolve, history
    <2>2. QED
      BY <1>1, <2>1 DEF AdminsRemain
  <1>2. ASSUME NEW r \in Handlers, NEW i \in Ids, NEW x \in RoleNames,
               UpdateRole(r), i # handler[r].user.id,
               override' = [override EXCEPT ![i] = x], ~disturbed
        PROVE  \E u \in Known : ResolveRole(override'[u.id], u) = "admin"
    <2> DEFINE w == handler[r].user
    <2>1. w \in AllUsers /\ ResolveRole(override[w.id], w) = "admin"
      BY <1>2 DEF UpdateRole, Acts, Served, Carrying, Entitled
    <2>2. PICK v \in Known : Alike(w, v)
      BY <2>1, AllUsersAlike DEF Served
    <2>3. ResolveRole(override[v.id], v) = "admin"
      BY <2>1, <2>2, SameAssigned DEF Alike, ResolveRole
    <2>4. override'[v.id] = override[v.id]
      BY <1>2, <2>2 DEF Alike, Served
    <2>5. QED
      BY <2>3, <2>4
  <1>3. QED
    BY <1>1, <1>2, RoleSteps

\* routes.go:623: as long as role changes do not overlap and roles that were set can be
\* read, some administrator remains, whatever roles are changed by how many requests.
THEOREM AdminRemains == Spec => []AdminsRemain
  <1>1. Init => AdminsRemain
    BY KnownUsers DEF Init, AdminsRemain, ResolveRole, NoRole, RoleNames
  <1>2. Served /\ Entitled /\ AdminsRemain /\ [Next]_vars => (Entitled /\ AdminsRemain)'
    <2>1. Entitled /\ AdminsRemain /\ UNCHANGED vars => (Entitled /\ AdminsRemain)'
      <3> SUFFICES ASSUME Entitled, AdminsRemain, UNCHANGED vars
                   PROVE  (Entitled /\ AdminsRemain)'
        OBVIOUS
      <3>1. Known' = Known
        BY DEF vars, Known
      <3>2. QED
        BY <3>1 DEF vars, Entitled, AdminsRemain, Acts
    <2>2. QED
      BY <2>1, NextEntitled, NextAdmins
  <1>3. QED
    BY <1>1, <1>2, InitServed, AlwaysServed, PTL DEF Spec

-----------------------------------------------------------------------------
(* The rate limiter. *)

\* The attempts that the window covers.
Tries(a) == {i \in DOMAIN tried[a] : tried[a][i] + Window > now}

\* What the limiter has forgotten is out of the window, and the window is within the limit.
Metered == /\ now \in Nat
           /\ tried \in [Addresses -> Seq(Nat)]
           /\ attempts \in [Addresses -> SUBSET Nat]
           /\ \A a \in Addresses :
                 /\ attempts[a] \subseteq DOMAIN tried[a]
                 /\ \A i \in DOMAIN tried[a] : tried[a][i] <= now
                 /\ \A i \in DOMAIN tried[a] \ attempts[a] : tried[a][i] + Window <= now
                 /\ IsFiniteSet(Tries(a)) /\ Cardinality(Tries(a)) <= MaxAttempts

\* Time goes on or attempts are forgotten, or one is let through.
Forgetting == /\ now' \in {now, now + 1} /\ tried' = tried
              /\ attempts' \in [Addresses -> SUBSET Nat]
              /\ \A a \in Addresses : attempts'[a] \in {attempts[a], Recent(a)}
LetThrough(a) == /\ now' = now /\ Allowed(a)
                 /\ attempts' = [attempts EXCEPT ![a] = Recent(a) \union {Len(tried[a]) + 1}]
                 /\ tried' = [tried EXCEPT ![a] = Append(@, now)]

\* The limiter counts what it should.
LEMMA RecentIsTries ==
    ASSUME Metered, NEW a \in Addresses
    PROVE  Recent(a) = Tries(a)
  <1>1. \A i \in DOMAIN tried[a] : tried[a][i] \in Nat
    BY DEF Metered
  <1>2. ASSUME NEW i \in DOMAIN tried[a] \ attempts[a]
        PROVE  ~(tried[a][i] + Window > now)
    BY <1>1, <1>2, LoginAssumption DEF Metered
  <1>3. QED
    BY <1>2 DEF Recent, Tries, Metered

LEMMA LimiterSteps ==
    ASSUME Metered, [Next]_vars
    PROVE  Forgetting \/ \E a \in Addresses : LetThrough(a)
  <1>1. ASSUME UNCHANGED <<attempts, tried>>, now' \in {now, now + 1}
        PROVE  Forgetting
    BY <1>1 DEF Forgetting, Metered
  <1>2. ASSUME NEW a \in Addresses
        PROVE  Recent(a) \in SUBSET Nat
    BY DEF Recent, Metered
  <1>3. CASE Cleanup
    BY <1>2, <1>3 DEF Cleanup, history, Forgetting
  <1>4. ASSUME NEW r \in Handlers, BasicLogin(r)
        PROVE  Forgetting \/ \E a \in Addresses : LetThrough(a)
    <2>1. PICK a \in Addresses :
             \/ LetThrough(a)
             \/ attempts' = [attempts EXCEPT ![a] = Recent(a)] /\ UNCHANGED <<tried, now>>
      BY <1>4 DEF BasicLogin, LetThrough
    <2>2. ASSUME attempts' = [attempts EXCEPT ![a] = Recent(a)], UNCHANGED <<tried, now>>
          PROVE  Forgetting
      <3>1. attempts' \in [Addresses -> SUBSET Nat]
        BY <1>2, <2>2 DEF Metered
      <3>2. \A b \in Addresses : attempts'[b] \in {attempts[b], Recent(b)}
        BY <2>2 DEF Metered
      <3>3. QED
        BY <2>2, <3>1, <3>2 DEF Forgetting
    <2>3. QED
      BY <2>1, <2>2
  <1>5. CASE \/ StateExpires \/ SessionExpires \/ Tick \/ StartLogin \/ UNCHANGED vars
             \/ \E r \in Handlers :
                  \/ Callback(r) \/ ConsumeState(r) \/ Exchange(r)
                  \/ ResolveForSession(r) \/ StoreSession(r) \/ IndexSession(r)
                  \/ Request(r) \/ Authenticate(r) \/ Logout(r) \/ Unindex(r)
                  \/ ListUsers(r) \/ ListOne(r) \/ Listed(r) \/ UpdateRole(r)
    <2>1. UNCHANGED <<attempts, tried>> /\ now' \in {now, now + 1}
      BY <1>5 DEF StateExpires, SessionExpires, Tick, StartLogin, vars, history, Callback,
             ConsumeState, Exchange, ResolveForSession, StoreSession, IndexSession, Request,
             Authenticate, Logout, Unindex, ListUsers, ListOne, Listed, UpdateRole
    <2>2. QED
      BY <1>1, <2>1
  <1>6. QED
    BY <1>3, <1>4, <1>5 DEF Next

LEMMA ForgettingMetered ==
    ASSUME Metered, Forgetting
    PROVE  Metered'
  <1>1. now' \in Nat /\ now <= now'
    BY DEF Metered, Forgetting
  <1>2. ASSUME NEW a \in Addresses
        PROVE  /\ attempts'[a] \subseteq DOMAIN tried'[a]
               /\ \A i \in DOMAIN tried'[a] : tried'[a][i] <= now'
               /\ \A i \in DOMAIN tried'[a] \ attempts'[a] : tried'[a][i] + Window <= now'
               /\ IsFiniteSet(Tries(a)') /\ Cardinality(Tries(a)') <= MaxAttempts
    <2>1. /\ tried' = tried /\ \A i \in DOMAIN tried[a] : tried[a][i] \in Nat /\ tried[a][i] <= now
          /\ \A i \in DOMAIN tried[a] \ attempts[a] : tried[a][i] + Window <= now
          /\ now \in Nat /\ Window \in Nat /\ MaxAttempts \in Nat
          /\ IsFiniteSet(Tries(a)) /\ Cardinality(Tries(a)) <= MaxAttempts
      BY LoginAssumption DEF Metered, Forgetting
    <2>2. Tries(a)' \subseteq Tries(a)
      BY <1>1, <2>1 DEF Tries
    <2>3. IsFiniteSet(Tries(a)') /\ Cardinality(Tries(a)') <= MaxAttempts
      <3>1. PICK S : S = Tries(a)'
        OBVIOUS
      <3>2. IsFiniteSet(S) /\ Cardinality(S) <= Cardinality(Tries(a))
        BY <2>1, <2>2, <3>1, FS_Subset
      <3>3. Cardinality(S) \in Nat /\ Cardinality(Tries(a)) \in Nat
        BY <2>1, <3>2, FS_CardinalityType
      <3>4. QED
        BY <2>1, <3>1, <3>2, <3>3
    <2>4. attempts'[a] \subseteq attempts[a]
      BY DEF Forgetting, Recent
    <2>5. ASSUME NEW i \in DOMAIN tried[a], i \notin attempts'[a]
          PROVE  tried[a][i] + Window <= now'
      <3>1. CASE i \notin attempts[a]
        BY <1>1, <2>1, <3>1
      <3>2. CASE i \in attempts[a]
        <4>1. i \notin Recent(a)
          BY <2>5, <3>2 DEF Forgetting
        <4>2. ~(tried[a][i] + Window > now)
          BY <3>2, <4>1 DEF Recent
        <4>3. QED
          BY <1>1, <2>1, <4>2
      <3>3. QED
        BY <3>1, <3>2
    <2>6. QED
      BY <1>1, <2>1, <2>3, <2>4, <2>5 DEF Metered
  <1>3. QED
    BY <1>1, <1>2 DEF Metered, Forgetting

LEMMA LetThroughMetered ==
    ASSUME Metered, NEW a \in Addresses, LetThrough(a)
    PROVE  Metered'
  <1> DEFINE n == Len(tried[a]) + 1
  <1>1. /\ now \in Nat /\ now' = now /\ Window \in Nat /\ MaxAttempts \in Nat
        /\ tried[a] \in Seq(Nat) /\ n \in Nat /\ n \notin DOMAIN tried[a]
    BY LoginAssumption DEF Metered, LetThrough
  <1>2. /\ tried'[a] = Append(tried[a], now) /\ attempts'[a] = Recent(a) \union {n}
        /\ \A b \in Addresses : b # a => tried'[b] = tried[b] /\ attempts'[b] = attempts[b]
    BY DEF Metered, LetThrough
  <1>3. /\ tried'[a] \in Seq(Nat) /\ DOMAIN tried'[a] = DOMAIN tried[a] \union {n}
        /\ tried'[a][n] = now /\ \A i \in DOMAIN tried[a] : tried'[a][i] = tried[a][i]
    BY <1>1, <1>2
  <1>4. Recent(a) = Tries(a) /\ Recent(a) \subseteq DOMAIN tried[a]
    BY RecentIsTries DEF Tries
  <1>5. DOMAIN tried[a] \subseteq Nat /\ attempts'[a] \subseteq DOMAIN tried'[a]
    BY <1>1, <1>2, <1>3, <1>4
  <1>6. tried' \in [Addresses -> Seq(Nat)] /\ attempts' \in [Addresses -> SUBSET Nat]
    <2>1. attempts'[a] \in SUBSET Nat
      BY <1>1, <1>3, <1>5
    <2>2. QED
      BY <1>2, <1>3, <2>1 DEF Metered, LetThrough
  <1>7. /\ \A i \in DOMAIN tried'[a] : tried'[a][i] <= now'
        /\ \A i \in DOMAIN tried'[a] \ attempts'[a] : tried'[a][i] + Window <= now'
    <2>1. ASSUME NEW i \in DOMAIN tried[a]
          PROVE  tried[a][i] \in Nat /\ tried[a][i] <= now
      BY <1>1 DEF Metered
    <2>2. ASSUME NEW i \in DOMAIN tried[a], i \notin attempts'[a]
          PROVE  tried[a][i] + Window <= now
      <3>1. ~(tried[a][i] + Window > now)
        BY <1>2, <1>4, <2>2 DEF Tries
      <3>2. QED
        BY <1>1, <2>1, <3>1
    <2>3. QED
      BY <1>1, <1>2, <1>3, <2>1, <2>2
  <1>8. IsFiniteSet(Tries(a)') /\ Cardinality(Tries(a)') <= MaxAttempts
    <2>1. Tries(a)' \subseteq Tries(a) \union {n}
      BY <1>1, <1>3 DEF Tries
    <2>2. IsFiniteSet(Tries(a)) /\ Cardinality(Tries(a)) < MaxAttempts /\ n \notin Tries(a)
      BY <1>1, <1>4 DEF Metered, LetThrough, Allowed, Tries
    <2>3. /\ IsFiniteSet(Tries(a) \union {n})
          /\ Cardinality(Tries(a) \union {n}) = Cardinality(Tries(a)) + 1
      BY <2>2, FS_AddElement
    <2>4. PICK S : S = Tries(a)'
      OBVIOUS
    <2>5. IsFiniteSet(S) /\ Cardinality(S) <= Cardinality(Tries(a) \union {n})
      BY <2>1, <2>3, <2>4, FS_Subset
    <2>6. Cardinality(S) \in Nat /\ Cardinality(Tries(a)) \in Nat
      BY <2>2, <2>5, FS_CardinalityType
    <2>7. QED
      BY <1>1, <2>2, <2>3, <2>4, <2>5, <2>6
  <1>9. ASSUME NEW b \in Addresses, b # a
        PROVE  Tries(b)' = Tries(b)
    BY <1>1, <1>2, <1>9 DEF Tries
  <1>10. QED
    BY <1>1, <1>2, <1>5, <1>6, <1>7, <1>8, <1>9 DEF Metered

\* The limiter's invariant.
THEOREM AlwaysMetered == Spec => []Metered
  <1>1. Init => Metered
    <2> SUFFICES ASSUME Init PROVE Metered
      OBVIOUS
    <2>1. ASSUME NEW a \in Addresses
          PROVE  Tries(a) = {}
      BY DEF Init, Tries
    <2>2. now \in Nat /\ MaxAttempts \in Nat
      BY LoginAssumption DEF Init
    <2>3. /\ tried \in [Addresses -> Seq(Nat)] /\ attempts \in [Addresses -> SUBSET Nat]
          /\ \A a \in Addresses : attempts[a] = {} /\ DOMAIN tried[a] = {}
      <3>1. <<>> \in Seq(Nat) /\ DOMAIN <<>> = {}
        OBVIOUS
      <3>2. PICK e : e = <<>>
        OBVIOUS
      <3>3. tried = [a \in Addresses |-> e] /\ attempts = [a \in Addresses |-> {}]
        BY <3>2 DEF Init
      <3>4. e \in Seq(Nat) /\ DOMAIN e = {}
        BY <3>1, <3>2
      <3>5. QED
        BY <3>3, <3>4
    <2>4. IsFiniteSet({}) /\ Cardinality({}) = 0
      BY FS_EmptySet
    <2>5. ASSUME NEW a \in Addresses
          PROVE  /\ IsFiniteSet(Tries(a)) /\ Cardinality(Tries(a)) <= MaxAttempts
                 /\ attempts[a] \subseteq DOMAIN tried[a]
                 /\ \A i \in DOMAIN tried[a] : tried[a][i] <= now
                 /\ \A i \in DOMAIN tried[a] \ attempts[a] : tried[a][i] + Window <= now
      <3>1. Tries(a) = {} /\ attempts[a] = {} /\ DOMAIN tried[a] = {}
        BY <2>1, <2>3
      <3>2. IsFiniteSet(Tries(a)) /\ Cardinality(Tries(a)) = 0
        BY <3>1, <2>4
      <3>3. Cardinality(Tries(a)) <= MaxAttempts
        BY <3>2, <2>2
      <3>4. QED
        BY <3>1, <3>2, <3>3
    <2>6. QED
      BY <2>2, <2>3, <2>5 DEF Metered
  <1>2. Metered /\ [Next]_vars => Metered'
    BY LimiterSteps, ForgettingMetered, LetThroughMetered
  <1>3. QED
    BY <1>1, <1>2, PTL DEF Spec

\* ratelimit.go:22: at any time an address has no more attempts in the window than the limit,
\* and one more is let through exactly if they are fewer, whenever the sweep runs.
THEOREM LimitKept == Spec => []LimitIsExact
  <1>1. Metered => LimitIsExact
    <2> SUFFICES ASSUME Metered, NEW a \in Addresses
                 PROVE  /\ Cardinality(Tries(a)) <= MaxAttempts
                        /\ Allowed(a) <=> Cardinality(Tries(a)) < MaxAttempts
      BY DEF LimitIsExact, Tries
    <2>1. QED
      BY RecentIsTries DEF Metered, Allowed
  <1>2. QED
    BY <1>1, AlwaysMetered, PTL

-----------------------------------------------------------------------------
(* Types. *)

\* What was issued is within the bounds, and what is listed was issued.
Within == /\ states.issued <= world.states /\ states.live \subseteq 1..states.issued
          /\ Len(sessions) <= world.sessions
          /\ index \subseteq DOMAIN sessions /\ unlisted \subseteq DOMAIN sessions
          /\ now \in 0..world.time /\ disturbed \in BOOLEAN

LEMMA NextWithin ==
    ASSUME Served, Within, [Next]_vars
    PROVE  Within'
  <1>1. /\ world \in Worlds /\ world.states \in Nat /\ world.sessions \in Nat /\ world.time \in Nat
        /\ states \in [issued : Nat, live : SUBSET Nat] /\ sessions \in Seq(Issued)
    BY LoginAssumption DEF Served
  <1>2. world' = world
    BY DEF Next, vars, StateExpires, SessionExpires, Tick, Cleanup, StartLogin, BasicLogin, Callback,
           ConsumeState, Exchange, ResolveForSession, StoreSession, IndexSession, Request,
           Authenticate, Logout, Unindex, ListUsers, ListOne, Listed, UpdateRole
  <1>3. disturbed' \in BOOLEAN
    BY DEF Within, Next, vars, history, StateExpires, SessionExpires, Tick, Cleanup, StartLogin, BasicLogin,
           Callback, ConsumeState, Exchange, ResolveForSession, StoreSession, IndexSession, Request,
           Authenticate, Logout, Unindex, ListUsers, ListOne, Listed, UpdateRole, Resolve
  <1>4. now' \in 0..world.time
    <2>1. CASE now' = now
      BY <2>1 DEF Within
    <2>2. CASE Tick
      BY <1>1, <2>2 DEF Tick, Within
    <2>3. QED
      BY <2>1, <2>2 DEF Next, vars, history, StateExpires, SessionExpires, Cleanup, StartLogin,
             BasicLogin, Callback, ConsumeState, Exchange, ResolveForSession, StoreSession,
             IndexSession, Request, Authenticate, Logout, Unindex, ListUsers, ListOne, Listed,
             UpdateRole
  <1>5. states'.issued <= world.states /\ states'.live \subseteq 1..states'.issued
    <2>1. CASE states' = states
      BY <2>1 DEF Within
    <2>2. CASE StartLogin
      <3>1. /\ states'.issued = states.issued + 1
            /\ states'.live = states.live \union {states.issued + 1}
        BY <2>2 DEF StartLogin
      <3>2. QED
        BY <1>1, <2>2, <3>1 DEF StartLogin, Within
    <2>3. ASSUME NEW s, states' = [states EXCEPT !.live = @ \ {s}]
          PROVE  states'.issued <= world.states /\ states'.live \subseteq 1..states'.issued
      BY <1>1, <2>3 DEF Within
    <2>4. QED
      BY <2>1, <2>2, <2>3
         DEF Next, vars, history, StateExpires, SessionExpires, Tick, Cleanup, BasicLogin,
             Callback, ConsumeState, Exchange, ResolveForSession, StoreSession, IndexSession, Request,
             Authenticate, Logout, Unindex, ListUsers, ListOne, Listed, UpdateRole
  <1>6. Len(sessions') <= world.sessions /\ DOMAIN sessions \subseteq DOMAIN sessions'
    <2>1. CASE sessions' = sessions
      BY <2>1 DEF Within
    <2>2. ASSUME NEW s, sessions' = [sessions EXCEPT ![s] = NoUser]
          PROVE  Len(sessions') <= world.sessions /\ DOMAIN sessions \subseteq DOMAIN sessions'
      BY <1>1, <2>2 DEF Within
    <2>3. ASSUME NEW u, sessions' = Append(sessions, u), Len(sessions) < world.sessions
          PROVE  Len(sessions') <= world.sessions /\ DOMAIN sessions \subseteq DOMAIN sessions'
      BY <1>1, <2>3
    <2>4. QED
      BY <2>1, <2>2, <2>3
         DEF Next, vars, history, StateExpires, SessionExpires, Tick, Cleanup, StartLogin, BasicLogin,
             Callback, ConsumeState, Exchange, ResolveForSession, StoreSession, IndexSession, Request,
             Authenticate, Logout, Unindex, ListUsers, ListOne, Listed, UpdateRole
  <1>7. index' \subseteq DOMAIN sessions /\ unlisted' \subseteq DOMAIN sessions
    <2>1. ASSUME NEW r \in Handlers, IndexSession(r)
          PROVE  index' \subseteq DOMAIN sessions /\ unlisted' \subseteq DOMAIN sessions
      <3>1. handler[r].of \in DOMAIN sessions
        BY <2>1 DEF IndexSession, Served, Carrying
      <3>2. QED
        BY <2>1, <3>1 DEF IndexSession, Within
    <2>2. CASE index' \subseteq index /\ unlisted' = unlisted
      BY <2>2 DEF Within
    <2>3. QED
      BY <2>1, <2>2
         DEF Next, vars, history, StateExpires, SessionExpires, Tick, Cleanup, StartLogin, BasicLogin,
             Callback, ConsumeState, Exchange, ResolveForSession, StoreSession, Request,
             Authenticate, Logout, Unindex, ListUsers, ListOne, Listed, UpdateRole
  <1>8. QED
    BY <1>2, <1>3, <1>4, <1>5, <1>6, <1>7 DEF Within

\* What was issued stays within the bounds of the world, and what is listed was issued.
THEOREM AlwaysWithin == Spec => []Within
  <1>1. Init => Within
    <2> SUFFICES ASSUME Init PROVE Within
      OBVIOUS
    <2>1. world.states \in Nat /\ world.sessions \in Nat /\ world.time \in Nat
      BY LoginAssumption DEF Init
    <2>2. states.issued = 0 /\ states.live = {} /\ index = {} /\ unlisted = {}
      BY DEF Init
    <2>5. sessions = <<>> /\ Len(<<>>) = 0
      BY DEF Init
    <2>3. now = 0 /\ disturbed = FALSE
      BY DEF Init
    <2>4. states.issued <= world.states /\ states.live \subseteq 1..states.issued
      BY <2>1, <2>2
    <2>6. Len(sessions) <= world.sessions
      BY <2>1, <2>5
    <2>7. index \subseteq DOMAIN sessions /\ unlisted \subseteq DOMAIN sessions
      BY <2>2
    <2>8. now \in 0..world.time
      BY <2>1, <2>3
    <2>9. disturbed \in BOOLEAN
      BY <2>3
    <2>10. QED
      BY <2>4, <2>6, <2>7, <2>8, <2>9 DEF Within
  <1>2. QED
    BY <1>1, NextWithin, AlwaysServed, PTL DEF Spec

\* session.go, rbac.go, ratelimit.go: what Redis, the handlers and the limiter hold is of its
\* type, and what the limiter holds of an address are attempts it let through.
THEOREM TypeCorrect == Spec => []TypeOK
  <1>1. Served /\ Within /\ Metered => TypeOK
    <2> SUFFICES ASSUME Served, Within, Metered PROVE TypeOK
      OBVIOUS
    <2>1. states.issued \in 0..world.states /\ states.live \subseteq 1..states.issued
      BY LoginAssumption DEF Served, Within
    <2>2. ASSUME NEW s \in DOMAIN sessions
          PROVE  sessions[s] = NoUser \/ (sessions[s] \in AllUsers /\ sessions[s].role # NoRole)
      <3>1. sessions[s] \in Issued
        BY DEF Served
      <3>2. QED
        BY <3>1 DEF Issued, RoleNames, NoRole
    <2>3. override \in [Ids -> RoleNames \union {NoRole}]
      BY DEF Served, Valid
    <2>4. ASSUME NEW a \in Addresses
          PROVE  tried[a] \in Seq(0..now) /\ attempts[a] \subseteq DOMAIN tried[a]
      <3>1. /\ tried[a] \in Seq(Nat) /\ now \in Nat
            /\ \A i \in DOMAIN tried[a] : tried[a][i] <= now
        BY DEF Metered
      <3>2. \A i \in 1..Len(tried[a]) : tried[a][i] \in 0..now
        BY <3>1
      <3>3. QED
        BY <3>1, <3>2 DEF Metered
    <2>5. ASSUME NEW r \in Handlers
          PROVE  LET k == handler[r] IN
                 /\ k.pc \in {"idle", "consume", "exchange", "resolve", "store", "index",
                              "role", "act", "unindex", "listing"}
                 /\ k.pc \in {"index", "role", "act", "unindex", "listing"} => k.of \in DOMAIN sessions
                 /\ k.pc = "act" /\ k.op # "logout" => k.user.role = "admin"
      BY DEF Served, Handled, Carrying
    <2>6. QED
      BY <2>1, <2>2, <2>3, <2>4, <2>5 DEF TypeOK, Within
  <1>2. QED
    BY <1>1, AlwaysServed, AlwaysWithin, AlwaysMetered, PTL

==============================================================================
