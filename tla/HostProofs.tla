--------------------------- MODULE HostProofs ---------------------------
(* Proofs about UserStore, for any numbers of requests, users, groups and   *)
(* clients and any config file, about MessageBus, for any publishers,       *)
(* subscriptions, topics, patterns and queue bounds, and about EventLog,    *)
(* for any sizes and numbers of files, passes and failures.  The last part  *)
(* is about the config file: what splice does to any file, and that the     *)
(* two writers of it never undo each other's changes.                       *)
EXTENDS MCHost, FiniteSetTheorems, SequenceTheorems, WellFoundedInduction, TLAPS

-----------------------------------------------------------------------------
(* The inductive invariant.                                                 *)

(* Sessions, entries and the users requests are about are records.          *)
StoreType ==
    /\ \A s \in sessions : s = [token |-> s.token, user |-> s.user, live |-> s.live]
    /\ \A i \in DOMAIN users : users[i] = [name |-> users[i].name, pw |-> users[i].pw]
    /\ pc = [a \in Actor |-> pc[a]]
    /\ arg = [w \in Worker |-> arg[w]]

(* A login that has verified the password holds the lock of the users, so   *)
(* its user is still there.                                                 *)
LoginHolds == \A w \in Worker : pc[w] = "insert" => Named(users, arg[w].name)

(* Only setup logs in by itself, as the user it created.                    *)
SetupIsAdmin == \A w \in Worker : arg[w].group = "login" => arg[w].name = "admin"

UInv == StoreType /\ LoginHolds /\ SetupIsAdmin /\ SessionsHaveUsers

-----------------------------------------------------------------------------
(* The list of users.                                                       *)

(* push keeps every entry.                                                  *)
LEMMA PushKeeps ==
    ASSUME NEW list, NEW e, NEW u, Named(list, u)
    PROVE  Named(Pushed(list, e), u)
BY DEF Named, Pushed

(* push adds nothing but its entry.                                         *)
LEMMA PushType ==
    ASSUME NEW list, NEW n, NEW p,
           \A i \in DOMAIN list : list[i] = [name |-> list[i].name, pw |-> list[i].pw]
    PROVE  LET l == Pushed(list, [name |-> n, pw |-> p])
           IN  \A i \in DOMAIN l : l[i] = [name |-> l[i].name, pw |-> l[i].pw]
BY DEF Pushed

(* retain drops the entries of one name only.                               *)
LEMMA WithoutKeeps ==
    ASSUME NEW list, NEW u, NEW v, Named(list, v), v # u
    PROVE  Named(Without(list, u), v)
BY DEF Named, Without, Restrict

(* What retain leaves was there.                                            *)
LEMMA WithoutType ==
    ASSUME NEW list, NEW u,
           \A i \in DOMAIN list : list[i] = [name |-> list[i].name, pw |-> list[i].pw]
    PROVE  LET l == Without(list, u)
           IN  \A i \in DOMAIN l : l[i] = [name |-> l[i].name, pw |-> l[i].pw]
BY DEF Without, Restrict

-----------------------------------------------------------------------------
(* The steps.                                                               *)

(* A request moves on; what it is about is its own.                         *)
Moves(a, next) ==
    /\ pc' = [pc EXCEPT ![a] = next]
    /\ arg' = [w \in Worker |-> arg'[w]]
    /\ \A w \in Worker : w # a => arg'[w] = arg[w]

(* Most steps take away no user, and leave no session that has no user.     *)
LEMMA Keeps ==
    ASSUME UInv, NEW a \in Actor, NEW next, Moves(a, next), pc[a] # "purge",
           \A i \in DOMAIN users' : users'[i] = [name |-> users'[i].name, pw |-> users'[i].pw],
           \A u : Named(users, u) => Named(users', u),
           a \in Worker => /\ next = "insert" => Named(users', arg'[a].name)
                           /\ arg'[a].group = "login" => arg'[a].name = "admin",
           a \notin Worker => next # "insert",
           \A s \in sessions' : /\ s = [token |-> s.token, user |-> s.user, live |-> s.live]
                                /\ Named(users', s.user) \/ \E r \in sessions : r.user = s.user
    PROVE  UInv'
<1>1. pc = [b \in Actor |-> pc[b]] /\ arg = [w \in Worker |-> arg[w]]
  BY DEF UInv, StoreType
<1>2. pc'[a] = next /\ (\A b \in Actor : b # a => pc'[b] = pc[b]) /\ pc' = [b \in Actor |-> pc'[b]]
  BY <1>1 DEF Moves
<1>3. \A w \in Worker : w \in Actor
  BY DEF Actor
<1>4. StoreType'
  BY <1>2 DEF StoreType, Moves
<1>5. LoginHolds'
  <2> SUFFICES ASSUME NEW w \in Worker, pc'[w] = "insert" PROVE Named(users', arg'[w].name)
    BY DEF LoginHolds
  <2>1. CASE w = a
    BY <1>2, <2>1
  <2>2. CASE w # a
    BY <1>2, <1>3, <2>2 DEF Moves, UInv, LoginHolds
  <2> QED
    BY <2>1, <2>2
<1>6. SetupIsAdmin'
  <2> SUFFICES ASSUME NEW w \in Worker, arg'[w].group = "login" PROVE arg'[w].name = "admin"
    BY DEF SetupIsAdmin
  <2> QED
    BY DEF Moves, UInv, SetupIsAdmin
<1>7. SessionsHaveUsers'
  <2> SUFFICES ASSUME NEW s \in sessions'
               PROVE  Named(users', s.user) \/ \E w \in Worker : pc'[w] = "purge" /\ arg'[w].name = s.user
    BY DEF SessionsHaveUsers
  <2>1. CASE Named(users', s.user)
    BY <2>1
  <2>2. ASSUME NEW r \in sessions, r.user = s.user
        PROVE  Named(users', s.user) \/ \E w \in Worker : pc'[w] = "purge" /\ arg'[w].name = s.user
    <3>1. CASE Named(users, s.user)
      BY <3>1
    <3>2. ASSUME NEW w \in Worker, pc[w] = "purge", arg[w].name = s.user
          PROVE  pc'[w] = "purge" /\ arg'[w].name = s.user
      BY <1>2, <1>3, <3>2 DEF Moves
    <3> QED
      BY <2>2, <3>1, <3>2 DEF UInv, SessionsHaveUsers
  <2> QED
    BY <2>1, <2>2
<1> QED
  BY <1>4, <1>5, <1>6, <1>7 DEF UInv

(* The sessions as they are meet what Keeps asks of them.                   *)
LEMMA SameSessions ==
    ASSUME UInv, NEW s \in sessions
    PROVE  /\ s = [token |-> s.token, user |-> s.user, live |-> s.live]
           /\ \E r \in sessions : r.user = s.user
BY DEF UInv, StoreType

(* remove_user drops the entries, and goes on to drop the sessions.         *)
LEMMA RemoveUserStep ==
    ASSUME UInv, NEW w \in Worker, NEW u, remove_user(w, u)
    PROVE  UInv'
<1>1. pc = [b \in Actor |-> pc[b]] /\ arg = [v \in Worker |-> arg[v]] /\ w \in Actor
  BY DEF UInv, StoreType, Actor
<1>2. /\ users' = Without(users, u) /\ sessions' = sessions /\ pc[w] = "admitted"
      /\ pc' = [pc EXCEPT ![w] = IF Named(users, u) THEN "purge" ELSE "idle"]
      /\ arg' = [arg EXCEPT ![w] = IF Named(users, u) THEN About(u, "none") ELSE None]
      /\ \A v \in Worker : pc[v] # "insert"
  BY DEF remove_user, Change, UsersFree, Go
<1>3. /\ pc'[w] = IF Named(users, u) THEN "purge" ELSE "idle"
      /\ arg'[w] = IF Named(users, u) THEN About(u, "none") ELSE None
      /\ \A v \in Worker : v # w => pc'[v] = pc[v] /\ arg'[v] = arg[v]
  BY <1>1, <1>2 DEF Actor
<1>4. StoreType'
  <2>1. \A i \in DOMAIN users' : users'[i] = [name |-> users'[i].name, pw |-> users'[i].pw]
    BY <1>2, WithoutType DEF UInv, StoreType
  <2>2. pc' = [b \in Actor |-> pc'[b]] /\ arg' = [v \in Worker |-> arg'[v]]
    BY <1>1, <1>2
  <2>3. \A s \in sessions' : s = [token |-> s.token, user |-> s.user, live |-> s.live]
    BY <1>2 DEF UInv, StoreType
  <2> QED
    BY <2>1, <2>2, <2>3 DEF StoreType
<1>5. LoginHolds'
  BY <1>2, <1>3 DEF LoginHolds
<1>6. SetupIsAdmin'
  <2> SUFFICES ASSUME NEW v \in Worker, arg'[v].group = "login" PROVE arg'[v].name = "admin"
    BY DEF SetupIsAdmin
  <2>1. CASE v = w
    BY <1>3, <2>1 DEF About, None
  <2>2. CASE v # w
    BY <1>3, <2>2 DEF UInv, SetupIsAdmin
  <2> QED
    BY <2>1, <2>2
<1>7. SessionsHaveUsers'
  <2> SUFFICES ASSUME NEW s \in sessions
               PROVE  Named(users', s.user) \/ \E v \in Worker : pc'[v] = "purge" /\ arg'[v].name = s.user
    BY <1>2 DEF SessionsHaveUsers
  <2>1. CASE Named(users, s.user) /\ s.user # u
    BY <1>2, <2>1, WithoutKeeps
  <2>2. CASE Named(users, s.user) /\ s.user = u
    BY <1>3, <2>2 DEF About
  <2>3. ASSUME NEW v \in Worker, pc[v] = "purge", arg[v].name = s.user
        PROVE  pc'[v] = "purge" /\ arg'[v].name = s.user
    BY <1>2, <1>3, <2>3
  <2> QED
    BY <2>1, <2>2, <2>3 DEF UInv, SessionsHaveUsers
<1> QED
  BY <1>4, <1>5, <1>6, <1>7 DEF UInv

(* The sessions of the removed user are dropped.                            *)
LEMMA PurgeStep ==
    ASSUME UInv, NEW w \in Worker, PurgeSessions(w)
    PROVE  UInv'
<1>1. pc = [b \in Actor |-> pc[b]] /\ w \in Actor
  BY DEF UInv, StoreType, Actor
<1>2. /\ sessions' = {s \in sessions : s.user # arg[w].name} /\ pc' = [pc EXCEPT ![w] = "ungroup"]
      /\ users' = users /\ arg' = arg
  BY DEF PurgeSessions, Go, store
<1>3. pc'[w] = "ungroup" /\ \A v \in Worker : v # w => pc'[v] = pc[v]
  BY <1>1, <1>2 DEF Actor
<1>4. StoreType'
  BY <1>1, <1>2 DEF UInv, StoreType
<1>5. LoginHolds' /\ SetupIsAdmin'
  BY <1>2, <1>3 DEF UInv, LoginHolds, SetupIsAdmin
<1>6. SessionsHaveUsers'
  <2> SUFFICES ASSUME NEW s \in sessions, s.user # arg[w].name
               PROVE  Named(users', s.user) \/ \E v \in Worker : pc'[v] = "purge" /\ arg'[v].name = s.user
    BY <1>2 DEF SessionsHaveUsers
  <2>1. CASE Named(users, s.user)
    BY <1>2, <2>1
  <2>2. ASSUME NEW v \in Worker, pc[v] = "purge", arg[v].name = s.user
        PROVE  pc'[v] = "purge" /\ arg'[v].name = s.user
    BY <1>2, <1>3, <2>2
  <2> QED
    BY <2>1, <2>2 DEF UInv, SessionsHaveUsers
<1> QED
  BY <1>4, <1>5, <1>6 DEF UInv

(* A request that only moves on, or nothing but time passes.                *)
LEMMA GoesOn ==
    ASSUME UInv, NEW a \in Actor, NEW next, pc' = [pc EXCEPT ![a] = next], arg' = arg,
           users' = users, sessions' = sessions, pc[a] # "purge", next # "insert"
    PROVE  UInv'
<1>1. Moves(a, next)
  BY DEF Moves, UInv, StoreType
<1>2. a \in Worker => (arg'[a].group = "login" => arg'[a].name = "admin")
  BY DEF UInv, SetupIsAdmin
<1>3. \A s \in sessions' : /\ s = [token |-> s.token, user |-> s.user, live |-> s.live]
                           /\ Named(users', s.user) \/ \E r \in sessions : r.user = s.user
  BY SameSessions
<1>4. \A i \in DOMAIN users' : users'[i] = [name |-> users'[i].name, pw |-> users'[i].pw]
  BY DEF UInv, StoreType
<1> QED
  BY <1>1, <1>2, <1>3, <1>4, Keeps

(* A request that moves on to something else, with no change of the users   *)
(* or the sessions.                                                         *)
LEMMA TurnsTo ==
    ASSUME UInv, NEW w \in Worker, NEW next, pc' = [pc EXCEPT ![w] = next], pc[w] # "purge",
           NEW x, arg' = [arg EXCEPT ![w] = x], users' = users, sessions' = sessions,
           next = "insert" => Named(users, x.name), x.group = "login" => x.name = "admin"
    PROVE  UInv'
<1>1. Moves(w, next) /\ arg'[w] = x /\ w \in Actor
  BY DEF Moves, UInv, StoreType, Actor
<1>2. \A s \in sessions' : /\ s = [token |-> s.token, user |-> s.user, live |-> s.live]
                           /\ Named(users', s.user) \/ \E r \in sessions : r.user = s.user
  BY SameSessions
<1>3. \A i \in DOMAIN users' : users'[i] = [name |-> users'[i].name, pw |-> users'[i].pw]
  BY DEF UInv, StoreType
<1> QED
  BY <1>1, <1>2, <1>3, Keeps

(* A push or a change of the list by a request that then saves it.          *)
LEMMA UsersGrow ==
    ASSUME UInv, NEW w \in Worker, NEW next, pc' = [pc EXCEPT ![w] = next], pc[w] # "purge",
           NEW x, arg' = arg \/ arg' = [arg EXCEPT ![w] = x], next # "insert",
           x.group = "login" => x.name = "admin", sessions' = sessions,
           \A i \in DOMAIN users' : users'[i] = [name |-> users'[i].name, pw |-> users'[i].pw],
           \A u : Named(users, u) => Named(users', u)
    PROVE  UInv'
<1>1. Moves(w, next) /\ w \in Actor
  BY DEF Moves, UInv, StoreType, Actor
<1>2. arg'[w].group = "login" => arg'[w].name = "admin"
  BY DEF UInv, SetupIsAdmin, StoreType
<1>3. \A s \in sessions' : /\ s = [token |-> s.token, user |-> s.user, live |-> s.live]
                           /\ Named(users', s.user) \/ \E r \in sessions : r.user = s.user
  BY SameSessions
<1> QED
  BY <1>1, <1>2, <1>3, Keeps

(* The steps that change sessions alone.                                    *)
LEMMA SessionSteps ==
    ASSUME UInv,
           \/ \E w \in Worker : LoginInsert(w) \/ logout(w) \/ Authorize(w)
           \/ SessionExpires
    PROVE  UInv'
<1>1. \A i \in DOMAIN users : users[i] = [name |-> users[i].name, pw |-> users[i].pw]
  BY DEF UInv, StoreType
<1>2. ASSUME NEW w \in Worker, LoginInsert(w) PROVE UInv'
  <2>1. /\ pc[w] = "insert" /\ pc' = [pc EXCEPT ![w] = "idle"] /\ arg' = [arg EXCEPT ![w] = None]
        /\ users' = users
        /\ sessions' = sessions \cup {[token |-> <<w, logins>>, user |-> arg[w].name, live |-> TRUE]}
    BY <1>2 DEF LoginInsert, Go, store
  <2>2. Moves(w, "idle") /\ w \in Actor /\ arg'[w] = None /\ None.group # "login"
    BY <2>1 DEF Moves, UInv, StoreType, Actor, None, About
  <2>3. Named(users, arg[w].name)
    BY <2>1 DEF UInv, LoginHolds
  <2>4. ASSUME NEW s \in sessions'
        PROVE  /\ s = [token |-> s.token, user |-> s.user, live |-> s.live]
               /\ Named(users', s.user) \/ \E r \in sessions : r.user = s.user
    BY <2>1, <2>3, SameSessions
  <2> QED
    BY <1>1, <2>1, <2>2, <2>4, Keeps
<1>3. ASSUME NEW w \in Worker, logout(w) PROVE UInv'
  <2>1. pc[w] = "idle" /\ pc' = pc /\ arg' = arg /\ users' = users /\ \A s \in sessions' : s \in sessions
    BY <1>3 DEF logout, store
  <2>2. Moves(w, "idle") /\ w \in Actor
    BY <2>1 DEF Moves, UInv, StoreType, Actor
  <2>3. \A s \in sessions' : /\ s = [token |-> s.token, user |-> s.user, live |-> s.live]
                             /\ Named(users', s.user) \/ \E r \in sessions : r.user = s.user
    BY <2>1, SameSessions
  <2>4. arg'[w].group = "login" => arg'[w].name = "admin"
    BY <2>1 DEF UInv, SetupIsAdmin
  <2> QED
    BY <1>1, <2>1, <2>2, <2>3, <2>4, Keeps
<1>4. ASSUME NEW w \in Worker, Authorize(w) PROVE UInv'
  <2> DEFINE next == IF arg[w].name \in groups["admin"] THEN "admitted" ELSE "idle"
  <2>1. /\ pc[w] = "authorize" /\ pc' = [pc EXCEPT ![w] = next] /\ arg' = [arg EXCEPT ![w] = None]
        /\ users' = users
        /\ sessions' = {[s EXCEPT !.live = @ \/ s.token = arg[w].token] : s \in sessions}
    BY <1>4 DEF Authorize, Go, store
  <2>2. Moves(w, next) /\ w \in Actor /\ arg'[w] = None /\ None.group # "login" /\ next # "insert"
    BY <2>1 DEF Moves, UInv, StoreType, Actor, None, About
  <2>3. ASSUME NEW s \in sessions'
        PROVE  /\ s = [token |-> s.token, user |-> s.user, live |-> s.live]
               /\ \E r \in sessions : r.user = s.user
    <3>1. PICK r \in sessions : s = [r EXCEPT !.live = @ \/ r.token = arg[w].token]
      BY <2>1
    <3>2. r = [token |-> r.token, user |-> r.user, live |-> r.live]
      BY SameSessions
    <3> QED
      BY <3>1, <3>2
  <2> QED
    BY <1>1, <2>1, <2>2, <2>3, Keeps
<1>5. ASSUME SessionExpires PROVE UInv'
  <2>1. PICK t \in sessions : sessions' = (sessions \ {t}) \cup {[t EXCEPT !.live = FALSE]}
    BY <1>5 DEF SessionExpires
  <2>2. pc' = pc /\ arg' = arg /\ users' = users
    BY <1>5 DEF SessionExpires, store
  <2>3. ASSUME NEW s \in sessions'
        PROVE  /\ s = [token |-> s.token, user |-> s.user, live |-> s.live]
               /\ \E r \in sessions : r.user = s.user
    <3>1. t = [token |-> t.token, user |-> t.user, live |-> t.live]
      BY SameSessions
    <3> QED
      BY <2>1, <3>1, SameSessions
  <2>4. StoreType'
    BY <2>2, <2>3 DEF UInv, StoreType
  <2>5. LoginHolds' /\ SetupIsAdmin'
    BY <2>2 DEF UInv, LoginHolds, SetupIsAdmin
  <2>6. SessionsHaveUsers'
    BY <2>2, <2>3 DEF UInv, SessionsHaveUsers
  <2> QED
    BY <2>4, <2>5, <2>6 DEF UInv
<1> QED
  BY <1>2, <1>3, <1>4, <1>5

(* The steps that change the list of users, but for remove_user.            *)
LEMMA UserSteps ==
    ASSUME UInv, NEW w \in Worker,
           SetupPush(w) \/ \E u : add_user(w, u) \/ update_user(w, u)
    PROVE  UInv'
<1>1. \A i \in DOMAIN users : users[i] = [name |-> users[i].name, pw |-> users[i].pw]
  BY DEF UInv, StoreType
<1>2. None.group # "login"
  BY DEF None, About
<1>3. CASE SetupPush(w)
  <2>1. /\ pc[w] = "setup" /\ pc' = [pc EXCEPT ![w] = "lock"] /\ arg' = arg /\ sessions' = sessions
        /\ users' = Pushed(users, [name |-> "admin", pw |-> 0])
    BY <1>3 DEF SetupPush, Go
  <2>2. \A i \in DOMAIN users' : users'[i] = [name |-> users'[i].name, pw |-> users'[i].pw]
    BY <1>1, <2>1, PushType
  <2>3. \A u : Named(users, u) => Named(users', u)
    BY <2>1, PushKeeps
  <2> DEFINE x == arg[w]
  <2>4. x.group = "login" => x.name = "admin"
    BY DEF UInv, SetupIsAdmin
  <2> DEFINE next == "lock"
  <2>5. next # "insert" /\ pc' = [pc EXCEPT ![w] = next] /\ pc[w] # "purge"
    BY <2>1
  <2>6. sessions' = sessions /\ arg' = [arg EXCEPT ![w] = x]
    BY <2>1 DEF UInv, StoreType
  <2> HIDE DEF x, next
  <2> QED
    BY <2>2, <2>3, <2>4, <2>5, <2>6, UsersGrow
<1>4. ASSUME NEW u, add_user(w, u) PROVE UInv'
  <2> DEFINE ok == ~Named(users, u)
             x == IF ok THEN About(u, "user") ELSE None
  <2>1. /\ pc[w] = "admitted" /\ pc' = [pc EXCEPT ![w] = IF ok THEN "lock" ELSE "idle"]
        /\ arg' = [arg EXCEPT ![w] = x] /\ sessions' = sessions
        /\ users' = IF Named(users, u) THEN users ELSE Pushed(users, [name |-> u, pw |-> 0])
    BY <1>4 DEF add_user, Change, Go
  <2>2. \A i \in DOMAIN users' : users'[i] = [name |-> users'[i].name, pw |-> users'[i].pw]
    BY <1>1, <2>1, PushType
  <2>3. \A v : Named(users, v) => Named(users', v)
    BY <2>1, PushKeeps
  <2>4. x.group # "login"
    BY DEF None, About
  <2> HIDE DEF ok, x
  <2>5. pc' = [pc EXCEPT ![w] = "lock"] \/ pc' = [pc EXCEPT ![w] = "idle"]
    BY <2>1
  <2> QED
    BY <2>1, <2>2, <2>3, <2>4, <2>5, UsersGrow
<1>5. ASSUME NEW u, update_user(w, u) PROVE UInv'
  <2> DEFINE mine == {i \in DOMAIN users : users[i].name = u}
  <2>1. /\ pc[w] = "admitted" /\ pc' = [pc EXCEPT ![w] = IF Named(users, u) THEN "lock" ELSE "idle"]
        /\ arg' = [arg EXCEPT ![w] = None] /\ sessions' = sessions
        /\ users' = [i \in DOMAIN users |-> IF i \in mine /\ \A j \in mine : i <= j
                                            THEN [users[i] EXCEPT !.pw = @ + 1] ELSE users[i]]
    BY <1>5 DEF update_user, Change, Go
  <2>2. \A i \in DOMAIN users' : i \in DOMAIN users /\ users'[i].name = users[i].name
                                 /\ users'[i] = [name |-> users'[i].name, pw |-> users'[i].pw]
    <3> HIDE DEF mine
    <3> SUFFICES ASSUME NEW i \in DOMAIN users
                 PROVE  users'[i].name = users[i].name /\ users'[i] = [name |-> users'[i].name, pw |-> users'[i].pw]
      BY <2>1
    <3>1. users'[i] = users[i] \/ users'[i] = [users[i] EXCEPT !.pw = @ + 1]
      BY <2>1
    <3> QED
      BY <1>1, <3>1
  <2>3. DOMAIN users' = DOMAIN users
    BY <2>1
  <2>4. \A v : Named(users, v) => Named(users', v)
    BY <2>2, <2>3 DEF Named
  <2>5. pc' = [pc EXCEPT ![w] = "lock"] \/ pc' = [pc EXCEPT ![w] = "idle"]
    BY <2>1
  <2> QED
    BY <1>2, <2>1, <2>2, <2>4, <2>5, UsersGrow
<1> QED
  BY <1>3, <1>4, <1>5

(* What a request does after persist: it logs in only as a user who is      *)
(* there.                                                                   *)
LEMMA AfterMeans ==
    ASSUME UInv, NEW w \in Worker, After(w) = "insert"
    PROVE  Named(users, arg[w].name)
<1>1. arg[w].group = "login" /\ Named(users, "admin")
  BY DEF After
<1> QED
  BY <1>1 DEF UInv, SetupIsAdmin

(* persist and what follows it.                                             *)
LEMMA PersistSteps ==
    ASSUME UInv, NEW w \in Worker, Persist(w)
    PROVE  UInv'
<1>1. users' = users /\ sessions' = sessions /\ w \in Actor
  BY DEF Persist, LockFile, ReadUsers, ReadGroups, ReadBase, WriteFile, PersistFails, SameStore, store, Actor
<1>2. CASE ReadUsers(w) \/ ReadGroups(w) \/ ReadBase(w)
  <2>1. arg' = arg /\ pc[w] # "purge"
        /\ (pc' = [pc EXCEPT ![w] = "groups"] \/ pc' = [pc EXCEPT ![w] = "base"] \/ pc' = [pc EXCEPT ![w] = "write"])
    BY <1>2 DEF ReadUsers, ReadGroups, ReadBase, Go
  <2> QED
    BY <1>1, <2>1, GoesOn
<1>3. CASE LockFile(w) /\ mode # "invalid"
  <2>1. arg' = arg /\ pc[w] # "purge" /\ pc' = [pc EXCEPT ![w] = "users"]
    BY <1>3 DEF LockFile, Go
  <2> QED
    BY <1>1, <2>1, GoesOn
<1>4. ASSUME pc' = [pc EXCEPT ![w] = After(w)], pc[w] # "purge",
             arg' = arg \/ (After(w) = "idle" /\ arg' = [arg EXCEPT ![w] = None])
      PROVE  UInv'
  <2>1. CASE arg' = arg
    <3>1. Moves(w, After(w))
      BY <1>4, <2>1 DEF Moves, UInv, StoreType
    <3>2. /\ After(w) = "insert" => Named(users', arg'[w].name)
          /\ arg'[w].group = "login" => arg'[w].name = "admin"
      BY <1>1, <2>1, AfterMeans DEF UInv, SetupIsAdmin
    <3>3. \A s \in sessions' : /\ s = [token |-> s.token, user |-> s.user, live |-> s.live]
                               /\ Named(users', s.user) \/ \E r \in sessions : r.user = s.user
      BY <1>1, SameSessions
    <3>4. \A i \in DOMAIN users' : users'[i] = [name |-> users'[i].name, pw |-> users'[i].pw]
      BY <1>1 DEF UInv, StoreType
    <3>5. \A u : Named(users, u) => Named(users', u)
      BY <1>1
    <3> QED
      BY <1>1, <1>4, <3>1, <3>2, <3>3, <3>4, <3>5, Keeps
  <2>2. CASE After(w) = "idle" /\ arg' = [arg EXCEPT ![w] = None]
    <3>1. None.group # "login"
      BY DEF None, About
    <3> QED
      BY <1>1, <1>4, <2>2, <3>1, TurnsTo
  <2> QED
    BY <1>4, <2>1, <2>2
<1>5. CASE LockFile(w) /\ mode = "invalid"
  BY <1>4, <1>5 DEF LockFile, Go
<1>6. CASE WriteFile(w) \/ PersistFails(w)
  BY <1>4, <1>6 DEF WriteFile, PersistFails, Rest, Go
<1> QED
  BY <1>2, <1>3, <1>5, <1>6 DEF Persist

(* The other steps of a request.                                            *)
LEMMA RequestSteps ==
    ASSUME UInv, NEW w \in Worker, Request(w)
    PROVE  UInv'
<1>1. None.group # "login" /\ \A u : About(u, "none").group # "login" /\ About(u, "none").name = u
  BY DEF None, About
<1>2. CASE LoginInsert(w) \/ logout(w) \/ Authorize(w)
  BY <1>2, SessionSteps
<1>3. CASE SetupPush(w) \/ \E u : add_user(w, u) \/ update_user(w, u)
  BY <1>3, UserSteps
<1>4. ASSUME NEW u, remove_user(w, u) PROVE UInv'
  BY <1>4, RemoveUserStep
<1>5. CASE PurgeSessions(w)
  BY <1>5, PurgeStep
<1>6. CASE SetupCheck(w)
  <2> DEFINE x == About("admin", "login")
  <2>1. x.name = "admin"
    BY DEF About
  <2>2. /\ pc' = [pc EXCEPT ![w] = "setup"] /\ pc[w] # "purge" /\ users' = users /\ sessions' = sessions
        /\ arg' = [arg EXCEPT ![w] = x]
    BY <1>6 DEF SetupCheck, Go, store
  <2> DEFINE next == "setup"
  <2>3. next # "insert" /\ pc' = [pc EXCEPT ![w] = next]
    BY <2>2
  <2> HIDE DEF x, next
  <2> QED
    BY <2>1, <2>2, <2>3, TurnsTo
<1>7. CASE LoginVerify(w)
  <2>1. PICK u \in User \cup {"admin"} : Named(users, u) /\ arg' = [arg EXCEPT ![w] = About(u, "none")]
    BY <1>7 DEF LoginVerify
  <2>2. pc' = [pc EXCEPT ![w] = "insert"] /\ pc[w] # "purge" /\ users' = users /\ sessions' = sessions
    BY <1>7 DEF LoginVerify, Go, store
  <2> DEFINE x == About(u, "none")
  <2>3. x.name = u /\ x.group # "login" /\ arg' = [arg EXCEPT ![w] = x]
    BY <1>1, <2>1
  <2> HIDE DEF x
  <2> QED
    BY <2>1, <2>2, <2>3, TurnsTo
<1>8. CASE Validate(w)
  <2>1. PICK s \in sessions : arg' = [arg EXCEPT ![w] = [About(s.user, "none") EXCEPT !.token = s.token]]
    BY <1>8 DEF Validate
  <2>2. pc' = [pc EXCEPT ![w] = "authorize"] /\ pc[w] # "purge" /\ users' = users /\ sessions' = sessions
    BY <1>8 DEF Validate, Go, store
  <2> DEFINE x == [About(s.user, "none") EXCEPT !.token = s.token]
  <2>3. x.group # "login" /\ arg' = [arg EXCEPT ![w] = x]
    BY <2>1 DEF About
  <2> DEFINE next == "authorize"
  <2>4. next # "insert" /\ pc' = [pc EXCEPT ![w] = next]
    BY <2>2
  <2> HIDE DEF x, next
  <2> QED
    BY <2>2, <2>3, <2>4, TurnsTo
<1>9. CASE AdmitKey(w) \/ PurgeMember(w)
  <2>1. /\ arg' = arg /\ pc[w] # "purge" /\ users' = users /\ sessions' = sessions /\ w \in Actor
        /\ pc' = [pc EXCEPT ![w] = "admitted"] \/ pc' = [pc EXCEPT ![w] = "lock"]
    BY <1>9 DEF AdmitKey, PurgeMember, Go, store, Actor
  <2> QED
    BY <2>1, GoesOn
<1>10. CASE Join(w)
  <2>1. /\ arg' = [arg EXCEPT ![w] = None] /\ pc[w] # "purge" /\ users' = users /\ sessions' = sessions
        /\ pc' = [pc EXCEPT ![w] = "lock"]
    BY <1>10 DEF Join, Go
  <2> QED
    BY <1>1, <2>1, TurnsTo
<1>11. ASSUME NEW ok, Change(w, ok, "lock", None), users' = users PROVE UInv'
  <2>1. /\ arg' = [arg EXCEPT ![w] = None] /\ pc[w] # "purge" /\ sessions' = sessions
        /\ pc' = [pc EXCEPT ![w] = "lock"] \/ pc' = [pc EXCEPT ![w] = "idle"]
    BY <1>11 DEF Change, Go
  <2> QED
    BY <1>1, <1>11, <2>1, TurnsTo
<1>12. ASSUME NEW g, NEW u,
              add_group(w, g) \/ remove_group(w, g) \/ add_member_to_group(w, g, u) \/ remove_member_from_group(w, g, u)
       PROVE  UInv'
  <2>1. CASE add_group(w, g)
    BY <1>11, <2>1 DEF add_group
  <2>2. CASE remove_group(w, g)
    BY <1>11, <2>2 DEF remove_group
  <2>3. CASE add_member_to_group(w, g, u)
    BY <1>11, <2>3 DEF add_member_to_group
  <2>4. CASE remove_member_from_group(w, g, u)
    BY <1>11, <2>4 DEF remove_member_from_group
  <2> QED
    BY <1>12, <2>1, <2>2, <2>3, <2>4
<1>13. CASE create_api_key(w, "key")
  BY <1>11, <1>13 DEF create_api_key
<1>14. CASE revoke_api_key(w, "key")
  BY <1>11, <1>14 DEF revoke_api_key
<1> QED
  BY <1>2, <1>3, <1>4, <1>5, <1>6, <1>7, <1>8, <1>9, <1>10, <1>12, <1>13, <1>14 DEF Request

(* The saves of the known clients leave the accounts alone.                 *)
LEMMA SyncSteps ==
    ASSUME UInv, ChangeClients \/ SaveRead \/ SaveWrite
    PROVE  UInv'
<1>1. /\ arg' = arg /\ pc["sync"] # "purge" /\ users' = users /\ sessions' = sessions /\ "sync" \in Actor
      /\ \/ pc' = [pc EXCEPT !["sync"] = "lock"] \/ pc' = [pc EXCEPT !["sync"] = "write"]
         \/ pc' = [pc EXCEPT !["sync"] = "idle"]
  BY DEF ChangeClients, SaveRead, SaveWrite, SameWorkers, Go, store, Actor
<1> QED
  BY <1>1, GoesOn

(* Every step keeps the invariant.                                          *)
LEMMA UInvStep == UInv /\ [Next]_vars => UInv'
<1> SUFFICES ASSUME UInv, [Next]_vars PROVE UInv'
  OBVIOUS
<1>1. CASE UNCHANGED vars \/ KeyExpires
  <2>1. UNCHANGED <<users, sessions, pc, arg>>
    BY <1>1 DEF vars, KeyExpires
  <2> QED
    BY <2>1 DEF UInv, StoreType, LoginHolds, SetupIsAdmin, SessionsHaveUsers
<1>2. CASE \E w \in Worker : Request(w) \/ Persist(w)
  BY <1>2, RequestSteps, PersistSteps
<1>3. CASE SessionExpires
  BY <1>3, SessionSteps
<1>4. CASE ChangeClients \/ SaveRead \/ SaveWrite
  BY <1>4, SyncSteps
<1> QED
  BY <1>1, <1>2, <1>3, <1>4 DEF Next

(* At the start nobody is logged in.                                        *)
LEMMA InitUInv == Init => UInv
<1> SUFFICES ASSUME Init PROVE UInv
  OBVIOUS
<1>1. sessions = {} /\ pc = [a \in Actor |-> "idle"] /\ arg = [w \in Worker |-> None]
  BY DEF Init
<1>2. users = <<>> \/ users = <<[name |-> "admin", pw |-> 0]>>
  BY DEF Init, Load, Empty
<1>3. StoreType
  BY <1>1, <1>2 DEF StoreType
<1>4. LoginHolds /\ SetupIsAdmin /\ SessionsHaveUsers
  BY <1>1 DEF LoginHolds, SetupIsAdmin, SessionsHaveUsers, Actor, None, About
<1> QED
  BY <1>3, <1>4 DEF UInv

(* Nobody stays logged in as a user who was removed: a session whose user   *)
(* is gone is one that remove_user is about to drop, whatever logins,       *)
(* refreshes and other changes run beside it.                               *)
THEOREM RemovedMeansLoggedOut == Spec => []SessionsHaveUsers
<1>1. Init => UInv
  BY InitUInv
<1>2. UInv /\ [Next]_vars => UInv'
  BY UInvStep
<1>3. UInv => SessionsHaveUsers
  BY DEF UInv
<1> QED
  BY <1>1, <1>2, <1>3, PTL DEF Spec

-----------------------------------------------------------------------------
(* The message bus: its inductive invariant.                                *)

Item == [id : Nat, from : Publisher]
Offer == [id : Nat, topic : Topic \cup {<<>>}, stage : {"none", "id", "loop"}, todo : SUBSET Subscription]

BusType ==
    /\ next_id \in Nat /\ subs \subseteq Subscription /\ alive \subseteq subs
    /\ queue \in [Subscription -> Seq(Item)]
    /\ dropped \in [Subscription -> Nat] /\ offered \in [Subscription -> Nat]
    /\ got \in [Subscription -> Nat] /\ latest \in [Subscription -> [Publisher -> Nat]]
    /\ offer \in [Publisher -> Offer]

(* A publisher goes through the entries it found, and nobody is told        *)
(* anything who has not subscribed.                                         *)
OffersKnown == \A p \in Publisher : offer[p].todo \subseteq subs
NewIsEmpty ==
    \A s \in Subscription \ subs :
        queue[s] = <<>> /\ dropped[s] = 0 /\ offered[s] = 0 /\ got[s] = 0

Counted(s) == offered[s] = got[s] + Len(queue[s]) + dropped[s]

(* The messages of one publisher in q are newer than the last one received, *)
(* seen, and follow each other.                                             *)
InTurn(q, seen) ==
    \A i \in 1..Len(q) :
      /\ q[i].id > seen[q[i].from]
      /\ \A j \in 1..i - 1 : q[j].from = q[i].from => q[j].id < q[i].id

(* Whatever s has of publisher p is older than b.                           *)
Below(s, p, b) ==
    latest[s][p] < b /\ \A i \in 1..Len(queue[s]) : queue[s][i].from = p => queue[s][i].id < b

(* p is about to offer its message to s.                                    *)
Offers(p, s) == offer[p].stage = "id" \/ (offer[p].stage = "loop" /\ s \in offer[p].todo)

(* Ids rise, and what a publisher is going to offer is newer than what it   *)
(* has offered.                                                             *)
IdsRise ==
    /\ \A p \in Publisher : offer[p].stage # "none" => offer[p].id < next_id
    /\ \A s \in Subscription, p \in Publisher :
          Below(s, p, next_id) /\ (Offers(p, s) => Below(s, p, offer[p].id))

BInv ==
    /\ BusType /\ OffersKnown /\ NewIsEmpty /\ IdsRise
    /\ \A s \in alive : Counted(s)
    /\ \A s \in Subscription : InTurn(queue[s], latest[s])

(* The messages in a queue.                                                 *)
LEMMA ItemAt ==
    ASSUME NEW q \in Seq(Item), NEW i \in 1..Len(q)
    PROVE  q[i] \in Item /\ q[i].id \in Nat /\ q[i].from \in Publisher
<1>1. q[i] \in Item
  OBVIOUS
<1> QED BY <1>1 DEF Item

(* A message behind the others.                                             *)
LEMMA AppendAt ==
    ASSUME NEW q \in Seq(Item), NEW m \in Item
    PROVE  /\ Append(q, m) \in Seq(Item) /\ Len(q) \in Nat /\ Len(Append(q, m)) = Len(q) + 1
           /\ \A i \in 1..Len(q) : Append(q, m)[i] = q[i]
           /\ Append(q, m)[Len(q) + 1] = m
OBVIOUS

(* The first message is taken.                                              *)
LEMMA TailOf ==
    ASSUME NEW q \in Seq(Item), q # <<>>
    PROVE  /\ Head(q) = q[1] /\ Head(q) \in Item /\ Tail(q) \in Seq(Item)
           /\ Len(q) \in Nat /\ Len(q) > 0 /\ Len(Tail(q)) = Len(q) - 1
           /\ \A i \in 1..Len(Tail(q)) : Tail(q)[i] = q[i + 1] /\ i + 1 \in 1..Len(q)
OBVIOUS

(* try_send behind what the publisher sent before.                          *)
LEMMA TurnAppend ==
    ASSUME NEW q \in Seq(Item), NEW seen \in [Publisher -> Nat], NEW m \in Item, InTurn(q, seen),
           seen[m.from] < m.id, \A i \in 1..Len(q) : q[i].from = m.from => q[i].id < m.id
    PROVE  InTurn(Append(q, m), seen)
<1> DEFINE r == Append(q, m)
<1>1. /\ Len(q) \in Nat /\ Len(r) = Len(q) + 1 /\ r[Len(q) + 1] = m
      /\ \A i \in 1..Len(q) : r[i] = q[i]
  BY AppendAt
<1> HIDE DEF r
<1>2. m.id \in Nat /\ m.from \in Publisher /\ seen[m.from] \in Nat
  BY DEF Item
<1>3. ASSUME NEW i \in 1..Len(r)
      PROVE  /\ r[i].id > seen[r[i].from]
             /\ \A j \in 1..i - 1 : r[j].from = r[i].from => r[j].id < r[i].id
  <2>1. CASE i = Len(q) + 1
    <3>1. r[i] = m /\ \A j \in 1..i - 1 : j \in 1..Len(q) /\ r[j] = q[j]
      BY <1>1, <2>1
    <3> QED BY <1>2, <3>1
  <2>2. CASE i \in 1..Len(q)
    <3>1. r[i] = q[i] /\ \A j \in 1..i - 1 : r[j] = q[j]
      BY <1>1, <2>2
    <3> QED BY <2>2, <3>1 DEF InTurn
  <2> QED BY <1>1, <2>1, <2>2
<1> QED BY <1>3 DEF InTurn, r

(* Receiving the first keeps the turn of the others.                        *)
LEMMA TurnTail ==
    ASSUME NEW q \in Seq(Item), NEW seen \in [Publisher -> Nat], q # <<>>, InTurn(q, seen)
    PROVE  InTurn(Tail(q), [seen EXCEPT ![Head(q).from] = Head(q).id])
<1> DEFINE r == Tail(q)
           now == [seen EXCEPT ![Head(q).from] = Head(q).id]
<1>1. /\ Head(q) = q[1] /\ Len(q) \in Nat /\ Len(q) > 0 /\ Len(r) = Len(q) - 1
      /\ \A i \in 1..Len(r) : r[i] = q[i + 1] /\ i + 1 \in 1..Len(q)
  BY TailOf
<1>2. /\ q[1] \in Item /\ \A i \in 1..Len(q) : q[i].from \in Publisher /\ q[i].id \in Nat
  BY <1>1, ItemAt
<1>3. /\ now[q[1].from] = q[1].id
      /\ \A p \in Publisher : p # q[1].from => now[p] = seen[p]
  BY <1>1, <1>2 DEF Item
<1> HIDE DEF r, now
<1>4. ASSUME NEW i \in 1..Len(r)
      PROVE  /\ r[i].id > now[r[i].from]
             /\ \A j \in 1..i - 1 : r[j].from = r[i].from => r[j].id < r[i].id
  <2>1. r[i] = q[i + 1] /\ i + 1 \in 1..Len(q) /\ q[i + 1].from \in Publisher /\ i \in Nat /\ i > 0
    BY <1>1, <1>2
  <2>2. r[i].id > now[r[i].from]
    <3>1. CASE q[i + 1].from = q[1].from
      <4>1. 1 \in 1..(i + 1) - 1
        BY <2>1
      <4>2. q[1].id < q[i + 1].id
        BY <2>1, <3>1, <4>1 DEF InTurn
      <4>3. q[1].id \in Nat /\ q[i + 1].id \in Nat
        BY <1>1, <1>2, <2>1
      <4> QED BY <1>3, <2>1, <3>1, <4>2, <4>3
    <3>2. CASE q[i + 1].from # q[1].from
      BY <1>3, <2>1, <3>2 DEF InTurn
    <3> QED BY <3>1, <3>2
  <2>3. ASSUME NEW j \in 1..i - 1, r[j].from = r[i].from PROVE r[j].id < r[i].id
    <3>1. r[j] = q[j + 1] /\ j + 1 \in 1..(i + 1) - 1
      BY <1>1, <2>1
    <3> QED BY <2>1, <2>3, <3>1 DEF InTurn
  <2> QED BY <2>2, <2>3
<1> QED BY <1>4 DEF InTurn, r, now

(* subscribe: a new entry, with nothing in its queue.                       *)
LEMMA SubscribeStep ==
    ASSUME BInv, NEW s \in Subscription, Log!subscribe(s)
    PROVE  BInv'
<1> USE DEF BInv
<1>1. /\ s \notin subs /\ subs' = subs \cup {s} /\ alive' = alive \cup {s}
      /\ UNCHANGED <<next_id, queue, dropped, offer, offered, got, latest>>
  BY DEF Log!subscribe
<1>2. BusType' /\ OffersKnown' /\ NewIsEmpty'
  BY <1>1 DEF BusType, OffersKnown, NewIsEmpty
<1>3. IdsRise' /\ \A r \in Subscription : InTurn(queue'[r], latest'[r])
  BY <1>1 DEF IdsRise, Below, Offers
<1>4. ASSUME NEW r \in alive' PROVE Counted(r)'
  <2>1. CASE r \in alive
    BY <1>1, <2>1 DEF Counted
  <2>2. CASE r = s
    <3>1. queue[s] = <<>> /\ dropped[s] = 0 /\ offered[s] = 0 /\ got[s] = 0
      BY <1>1 DEF NewIsEmpty
    <3>2. Len(<<>>) = 0
      OBVIOUS
    <3> QED BY <1>1, <2>2, <3>1, <3>2 DEF Counted
  <2> QED BY <1>1, <2>1, <2>2
<1> QED BY <1>2, <1>3, <1>4

(* publish takes its id.                                                    *)
LEMMA TakeIdStep ==
    ASSUME BInv, NEW p \in Publisher, NEW t \in Topic, Log!TakeId(p, t)
    PROVE  BInv'
<1> USE DEF BInv
<1> DEFINE o == [id |-> next_id, topic |-> t, stage |-> "id", todo |-> {}]
<1>1. /\ offer' = [offer EXCEPT ![p] = o] /\ next_id' = next_id + 1 /\ offer[p].stage = "none"
      /\ UNCHANGED <<subs, alive, queue, dropped, offered, got, latest>>
  BY DEF Log!TakeId
<1>2. o \in Offer /\ next_id \in Nat /\ o.id = next_id /\ o.stage = "id" /\ o.todo = {}
  BY DEF Offer, BusType
<1> HIDE DEF o
<1>3. offer' \in [Publisher -> Offer] /\ offer'[p] = o /\ \A r \in Publisher : r # p => offer'[r] = offer[r]
  BY <1>1, <1>2 DEF BusType
<1>4. BusType' /\ OffersKnown' /\ NewIsEmpty'
  <2>1. BusType'
    BY <1>1, <1>2, <1>3 DEF BusType
  <2>2. OffersKnown'
    BY <1>1, <1>2, <1>3 DEF OffersKnown
  <2>3. NewIsEmpty'
    BY <1>1 DEF NewIsEmpty
  <2> QED BY <2>1, <2>2, <2>3
<1>5. ASSUME NEW r \in Publisher, offer'[r].stage # "none" PROVE offer'[r].id < next_id'
  <2>1. CASE r = p
    BY <1>1, <1>2, <1>3, <2>1
  <2>2. CASE r # p
    <3>1. offer[r].id \in Nat /\ offer[r].id < next_id
      BY <1>3, <1>5, <2>2 DEF IdsRise, BusType, Offer
    <3> QED BY <1>1, <1>2, <1>3, <2>2, <3>1
  <2> QED BY <2>1, <2>2
<1>6. ASSUME NEW s \in Subscription, NEW r \in Publisher
      PROVE  Below(s, r, next_id)' /\ (Offers(r, s)' => Below(s, r, offer[r].id)')
  <2>1. Below(s, r, next_id) /\ (Offers(r, s) => Below(s, r, offer[r].id))
    BY DEF IdsRise
  <2>2. /\ latest[s][r] \in Nat /\ queue[s] \in Seq(Item)
        /\ \A i \in 1..Len(queue[s]) : queue[s][i].id \in Nat
    BY ItemAt DEF BusType
  <2>3. Below(s, r, next_id)'
    BY <1>1, <1>2, <2>1, <2>2 DEF Below
  <2>4. CASE r = p
    BY <1>1, <1>2, <1>3, <2>1, <2>3, <2>4 DEF Below
  <2>5. CASE r # p
    BY <1>1, <1>3, <2>1, <2>3, <2>5 DEF Below, Offers
  <2> QED BY <2>4, <2>5
<1>7. IdsRise'
  BY <1>5, <1>6 DEF IdsRise
<1>8. \A s \in Subscription : InTurn(queue'[s], latest'[s])
  BY <1>1
<1>9. \A s \in alive' : Counted(s)'
  BY <1>1 DEF Counted
<1> QED BY <1>4, <1>7, <1>8, <1>9

(* publish reads the entries, or is done with them.                         *)
LEMMA OfferStep ==
    ASSUME BInv, NEW p \in Publisher, Log!ReadSubs(p) \/ Log!FinishPublish(p)
    PROVE  BInv'
<1> USE DEF BInv
<1>1. UNCHANGED <<next_id, subs, alive, queue, dropped, offered, got, latest>>
  BY DEF Log!ReadSubs, Log!FinishPublish
<1>2. /\ offer' \in [Publisher -> Offer] /\ \A r \in Publisher : r # p => offer'[r] = offer[r]
      /\ offer'[p].todo \subseteq subs
      /\ offer'[p].stage # "none" => offer[p].stage = "id" /\ offer'[p].id = offer[p].id
  <2>1. CASE Log!ReadSubs(p)
    <3> DEFINE todo == {s \in subs : Log!topic_matches(pattern[s], offer[p].topic)}
    <3>1. offer' = [offer EXCEPT ![p].stage = "loop", ![p].todo = todo] /\ offer[p].stage = "id"
      BY <2>1 DEF Log!ReadSubs
    <3>2. todo \subseteq subs /\ todo \in SUBSET Subscription /\ offer[p] \in Offer
      BY DEF BusType
    <3> HIDE DEF todo
    <3>3. offer'[p] = [offer[p] EXCEPT !.stage = "loop", !.todo = todo]
      BY <3>1 DEF BusType
    <3>4. offer'[p] \in Offer /\ offer'[p].todo = todo /\ offer'[p].id = offer[p].id
      BY <3>2, <3>3 DEF Offer
    <3> QED BY <3>1, <3>2, <3>4 DEF BusType
  <2>2. CASE Log!FinishPublish(p)
    <3>1. offer' = [offer EXCEPT ![p] = Log!Nothing]
      BY <2>2 DEF Log!FinishPublish
    <3>2. Log!Nothing \in Offer /\ Log!Nothing.todo = {} /\ Log!Nothing.stage = "none"
      BY DEF Log!Nothing, Offer
    <3> QED BY <3>1, <3>2 DEF BusType
  <2> QED BY <2>1, <2>2
<1>3. BusType'
  BY <1>1, <1>2 DEF BusType
<1>4. OffersKnown' /\ NewIsEmpty'
  BY <1>1, <1>2 DEF OffersKnown, NewIsEmpty
<1>5. IdsRise'
  <2>1. \A r \in Publisher : offer'[r].stage # "none" => offer'[r].id < next_id'
    BY <1>1, <1>2 DEF IdsRise
  <2>2. ASSUME NEW s \in Subscription, NEW r \in Publisher
        PROVE  Below(s, r, next_id)' /\ (Offers(r, s)' => Below(s, r, offer[r].id)')
    <3>1. Below(s, r, next_id) /\ (Offers(r, s) => Below(s, r, offer[r].id))
      BY DEF IdsRise
    <3>2. CASE r = p
      BY <1>1, <1>2, <3>1, <3>2 DEF Below, Offers
    <3>3. CASE r # p
      BY <1>1, <1>2, <3>1, <3>3 DEF Below, Offers
    <3> QED BY <3>2, <3>3
  <2> QED BY <2>1, <2>2 DEF IdsRise
<1>6. \A s \in Subscription : InTurn(queue'[s], latest'[s])
  BY <1>1
<1>7. \A s \in alive' : Counted(s)'
  BY <1>1 DEF Counted
<1> QED BY <1>3, <1>4, <1>5, <1>6, <1>7

(* One more message in a queue is one more message offered.                 *)
LEMMA OneMore ==
    ASSUME NEW g \in Nat, NEW n \in Nat, NEW d \in Nat, NEW o, NEW o1, NEW n1,
           o = g + n + d, o1 = o + 1, n1 = n + 1
    PROVE  o1 = g + n1 + d
OBVIOUS

(* A message taken out of a queue is one that was received.                 *)
LEMMA OneTaken ==
    ASSUME NEW g \in Nat, NEW n \in Nat, NEW d \in Nat, NEW o, NEW g1, NEW n1,
           n > 0, o = g + n + d, g1 = g + 1, n1 = n - 1
    PROVE  o = g1 + n1 + d
OBVIOUS

(* try_send: queued, dropped and counted, or ignored.                       *)
LEMMA TrySendStep ==
    ASSUME BInv, NEW p \in Publisher, NEW s \in Subscription, Log!TrySend(p, s)
    PROVE  BInv'
<1> USE DEF BInv
<1> DEFINE m == [id |-> offer[p].id, from |-> p]
           q == queue[s]
<1>1. /\ offer[p].stage = "loop" /\ s \in offer[p].todo
      /\ offer' = [offer EXCEPT ![p].todo = @ \ {s}]
      /\ UNCHANGED <<next_id, subs, alive, got, latest>>
  BY DEF Log!TrySend
<1>2. /\ offer[p] \in Offer /\ offer[p].id \in Nat /\ m \in Item /\ m.id = offer[p].id /\ m.from = p
      /\ q \in Seq(Item) /\ latest[s] \in [Publisher -> Nat] /\ next_id \in Nat
  BY DEF BusType, Offer, Item
<1>3. /\ offer' \in [Publisher -> Offer] /\ \A r \in Publisher : r # p => offer'[r] = offer[r]
      /\ offer'[p].todo = offer[p].todo \ {s}
      /\ offer'[p].id = offer[p].id /\ offer'[p].stage = "loop"
  <2>1. offer'[p] = [offer[p] EXCEPT !.todo = @ \ {s}]
    BY <1>1 DEF BusType
  <2>2. offer'[p] \in Offer
    BY <1>2, <2>1 DEF Offer
  <2> QED BY <1>1, <1>2, <2>1, <2>2 DEF BusType, Offer
<1>4. s \in subs
  BY <1>1 DEF OffersKnown
<1>5. Below(s, p, m.id) /\ m.id < next_id
  BY <1>1, <1>2 DEF IdsRise, Offers
<1>6. OffersKnown'
  BY <1>1, <1>3 DEF OffersKnown
<1>7. \A r \in Publisher : offer'[r].stage # "none" => offer'[r].id < next_id'
  BY <1>1, <1>3 DEF IdsRise
<1>8. \A r \in Publisher, x \in Subscription : Offers(r, x)' => Offers(r, x) /\ ~(r = p /\ x = s)
  BY <1>1, <1>3 DEF Offers
<1>9. CASE queue' = queue /\ dropped' \in [Subscription -> Nat] /\ offered' \in [Subscription -> Nat]
           /\ (\A x \in Subscription : x # s => dropped'[x] = dropped[x] /\ offered'[x] = offered[x])
           /\ (s \in alive => offered'[s] - dropped'[s] = offered[s] - dropped[s])
  <2>1. BusType' /\ NewIsEmpty'
    BY <1>1, <1>3, <1>4, <1>9 DEF BusType, NewIsEmpty
  <2>2. ASSUME NEW x \in Subscription, NEW r \in Publisher
        PROVE  Below(x, r, next_id)' /\ (Offers(r, x)' => Below(x, r, offer[r].id)')
    <3>1. Below(x, r, next_id) /\ (Offers(r, x) => Below(x, r, offer[r].id))
      BY DEF IdsRise
    <3>2. offer'[r].id = offer[r].id
      BY <1>3
    <3> QED BY <1>1, <1>8, <1>9, <3>1, <3>2 DEF Below
  <2>3. IdsRise'
    BY <1>7, <2>2 DEF IdsRise
  <2>4. ASSUME NEW x \in alive' PROVE Counted(x)'
    <3>1. x \in Subscription /\ x \in alive /\ Counted(x)
      BY <1>1 DEF BusType
    <3>2. /\ got[x] \in Nat /\ Len(queue[x]) \in Nat /\ dropped[x] \in Nat /\ offered[x] \in Nat
          /\ dropped'[x] \in Nat /\ offered'[x] \in Nat
          /\ offered'[x] - dropped'[x] = offered[x] - dropped[x]
      <4>1. /\ got[x] \in Nat /\ dropped[x] \in Nat /\ offered[x] \in Nat
            /\ dropped'[x] \in Nat /\ offered'[x] \in Nat
        BY <1>9, <3>1 DEF BusType
      <4>2. Len(queue[x]) \in Nat
        BY <3>1 DEF BusType
      <4>3. CASE x = s
        BY <1>9, <3>1, <4>1, <4>2, <4>3
      <4>4. CASE x # s
        <5>1. dropped'[x] = dropped[x] /\ offered'[x] = offered[x]
          BY <1>9, <3>1, <4>4
        <5> QED BY <4>1, <4>2, <5>1
      <4> QED BY <4>3, <4>4
    <3>3. offered[x] = got[x] + Len(queue[x]) + dropped[x]
      BY <3>1 DEF Counted
    <3>4. offered'[x] = got[x] + Len(queue[x]) + dropped'[x]
      BY <3>2, <3>3
    <3> QED BY <1>1, <1>9, <3>4 DEF Counted
  <2>5. \A x \in Subscription : InTurn(queue'[x], latest'[x])
    BY <1>1, <1>9
  <2> QED BY <1>6, <2>1, <2>3, <2>4, <2>5
<1>10. CASE s \in alive /\ queue' = [queue EXCEPT ![s] = Append(@, m)] /\ dropped' = dropped
            /\ offered' = [offered EXCEPT ![s] = @ + 1]
  <2> DEFINE a == Append(q, m)
  <2>1. /\ a \in Seq(Item) /\ Len(q) \in Nat /\ Len(a) = Len(q) + 1
        /\ (\A i \in 1..Len(q) : a[i] = q[i]) /\ a[Len(q) + 1] = m
    BY <1>2, AppendAt
  <2>2. InTurn(a, latest[s])
    BY <1>2, <1>5, TurnAppend DEF Below
  <2>3. queue'[s] = a /\ \A x \in Subscription : x # s => queue'[x] = queue[x]
    BY <1>10 DEF BusType
  <2> HIDE DEF a, m, q
  <2>4. queue' \in [Subscription -> Seq(Item)] /\ offered' \in [Subscription -> Nat]
    <3>1. offered[s] + 1 \in Nat
      BY DEF BusType
    <3>2. queue' = [x \in Subscription |-> IF x = s THEN a ELSE queue[x]]
      BY <1>10 DEF BusType, a, m, q
    <3> QED BY <1>10, <2>1, <3>1, <3>2 DEF BusType
  <2>5. BusType'
    BY <1>1, <1>3, <1>10, <2>4 DEF BusType
  <2>6. NewIsEmpty'
    BY <1>1, <1>4, <1>10, <2>3 DEF NewIsEmpty, BusType
  <2>7. ASSUME NEW x \in Subscription, NEW r \in Publisher
        PROVE  Below(x, r, next_id)' /\ (Offers(r, x)' => Below(x, r, offer[r].id)')
    <3>1. Below(x, r, next_id) /\ (Offers(r, x) => Below(x, r, offer[r].id))
      BY DEF IdsRise
    <3>2. offer'[r].id = offer[r].id /\ next_id' = next_id /\ latest' = latest
      BY <1>1, <1>3
    <3>3. CASE x # s
      BY <1>8, <2>3, <3>1, <3>2, <3>3 DEF Below
    <3>4. CASE x = s
      <4>1. ASSUME NEW i \in 1..Len(a), a[i].from = r
            PROVE  a[i].id < next_id /\ (Offers(r, x)' => a[i].id < offer[r].id)
        <5>1. CASE i \in 1..Len(q)
          BY <1>8, <2>1, <3>1, <3>4, <4>1, <5>1 DEF Below, q
        <5>2. CASE i = Len(q) + 1
          <6>1. a[i] = m /\ r = p
            BY <1>2, <2>1, <4>1, <5>2
          <6> QED BY <1>5, <1>8, <3>4, <6>1
        <5> QED BY <2>1, <5>1, <5>2
      <4>2. latest[s][r] < next_id /\ (Offers(r, x)' => latest[s][r] < offer[r].id)
        BY <1>8, <3>1, <3>4 DEF Below
      <4> QED BY <2>3, <3>2, <3>4, <4>1, <4>2 DEF Below
    <3> QED BY <3>3, <3>4
  <2>8. IdsRise'
    BY <1>7, <2>7 DEF IdsRise
  <2>9. ASSUME NEW x \in alive' PROVE Counted(x)'
    <3>1. x \in Subscription /\ x \in alive /\ Counted(x)
      BY <1>1 DEF BusType
    <3>2. CASE x # s
      BY <1>1, <1>10, <2>3, <3>1, <3>2 DEF Counted, BusType
    <3>3. CASE x = s
      <4>1. offered'[s] = offered[s] + 1 /\ got[s] \in Nat /\ dropped[s] \in Nat
        BY <1>10 DEF BusType
      <4>2. offered[s] = got[s] + Len(q) + dropped[s]
        BY <3>1, <3>3 DEF Counted, q
      <4>3. offered'[s] = got[s] + Len(a) + dropped[s]
        <5>1. Len(q) \in Nat /\ Len(a) = Len(q) + 1
          BY <2>1
        <5> DEFINE g == got[s]  d == dropped[s]  n == Len(q)  n1 == Len(a)
                   o == offered[s]  o1 == offered'[s]
        <5>2. /\ g \in Nat /\ n \in Nat /\ d \in Nat
              /\ o = g + n + d /\ o1 = o + 1 /\ n1 = n + 1
          BY <4>1, <4>2, <5>1
        <5> HIDE DEF g, d, n, n1, o, o1
        <5>3. o1 = g + n1 + d
          BY <5>2, OneMore
        <5> QED BY <5>3 DEF g, d, n1, o1
      <4> QED BY <1>1, <1>10, <2>3, <3>3, <4>3 DEF Counted
    <3> QED BY <3>2, <3>3
  <2>10. \A x \in Subscription : InTurn(queue'[x], latest'[x])
    BY <1>1, <2>2, <2>3
  <2> QED BY <1>6, <2>5, <2>6, <2>8, <2>9, <2>10
<1>11. CASE s \notin alive /\ UNCHANGED <<queue, dropped, offered>>
  BY <1>9, <1>11 DEF BusType
<1>12. CASE /\ s \in alive /\ queue' = queue /\ dropped' = [dropped EXCEPT ![s] = @ + 1]
            /\ offered' = [offered EXCEPT ![s] = @ + 1]
  <2>1. dropped[s] \in Nat /\ offered[s] \in Nat
    BY DEF BusType
  <2>2. /\ dropped' \in [Subscription -> Nat] /\ offered' \in [Subscription -> Nat]
        /\ \A x \in Subscription : x # s => dropped'[x] = dropped[x] /\ offered'[x] = offered[x]
        /\ dropped'[s] = dropped[s] + 1 /\ offered'[s] = offered[s] + 1
    BY <1>12, <2>1 DEF BusType
  <2>3. offered'[s] - dropped'[s] = offered[s] - dropped[s]
    BY <2>1, <2>2
  <2> QED BY <1>9, <1>12, <2>2, <2>3
<1> QED BY <1>10, <1>11, <1>12 DEF Log!TrySend

(* A subscriber takes its first message.                                    *)
LEMMA ReceiveStep ==
    ASSUME BInv, NEW s \in Subscription, Log!Receive(s)
    PROVE  BInv'
<1> USE DEF BInv
<1> DEFINE q == queue[s]
           h == Head(q)
           r == Tail(q)
           now == [latest[s] EXCEPT ![h.from] = h.id]
<1>1. /\ s \in alive /\ q # <<>> /\ got' = [got EXCEPT ![s] = @ + 1]
      /\ latest' = [latest EXCEPT ![s][h.from] = h.id] /\ queue' = [queue EXCEPT ![s] = r]
      /\ UNCHANGED <<next_id, subs, alive, dropped, offer, offered>>
  BY DEF Log!Receive
<1>2. q \in Seq(Item) /\ latest[s] \in [Publisher -> Nat] /\ InTurn(q, latest[s])
  BY DEF BusType
<1>3. /\ h = q[1] /\ h \in Item /\ r \in Seq(Item) /\ Len(q) \in Nat /\ Len(q) > 0
      /\ Len(r) = Len(q) - 1 /\ \A i \in 1..Len(r) : r[i] = q[i + 1] /\ i + 1 \in 1..Len(q)
  BY <1>1, <1>2, TailOf
<1>4. InTurn(r, now)
  BY <1>1, <1>2, TurnTail
<1>5. h.id \in Nat /\ h.from \in Publisher
  BY <1>3 DEF Item
<1>6. /\ now \in [Publisher -> Nat] /\ now[h.from] = h.id
      /\ \A p \in Publisher : p # h.from => now[p] = latest[s][p]
  BY <1>2, <1>5
<1>7. /\ latest'[s] = now /\ latest' \in [Subscription -> [Publisher -> Nat]]
      /\ \A x \in Subscription : x # s => latest'[x] = latest[x]
  <2>1. latest' = [latest EXCEPT ![s] = now]
    BY <1>1 DEF BusType
  <2> HIDE DEF now
  <2> QED BY <1>6, <2>1 DEF BusType
<1> HIDE DEF h, r, now
<1>8. /\ queue'[s] = r /\ queue' \in [Subscription -> Seq(Item)]
      /\ \A x \in Subscription : x # s => queue'[x] = queue[x]
  BY <1>1, <1>3 DEF BusType
<1>9. /\ got' \in [Subscription -> Nat] /\ got'[s] = got[s] + 1 /\ got[s] \in Nat
      /\ \A x \in Subscription : x # s => got'[x] = got[x]
  BY <1>1 DEF BusType
<1>10. s \in subs
  BY <1>1 DEF BusType
<1>11. BusType'
  BY <1>1, <1>7, <1>8, <1>9 DEF BusType
<1>12. OffersKnown' /\ NewIsEmpty'
  BY <1>1, <1>8, <1>9, <1>10 DEF OffersKnown, NewIsEmpty
<1>13. ASSUME NEW p \in Publisher, NEW b, Below(s, p, b)
       PROVE  now[p] < b /\ \A i \in 1..Len(r) : r[i].from = p => r[i].id < b
  <2>1. 1 \in 1..Len(q)
    BY <1>3
  <2>2. now[p] < b
    BY <1>3, <1>6, <1>13, <2>1 DEF Below
  <2> QED BY <1>3, <1>13, <2>2 DEF Below
<1>14. ASSUME NEW x \in Subscription, NEW p \in Publisher
       PROVE  Below(x, p, next_id)' /\ (Offers(p, x)' => Below(x, p, offer[p].id)')
  <2>1. Below(x, p, next_id) /\ (Offers(p, x) => Below(x, p, offer[p].id))
    BY DEF IdsRise
  <2>2. Offers(p, x)' => Offers(p, x)
    BY <1>1 DEF Offers
  <2>3. CASE x = s
    BY <1>1, <1>7, <1>8, <1>13, <2>1, <2>2, <2>3 DEF Below
  <2>4. CASE x # s
    BY <1>1, <1>7, <1>8, <2>1, <2>2, <2>4 DEF Below
  <2> QED BY <2>3, <2>4
<1>15. IdsRise'
  BY <1>1, <1>14 DEF IdsRise
<1>16. ASSUME NEW x \in alive' PROVE Counted(x)'
  <2>1. x \in Subscription /\ x \in alive /\ Counted(x)
    BY <1>1 DEF BusType
  <2>2. CASE x = s
    <3>1. offered[s] = got[s] + Len(q) + dropped[s] /\ dropped[s] \in Nat
      BY <2>1, <2>2 DEF Counted, BusType
    <3>2. offered[s] = got'[s] + Len(r) + dropped[s]
      <4>1. Len(q) \in Nat /\ Len(q) > 0 /\ Len(r) = Len(q) - 1
        BY <1>3
      <4>2. got[s] \in Nat /\ got'[s] = got[s] + 1
        BY <1>9
      <4> DEFINE g == got[s]  d == dropped[s]  n == Len(q)  n1 == Len(r)
                 o == offered[s]  g1 == got'[s]
      <4>3. /\ g \in Nat /\ n \in Nat /\ d \in Nat /\ n > 0
            /\ o = g + n + d /\ g1 = g + 1 /\ n1 = n - 1
        BY <3>1, <4>1, <4>2
      <4> HIDE DEF g, d, n, n1, o, g1
      <4>4. o = g1 + n1 + d
        BY <4>3, OneTaken
      <4> QED BY <4>4 DEF g1, d, n1, o
    <3> QED BY <1>1, <1>8, <2>2, <3>2 DEF Counted
  <2>3. CASE x # s
    BY <1>1, <1>8, <1>9, <2>1, <2>3 DEF Counted
  <2> QED BY <2>2, <2>3
<1>17. \A x \in Subscription : InTurn(queue'[x], latest'[x])
  BY <1>4, <1>7, <1>8
<1> QED BY <1>11, <1>12, <1>15, <1>16, <1>17

(* A receiver is dropped with what is queued in it.                         *)
LEMMA DropStep ==
    ASSUME BInv, NEW s \in Subscription, Log!DropReceiver(s)
    PROVE  BInv'
<1> USE DEF BInv
<1>1. /\ s \in alive /\ alive' = alive \ {s} /\ queue' = [queue EXCEPT ![s] = <<>>]
      /\ UNCHANGED <<next_id, subs, dropped, offer, offered, got, latest>>
  BY DEF Log!DropReceiver
<1>2. /\ queue' \in [Subscription -> Seq(Item)] /\ queue'[s] = <<>>
      /\ \A x \in Subscription : x # s => queue'[x] = queue[x]
  <2>1. <<>> \in Seq(Item)
    OBVIOUS
  <2> QED BY <1>1, <2>1 DEF BusType
<1>3. BusType' /\ OffersKnown' /\ NewIsEmpty'
  BY <1>1, <1>2 DEF BusType, OffersKnown, NewIsEmpty
<1>4. 1..Len(<<>>) = {}
  OBVIOUS
<1>5. ASSUME NEW x \in Subscription, NEW p \in Publisher
      PROVE  Below(x, p, next_id)' /\ (Offers(p, x)' => Below(x, p, offer[p].id)')
  <2>1. Below(x, p, next_id) /\ (Offers(p, x) => Below(x, p, offer[p].id))
    BY DEF IdsRise
  <2>2. Offers(p, x)' => Offers(p, x)
    BY <1>1 DEF Offers
  <2>3. CASE x = s
    BY <1>1, <1>2, <1>4, <2>1, <2>2, <2>3 DEF Below
  <2>4. CASE x # s
    BY <1>1, <1>2, <2>1, <2>2, <2>4 DEF Below
  <2> QED BY <2>3, <2>4
<1>6. IdsRise'
  BY <1>1, <1>5 DEF IdsRise
<1>7. \A x \in alive' : Counted(x)'
  BY <1>1, <1>2 DEF Counted, BusType
<1>8. ASSUME NEW x \in Subscription PROVE InTurn(queue'[x], latest'[x])
  <2>1. CASE x = s
    BY <1>2, <1>4, <2>1 DEF InTurn
  <2>2. CASE x # s
    BY <1>1, <1>2, <2>2
  <2> QED BY <2>1, <2>2
<1> QED BY <1>3, <1>6, <1>7, <1>8

(* Steps of the log that leave the bus alone.                               *)
LEMMA StillStep ==
    ASSUME BInv, UNCHANGED Log!bus
    PROVE  BInv'
BY DEF BInv, Log!bus, BusType, OffersKnown, NewIsEmpty, IdsRise, Below, Offers, Counted

(* Every step of bus and log keeps the invariant.                           *)
LEMMA BusStep == BInv /\ [Log!Next]_Log!vars => BInv'
<1> SUFFICES ASSUME BInv, [Log!Next]_Log!vars PROVE BInv'
  OBVIOUS
<1>1. CASE Log!Publish
  BY <1>1, TakeIdStep, OfferStep, TrySendStep DEF Log!Publish
<1>2. CASE Log!LogReceive
  BY <1>2, ReceiveStep, LoggerAssumption DEF Log!LogReceive
<1>3. CASE \/ Log!OpenAppend \/ Log!BeginRotate \/ Log!RotateStep \/ Log!WriteLine \/ Log!WriteFails \/ Log!WriteTears
           \/ Log!Collect \/ Log!RemoveEntry \/ Log!RemoveFails \/ UNCHANGED Log!vars
  <2>1. UNCHANGED Log!bus
    BY <1>3 DEF Log!OpenAppend, Log!BeginRotate, Log!RotateStep, Log!WriteLine, Log!WriteFails, Log!WriteTears,
                Log!Collect, Log!RemoveEntry, Log!RemoveFails, Log!vars
  <2> QED BY <2>1, StillStep
<1> QED BY <1>1, <1>2, <1>3, SubscribeStep, ReceiveStep, DropStep DEF Log!Next

(* It holds when only the logger has subscribed.                            *)
LEMMA BusInit == Log!Init => BInv
<1> SUFFICES ASSUME Log!Init PROVE BInv
  OBVIOUS
<1>1. <<>> \in Seq(Item) /\ Len(<<>>) = 0 /\ 1..Len(<<>>) = {}
  OBVIOUS
<1>2. Log!Nothing \in Offer /\ Log!Nothing.todo = {} /\ Log!Nothing.stage = "none"
  BY DEF Log!Nothing, Offer
<1>3. /\ next_id = 1 /\ subs = {Logger} /\ alive = {Logger}
      /\ queue = [s \in Subscription |-> <<>>] /\ dropped = [s \in Subscription |-> 0]
      /\ offer = [p \in Publisher |-> Log!Nothing] /\ offered = [s \in Subscription |-> 0]
      /\ got = [s \in Subscription |-> 0] /\ latest = [s \in Subscription |-> [p \in Publisher |-> 0]]
  BY DEF Log!Init, Log!BusInit
<1>4. BusType
  BY <1>1, <1>2, <1>3, LoggerAssumption DEF BusType
<1>5. OffersKnown /\ NewIsEmpty
  BY <1>2, <1>3 DEF OffersKnown, NewIsEmpty
<1>6. IdsRise
  BY <1>1, <1>2, <1>3 DEF IdsRise, Below, Offers
<1>7. (\A s \in alive : Counted(s)) /\ \A s \in Subscription : InTurn(queue[s], latest[s])
  BY <1>1, <1>3, LoggerAssumption DEF Counted, InTurn
<1> QED BY <1>4, <1>5, <1>6, <1>7 DEF BInv

(* MessageBus::publish: whatever publishers, subscribers and the logger do  *)
(* at the same time, what was published to a living subscriber was          *)
(* received, is queued, or is counted as dropped, and the messages of one   *)
(* publisher keep their order.                                              *)
THEOREM MessagesAreAccounted == Log!Spec => []Accounted
<1>1. BInv => Accounted
  <2> SUFFICES ASSUME BInv, NEW s \in alive
               PROVE  /\ offered[s] = got[s] + Len(queue[s]) + dropped[s]
                      /\ \A i \in DOMAIN queue[s] :
                           /\ queue[s][i].id > latest[s][queue[s][i].from]
                           /\ \A j \in 1..i - 1 : queue[s][j].from = queue[s][i].from
                                                    => queue[s][j].id < queue[s][i].id
    BY DEF Accounted, Log!Accounted
  <2>1. queue[s] \in Seq(Item) /\ Counted(s) /\ InTurn(queue[s], latest[s])
    BY DEF BInv, BusType
  <2>2. DOMAIN queue[s] = 1..Len(queue[s])
    BY <2>1
  <2> QED BY <2>1, <2>2 DEF Counted, InTurn
<1> QED
  BY <1>1, BusInit, BusStep, PTL DEF Log!Spec

-----------------------------------------------------------------------------
(* The files of the event log.                                              *)

FileName == 0..MaxFiles

(* Record k is in the file q.                                               *)
In(q, k) == \E i \in 1..Len(q) : q[i] = k

(* A message the logger took is in hand, written or lost.                   *)
LogType ==
    /\ disk \in [FileName -> Seq(Nat)]
    /\ step \in {"receive", "write", "rotate"}
    /\ lost \in Nat /\ accepted \in Nat /\ passes \in Nat /\ failures \in Nat
    /\ crossed \in BOOLEAN /\ doomed \subseteq 1..MaxFiles
    /\ IsFiniteSet(torn) /\ torn \subseteq 1..accepted
    /\ got[Logger] \in Nat
    /\ got[Logger] + Cardinality(torn) = accepted + lost + IF step = "receive" THEN 0 ELSE 1

InHand == record = (step # "receive")

(* The size of the open file is right, and a rotation moves a file to a     *)
(* name that is free.                                                       *)
FilesRead ==
    /\ size = -1 \/ (size = Len(disk[0]) /\ step # "rotate")
    /\ step = "rotate" => shift \in 0..MaxFiles - 1 /\ disk[shift + 1] = <<>>

(* The files in the order of their names, each of them in its own order;    *)
(* the active one ends in the newest record.                                *)
Sorted(d, a) ==
    /\ \A n \in FileName : \A i \in 1..Len(d[n]) : d[n][i] \in 1..a
    /\ \A n \in FileName : \A i, j \in 1..Len(d[n]) : i < j => d[n][i] < d[n][j]
    /\ \A m, n \in FileName : n < m =>
         \A j \in 1..Len(d[m]), k \in 1..Len(d[n]) : d[m][j] < d[n][k]
    /\ \A i \in 1..Len(d[0]) : d[0][i] = a - Len(d[0]) + i

(* From any record on, nothing is missing in the files left aside by the    *)
(* cleanup.                                                                 *)
Unbroken(d, gone, a) ==
    \A n \in FileName \ gone : \A k, j \in 1..a : In(d[n], k) /\ k <= j =>
        \E m \in FileName \ gone : In(d[m], j)

NoGap ==
    failures = 0 /\ ~crossed =>
        (doomed # {} => step # "rotate") /\ Unbroken(disk, doomed, accepted)

(* The files under the names they will have after the rotation under way.   *)
Shifted(d, s, h) ==
    IF s # "rotate" THEN d
    ELSE [n \in FileName |-> IF n = 0 THEN <<>> ELSE IF n <= h + 1 THEN d[n - 1] ELSE d[n]]

(* A rotated file begins so early that it and the newer ones are full, and  *)
(* a name is not in use only while nothing was dropped.                     *)
Filled(v, a) ==
    \A n \in 1..MaxFiles :
        /\ v[n] # <<>> => v[n][1] + Len(v[0]) + n * MaxSize <= a + 1
        /\ v[n] = <<>> => \A j \in 1..a : \E m \in 0..n - 1 : In(v[m], j)

Full ==
    failures = 0 /\ passes = 0 =>
        /\ ~crossed /\ doomed = {}
        /\ step = "receive" /\ accepted > 0 => disk[0] # <<>>
        /\ Filled(Shifted(disk, step, shift), accepted)

LInv == LogType /\ InHand /\ FilesRead /\ Sorted(disk, accepted) /\ NoGap /\ Full

(* The actions of the bus leave the log alone.                              *)
LEMMA LogStill ==
    ASSUME LInv, UNCHANGED Log!logv, got'[Logger] = got[Logger]
    PROVE  LInv'
BY DEF LInv, LogType, InHand, FilesRead, NoGap, Full, Log!logv

(* The logger takes a message.                                              *)
LEMMA LogReceives ==
    ASSUME LInv, BInv, Log!LogReceive
    PROVE  LInv'
<1>1. /\ step = "receive" /\ record' = TRUE /\ step' = "write"
      /\ UNCHANGED <<disk, size, shift, lost, accepted, torn, doomed, passes, failures, crossed>>
      /\ got' = [got EXCEPT ![Logger] = @ + 1]
  BY DEF Log!LogReceive, Log!Receive
<1>2. got'[Logger] = got[Logger] + 1
  BY <1>1, LoggerAssumption DEF BInv, BusType
<1>6. LogType /\ got[Logger] \in Nat /\ Cardinality(torn) \in Nat
  BY FS_CardinalityType DEF LInv, LogType
<1>3. LogType'
  <2> DEFINE c == Cardinality(torn)
  <2>1. got[Logger] + c = accepted + lost + 0 /\ c \in Nat /\ accepted \in Nat /\ lost \in Nat
    BY <1>1, <1>6 DEF LogType
  <2>2. torn' = torn /\ accepted' = accepted /\ lost' = lost /\ step' = "write"
    BY <1>1
  <2> HIDE DEF c
  <2>3. got'[Logger] \in Nat /\ got'[Logger] + c = accepted + lost + 1
    BY <1>2, <1>6, <2>1
  <2>4. got'[Logger] + Cardinality(torn') = accepted' + lost' + IF step' = "receive" THEN 0 ELSE 1
    BY <2>2, <2>3 DEF c
  <2> QED BY <1>1, <1>6, <2>2, <2>3, <2>4 DEF LogType
<1>4. InHand' /\ FilesRead' /\ Sorted(disk, accepted)' /\ NoGap'
  BY <1>1 DEF LInv, InHand, FilesRead, NoGap
<1>5. Full'
  BY <1>1 DEF LInv, Full, Shifted
<1> QED BY <1>3, <1>4, <1>5 DEF LInv

(* The file is opened.                                                      *)
LEMMA LogOpens ==
    ASSUME LInv, Log!OpenAppend
    PROVE  LInv'
<1>1. /\ step = "write" /\ size' = Len(disk[0])
      /\ UNCHANGED <<disk, step, shift, record, lost, accepted, torn, doomed, passes, failures, crossed, got>>
  BY DEF Log!OpenAppend, Log!bus
<1> QED BY <1>1 DEF LInv, LogType, InHand, FilesRead, NoGap, Full

(* An operation fails.                                                      *)
LEMMA LogFails ==
    ASSUME LInv, Log!WriteFails \/ Log!RemoveFails
    PROVE  LInv'
<1>1. /\ failures' = failures + 1 /\ failures \in Nat
      /\ UNCHANGED <<disk, accepted, torn, passes, crossed, got>>
  BY DEF LInv, LogType, Log!WriteFails, Log!Fails, Log!RemoveFails, Log!bus
<1>2. failures' \in Nat /\ failures' # 0
  BY <1>1
<1>3. NoGap' /\ Full' /\ Sorted(disk, accepted)'
  BY <1>1, <1>2 DEF LInv, NoGap, Full
<1>4. CASE Log!WriteFails
  <2>1. /\ step \in {"write", "rotate"} /\ lost' = lost + 1 /\ size' = -1 /\ step' = "receive" /\ record' = FALSE
        /\ doomed' = doomed
    BY <1>4 DEF Log!WriteFails, Log!Fails
  <2>2. LogType'
    <3>1. LogType
      BY DEF LInv
    <3>4. Cardinality(torn) \in Nat
      BY <3>1, FS_CardinalityType DEF LogType
    <3>2. got'[Logger] + Cardinality(torn) = accepted' + lost' + 0
      BY <1>1, <2>1, <3>1, <3>4 DEF LogType
    <3>3. lost' \in Nat
      BY <2>1, <3>1 DEF LogType
    <3> QED BY <1>1, <1>2, <2>1, <3>1, <3>2, <3>3 DEF LogType
  <2>3. InHand' /\ FilesRead'
    BY <2>1 DEF LInv, InHand, FilesRead
  <2> QED BY <1>3, <2>2, <2>3 DEF LInv
<1>5. CASE Log!RemoveFails
  <2>1. /\ UNCHANGED <<size, step, shift, record, lost>> /\ doomed' \subseteq doomed
    BY <1>5 DEF Log!RemoveFails
  <2> QED BY <1>1, <1>2, <1>3, <2>1 DEF LInv, LogType, InHand, FilesRead
<1> QED BY <1>4, <1>5

(* What a file that gets a record holds.                                    *)
LEMMA Written ==
    ASSUME NEW q \in Seq(Nat), NEW r \in Nat
    PROVE  LET p == Append(q, r)
           IN  /\ p \in Seq(Nat) /\ Len(p) = Len(q) + 1 /\ p[Len(q) + 1] = r /\ p # <<>>
               /\ \A i \in 1..Len(q) : p[i] = q[i]
               /\ In(p, r) /\ \A k : In(q, k) => In(p, k)
               /\ \A k : In(p, k) => k = r \/ In(q, k)
<1> DEFINE p == Append(q, r)
<1>1. /\ p \in Seq(Nat) /\ Len(q) \in Nat /\ Len(p) = Len(q) + 1 /\ p[Len(q) + 1] = r
      /\ \A i \in 1..Len(q) : p[i] = q[i]
  OBVIOUS
<1>2. p # <<>>
  OBVIOUS
<1> HIDE DEF p
<1> QED BY <1>1, <1>2 DEF In, p

(* A record, or a part of one, at the end of the active file keeps order.   *)
LEMMA LogGrows ==
    ASSUME LInv, disk' = [disk EXCEPT ![0] = Append(disk[0], accepted + 1)], accepted' = accepted + 1
    PROVE  disk' \in [FileName -> Seq(Nat)] /\ accepted' \in Nat /\ Sorted(disk, accepted)'
<1> DEFINE q == disk[0]
           p == Append(q, accepted + 1)
<1>1. disk' = [disk EXCEPT ![0] = p] /\ accepted' = accepted + 1
  OBVIOUS
<1>2. /\ MaxFiles \in Nat /\ 0 \in FileName /\ disk \in [FileName -> Seq(Nat)] /\ accepted \in Nat /\ accepted + 1 \in Nat
      /\ q \in Seq(Nat) /\ Len(q) \in Nat /\ \A n \in FileName : Len(disk[n]) \in Nat
  BY LimitAssumption DEF LInv, LogType, FileName
<1>3. /\ p \in Seq(Nat) /\ Len(p) = Len(q) + 1 /\ p[Len(q) + 1] = accepted + 1
      /\ \A i \in 1..Len(q) : p[i] = q[i]
  BY <1>2, Written
<1> HIDE DEF p
<1>4. /\ disk' \in [FileName -> Seq(Nat)] /\ disk'[0] = p /\ \A n \in FileName \ {0} : disk'[n] = disk[n]
  BY <1>1, <1>2, <1>3
<1>7. Sorted(disk, accepted)'
  <2>0. Sorted(disk, accepted)
    BY DEF LInv
  <2>1. \A n \in FileName : \A i \in 1..Len(disk'[n]) : disk'[n][i] \in 1..accepted'
    BY <1>1, <1>2, <1>3, <1>4, <2>0 DEF Sorted
  <2>2. \A i \in 1..Len(p) : p[i] = accepted + 1 - Len(p) + i
    <3>1. \A i \in 1..Len(q) : q[i] = accepted - Len(q) + i
      BY <2>0 DEF Sorted
    <3>2. \A i \in 1..Len(p) : i \in 1..Len(q) \/ i = Len(q) + 1
      BY <1>2, <1>3
    <3> SUFFICES ASSUME NEW i \in 1..Len(p) PROVE p[i] = accepted + 1 - Len(p) + i
      OBVIOUS
    <3>3. Len(p) = Len(q) + 1 /\ Len(q) \in Nat /\ accepted \in Nat
      BY <1>2, <1>3
    <3>4. CASE i \in 1..Len(q)
      <4>1. p[i] = accepted - Len(q) + i
        BY <1>3, <3>1, <3>4
      <4> QED BY ONLY <3>3, <3>4, <4>1
    <3>5. CASE i = Len(q) + 1
      <4>1. p[i] = accepted + 1
        BY <1>3, <3>5
      <4> QED BY ONLY <3>3, <3>5, <4>1
    <3> QED BY <3>2, <3>4, <3>5
  <2>3. \A n \in FileName : \A i, j \in 1..Len(disk'[n]) : i < j => disk'[n][i] < disk'[n][j]
    <3> SUFFICES ASSUME NEW n \in FileName, NEW i \in 1..Len(disk'[n]), NEW j \in 1..Len(disk'[n]), i < j
                 PROVE  disk'[n][i] < disk'[n][j]
      OBVIOUS
    <3>1. CASE n = 0
      <4>1. i \in 1..Len(p) /\ j \in 1..Len(p) /\ Len(p) \in Nat
        BY <1>2, <1>3, <1>4, <3>1
      <4>2. p[i] = accepted + 1 - Len(p) + i /\ p[j] = accepted + 1 - Len(p) + j
        BY <2>2, <4>1
      <4>3. p[i] < p[j]
        BY <1>2, <4>1, <4>2
      <4> QED BY <1>4, <3>1, <4>3
    <3>2. CASE n # 0
      BY <1>4, <2>0, <3>2 DEF Sorted
    <3> QED BY <3>1, <3>2
  <2>4. \A m, n \in FileName : n < m =>
           \A j \in 1..Len(disk'[m]), k \in 1..Len(disk'[n]) : disk'[m][j] < disk'[n][k]
    <3> SUFFICES ASSUME NEW m \in FileName, NEW n \in FileName, n < m,
                        NEW j \in 1..Len(disk'[m]), NEW k \in 1..Len(disk'[n])
                 PROVE  disk'[m][j] < disk'[n][k]
      OBVIOUS
    <3>1. m # 0 /\ disk'[m] = disk[m]
      BY <1>2, <1>4 DEF FileName
    <3>2. disk[m][j] \in 1..accepted
      BY <2>0, <3>1 DEF Sorted
    <3>3. CASE n # 0
      BY <1>4, <2>0, <3>1, <3>3 DEF Sorted
    <3>4. CASE n = 0 /\ k \in 1..Len(q)
      BY <1>3, <1>4, <2>0, <3>1, <3>4 DEF Sorted
    <3>5. CASE n = 0 /\ k \notin 1..Len(q)
      <4>1. k = Len(q) + 1 /\ disk'[n][k] = accepted + 1
        BY <1>2, <1>3, <1>4, <3>5
      <4> QED BY <1>2, <3>1, <3>2, <4>1
    <3> QED BY <3>3, <3>4, <3>5
  <2>5. \A i \in 1..Len(disk'[0]) : disk'[0][i] = accepted' - Len(disk'[0]) + i
    <3>1. disk'[0] = p /\ accepted' = accepted + 1
      BY <1>1, <1>4
    <3> SUFFICES ASSUME NEW i \in 1..Len(disk'[0]) PROVE disk'[0][i] = accepted' - Len(disk'[0]) + i
      OBVIOUS
    <3>2. i \in 1..Len(p)
      BY <3>1
    <3>3. p[i] = accepted + 1 - Len(p) + i
      BY <2>2, <3>2
    <3>4. disk'[0][i] = p[i] /\ Len(disk'[0]) = Len(p)
      BY <3>1
    <3>5. Len(p) \in Nat /\ accepted \in Nat
      BY <1>2, <1>3
    <3>6. accepted' - Len(disk'[0]) + i = accepted + 1 - Len(p) + i
      BY ONLY <3>1, <3>4, <3>5
    <3> QED BY <3>3, <3>4, <3>6
  <2>6. Sorted(disk', accepted')
    BY <2>1, <2>3, <2>4, <2>5 DEF Sorted
  <2> QED BY <2>6 DEF Sorted
<1> QED BY <1>1, <1>2, <1>4, <1>7

(* A record is appended to the active file.                                 *)
LEMMA LogWrites ==
    ASSUME LInv, Log!WriteLine
    PROVE  LInv'
<1> DEFINE q == disk[0]
           p == Append(q, accepted + 1)
<1>1. /\ step = "write" /\ size >= 0 /\ disk' = [disk EXCEPT ![0] = p]
      /\ size' = size + 1 /\ accepted' = accepted + 1 /\ step' = "receive" /\ record' = FALSE
      /\ UNCHANGED <<got, shift, lost, torn, doomed, passes, failures, crossed>>
  BY DEF Log!WriteLine, Log!bus
<1>2. /\ MaxFiles \in Nat /\ 0 \in FileName /\ disk \in [FileName -> Seq(Nat)] /\ accepted \in Nat /\ accepted + 1 \in Nat
      /\ q \in Seq(Nat) /\ Len(q) \in Nat /\ \A n \in FileName : Len(disk[n]) \in Nat
  BY LimitAssumption DEF LInv, LogType, FileName
<1>3. /\ p \in Seq(Nat) /\ Len(p) = Len(q) + 1 /\ p[Len(q) + 1] = accepted + 1 /\ p # <<>>
      /\ \A i \in 1..Len(q) : p[i] = q[i]
      /\ In(p, accepted + 1) /\ \A k : In(q, k) => In(p, k)
      /\ \A k : In(p, k) => k = accepted + 1 \/ In(q, k)
  BY <1>2, Written
<1> HIDE DEF p
<1>4. /\ disk' \in [FileName -> Seq(Nat)] /\ disk'[0] = p /\ \A n \in FileName \ {0} : disk'[n] = disk[n]
  BY <1>1, <1>2, <1>3
<1>5. LogType'
  BY <1>1, <1>2, <1>4 DEF LInv, LogType
<1>6. InHand' /\ FilesRead'
  <2>1. size = Len(q)
    BY <1>1 DEF LInv, FilesRead
  <2>2. size' = Len(disk'[0])
    BY <1>1, <1>3, <1>4, <2>1
  <2> QED BY <1>1, <2>2 DEF InHand, FilesRead
<1>7. Sorted(disk, accepted)'
  BY <1>1, LogGrows DEF p
<1>8. NoGap'
  <2> SUFFICES ASSUME failures = 0, ~crossed PROVE Unbroken(disk', doomed, accepted')
    BY <1>1 DEF NoGap
  <2>1. Unbroken(disk, doomed, accepted) /\ doomed \subseteq 1..MaxFiles
    BY DEF LInv, NoGap, LogType
  <2>2. 0 \in FileName \ doomed
    BY <1>2, <2>1
  <2> SUFFICES ASSUME NEW n \in FileName \ doomed, NEW k \in 1..accepted', NEW j \in 1..accepted',
                      In(disk'[n], k), k <= j
               PROVE  \E m \in FileName \ doomed : In(disk'[m], j)
    BY DEF Unbroken
  <2>3. CASE j = accepted + 1
    BY <1>3, <1>4, <2>2, <2>3
  <2>4. CASE j # accepted + 1
    <3>1. j \in 1..accepted /\ k \in 1..accepted
      BY <1>1, <1>2, <2>4
    <3>2. In(disk[n], k)
      <4>1. CASE n = 0
        BY <1>2, <1>3, <1>4, <3>1, <4>1
      <4>2. CASE n # 0
        BY <1>4, <4>2
      <4> QED BY <4>1, <4>2
    <3>3. PICK m \in FileName \ doomed : In(disk[m], j)
      BY <2>1, <3>1, <3>2 DEF Unbroken
    <3>4. In(disk'[m], j)
      BY <1>3, <1>4, <3>3
    <3> QED BY <3>4
  <2> QED BY <2>3, <2>4
<1>9. Full'
  <2> SUFFICES ASSUME failures = 0, passes = 0
               PROVE  /\ ~crossed /\ doomed = {} /\ disk'[0] # <<>>
                      /\ Filled(disk', accepted')
    BY <1>1 DEF Full, Shifted
  <2>1. ~crossed /\ doomed = {} /\ Filled(disk, accepted)
    BY <1>1 DEF LInv, Full, Shifted
  <2>2. ASSUME NEW n \in 1..MaxFiles
        PROVE  /\ disk'[n] # <<>> => disk'[n][1] + Len(disk'[0]) + n * MaxSize <= accepted' + 1
               /\ disk'[n] = <<>> => \A j \in 1..accepted' : \E m \in 0..n - 1 : In(disk'[m], j)
    <3>1. n \in FileName \ {0} /\ disk'[n] = disk[n] /\ disk[n] \in Seq(Nat) /\ n * MaxSize \in Nat
      BY <1>2, <1>4, LimitAssumption DEF FileName
    <3>2. disk'[n] # <<>> => disk'[n][1] + Len(disk'[0]) + n * MaxSize <= accepted' + 1
      <4> SUFFICES ASSUME disk[n] # <<>> PROVE disk[n][1] + Len(p) + n * MaxSize <= accepted' + 1
        BY <1>4, <3>1
      <4>1. disk[n][1] \in Nat
        BY <3>1
      <4>2. disk[n][1] + Len(q) + n * MaxSize <= accepted + 1
        BY <2>1 DEF Filled
      <4> DEFINE z == n * MaxSize
      <4> HIDE DEF z
      <4>3. z \in Nat /\ disk[n][1] + Len(q) + z <= accepted + 1
        BY <3>1, <4>2 DEF z
      <4>4. disk[n][1] + Len(p) + z <= accepted' + 1
        BY <1>1, <1>2, <1>3, <4>1, <4>3
      <4> QED BY <4>4 DEF z
    <3>3. ASSUME disk'[n] = <<>>, NEW j \in 1..accepted' PROVE \E m \in 0..n - 1 : In(disk'[m], j)
      <4>0. 0 \in 0..n - 1 /\ 0..n - 1 \subseteq FileName
        BY <1>2, <3>1 DEF FileName
      <4>1. CASE j = accepted + 1
        BY <1>3, <1>4, <4>0, <4>1
      <4>2. CASE j # accepted + 1
        <5>1. j \in 1..accepted
          BY <1>1, <1>2, <4>2
        <5>2. PICK m \in 0..n - 1 : In(disk[m], j)
          BY <2>1, <3>1, <3>3, <5>1 DEF Filled
        <5> QED BY <1>3, <1>4, <4>0, <5>2
      <4> QED BY <4>1, <4>2
    <3> QED BY <3>2, <3>3
  <2>3. Filled(disk', accepted')
    BY <2>2 DEF Filled
  <2> QED BY <1>3, <1>4, <2>1, <2>3
<1> QED BY <1>5, <1>6, <1>7, <1>8, <1>9 DEF LInv

(* A write that leaves a part of the record behind.                         *)
LEMMA LogTears ==
    ASSUME LInv, Log!WriteTears
    PROVE  LInv'
<1>1. /\ step = "write" /\ disk' = [disk EXCEPT ![0] = Append(disk[0], accepted + 1)]
      /\ accepted' = accepted + 1 /\ torn' = torn \cup {accepted + 1} /\ lost' = lost + 1
      /\ failures' = failures + 1 /\ size' = -1 /\ step' = "receive" /\ record' = FALSE
      /\ UNCHANGED <<got, doomed, passes, crossed>>
  BY DEF Log!WriteTears, Log!Fails, Log!bus
<1>2. LogType
  BY DEF LInv
<1>3. failures' \in Nat /\ failures' # 0 /\ lost' \in Nat
  BY <1>1, <1>2 DEF LogType
<1>4. disk' \in [FileName -> Seq(Nat)] /\ accepted' \in Nat /\ Sorted(disk, accepted)'
  BY <1>1, LogGrows
<1>5. /\ IsFiniteSet(torn') /\ torn' \subseteq 1..accepted'
      /\ Cardinality(torn') = Cardinality(torn) + 1 /\ Cardinality(torn) \in Nat
  <2>1. accepted \in Nat /\ torn \subseteq 1..accepted /\ IsFiniteSet(torn) /\ accepted + 1 \notin torn
    BY <1>2 DEF LogType
  <2>2. 1..accepted \cup {accepted + 1} \subseteq 1..accepted'
    BY <1>1, <2>1
  <2>3. torn' \subseteq 1..accepted'
    BY <1>1, <2>1, <2>2
  <2>4. Cardinality(torn) \in Nat
    BY <2>1, FS_CardinalityType
  <2> QED BY <1>1, <2>1, <2>3, <2>4, FS_AddElement
<1>6. got'[Logger] + Cardinality(torn') = accepted' + lost' + IF step' = "receive" THEN 0 ELSE 1
  <2> DEFINE c == Cardinality(torn)
             d == Cardinality(torn')
  <2>1. got[Logger] + c = accepted + lost + 1 /\ d = c + 1 /\ c \in Nat /\ accepted \in Nat /\ lost \in Nat
    BY <1>1, <1>2, <1>5 DEF LogType
  <2>2. got'[Logger] = got[Logger] /\ got[Logger] \in Nat
    BY <1>1, <1>2 DEF LogType
  <2> HIDE DEF c, d
  <2>3. got'[Logger] + d = accepted' + lost' + 0
    BY <1>1, <2>1, <2>2
  <2> QED BY <1>1, <2>3 DEF d
<1>7. LogType'
  BY <1>1, <1>2, <1>3, <1>4, <1>5, <1>6 DEF LogType
<1>8. InHand' /\ FilesRead' /\ NoGap' /\ Full'
  BY <1>1, <1>3 DEF InHand, FilesRead, NoGap, Full
<1> QED BY <1>4, <1>7, <1>8 DEF LInv

(* The oldest file is dropped and the rotation begins.                      *)
LEMMA LogRotates ==
    ASSUME LInv, Log!BeginRotate
    PROVE  LInv'
<1> DEFINE M == MaxFiles
           q == disk[0]
<1>1. /\ step = "write" /\ Log!MustRotate /\ size' = -1
      /\ step' = (IF M = 0 THEN "write" ELSE "rotate")
      /\ disk' = [disk EXCEPT ![M] = <<>>] /\ shift' = (IF M = 0 THEN 0 ELSE M - 1)
      /\ crossed' = (crossed \/ doomed # {})
      /\ UNCHANGED <<got, record, lost, accepted, torn, doomed, passes, failures>>
  BY DEF Log!BeginRotate, Log!bus
<1>2. /\ M \in Nat /\ MaxSize \in Nat /\ 0 \in FileName /\ M \in FileName /\ accepted \in Nat
      /\ disk \in [FileName -> Seq(Nat)] /\ \A n \in FileName : Len(disk[n]) \in Nat /\ disk[n] \in Seq(Nat)
      /\ <<>> \in Seq(Nat) /\ Len(<<>>) = 0
  BY LimitAssumption DEF LInv, LogType, FileName
<1>3. /\ disk' \in [FileName -> Seq(Nat)] /\ disk'[M] = <<>> /\ \A n \in FileName \ {M} : disk'[n] = disk[n]
  BY <1>1, <1>2
<1>4. /\ size = Len(q) /\ Len(q) > 0 /\ Len(q) >= MaxSize /\ q # <<>>
  <2>1. size > 0 /\ size + 1 > MaxSize
    BY <1>1 DEF Log!MustRotate
  <2>2. size = Len(q)
    BY <2>1 DEF LInv, FilesRead
  <2> QED BY <1>2, <2>1, <2>2
<1>5. LogType'
  <2>1. crossed' \in BOOLEAN
    BY <1>1
  <2>2. step' \in {"write", "rotate"}
    BY <1>1
  <2> QED BY <1>1, <1>3, <2>1, <2>2 DEF LInv, LogType
<1>6. InHand' /\ FilesRead'
  <2>1. InHand'
    BY <1>1 DEF LInv, InHand
  <2>2. step' = "rotate" => shift' \in 0..M - 1 /\ disk'[shift' + 1] = <<>>
    <3> SUFFICES ASSUME step' = "rotate" PROVE shift' \in 0..M - 1 /\ disk'[shift' + 1] = <<>>
      OBVIOUS
    <3>1. M # 0 /\ shift' = M - 1
      BY <1>1
    <3>2. shift' + 1 = M /\ shift' \in 0..M - 1
      BY <1>2, <3>1
    <3> QED BY <1>3, <3>2
  <2> QED BY <1>1, <2>1, <2>2 DEF FilesRead
<1>7. Sorted(disk, accepted)'
  <2>0. Sorted(disk, accepted)
    BY DEF LInv
  <2>1. \A n \in FileName : disk'[n] = disk[n] \/ Len(disk'[n]) = 0
    BY <1>2, <1>3
  <2>2. \A n \in FileName : \A i \in 1..Len(disk'[n]) : disk'[n] = disk[n]
    BY <2>1
  <2>3. Sorted(disk', accepted)
    BY <1>2, <2>0, <2>2 DEF Sorted
  <2> QED BY <1>1, <2>3 DEF Sorted
<1>8. NoGap'
  <2> SUFFICES ASSUME failures = 0, ~crossed, doomed = {} PROVE Unbroken(disk', {}, accepted)
    BY <1>1 DEF NoGap
  <2>1. Unbroken(disk, {}, accepted) /\ Sorted(disk, accepted)
    BY DEF LInv, NoGap
  <2> SUFFICES ASSUME NEW n \in FileName, NEW k \in 1..accepted, NEW j \in 1..accepted,
                      In(disk'[n], k), k <= j
               PROVE  \E m \in FileName : In(disk'[m], j)
    BY DEF Unbroken
  <2>2. n # M /\ In(disk[n], k)
    BY <1>2, <1>3 DEF In
  <2>3. PICK m \in FileName : In(disk[m], j)
    BY <2>1, <2>2 DEF Unbroken
  <2>4. m # M
    <3> SUFFICES ASSUME m = M PROVE FALSE
      OBVIOUS
    <3>1. n < m
      BY <1>2, <2>2 DEF FileName
    <3>2. j < k
      BY <2>1, <2>2, <2>3, <3>1 DEF Sorted, In
    <3> QED BY <3>2
  <2> QED BY <1>3, <2>3, <2>4
<1>9. Full'
  <2> DEFINE v == Shifted(disk', step', shift')
  <2> SUFFICES ASSUME failures = 0, passes = 0
               PROVE  /\ ~crossed' /\ doomed' = {} /\ step' # "receive"
                      /\ Filled(v, accepted)
    BY <1>1 DEF Full, Shifted
  <2>1. ~crossed /\ doomed = {} /\ Filled(disk, accepted)
    BY <1>1 DEF LInv, Full, Shifted
  <2>2. ASSUME NEW n \in 1..M PROVE v[n] = disk[n - 1] /\ n - 1 \in FileName
    <3>1. M # 0 /\ step' = "rotate" /\ shift' = M - 1 /\ n # 0 /\ n <= shift' + 1 /\ n \in FileName
          /\ n - 1 \in FileName /\ n - 1 # M
      BY <1>1, <1>2 DEF FileName
    <3>2. v[n] = disk'[n - 1]
      BY <3>1 DEF Shifted
    <3> QED BY <1>3, <3>1, <3>2
  <2>3. ASSUME M # 0 PROVE v[0] = <<>>
    <3>1. step' = "rotate"
      BY <1>1, <2>3
    <3> QED BY <1>2, <3>1 DEF Shifted
  <2> HIDE DEF v
  <2>4. ASSUME NEW n \in 1..M
        PROVE  /\ v[n] # <<>> => v[n][1] + Len(v[0]) + n * MaxSize <= accepted + 1
               /\ v[n] = <<>> => \A j \in 1..accepted : \E m \in 0..n - 1 : In(v[m], j)
    <3>0. Len(v[0]) = 0 /\ n \in Nat
      BY <1>2, <2>3
    <3>1. CASE n = 1
      <4>1. v[n] = q
        BY <2>2, <3>1
      <4>2. q[1] = accepted - Len(q) + 1
        BY <1>2, <1>4 DEF LInv, Sorted
      <4>3. n * MaxSize = MaxSize
        BY <1>2, <3>1
      <4>4. q[1] + 0 + MaxSize <= accepted + 1
        BY <1>2, <1>4, <4>2
      <4> QED BY <1>4, <3>0, <4>1, <4>3, <4>4
    <3>2. CASE n # 1
      <4>1. n - 1 \in 1..M /\ v[n] = disk[n - 1] /\ disk[n - 1] \in Seq(Nat)
        <5>1. n - 1 \in 1..M
          BY <1>2, <3>2
        <5>2. v[n] = disk[n - 1] /\ n - 1 \in FileName
          BY <2>2
        <5> QED BY <1>2, <5>1, <5>2
      <4>2. CASE v[n] # <<>>
        <5> DEFINE z == (n - 1) * MaxSize
                   f == disk[n - 1][1]
        <5>1. n * MaxSize = z + MaxSize /\ z \in Nat
          BY <1>2, <3>0, <4>1
        <5>2. f + Len(q) + z <= accepted + 1
          BY <2>1, <4>1, <4>2 DEF Filled
        <5>3. f \in Nat
          BY <4>1, <4>2
        <5> HIDE DEF z, f
        <5>4. f + 0 + (z + MaxSize) <= accepted + 1
          BY <1>2, <1>4, <5>1, <5>2, <5>3
        <5> QED BY <3>0, <4>1, <4>2, <5>1, <5>4 DEF f
      <4>3. CASE v[n] = <<>>
        <5> SUFFICES ASSUME NEW j \in 1..accepted PROVE \E m \in 0..n - 1 : In(v[m], j)
          BY <4>3
        <5>1. PICK m \in 0..(n - 1) - 1 : In(disk[m], j)
          BY <2>1, <4>1, <4>3 DEF Filled
        <5>2. m + 1 \in 1..M /\ m + 1 \in 0..n - 1 /\ (m + 1) - 1 = m
          BY <1>2, <4>1
        <5>3. v[m + 1] = disk[m]
          BY <2>2, <5>2
        <5> QED BY <5>1, <5>2, <5>3
      <4> QED BY <4>2, <4>3
    <3> QED BY <3>1, <3>2
  <2>5. Filled(v, accepted)
    BY <2>4 DEF Filled
  <2>6. step' # "receive"
    BY <1>1
  <2>7. ~crossed' /\ doomed' = {}
    BY <1>1, <2>1
  <2> QED BY <2>5, <2>6, <2>7
<1> QED BY <1>5, <1>6, <1>7, <1>8, <1>9 DEF LInv

(* A file takes the next name.                                              *)
LEMMA LogMoves ==
    ASSUME LInv, Log!RotateStep
    PROVE  LInv'
<1> DEFINE M == MaxFiles
           h == shift
<1>1. /\ step = "rotate" /\ step' = (IF h = 0 THEN "write" ELSE "rotate")
      /\ shift' = (IF h = 0 THEN 0 ELSE h - 1)
      /\ disk' = [disk EXCEPT ![h + 1] = IF disk[h] = <<>> THEN @ ELSE disk[h], ![h] = <<>>]
      /\ UNCHANGED <<got, size, record, lost, accepted, torn, doomed, passes, failures, crossed>>
  BY DEF Log!RotateStep, Log!Moved, Log!bus
<1>2. /\ M \in Nat /\ MaxSize \in Nat /\ 0 \in FileName /\ accepted \in Nat /\ step' # "receive"
      /\ disk \in [FileName -> Seq(Nat)] /\ \A n \in FileName : Len(disk[n]) \in Nat /\ disk[n] \in Seq(Nat)
      /\ <<>> \in Seq(Nat) /\ Len(<<>>) = 0 /\ h \in 0..M - 1 /\ disk[h + 1] = <<>> /\ size = -1
      /\ h \in FileName /\ h + 1 \in FileName /\ h # h + 1
  <2>1. h \in 0..M - 1 /\ disk[h + 1] = <<>> /\ size = -1
    BY <1>1 DEF LInv, FilesRead
  <2>2. M \in Nat /\ MaxSize \in Nat
    BY LimitAssumption
  <2>3. h \in FileName /\ h + 1 \in FileName /\ h # h + 1 /\ 0 \in FileName
    BY <2>1, <2>2 DEF FileName
  <2>4. /\ disk \in [FileName -> Seq(Nat)] /\ accepted \in Nat
    BY DEF LInv, LogType
  <2>5. step' # "receive"
    BY <1>1
  <2> QED BY <2>1, <2>2, <2>3, <2>4, <2>5
<1>3. /\ disk' \in [FileName -> Seq(Nat)] /\ disk'[h] = <<>> /\ disk'[h + 1] = disk[h]
      /\ \A n \in FileName : n # h /\ n # h + 1 => disk'[n] = disk[n]
  <2> DEFINE x == IF disk[h] = <<>> THEN disk[h + 1] ELSE disk[h]
             d == [disk EXCEPT ![h + 1] = x]
  <2>1. x = disk[h]
    BY <1>2
  <2>2. disk' = [d EXCEPT ![h] = <<>>]
    BY <1>1
  <2> HIDE DEF x
  <2>3. d \in [FileName -> Seq(Nat)] /\ d[h + 1] = disk[h] /\ \A n \in FileName : n # h + 1 => d[n] = disk[n]
    BY <1>2, <2>1
  <2> HIDE DEF d
  <2> QED BY <1>2, <2>2, <2>3
<1>4. ASSUME NEW n \in FileName
      PROVE  /\ n = h => disk'[n] = <<>>
             /\ n # h => \E m \in FileName : disk'[n] = disk[m] /\ (m = n \/ (m = h /\ n = h + 1))
  BY <1>2, <1>3
<1>5. LogType'
  BY <1>1, <1>2, <1>3 DEF LInv, LogType
<1>6. InHand' /\ FilesRead'
  <2>1. InHand'
    BY <1>1 DEF LInv, InHand
  <2>2. step' = "rotate" => shift' \in 0..M - 1 /\ disk'[shift' + 1] = <<>>
    <3> SUFFICES ASSUME step' = "rotate" PROVE shift' \in 0..M - 1 /\ disk'[shift' + 1] = <<>>
      OBVIOUS
    <3>1. h # 0 /\ shift' = h - 1
      BY <1>1
    <3>2. shift' + 1 = h /\ shift' \in 0..M - 1
      BY <1>2, <3>1
    <3> QED BY <1>3, <3>2
  <2> QED BY <1>1, <1>2, <2>1, <2>2 DEF FilesRead
<1>7. Sorted(disk, accepted)'
  <2>0. Sorted(disk, accepted)
    BY DEF LInv
  <2> DEFINE from(n) == IF n = h + 1 THEN h ELSE n
  <2>1. \A n \in FileName : /\ Len(disk'[n]) > 0 => n # h /\ disk'[n] = disk[from(n)]
                            /\ from(n) \in FileName
    BY <1>2, <1>3
  <2>2. \A m, n \in FileName : n < m /\ n # h => from(n) < from(m)
    BY <1>2 DEF FileName
  <2>3. \A n \in FileName : Len(disk'[n]) \in Nat
    BY <1>3
  <2> HIDE DEF from
  <2>4. \A n \in FileName : \A i \in 1..Len(disk'[n]) : disk'[n][i] \in 1..accepted
    BY <2>0, <2>1, <2>3 DEF Sorted
  <2>5. \A n \in FileName : \A i, j \in 1..Len(disk'[n]) : i < j => disk'[n][i] < disk'[n][j]
    BY <2>0, <2>1, <2>3 DEF Sorted
  <2>6. \A m, n \in FileName : n < m =>
           \A j \in 1..Len(disk'[m]), k \in 1..Len(disk'[n]) : disk'[m][j] < disk'[n][k]
    <3> SUFFICES ASSUME NEW m \in FileName, NEW n \in FileName, n < m,
                        NEW j \in 1..Len(disk'[m]), NEW k \in 1..Len(disk'[n])
                 PROVE  disk'[m][j] < disk'[n][k]
      OBVIOUS
    <3>1. Len(disk'[m]) > 0 /\ Len(disk'[n]) > 0
      BY <2>3
    <3>2. /\ n # h /\ disk'[n] = disk[from(n)] /\ from(n) \in FileName
          /\ disk'[m] = disk[from(m)] /\ from(m) \in FileName
      BY <2>1, <3>1
    <3>3. from(n) < from(m)
      BY <2>2, <3>2
    <3> QED BY <2>0, <3>2, <3>3 DEF Sorted
  <2>7. \A i \in 1..Len(disk'[0]) : disk'[0][i] = accepted - Len(disk'[0]) + i
    <3>1. CASE h = 0
      BY <1>2, <1>3, <3>1
    <3>2. CASE h # 0
      <4>1. disk'[0] = disk[0]
        BY <1>2, <1>3, <3>2
      <4> QED BY <2>0, <4>1 DEF Sorted
    <3> QED BY <3>1, <3>2
  <2>8. Sorted(disk', accepted)
    BY <2>4, <2>5, <2>6, <2>7 DEF Sorted
  <2> QED BY <1>1, <2>8 DEF Sorted
<1>8. NoGap'
  <2> SUFFICES ASSUME failures = 0, ~crossed
               PROVE  doomed = {} /\ Unbroken(disk', {}, accepted)
    BY <1>1 DEF NoGap
  <2>1. Unbroken(disk, {}, accepted) /\ doomed = {}
    BY <1>1 DEF LInv, NoGap
  <2> SUFFICES ASSUME NEW n \in FileName, NEW k \in 1..accepted, NEW j \in 1..accepted,
                      In(disk'[n], k), k <= j
               PROVE  \E m \in FileName : In(disk'[m], j)
    BY <2>1 DEF Unbroken
  <2>2. n # h
    BY <1>2, <1>3 DEF In
  <2>3. PICK m \in FileName : disk'[n] = disk[m]
    BY <1>4, <2>2
  <2>4. PICK o \in FileName : In(disk[o], j)
    BY <2>1, <2>3 DEF Unbroken
  <2>5. o # h + 1
    BY <1>2, <2>4 DEF In
  <2>6. CASE o = h
    BY <1>2, <1>3, <2>4, <2>6
  <2>7. CASE o # h
    BY <1>3, <2>4, <2>5, <2>7
  <2> QED BY <2>6, <2>7
<1>9. Full'
  <2> DEFINE v == Shifted(disk, step, shift)
             w == Shifted(disk', step', shift')
  <2>1. v = [n \in FileName |-> IF n = 0 THEN <<>> ELSE IF n <= h + 1 THEN disk[n - 1] ELSE disk[n]]
    BY <1>1 DEF Shifted
  <2>2. w = v
    <3>1. CASE h = 0
      <4>1. w = disk'
        BY <1>1, <3>1 DEF Shifted
      <4>2. \A n \in FileName : disk'[n] = v[n]
        <5> HIDE DEF v
        <5>1. disk'[0] = <<>> /\ disk'[1] = disk[0] /\ 1 \in FileName /\ \A n \in FileName : n # 0 /\ n # 1 => disk'[n] = disk[n]
          BY <1>2, <1>3, <3>1
        <5>2. \A n \in FileName : n # 0 /\ n # 1 => ~(n <= h + 1)
          BY <3>1 DEF FileName
        <5>3. v[0] = <<>> /\ v[1] = disk[0]
          BY <1>2, <2>1, <3>1, <5>1
        <5>4. \A n \in FileName : n # 0 /\ n # 1 => v[n] = disk[n]
          BY <2>1, <5>2
        <5> QED BY <5>1, <5>3, <5>4
      <4> HIDE DEF v
      <4> QED BY <1>3, <2>1, <4>1, <4>2
    <3>2. CASE h # 0
      <4>1. w = [n \in FileName |-> IF n = 0 THEN <<>> ELSE IF n <= (h - 1) + 1 THEN disk'[n - 1] ELSE disk'[n]]
        BY <1>1, <3>2 DEF Shifted
      <4> HIDE DEF v, w
      <4>2. ASSUME NEW n \in FileName PROVE w[n] = v[n]
        <5>0. (h - 1) + 1 = h /\ n \in Nat /\ h \in Nat
          BY <1>2 DEF FileName
        <5>1. CASE n = 0
          BY <2>1, <4>1, <5>1
        <5>2. CASE n # 0 /\ n <= h
          <6>1. n - 1 \in FileName /\ n - 1 # h /\ n - 1 # h + 1 /\ n <= h + 1
            BY <1>2, <5>0, <5>2 DEF FileName
          <6>2. w[n] = disk'[n - 1] /\ v[n] = disk[n - 1]
            BY <2>1, <4>1, <5>0, <5>2, <6>1
          <6> QED BY <1>3, <6>1, <6>2
        <5>3. CASE n = h + 1
          <6>1. ~(n <= h) /\ n # 0 /\ n <= h + 1 /\ n - 1 = h
            BY <5>0, <5>3
          <6>2. w[n] = disk'[n] /\ v[n] = disk[n - 1]
            BY <2>1, <4>1, <5>0, <6>1
          <6> QED BY <1>3, <5>3, <6>1, <6>2
        <5>4. CASE n > h + 1
          <6>1. ~(n <= h) /\ n # 0 /\ ~(n <= h + 1) /\ n # h /\ n # h + 1
            BY <5>0, <5>4
          <6>2. w[n] = disk'[n] /\ v[n] = disk[n]
            BY <2>1, <4>1, <5>0, <6>1
          <6> QED BY <1>3, <6>1, <6>2
        <5> QED BY <5>0, <5>1, <5>2, <5>3, <5>4
      <4> QED BY <2>1, <4>1, <4>2
    <3> QED BY <3>1, <3>2
  <2> HIDE DEF v
  <2>3. failures = 0 /\ passes = 0 => ~crossed /\ doomed = {} /\ Filled(v, accepted)
    BY DEF LInv, Full, v
  <2>4. failures = 0 /\ passes = 0 => Filled(w, accepted)
    BY <2>2, <2>3
  <2> QED BY <1>1, <1>2, <2>3, <2>4 DEF Full
<1> QED BY <1>5, <1>6, <1>7, <1>8, <1>9 DEF LInv

(* The cleanup removes a file it has listed.                                *)
LEMMA LogRemoves ==
    ASSUME LInv, Log!RemoveEntry
    PROVE  LInv'
<1>1. PICK n \in doomed : disk' = [disk EXCEPT ![n] = <<>>] /\ doomed' = doomed \ {n}
  BY DEF Log!RemoveEntry
<1>2. UNCHANGED <<got, size, step, shift, record, lost, accepted, torn, passes, failures, crossed>>
  BY DEF Log!RemoveEntry, Log!bus
<1>3. /\ MaxFiles \in Nat /\ n \in 1..MaxFiles /\ n \in FileName /\ n # 0 /\ 0 \in FileName
      /\ disk \in [FileName -> Seq(Nat)] /\ doomed \subseteq 1..MaxFiles
      /\ <<>> \in Seq(Nat) /\ Len(<<>>) = 0
  BY LimitAssumption DEF LInv, LogType, FileName
<1>4. /\ disk' \in [FileName -> Seq(Nat)] /\ disk'[n] = <<>> /\ \A m \in FileName \ {n} : disk'[m] = disk[m]
  BY <1>1, <1>3
<1>5. LogType'
  BY <1>1, <1>2, <1>3, <1>4 DEF LInv, LogType
<1>6. InHand' /\ FilesRead'
  <2>1. InHand'
    BY <1>2 DEF LInv, InHand
  <2>2. size' = -1 \/ (size' = Len(disk'[0]) /\ step' # "rotate")
    BY <1>2, <1>3, <1>4 DEF LInv, FilesRead
  <2>3. step' = "rotate" => shift' \in 0..MaxFiles - 1 /\ disk'[shift' + 1] = <<>>
    <3> SUFFICES ASSUME step = "rotate" PROVE shift \in 0..MaxFiles - 1 /\ disk'[shift + 1] = <<>>
      BY <1>2
    <3>1. shift \in 0..MaxFiles - 1 /\ disk[shift + 1] = <<>>
      BY DEF LInv, FilesRead
    <3>2. shift + 1 \in FileName
      BY <1>3, <3>1 DEF FileName
    <3> QED BY <1>4, <3>1, <3>2
  <2> QED BY <2>1, <2>2, <2>3 DEF FilesRead
<1>7. Sorted(disk, accepted)'
  <2>0. Sorted(disk, accepted)
    BY DEF LInv
  <2>1. \A m \in FileName : \A i \in 1..Len(disk'[m]) : disk'[m] = disk[m]
    BY <1>3, <1>4
  <2>2. disk'[0] = disk[0]
    BY <1>3, <1>4
  <2>3. Sorted(disk', accepted)
    BY <2>0, <2>1, <2>2 DEF Sorted
  <2> QED BY <1>2, <2>3 DEF Sorted
<1>8. NoGap'
  <2> SUFFICES ASSUME failures = 0, ~crossed
               PROVE  step # "rotate" /\ Unbroken(disk', doomed', accepted)
    BY <1>2 DEF NoGap
  <2>1. Unbroken(disk, doomed, accepted) /\ step # "rotate"
    BY <1>1 DEF LInv, NoGap
  <2> SUFFICES ASSUME NEW m \in FileName \ doomed', NEW k \in 1..accepted, NEW j \in 1..accepted,
                      In(disk'[m], k), k <= j
               PROVE  \E o \in FileName \ doomed' : In(disk'[o], j)
    BY <2>1 DEF Unbroken
  <2>2. m # n
    BY <1>3, <1>4 DEF In
  <2>3. m \in FileName \ doomed /\ In(disk[m], k)
    BY <1>1, <1>4, <2>2
  <2>4. PICK o \in FileName \ doomed : In(disk[o], j)
    BY <2>1, <2>3 DEF Unbroken
  <2>5. o \in FileName \ doomed' /\ disk'[o] = disk[o]
    BY <1>1, <1>4, <2>4
  <2> QED BY <2>4, <2>5
<1>9. Full'
  <2>1. ~(failures = 0 /\ passes = 0)
    BY <1>1 DEF LInv, Full
  <2> QED BY <1>2, <2>1 DEF Full
<1> QED BY <1>5, <1>6, <1>7, <1>8, <1>9 DEF LInv

-----------------------------------------------------------------------------
(* What a cleanup pass lists.                                               *)

(* The age of a file is its last record.                                    *)
LEMMA AgeIs ==
    ASSUME LInv, NEW n \in Log!Rotated
    PROVE  /\ n \in 1..MaxFiles /\ n \in FileName /\ disk[n] # <<>> /\ Len(disk[n]) \in 1..Len(disk[n])
           /\ Log!Age(n) = disk[n][Len(disk[n])] /\ Log!Age(n) \in Nat /\ disk[n] \in Seq(Nat)
<1>1. n \in 1..MaxFiles /\ disk[n] # <<>> /\ MaxFiles \in Nat
  BY LimitAssumption DEF Log!Rotated
<1>2. n \in FileName
  BY <1>1 DEF FileName
<1>3. disk[n] \in Seq(Nat)
  BY <1>2 DEF LInv, LogType
<1>4. Len(disk[n]) \in 1..Len(disk[n])
  BY <1>1, <1>3
<1>5. Log!Age(n) = disk[n][Len(disk[n])]
  BY DEF Log!Age, Log!Last
<1>6. Log!Age(n) \in Nat
  BY <1>3, <1>4, <1>5
<1> QED BY <1>1, <1>2, <1>3, <1>4, <1>5, <1>6

(* A file under a higher name is older.                                     *)
LEMMA HigherIsOlder ==
    ASSUME LInv, NEW n \in Log!Rotated, NEW m \in Log!Rotated, n < m
    PROVE  Log!Age(m) < Log!Age(n)
BY AgeIs DEF LInv, Sorted

(* The bytes in the files left and the active one are as many as they have  *)
(* records: without a file there are no more.                               *)
LEMMA TotalShrinks ==
    ASSUME LInv, NEW L, NEW K, L \subseteq K, K \subseteq 1..MaxFiles
    PROVE  Log!Total(L) <= Log!Total(K) /\ Log!Total(L) \in Nat /\ Log!Total(K) \in Nat
<1> DEFINE Bytes(S) == UNION {{n} \X DOMAIN disk[n] : n \in S \cup {0}}
<1>0. MaxFiles \in Nat /\ disk \in [FileName -> Seq(Nat)]
  BY LimitAssumption DEF LInv, LogType
<1>1. K \cup {0} \subseteq FileName /\ IsFiniteSet(FileName)
  <2>1. K \cup {0} \subseteq FileName /\ 0 \in Int /\ MaxFiles \in Int
    BY <1>0 DEF FileName
  <2> QED BY <2>1, FS_Interval DEF FileName
<1>2. Bytes(L) \subseteq Bytes(K)
  OBVIOUS
<1>3. IsFiniteSet(Bytes(K))
  <2> DEFINE P == {{n} \X DOMAIN disk[n] : n \in K \cup {0}}
             f == [n \in K \cup {0} |-> {n} \X DOMAIN disk[n]]
  <2>1. IsFiniteSet(K \cup {0})
    BY <1>1, FS_Subset
  <2>2. IsFiniteSet(P)
    <3>1. f \in Surjection(K \cup {0}, P)
      BY DEF Surjection
    <3> QED BY <2>1, <3>1, FS_Surjection
  <2>3. \A x \in P : IsFiniteSet(x)
    <3> SUFFICES ASSUME NEW n \in K \cup {0} PROVE IsFiniteSet({n} \X DOMAIN disk[n])
      OBVIOUS
    <3>1. n \in FileName /\ disk[n] \in Seq(Nat)
      BY <1>0, <1>1
    <3>2. DOMAIN disk[n] = 1..Len(disk[n]) /\ Len(disk[n]) \in Nat
      BY <3>1
    <3>3. IsFiniteSet(DOMAIN disk[n])
      BY <3>2, FS_Interval
    <3>4. IsFiniteSet({n})
      BY FS_Singleton
    <3> QED BY <3>3, <3>4, FS_Product
  <2> QED BY <2>2, <2>3, FS_UNION
<1>4. Log!Total(L) = Cardinality(Bytes(L)) /\ Log!Total(K) = Cardinality(Bytes(K))
  BY DEF Log!Total, Log!Cardinality, Cardinality
<1> HIDE DEF Bytes
<1>5. Cardinality(Bytes(L)) <= Cardinality(Bytes(K)) /\ IsFiniteSet(Bytes(L))
  BY <1>2, <1>3, FS_Subset
<1>6. Cardinality(Bytes(L)) \in Nat /\ Cardinality(Bytes(K)) \in Nat
  BY <1>3, <1>5, FS_CardinalityType
<1> QED BY <1>4, <1>5, <1>6

(* With a file a pass lists every older one.                                *)
LEMMA OldestGo ==
    ASSUME LInv, NEW c \in Int, NEW n, NEW m \in Log!Rotated, n < m,
           n \in Log!Expired(c) \cup Log!OverCap(Log!Rotated \ Log!Expired(c))
    PROVE  m \in Log!Expired(c) \cup Log!OverCap(Log!Rotated \ Log!Expired(c))
<1> DEFINE L == Log!Rotated \ Log!Expired(c)
           Left(x) == L \ (Log!Older(x, L) \ {x})
<1>1. n \in Log!Rotated
  BY DEF Log!Expired, Log!OverCap
<1>2. Log!Age(m) < Log!Age(n) /\ Log!Age(m) \in Nat /\ Log!Age(n) \in Nat /\ n # m
  BY <1>1, HigherIsOlder, AgeIs
<1>3. CASE n \in Log!Expired(c)
  BY <1>2, <1>3 DEF Log!Expired
<1>4. CASE n \in Log!OverCap(L) /\ m \notin Log!Expired(c)
  <2>1. n \in L /\ m \in L
    BY <1>4 DEF Log!OverCap
  <2>2. Log!Total(Left(n)) > Cap
    BY <1>4 DEF Log!OverCap
  <2>3. \A x \in L : Log!Age(x) \in Nat
    BY AgeIs
  <2>4. Left(n) \subseteq Left(m)
    BY <1>2, <2>1, <2>3 DEF Log!Older
  <2>5. Left(m) \subseteq 1..MaxFiles
    BY DEF Log!Rotated
  <2> HIDE DEF Left
  <2>6. Log!Total(Left(n)) <= Log!Total(Left(m)) /\ Log!Total(Left(n)) \in Nat /\ Log!Total(Left(m)) \in Nat
    BY <2>4, <2>5, TotalShrinks
  <2>7. Log!Total(Left(m)) > Cap
    BY <2>2, <2>6, LimitAssumption
  <2> QED BY <2>1, <2>7 DEF Log!OverCap, Left
<1> QED BY <1>3, <1>4

(* A cleanup pass lists what it will remove.                                *)
LEMMA LogCollects ==
    ASSUME LInv, Log!Collect
    PROVE  LInv'
<1>1. PICK c \in 0..MaxMessage :
         doomed' = Log!Expired(c) \cup Log!OverCap(Log!Rotated \ Log!Expired(c))
  BY DEF Log!Collect
<1>2. /\ doomed = {} /\ passes' = passes + 1
      /\ crossed' = (crossed \/ (step = "rotate" /\ doomed' # {}))
      /\ UNCHANGED <<got, disk, size, step, shift, record, lost, accepted, torn, failures>>
  BY DEF Log!Collect, Log!bus
<1>3. doomed' \subseteq Log!Rotated
  BY <1>1 DEF Log!Expired, Log!OverCap
<1>4. LogType'
  <2>1. doomed' \subseteq 1..MaxFiles
    BY <1>3 DEF Log!Rotated
  <2>2. crossed' \in BOOLEAN
    BY <1>2
  <2> QED BY <1>2, <2>1, <2>2 DEF LInv, LogType
<1>5. InHand' /\ FilesRead' /\ Sorted(disk, accepted)'
  BY <1>2 DEF LInv, InHand, FilesRead
<1>6. Full'
  <2>1. passes' # 0
    BY <1>2 DEF LInv, LogType
  <2> QED BY <2>1 DEF Full
<1>7. NoGap'
  <2> SUFFICES ASSUME failures = 0, ~crossed, step = "rotate" => doomed' = {}
               PROVE  (doomed' # {} => step # "rotate") /\ Unbroken(disk, doomed', accepted)
    BY <1>2 DEF NoGap
  <2>1. Unbroken(disk, {}, accepted)
    BY <1>2 DEF LInv, NoGap
  <2> SUFFICES ASSUME NEW n \in FileName \ doomed', NEW k \in 1..accepted, NEW j \in 1..accepted,
                      In(disk[n], k), k <= j
               PROVE  \E m \in FileName \ doomed' : In(disk[m], j)
    BY DEF Unbroken
  <2>2. PICK m \in FileName : In(disk[m], j)
    BY <2>1 DEF Unbroken
  <2>3. m \notin doomed'
    <3> SUFFICES ASSUME m \in doomed' PROVE FALSE
      OBVIOUS
    <3>0. /\ m \in Nat /\ n \in Nat /\ m # n
      BY LimitAssumption DEF FileName
    <3>1. CASE n < m
      BY <2>2, <3>1 DEF LInv, Sorted, In
    <3>2. CASE m < n
      <4>1. n \in 1..MaxFiles
        BY <3>0, <3>2, LimitAssumption DEF FileName
      <4>2. disk[n] # <<>>
        <5>1. Len(<<>>) = 0
          OBVIOUS
        <5> QED BY <5>1 DEF In
      <4>3. n \in Log!Rotated
        BY <4>1, <4>2 DEF Log!Rotated
      <4> QED BY <1>1, <3>2, <4>3, OldestGo
    <3> QED BY <3>0, <3>1, <3>2
  <2> QED BY <2>2, <2>3
<1> QED BY <1>4, <1>5, <1>6, <1>7 DEF LInv

-----------------------------------------------------------------------------
(* Every step of bus and log keeps the invariant of the log.                *)
LEMMA LogStep == LInv /\ BInv /\ [Log!Next]_Log!vars => LInv'
<1> SUFFICES ASSUME LInv, BInv, [Log!Next]_Log!vars PROVE LInv'
  OBVIOUS
<1>1. CASE Log!Publish /\ UNCHANGED Log!logv
  <2>1. got' = got
    BY <1>1 DEF Log!Publish, Log!TakeId, Log!ReadSubs, Log!FinishPublish, Log!TrySend
  <2> QED BY <1>1, <2>1, LogStill
<1>2. ASSUME NEW s \in Subscription, Log!subscribe(s) /\ UNCHANGED Log!logv PROVE LInv'
  <2>1. got' = got
    BY <1>2 DEF Log!subscribe
  <2> QED BY <1>2, <2>1, LogStill
<1>3. ASSUME NEW s \in Subscription \ {Logger}, Log!Receive(s) /\ UNCHANGED Log!logv PROVE LInv'
  <2>1. got' = [got EXCEPT ![s] = @ + 1]
    BY <1>3 DEF Log!Receive
  <2>2. got'[Logger] = got[Logger]
    BY <2>1, LoggerAssumption DEF BInv, BusType
  <2> QED BY <1>3, <2>2, LogStill
<1>4. ASSUME NEW s \in Subscription \ {Logger}, Log!DropReceiver(s) /\ UNCHANGED Log!logv PROVE LInv'
  <2>1. got' = got
    BY <1>4 DEF Log!DropReceiver
  <2> QED BY <1>4, <2>1, LogStill
<1>5. CASE UNCHANGED Log!vars
  <2>1. got' = got /\ UNCHANGED Log!logv
    BY <1>5 DEF Log!vars, Log!bus
  <2> QED BY <2>1, LogStill
<1> QED BY <1>1, <1>2, <1>3, <1>4, <1>5, LogReceives, LogOpens, LogFails, LogWrites, LogTears, LogRotates,
           LogMoves, LogRemoves, LogCollects DEF Log!Next

(* It holds of an empty log.                                                *)
LEMMA LogInit == Log!Init => LInv
<1> SUFFICES ASSUME Log!Init PROVE LInv
  OBVIOUS
<1>1. /\ disk = [n \in FileName |-> <<>>] /\ size = -1 /\ step = "receive" /\ shift = 0 /\ record = FALSE
      /\ lost = 0 /\ accepted = 0 /\ torn = {} /\ doomed = {} /\ passes = 0 /\ failures = 0 /\ crossed = FALSE
      /\ got = [s \in Subscription |-> 0]
  BY DEF Log!Init, Log!BusInit, Log!Name, FileName
<1>2. <<>> \in Seq(Nat) /\ Len(<<>>) = 0 /\ 0 \in FileName /\ MaxFiles \in Nat
  BY LimitAssumption DEF FileName
<1>3. LogType
  <2>1. disk \in [FileName -> Seq(Nat)]
    BY <1>1, <1>2
  <2>2. got[Logger] = 0
    BY <1>1, LoggerAssumption
  <2>5. IsFiniteSet(torn) /\ torn \subseteq 1..accepted /\ Cardinality(torn) = 0
    BY <1>1, FS_EmptySet
  <2>3. got[Logger] \in Nat /\ got[Logger] + Cardinality(torn) = accepted + lost + IF step = "receive" THEN 0 ELSE 1
    BY <1>1, <2>2, <2>5
  <2>4. /\ step \in {"receive", "write", "rotate"} /\ crossed \in BOOLEAN /\ doomed \subseteq 1..MaxFiles
        /\ lost \in Nat /\ accepted \in Nat /\ passes \in Nat /\ failures \in Nat
    BY <1>1
  <2> QED BY <2>1, <2>3, <2>4, <2>5 DEF LogType
<1>4. InHand /\ FilesRead
  BY <1>1 DEF InHand, FilesRead
<1>5. Sorted(disk, accepted) /\ NoGap
  BY <1>1, <1>2 DEF Sorted, NoGap, Unbroken
<1>6. Full
  <2>1. 1..accepted = {} /\ \A n \in 1..MaxFiles : disk[n] = <<>>
    BY <1>1, <1>2 DEF FileName
  <2>2. Filled(disk, accepted)
    BY <2>1 DEF Filled
  <2> QED BY <1>1, <2>2 DEF Full, Shifted
<1> QED BY <1>3, <1>4, <1>5, <1>6 DEF LInv

(* RotatingFile and cleanup (logging.rs): whatever is published, however    *)
(* often the files rotate and a cleanup pass runs beside it, the log keeps  *)
(* the order of writing and repeats nothing; every message the logger took  *)
(* is written or counted as lost; and unless an operation failed or a pass  *)
(* and a rotation overlapped, what is left is the tail of what was written, *)
(* without cleanup at least MaxFiles full files of it.                      *)
THEOREM TailIsKept == Log!Spec => []LogKeepsTail
<1>1. LInv => LogKeepsTail
  <2> SUFFICES ASSUME LInv PROVE Log!LogKeepsTail
    BY DEF LogKeepsTail
  <2>0. /\ MaxFiles \in Nat /\ MaxSize \in Nat /\ Log!Name = FileName /\ accepted \in Nat
        /\ disk \in [FileName -> Seq(Nat)] /\ \A n \in FileName : DOMAIN disk[n] = 1..Len(disk[n])
        /\ Sorted(disk, accepted) /\ 0 \in FileName /\ MaxFiles * MaxSize \in Nat
    BY LimitAssumption DEF LInv, LogType, FileName, Log!Name
  <2>1. \A n \in FileName : \A k : k \in Log!Records(n) <=> In(disk[n], k)
    BY <2>0 DEF Log!Records, In
  <2>2. \A k : k \in Log!Kept <=> \E n \in FileName : In(disk[n], k)
    BY <2>0, <2>1 DEF Log!Kept
  <2>3. Log!Kept \subseteq 1..accepted
    BY <2>0, <2>2 DEF Sorted, In
  <2>4. \A n \in Log!Name : \A i, j \in DOMAIN disk[n] : i < j => disk[n][i] < disk[n][j]
    BY <2>0 DEF Sorted
  <2>5. \A n \in Log!Name : \A older \in n + 1..MaxFiles :
          \A j \in Log!Records(older), k \in Log!Records(n) : j < k
    <3> SUFFICES ASSUME NEW n \in FileName, NEW older \in n + 1..MaxFiles,
                        NEW j \in Log!Records(older), NEW k \in Log!Records(n)
                 PROVE  j < k
      BY <2>0
    <3>1. older \in FileName /\ n < older
      BY <2>0 DEF FileName
    <3>2. In(disk[older], j) /\ In(disk[n], k)
      BY <2>1, <3>1
    <3>3. PICK i \in 1..Len(disk[older]) : disk[older][i] = j
      BY <3>2 DEF In
    <3>4. PICK l \in 1..Len(disk[n]) : disk[n][l] = k
      BY <3>2 DEF In
    <3> QED BY <2>0, <3>1, <3>3, <3>4 DEF Sorted
  <2>6. got[Logger] + Cardinality(torn) = accepted + lost + IF record THEN 1 ELSE 0
    <3>1. CASE step = "receive"
      BY <3>1 DEF LInv, LogType, InHand
    <3>2. CASE step # "receive"
      BY <3>2 DEF LInv, LogType, InHand
    <3> QED BY <3>1, <3>2
  <2>7. ASSUME failures = 0, ~crossed, doomed = {} PROVE \A k \in Log!Kept : k..accepted \subseteq Log!Kept
    <3> SUFFICES ASSUME NEW k \in Log!Kept, NEW j \in k..accepted PROVE j \in Log!Kept
      OBVIOUS
    <3>1. k \in 1..accepted /\ j \in 1..accepted /\ k <= j
      BY <2>0, <2>3
    <3>2. Unbroken(disk, {}, accepted)
      BY <2>7 DEF LInv, NoGap
    <3> QED BY <2>2, <3>1, <3>2 DEF Unbroken
  <2>8. ASSUME failures = 0, passes = 0, NEW k \in 1..accepted,
               k > accepted - (MaxFiles * MaxSize + IF step = "receive" THEN 1 ELSE 0)
        PROVE  k \in Log!Kept
    <3> DEFINE v == Shifted(disk, step, shift)
               z == MaxFiles * MaxSize
    <3>1. /\ ~crossed /\ doomed = {} /\ Filled(v, accepted)
          /\ step = "receive" /\ accepted > 0 => disk[0] # <<>>
      BY <2>8 DEF LInv, Full
    <3>2. ASSUME NEW n \in FileName PROVE \A j : In(v[n], j) => \E m \in FileName : In(disk[m], j)
      <4>1. CASE step # "rotate"
        BY <4>1 DEF Shifted
      <4>2. CASE step = "rotate"
        <5>1. v[n] = <<>> \/ v[n] = disk[n] \/ (n # 0 /\ v[n] = disk[n - 1])
          BY <4>2 DEF Shifted
        <5>2. n # 0 => n - 1 \in FileName
          BY <2>0 DEF FileName
        <5>3. \A j : ~In(<<>>, j)
          BY DEF In
        <5> QED BY <5>1, <5>2, <5>3
      <4> QED BY <4>1, <4>2
    <3>3. /\ v \in [FileName -> Seq(Nat)] /\ (step = "receive" /\ accepted > 0 => Len(v[0]) >= 1)
      <4>1. CASE step # "rotate"
        <5>1. v = disk
          BY <4>1 DEF Shifted
        <5>2. disk[0] \in Seq(Nat)
          BY <2>0
        <5> QED BY <2>0, <3>1, <5>1, <5>2
      <4>2. CASE step = "rotate"
        <5>1. \A n \in FileName : n # 0 => n - 1 \in FileName
          BY <2>0 DEF FileName
        <5> QED BY <2>0, <4>2, <5>1 DEF Shifted
      <4> QED BY <4>1, <4>2
    <3> HIDE DEF v, z
    <3>4. z \in Nat /\ k > accepted - (z + IF step = "receive" THEN 1 ELSE 0)
      BY <2>0, <2>8 DEF z
    <3>5. CASE MaxFiles = 0
      <4>1. z = 0
        BY <2>0, <3>5 DEF z
      <4>2. step = "receive" /\ k = accepted /\ accepted > 0
        BY <2>0, <3>4, <4>1
      <4>3. Len(disk[0]) \in 1..Len(disk[0])
        BY <2>0, <3>1, <4>2
      <4>4. disk[0][Len(disk[0])] = accepted
        BY <2>0, <4>3 DEF Sorted
      <4> QED BY <2>0, <2>2, <4>2, <4>3, <4>4 DEF In
    <3>6. CASE MaxFiles # 0
      <4>1. MaxFiles \in 1..MaxFiles /\ MaxFiles \in FileName
        BY <2>0, <3>6 DEF FileName
      <4>2. CASE v[MaxFiles] = <<>>
        <5>1. PICK m \in 0..MaxFiles - 1 : In(v[m], k)
          BY <3>1, <4>1, <4>2 DEF Filled
        <5>2. m \in FileName
          BY <2>0 DEF FileName
        <5> QED BY <2>2, <3>2, <5>1, <5>2
      <4>3. CASE v[MaxFiles] # <<>>
        <5> DEFINE f == v[MaxFiles][1]
        <5>1. f + Len(v[0]) + z <= accepted + 1
          BY <3>1, <4>1, <4>3 DEF Filled, z
        <5>2. v[MaxFiles] \in Seq(Nat) /\ v[0] \in Seq(Nat) /\ Len(v[0]) \in Nat
          BY <2>0, <3>3, <4>1
        <5>3. f \in Nat /\ In(v[MaxFiles], f)
          <6>1. 1 \in 1..Len(v[MaxFiles])
            BY <4>3, <5>2
          <6>2. f \in Nat
            BY <5>2, <6>1
          <6> QED BY <6>1, <6>2 DEF In
        <5>4. PICK n \in FileName : In(disk[n], f)
          BY <3>2, <4>1, <5>3
        <5> HIDE DEF f
        <5>5. f \in 1..accepted
          BY <2>2, <2>3, <5>4
        <5>6. f <= k
          BY <2>0, <3>3, <3>4, <5>1, <5>2, <5>3
        <5>7. k \in f..accepted /\ f \in Log!Kept
          BY <2>0, <2>2, <5>3, <5>4, <5>6
        <5> QED BY <2>7, <2>8, <3>1, <5>7
      <4> QED BY <4>2, <4>3
    <3> QED BY <3>5, <3>6
  <2>9. Log!Cardinality(torn) = Cardinality(torn)
    BY DEF Log!Cardinality, Cardinality
  <2> QED BY <2>3, <2>4, <2>5, <2>6, <2>7, <2>8, <2>9 DEF Log!LogKeepsTail
<1> QED BY <1>1, BusInit, BusStep, LogInit, LogStep, PTL DEF Log!Spec

-----------------------------------------------------------------------------
(* The config file that the user store and the sync server share.           *)

(* The order of the numbers, as a set of pairs.                             *)
Less == {ss \in Nat \X Nat : ss[1] < ss[2]}

(* Every set of numbers has a least one.                                    *)
LEMMA LessFounded == IsWellFoundedOn(Less, Nat)
BY NatLessThanWellFounded DEF OpToRel, Less

(* A set that holds 0 and with a number the next holds every number.        *)
LEMMA EveryNumber ==
    ASSUME NEW S, 0 \in S, \A n \in Nat : n \in S => n + 1 \in S
    PROVE  Nat \subseteq S
<1> DEFINE T == Nat \ S
<1>1. SUFFICES ASSUME T # {} PROVE FALSE
  BY <1>1
<1>2. PICK x \in T : \A y \in T : ~(<<y, x>> \in Less)
  <2>1. T \subseteq Nat
    OBVIOUS
  <2> QED BY <1>1, <2>1, LessFounded, WFMin
<1>3. x \in Nat /\ x # 0 /\ x - 1 \in Nat /\ x - 1 \notin T
  <2>1. x \in Nat /\ x # 0 /\ x - 1 \in Nat /\ x - 1 < x
    OBVIOUS
  <2>2. <<x - 1, x>> \in Less
    BY <2>1 DEF Less
  <2> QED BY <1>2, <2>1, <2>2
<1>4. x - 1 \in S /\ x = (x - 1) + 1
  BY <1>3
<1> QED BY <1>2, <1>3, <1>4

-----------------------------------------------------------------------------
(* The lines of the config file.                                            *)

(* The file ends inside the section s.                                      *)
EndsIn(l, s) == Under(l, Len(l) + 1, s)

(* One line more.                                                           *)
LEMMA EndsInAppend ==
    ASSUME NEW l \in Seq(Line), NEW x \in Line, NEW s
    PROVE  EndsIn(Append(l, x), s) <=> x = Header(s) \/ (x.kind \in {"text", "note"} /\ EndsIn(l, s))
<1> DEFINE m == Append(l, x)
           n == Len(l)
<1>1. m \in Seq(Line) /\ Len(m) = n + 1 /\ n \in Nat /\ m[n + 1] = x /\ \A i \in 1..n : m[i] = l[i]
  OBVIOUS
<1> HIDE DEF m
<1>2. x = Header(s) => EndsIn(m, s)
  BY <1>1 DEF EndsIn, Under
<1>3. ASSUME x.kind \in {"text", "note"}, EndsIn(l, s) PROVE EndsIn(m, s)
  <2>1. PICK h \in 1..(n + 1) - 1 : l[h] = Header(s) /\ \A j \in h + 1..(n + 1) - 1 : l[j].kind \in {"text", "note"}
    BY <1>3 DEF EndsIn, Under
  <2>2. h \in 1..((n + 1) + 1) - 1 /\ m[h] = Header(s)
    BY <2>1, <1>1
  <2>3. \A j \in h + 1..((n + 1) + 1) - 1 : m[j].kind \in {"text", "note"}
    BY <2>1, <1>1, <1>3
  <2> QED BY <1>1, <2>2, <2>3 DEF EndsIn, Under
<1>4. ASSUME EndsIn(m, s), x # Header(s) PROVE x.kind \in {"text", "note"} /\ EndsIn(l, s)
  <2>1. PICK h \in 1..((n + 1) + 1) - 1 :
            m[h] = Header(s) /\ \A j \in h + 1..((n + 1) + 1) - 1 : m[j].kind \in {"text", "note"}
    BY <1>1, <1>4 DEF EndsIn, Under
  <2>2. h # n + 1
    BY <2>1, <1>1, <1>4
  <2>3. h \in 1..(n + 1) - 1 /\ l[h] = Header(s) /\ n + 1 \in h + 1..((n + 1) + 1) - 1
    BY <2>1, <2>2, <1>1
  <2>4. \A j \in h + 1..(n + 1) - 1 : l[j].kind \in {"text", "note"}
    BY <2>1, <1>1
  <2> QED BY <1>1, <2>1, <2>3, <2>4 DEF EndsIn, Under
<1> QED BY <1>2, <1>3, <1>4 DEF m

(* An empty file ends in no section.                                        *)
LEMMA EndsInNone ==
    ASSUME NEW s
    PROVE  ~EndsIn(<<>>, s)
BY DEF EndsIn, Under

(* One line more is well formed in its place.                               *)
LEMMA WellFormedAppend ==
    ASSUME NEW l \in Seq(Line), NEW x \in Line
    PROVE  WellFormed(Append(l, x)) <=>
              /\ WellFormed(l)
              /\ \A s \in Sections : /\ x.kind = "table" => x.name # s
                                     /\ x.kind = "text" /\ EndsIn(l, s) => x.name = s
<1> DEFINE m == Append(l, x)
           n == Len(l)
<1>1. m \in Seq(Line) /\ Len(m) = n + 1 /\ n \in Nat /\ m[n + 1] = x /\ \A i \in 1..n : m[i] = l[i]
  OBVIOUS
<1> HIDE DEF m
<1>2. DOMAIN m = 1..(n + 1) /\ DOMAIN l = 1..n
  BY <1>1
<1>3. ASSUME NEW i \in 1..n + 1, NEW s PROVE Under(m, i, s) <=> Under(l, i, s)
  <2>1. \A j \in 1..i - 1 : m[j] = l[j]
    BY <1>1
  <2>2. ASSUME NEW h \in 1..i - 1
        PROVE  /\ m[h] = l[h]
               /\ (\A j \in h + 1..i - 1 : m[j].kind \in {"text", "note"}) <=>
                    (\A j \in h + 1..i - 1 : l[j].kind \in {"text", "note"})
    <3>1. \A j \in h + 1..i - 1 : j \in 1..i - 1
      BY <1>1
    <3> QED BY <2>1, <3>1
  <2> QED BY <2>2 DEF Under
<1>4. ASSUME NEW s \in Sections
      PROVE  (\A i \in 1..n + 1 : (m[i].kind = "table" => m[i].name # s) /\ (m[i].kind = "text" /\ Under(m, i, s) => m[i].name = s))
             <=> /\ (\A i \in 1..n : (l[i].kind = "table" => l[i].name # s) /\ (l[i].kind = "text" /\ Under(l, i, s) => l[i].name = s))
                 /\ (x.kind = "table" => x.name # s) /\ (x.kind = "text" /\ EndsIn(l, s) => x.name = s)
  <2>1. \A i \in 1..n + 1 : i = n + 1 \/ i \in 1..n
    BY <1>1
  <2>2. n + 1 \in 1..n + 1 /\ \A i \in 1..n : i \in 1..n + 1
    BY <1>1
  <2> QED BY <1>1, <1>3, <2>1, <2>2 DEF EndsIn
<1>5. \A k : WellFormed(k) <=> k \in Seq(Line) /\ \A s \in Sections : \A i \in DOMAIN k :
         (k[i].kind = "table" => k[i].name # s) /\ (k[i].kind = "text" /\ Under(k, i, s) => k[i].name = s)
  BY Zenon DEF WellFormed, Line, Sections
<1> QED BY <1>1, <1>2, <1>4, <1>5 DEF m

(* One line more, and what parsing finds.                                   *)
LEMMA HasAppend ==
    ASSUME NEW l \in Seq(Line), NEW x \in Line, NEW s
    PROVE  Has(Append(l, x), s) <=> Has(l, s) \/ x = Header(s)
<1> DEFINE m == Append(l, x)
           n == Len(l)
<1>1. m \in Seq(Line) /\ Len(m) = n + 1 /\ n \in Nat /\ m[n + 1] = x /\ \A i \in 1..n : m[i] = l[i]
  OBVIOUS
<1> HIDE DEF m
<1>2. DOMAIN m = 1..(n + 1) /\ DOMAIN l = 1..n
  BY <1>1
<1> QED BY <1>1, <1>2 DEF Has, m

-----------------------------------------------------------------------------
(* The operator's own lines.                                                *)

(* g[i] are the own ones of the first i lines.                              *)
OwnRun(g, l, n) ==
    g = [i \in 0..n |-> IF i = 0 THEN <<>> ELSE IF IsOwn(l[i]) THEN Append(g[i - 1], l[i]) ELSE g[i - 1]]

(* There is such a function.                                                *)
LEMMA OwnRunExists ==
    ASSUME NEW l, NEW n \in Nat
    PROVE  \E g : OwnRun(g, l, n)
<1> DEFINE Step(g, i) == IF IsOwn(l[i]) THEN Append(g[i - 1], l[i]) ELSE g[i - 1]
           S == {k \in Nat : \E g : OwnRun(g, l, k)}
<1>1. 0 \in S
  <2> DEFINE g == [i \in 0..0 |-> <<>>]
  <2>1. g = [i \in 0..0 |-> IF i = 0 THEN <<>> ELSE Step(g, i)]
    OBVIOUS
  <2>2. OwnRun(g, l, 0)
    BY <2>1 DEF OwnRun
  <2> QED BY <2>2
<1>2. ASSUME NEW k \in Nat, k \in S PROVE k + 1 \in S
  <2>1. PICK g : OwnRun(g, l, k)
    BY <1>2
  <2> DEFINE last == IF IsOwn(l[k + 1]) THEN Append(g[k], l[k + 1]) ELSE g[k]
             h == [i \in 0..(k + 1) |-> IF i = k + 1 THEN last ELSE g[i]]
  <2>2. \A i \in 0..k : g[i] = IF i = 0 THEN <<>> ELSE Step(g, i)
    BY <2>1 DEF OwnRun
  <2>3. ASSUME NEW i \in 0..(k + 1)
        PROVE  h[i] = IF i = 0 THEN <<>> ELSE Step(h, i)
    <3>1. CASE i = k + 1
      <4>1. i # 0 /\ i - 1 = k /\ k \in 0..(k + 1) /\ k # k + 1 /\ h[k] = g[k] /\ h[i] = last
        BY <3>1
      <4> HIDE DEF h
      <4> QED BY <3>1, <4>1
    <3>2. CASE i # k + 1
      <4>1. i \in 0..k /\ h[i] = g[i] /\ (i # 0 => i - 1 \in 0..k /\ i - 1 # k + 1 /\ h[i - 1] = g[i - 1])
        BY <3>2
      <4> HIDE DEF h
      <4> QED BY <2>2, <4>1
    <3> QED BY <3>1, <3>2
  <2>4. h = [i \in 0..(k + 1) |-> h[i]]
    OBVIOUS
  <2> HIDE DEF h
  <2>5. OwnRun(h, l, k + 1)
    BY <2>3, <2>4 DEF OwnRun
  <2> QED BY <2>5
<1> HIDE DEF S
<1>3. n \in S
  BY <1>1, <1>2, EveryNumber
<1> QED BY <1>3 DEF S

(* It is the same for files that begin alike.                               *)
LEMMA OwnRunUnique ==
    ASSUME NEW l, NEW m, NEW n \in Nat, NEW k \in Nat, k <= n,
           NEW g, OwnRun(g, l, k), NEW h, OwnRun(h, m, n), \A i \in 1..k : l[i] = m[i]
    PROVE  \A i \in 0..k : g[i] = h[i]
<1> DEFINE S == {i \in Nat : i <= k => g[i] = h[i]}
<1>0. /\ \A i \in 0..k : g[i] = IF i = 0 THEN <<>> ELSE IF IsOwn(l[i]) THEN Append(g[i - 1], l[i]) ELSE g[i - 1]
      /\ \A i \in 0..n : h[i] = IF i = 0 THEN <<>> ELSE IF IsOwn(m[i]) THEN Append(h[i - 1], m[i]) ELSE h[i - 1]
  BY DEF OwnRun
<1>1. 0 \in S
  BY <1>0
<1>2. ASSUME NEW i \in Nat, i \in S PROVE i + 1 \in S
  <2>1. CASE i + 1 <= k
    <3>1. g[i] = h[i] /\ l[i + 1] = m[i + 1] /\ i + 1 \in 0..k /\ i + 1 \in 0..n /\ i + 1 # 0 /\ (i + 1) - 1 = i
      BY <1>2, <2>1
    <3> QED BY <1>0, <3>1
  <2>2. CASE ~(i + 1 <= k)
    BY <2>2
  <2> QED BY <2>1, <2>2
<1> HIDE DEF S
<1>3. \A i \in 0..k : i \in S
  BY <1>1, <1>2, EveryNumber
<1> QED BY <1>3 DEF S

(* Owned is its last value.                                                 *)
LEMMA OwnedByRun ==
    ASSUME NEW l, Len(l) \in Nat, NEW g, OwnRun(g, l, Len(l))
    PROVE  Owned(l) = g[Len(l)]
<1> DEFINE n == Len(l)
           h == CHOOSE h : h = [i \in 0..n |-> IF i = 0 THEN <<>> ELSE IF IsOwn(l[i]) THEN Append(h[i - 1], l[i]) ELSE h[i - 1]]
<1>1. Owned(l) = h[n]
  BY DEF Owned
<1>2. g = [i \in 0..n |-> IF i = 0 THEN <<>> ELSE IF IsOwn(l[i]) THEN Append(g[i - 1], l[i]) ELSE g[i - 1]]
  BY DEF OwnRun
<1>3. h = [i \in 0..n |-> IF i = 0 THEN <<>> ELSE IF IsOwn(l[i]) THEN Append(h[i - 1], l[i]) ELSE h[i - 1]]
  BY <1>2
<1>4. OwnRun(h, l, n)
  BY <1>3 DEF OwnRun
<1> HIDE DEF h
<1>5. n \in 0..n /\ n <= n
  OBVIOUS
<1>6. \A i \in 1..n : l[i] = l[i]
  OBVIOUS
<1>7. h[n] = g[n]
  BY <1>4, <1>5, <1>6, OwnRunUnique
<1> QED BY <1>1, <1>7

(* One line more.                                                           *)
LEMMA OwnedAppend ==
    ASSUME NEW l \in Seq(Line), NEW x \in Line
    PROVE  Owned(Append(l, x)) = IF IsOwn(x) THEN Append(Owned(l), x) ELSE Owned(l)
<1> DEFINE m == Append(l, x)
           n == Len(l)
<1>1. m \in Seq(Line) /\ Len(m) = n + 1 /\ n \in Nat /\ n + 1 \in Nat /\ m[n + 1] = x /\ \A i \in 1..n : l[i] = m[i]
  OBVIOUS
<1> HIDE DEF m
<1>2. PICK g : OwnRun(g, l, n)
  BY <1>1, OwnRunExists
<1>3. PICK h : OwnRun(h, m, n + 1)
  BY <1>1, OwnRunExists
<1>4. Owned(l) = g[n] /\ Owned(m) = h[n + 1]
  BY <1>1, <1>2, <1>3, OwnedByRun
<1>5. n <= n + 1 /\ n \in 0..n /\ n + 1 \in 0..(n + 1) /\ n + 1 # 0 /\ (n + 1) - 1 = n
  BY <1>1
<1>6. g[n] = h[n]
  BY <1>1, <1>2, <1>3, <1>5, OwnRunUnique
<1>7. h[n + 1] = IF IsOwn(m[n + 1]) THEN Append(h[n], m[n + 1]) ELSE h[n]
  BY <1>3, <1>5 DEF OwnRun
<1> QED BY <1>1, <1>4, <1>6, <1>7 DEF m

(* The lines of the two sections are not the operator's.                    *)
LEMMA NotOwn ==
    ASSUME NEW mine \in Sections
    PROVE  /\ Header(mine) \in Line /\ Text(mine) \in Line
           /\ ~IsOwn(Header(mine)) /\ ~IsOwn(Text(mine))
           /\ \A x \in Line : x.kind = "note" => ~IsOwn(x)
<1>1. Header(mine) \in Line /\ Text(mine) \in Line
  BY DEF Sections, Header, Text, Line
<1>2. ~IsOwn(Header(mine)) /\ ~IsOwn(Text(mine))
  BY DEF Sections, Header, Text, IsOwn
<1>3. \A x \in Line : x.kind = "note" => ~IsOwn(x)
  BY DEF IsOwn
<1> QED BY <1>1, <1>2, <1>3

-----------------------------------------------------------------------------
(* The splice.                                                              *)

StateT == [before : Seq(Line), after : Seq(Line), pending : Seq(Line), found : BOOLEAN, inside : BOOLEAN]

(* r is what the splice of the section mine may make of the lines x.        *)
Spliced(mine, fresh, x, r) ==
    /\ r \in Seq(Line) /\ WellFormed(r) /\ Owned(r) = Owned(x)
    /\ Has(r, mine) <=> fresh # <<>>
    /\ \A s \in Sections \ {mine} : Has(r, s) <=> Has(x, s)

(* A line that is kept.                                                     *)
LEMMA KeepsLine ==
    ASSUME NEW mine \in Sections, NEW fresh, NEW x \in Seq(Line), NEW r, Spliced(mine, fresh, x, r),
           NEW line \in Line, line # Header(mine), WellFormed(Append(x, line)),
           line.kind = "text" => \A s \in Sections : EndsIn(r, s) <=> EndsIn(x, s)
    PROVE  Spliced(mine, fresh, Append(x, line), Append(r, line))
<1>1. r \in Seq(Line) /\ Append(r, line) \in Seq(Line)
  BY DEF Spliced
<1>2. WellFormed(Append(r, line))
  BY <1>1, WellFormedAppend DEF Spliced
<1>3. Owned(Append(r, line)) = Owned(Append(x, line))
  BY <1>1, OwnedAppend DEF Spliced
<1>4. Has(Append(r, line), mine) <=> fresh # <<>>
  BY <1>1, HasAppend DEF Spliced
<1>5. \A s \in Sections \ {mine} : Has(Append(r, line), s) <=> Has(Append(x, line), s)
  BY <1>1, HasAppend DEF Spliced
<1> QED BY <1>1, <1>2, <1>3, <1>4, <1>5 DEF Spliced

(* A line that is dropped.                                                  *)
LEMMA DropsLine ==
    ASSUME NEW mine \in Sections, NEW fresh, NEW x \in Seq(Line), NEW r, Spliced(mine, fresh, x, r),
           NEW line \in Line, ~IsOwn(line), \A s \in Sections \ {mine} : line # Header(s)
    PROVE  Spliced(mine, fresh, Append(x, line), r)
<1>1. Owned(Append(x, line)) = Owned(x)
  BY OwnedAppend
<1>2. \A s \in Sections \ {mine} : Has(Append(x, line), s) <=> Has(x, s)
  BY HasAppend
<1> QED BY <1>1, <1>2 DEF Spliced

(* The fresh section behind the lines.                                      *)
LEMMA AddsFresh ==
    ASSUME NEW mine \in Sections, NEW fresh \in {<<>>, Section(mine)}, NEW x \in Seq(Line),
           WellFormed(x), ~Has(x, mine)
    PROVE  Spliced(mine, fresh, x, x \o fresh)
<1>1. CASE fresh = <<>>
  <2>1. x \o fresh = x
    BY <1>1
  <2> QED BY <1>1, <2>1 DEF Spliced
<1>2. CASE fresh = Section(mine)
  <2> DEFINE a == Header(mine)
             b == Text(mine)
             y == Append(x, a)
             z == Append(y, b)
  <2>1. a \in Line /\ b \in Line /\ ~IsOwn(a) /\ ~IsOwn(b)
    BY NotOwn
  <2>2. x \o <<a, b>> = z /\ <<a, b>> # <<>> /\ y \in Seq(Line) /\ z \in Seq(Line)
    <3> HIDE DEF a, b
    <3> QED BY <2>1
  <2>3. a.kind = "array" /\ a.name = mine /\ b.kind = "text" /\ b.name = mine
    BY DEF Header, Text
  <2>4. \A s : b # Header(s) /\ (a = Header(s) <=> s = mine)
    BY DEF Header, Text
  <2> HIDE DEF a, b
  <2>5. WellFormed(y)
    BY <2>1, <2>3, WellFormedAppend
  <2>6. \A s : EndsIn(y, s) => s = mine
    BY <2>1, <2>3, <2>4, EndsInAppend
  <2>7. WellFormed(z)
    BY <2>1, <2>2, <2>3, <2>5, <2>6, WellFormedAppend
  <2>8. Owned(z) = Owned(x)
    BY <2>1, <2>2, OwnedAppend
  <2>9. \A s : Has(z, s) <=> Has(x, s) \/ s = mine
    BY <2>1, <2>2, <2>4, HasAppend
  <2>10. fresh = <<a, b>>
    BY <1>2 DEF Section, a, b
  <2> QED BY <2>2, <2>7, <2>8, <2>9, <2>10 DEF Spliced
<1> QED BY <1>1, <1>2

(* The header of the own section begins it.                                 *)
LEMMA ScanMine ==
    ASSUME NEW mine \in Sections, NEW st \in StateT, NEW line \in Line, NEW t, t = Scan(mine, st, line),
           line = Header(mine)
    PROVE  /\ t \in StateT /\ t.before = st.before /\ t.after = st.after
           /\ t.pending = <<>> /\ t.inside = TRUE /\ t.found = TRUE
<1> DEFINE none == <<>>
<1>9. none \in Seq(Line)
  OBVIOUS
<1> HIDE DEF none
<1>1. line.kind = "array" /\ line.name = mine
  BY DEF Header
<1>2. t = [st EXCEPT !.pending = none, !.inside = TRUE, !.found = TRUE]
  BY <1>1 DEF Scan, none
<1> QED BY <1>9, <1>2 DEF StateT, none

(* Another header ends it, and the comments before it are kept.             *)
LEMMA ScanOther ==
    ASSUME NEW mine \in Sections, NEW st \in StateT, NEW line \in Line, NEW t, t = Scan(mine, st, line),
           line.kind \in {"array", "table"}, line.name # mine
    PROVE  /\ t \in StateT /\ t.found = st.found /\ t.pending = <<>> /\ t.inside = FALSE
           /\ st.found => t.before = st.before /\ t.after = st.after \o Append(st.pending, line)
           /\ ~st.found => t.before = st.before \o Append(st.pending, line) /\ t.after = st.after
<1> DEFINE none == <<>>
           q == Append(st.pending, line)
<1>9. none \in Seq(Line)
  OBVIOUS
<1> HIDE DEF none
<1>0. q \in Seq(Line)
  BY DEF StateT
<1> HIDE DEF q
<1>1. t = [Emit(st, q) EXCEPT !.pending = none, !.inside = FALSE]
  BY DEF Scan, q, none
<1>2. CASE st.found
  <2> DEFINE r == st.after \o q
  <2>1. t = [[st EXCEPT !.after = r] EXCEPT !.pending = none, !.inside = FALSE]
    BY <1>1, <1>2 DEF Emit
  <2>2. r \in Seq(Line)
    BY <1>0 DEF StateT
  <2> HIDE DEF r
  <2>3. t \in StateT /\ t.after = r /\ t.before = st.before /\ t.pending = none
    BY <1>9, <2>1, <2>2 DEF StateT
  <2>4. t.found = st.found /\ t.inside = FALSE
    BY <2>1 DEF StateT
  <2> QED BY <1>2, <2>3, <2>4 DEF r, q, none
<1>3. CASE ~st.found
  <2> DEFINE r == st.before \o q
  <2>1. t = [[st EXCEPT !.before = r] EXCEPT !.pending = none, !.inside = FALSE]
    BY <1>1, <1>3 DEF Emit
  <2>2. r \in Seq(Line)
    BY <1>0 DEF StateT
  <2> HIDE DEF r
  <2>3. t \in StateT /\ t.before = r /\ t.after = st.after /\ t.pending = none
    BY <1>9, <2>1, <2>2 DEF StateT
  <2>4. t.found = st.found /\ t.inside = FALSE
    BY <2>1 DEF StateT
  <2> QED BY <1>3, <2>3, <2>4 DEF r, q, none
<1> QED BY <1>2, <1>3 DEF none, q

(* Outside of it keys and comments are kept.                                *)
LEMMA ScanOutside ==
    ASSUME NEW mine \in Sections, NEW st \in StateT, NEW line \in Line, NEW t, t = Scan(mine, st, line),
           line.kind \in {"text", "note"}, ~st.inside
    PROVE  /\ t \in StateT /\ t.found = st.found /\ t.pending = st.pending /\ t.inside = FALSE
           /\ st.found => t.before = st.before /\ t.after = st.after \o <<line>>
           /\ ~st.found => t.before = st.before \o <<line>> /\ t.after = st.after
<1> DEFINE one == <<line>>
<1>0. one \in Seq(Line)
  OBVIOUS
<1> HIDE DEF one
<1>1. t = Emit(st, one)
  BY DEF Scan, one
<1>2. CASE st.found
  <2> DEFINE r == st.after \o one
  <2>1. t = [st EXCEPT !.after = r]
    BY <1>1, <1>2 DEF Emit
  <2>2. r \in Seq(Line)
    BY <1>0 DEF StateT
  <2> HIDE DEF r
  <2>3. t \in StateT /\ t.after = r /\ t.before = st.before /\ t.pending = st.pending
    BY <2>1, <2>2 DEF StateT
  <2>4. t.found = st.found /\ t.inside = FALSE
    BY <2>1 DEF StateT
  <2> QED BY <1>2, <2>3, <2>4 DEF r, one
<1>3. CASE ~st.found
  <2> DEFINE r == st.before \o one
  <2>1. t = [st EXCEPT !.before = r]
    BY <1>1, <1>3 DEF Emit
  <2>2. r \in Seq(Line)
    BY <1>0 DEF StateT
  <2> HIDE DEF r
  <2>3. t \in StateT /\ t.before = r /\ t.after = st.after /\ t.pending = st.pending
    BY <2>1, <2>2 DEF StateT
  <2>4. t.found = st.found /\ t.inside = FALSE
    BY <2>1 DEF StateT
  <2> QED BY <1>3, <2>3, <2>4 DEF r, one
<1> QED BY <1>2, <1>3 DEF one

(* Inside of it comments wait for what follows.                             *)
LEMMA ScanNote ==
    ASSUME NEW mine \in Sections, NEW st \in StateT, NEW line \in Line, NEW t, t = Scan(mine, st, line),
           line.kind = "note", st.inside
    PROVE  /\ t \in StateT /\ t.found = st.found /\ t.inside = TRUE /\ t.pending = Append(st.pending, line)
           /\ t.before = st.before /\ t.after = st.after
<1> DEFINE q == Append(st.pending, line)
<1>0. q \in Seq(Line)
  BY DEF StateT
<1> HIDE DEF q
<1>1. t = [st EXCEPT !.pending = q]
  BY DEF Scan, q
<1> QED BY <1>0, <1>1 DEF StateT, q

(* Inside of it keys are dropped, and the comments before them.             *)
LEMMA ScanText ==
    ASSUME NEW mine \in Sections, NEW st \in StateT, NEW line \in Line, NEW t, t = Scan(mine, st, line),
           line.kind = "text", st.inside
    PROVE  /\ t \in StateT /\ t.found = st.found /\ t.inside = TRUE /\ t.pending = <<>>
           /\ t.before = st.before /\ t.after = st.after
<1> DEFINE none == <<>>
<1>9. none \in Seq(Line)
  OBVIOUS
<1> HIDE DEF none
<1>1. t = [st EXCEPT !.pending = none]
  BY DEF Scan, none
<1> QED BY <1>9, <1>1 DEF StateT, none

(* The file made of the lines read so far.                                  *)
Result(st, fresh) == st.before \o fresh \o st.after

(* Where the splice is after the lines x.                                   *)
Scanning(mine, fresh, x, st) ==
    /\ st \in StateT
    /\ ~st.found => /\ st.before = x /\ st.after = <<>> /\ st.pending = <<>>
                    /\ ~st.inside /\ ~Has(x, mine)
    /\ st.found => /\ Spliced(mine, fresh, x, Result(st, fresh))
                   /\ Spliced(mine, fresh, x, Result(st, fresh) \o st.pending)
                   /\ st.inside => EndsIn(x, mine)
                   /\ ~st.inside => /\ st.pending = <<>>
                                    /\ \A s \in Sections : EndsIn(Result(st, fresh), s) <=> EndsIn(x, s)

(* Sequences put together.                                                  *)
LEMMA Joining ==
    ASSUME NEW a \in Seq(Line), NEW b \in Seq(Line), NEW c \in Seq(Line)
    PROVE  a \o (b \o c) = (a \o b) \o c /\ a \o b \in Seq(Line)
BY ConcatAssociative

(* Nothing is added.                                                        *)
LEMMA JoinNone ==
    ASSUME NEW a \in Seq(Line)
    PROVE  a \o <<>> = a /\ <<>> \o a = a
BY ConcatEmptySeq

(* One line is added.                                                       *)
LEMMA JoinOne ==
    ASSUME NEW a \in Seq(Line), NEW x \in Line
    PROVE  a \o <<x>> = Append(a, x) /\ Append(a, x) \in Seq(Line)
BY AppendIsConcat

(* A line at the end of the second part.                                    *)
LEMMA JoinAppend ==
    ASSUME NEW a \in Seq(Line), NEW b \in Seq(Line), NEW x \in Line
    PROVE  a \o Append(b, x) = Append(a \o b, x)
<1> DEFINE e == <<x>>
<1>1. Append(b, x) = b \o e /\ Append(a \o b, x) = (a \o b) \o e /\ e \in Seq(Line)
  BY Joining, JoinOne
<1> HIDE DEF e
<1> QED BY <1>1, Joining

(* A fresh section is none or the header with its keys.                     *)
LEMMA FreshType ==
    ASSUME NEW mine \in Sections, NEW fresh \in {<<>>, Section(mine)}
    PROVE  fresh \in Seq(Line)
<1> DEFINE a == Header(mine)
           b == Text(mine)
<1>1. a \in Line /\ b \in Line
  BY NotOwn
<1> HIDE DEF a, b
<1>2. <<a, b>> \in Seq(Line) /\ <<>> \in Seq(Line)
  BY <1>1
<1>3. Section(mine) = <<a, b>>
  BY DEF Section, a, b
<1> QED BY <1>2, <1>3

(* The splice goes on by one line.                                          *)
LEMMA ScanStep ==
    ASSUME NEW mine \in Sections, NEW fresh \in {<<>>, Section(mine)}, NEW x \in Seq(Line), NEW line \in Line,
           WellFormed(Append(x, line)), NEW st, Scanning(mine, fresh, x, st)
    PROVE  Scanning(mine, fresh, Append(x, line), Scan(mine, st, line))
<1> DEFINE t == Scan(mine, st, line)
           y == Append(x, line)
           R == Result(st, fresh)
           T == Result(t, fresh)
<1>1. /\ st \in StateT /\ st.before \in Seq(Line) /\ st.after \in Seq(Line) /\ st.pending \in Seq(Line)
      /\ y \in Seq(Line) /\ fresh \in Seq(Line) /\ st.before \o fresh \in Seq(Line) /\ <<>> \in Seq(Line)
  <2>1. fresh \in Seq(Line)
    BY FreshType
  <2>2. st \in StateT
    BY DEF Scanning
  <2>3. st.before \in Seq(Line) /\ st.after \in Seq(Line) /\ st.pending \in Seq(Line)
    BY <2>2 DEF StateT
  <2> QED BY <2>1, <2>2, <2>3
<1>2. WellFormed(x) /\ \A s \in Sections : /\ line.kind = "table" => line.name # s
                                           /\ line.kind = "text" /\ EndsIn(x, s) => line.name = s
  BY WellFormedAppend
<1>3. line.kind \in {"array", "table", "text", "note"}
  BY DEF Line
<1>4. line.kind = "array" /\ line.name = mine <=> line = Header(mine)
  BY DEF Line, Header
<1>5. \A s \in Sections : EndsIn(y, s) <=> line = Header(s) \/ (line.kind \in {"text", "note"} /\ EndsIn(x, s))
  BY EndsInAppend
<1>6. \A s : Has(y, s) <=> Has(x, s) \/ line = Header(s)
  BY HasAppend
<1>7. \A s : line = Header(s) => line.kind = "array" /\ line.name = s
  BY DEF Header
<1>8. R \in Seq(Line) /\ R \o st.pending \in Seq(Line)
  BY <1>1 DEF Result
<1>9. \A p \in Seq(Line) : R \o <<>> = R /\ p \o <<>> = p
  BY <1>8, JoinNone
<1>10. CASE line = Header(mine)
  <2>1. /\ t \in StateT /\ t.before = st.before /\ t.after = st.after
        /\ t.pending = <<>> /\ t.inside = TRUE /\ t.found = TRUE
    BY <1>1, <1>10, ScanMine
  <2>2. T = R
    BY <2>1 DEF Result
  <2>3. ~IsOwn(line) /\ \A s \in Sections \ {mine} : line # Header(s)
    BY <1>7, <1>10, NotOwn
  <2>4. Spliced(mine, fresh, x, R)
    <3>1. CASE st.found
      BY <3>1 DEF Scanning
    <3>2. CASE ~st.found
      <4>1. st.before = x /\ st.after = <<>> /\ ~Has(x, mine)
        BY <3>2 DEF Scanning
      <4>2. R = (x \o fresh) \o <<>> /\ x \o fresh \in Seq(Line)
        BY <1>1, <4>1 DEF Result
      <4>3. R = x \o fresh
        BY <4>2, <1>9
      <4> QED BY <1>2, <4>1, <4>3, AddsFresh
    <3> QED BY <3>1, <3>2
  <2>5. Spliced(mine, fresh, y, R)
    BY <2>3, <2>4, DropsLine
  <2>6. EndsIn(y, mine)
    BY <1>5, <1>10
  <2>7. T \o t.pending = R
    BY <1>9, <2>1, <2>2
  <2> HIDE DEF t, y, R, T
  <2>8. Scanning(mine, fresh, y, t)
    BY <2>1, <2>2, <2>5, <2>6, <2>7 DEF Scanning, T
  <2> QED BY <2>8 DEF t, y
<1>11. CASE line.kind \in {"array", "table"} /\ line.name # mine
  <2>1. /\ t \in StateT /\ t.found = st.found /\ t.pending = <<>> /\ t.inside = FALSE
        /\ st.found => t.before = st.before /\ t.after = st.after \o Append(st.pending, line)
        /\ ~st.found => t.before = st.before \o Append(st.pending, line) /\ t.after = st.after
    BY <1>1, <1>11, ScanOther
  <2>2. CASE ~st.found
    <3>1. st.before = x /\ st.after = <<>> /\ st.pending = <<>> /\ ~Has(x, mine)
      BY <2>2 DEF Scanning
    <3>2. t.before = x \o Append(<<>>, line) /\ t.after = <<>>
      BY <2>1, <2>2, <3>1
    <3>3. x \o Append(<<>>, line) = y
      <4>1. <<>> \in Seq(Line) /\ x \o <<>> = x
        BY <1>9
      <4>2. x \o Append(<<>>, line) = Append(x \o <<>>, line)
        BY <4>1, JoinAppend
      <4> QED BY <4>1, <4>2
    <3>4. ~Has(y, mine)
      BY <1>6, <1>7, <1>11, <3>1
    <3> HIDE DEF t, y
    <3>5. Scanning(mine, fresh, y, t)
      BY <2>1, <2>2, <3>2, <3>3, <3>4 DEF Scanning
    <3> QED BY <3>5 DEF t, y
  <2>3. CASE st.found
    <3>1. T = Append(R \o st.pending, line)
      <4> DEFINE a == st.before \o fresh
      <4>1. T = a \o (st.after \o Append(st.pending, line)) /\ R = a \o st.after
        BY <2>1, <2>3 DEF Result
      <4>2. a \in Seq(Line)
        BY <1>1
      <4>3. Append(st.pending, line) \in Seq(Line) /\ a \o st.after \in Seq(Line)
        BY <1>1, <4>2
      <4> HIDE DEF a, R, T
      <4>4. T = (a \o st.after) \o Append(st.pending, line)
        <5> DEFINE b == st.after
                   c == Append(st.pending, line)
        <5>1. a \in Seq(Line) /\ b \in Seq(Line) /\ c \in Seq(Line) /\ T = a \o (b \o c)
          BY <1>1, <4>1, <4>2, <4>3
        <5> HIDE DEF b, c
        <5>2. T = (a \o b) \o c
          BY <5>1, Joining
        <5> QED BY <5>2 DEF b, c
      <4> QED BY <1>1, <4>1, <4>3, <4>4, JoinAppend
    <3>2. Spliced(mine, fresh, x, R \o st.pending)
      BY <2>3 DEF Scanning
    <3>3. line # Header(mine) /\ line.kind # "text"
      BY <1>7, <1>11
    <3>4. Spliced(mine, fresh, y, T)
      BY <3>1, <3>2, <3>3, KeepsLine
    <3>5. T \in Seq(Line) /\ T \o t.pending = T
      BY <1>9, <2>1, <3>4 DEF Spliced
    <3>6. \A s \in Sections : EndsIn(T, s) <=> EndsIn(y, s)
      <4> DEFINE r == R \o st.pending
      <4>1. r \in Seq(Line) /\ T = Append(r, line)
        BY <1>8, <3>1
      <4> HIDE DEF r, T, y
      <4> QED BY <1>5, <1>11, <4>1, EndsInAppend
    <3> HIDE DEF t, y, T
    <3>7. Scanning(mine, fresh, y, t)
      BY <2>1, <2>3, <3>4, <3>5, <3>6 DEF Scanning, T
    <3> QED BY <3>7 DEF t, y
  <2> QED BY <2>2, <2>3
<1>12. CASE line.kind \in {"text", "note"} /\ ~st.inside
  <2>1. /\ t \in StateT /\ t.found = st.found /\ t.pending = st.pending /\ t.inside = FALSE
        /\ st.found => t.before = st.before /\ t.after = st.after \o <<line>>
        /\ ~st.found => t.before = st.before \o <<line>> /\ t.after = st.after
    BY <1>1, <1>12, ScanOutside
  <2>2. CASE ~st.found
    <3>1. st.before = x /\ st.after = <<>> /\ st.pending = <<>> /\ ~Has(x, mine)
      BY <2>2 DEF Scanning
    <3>2. t.before = y /\ t.after = <<>> /\ t.pending = <<>>
      BY <2>1, <2>2, <3>1, JoinOne
    <3>3. ~Has(y, mine)
      BY <1>6, <1>7, <1>12, <3>1
    <3> HIDE DEF t, y
    <3>4. Scanning(mine, fresh, y, t)
      BY <2>1, <2>2, <3>2, <3>3 DEF Scanning
    <3> QED BY <3>4 DEF t, y
  <2>3. CASE st.found
    <3>1. T = Append(R, line)
      <4> DEFINE a == st.before \o fresh
      <4>1. T = a \o (st.after \o <<line>>) /\ R = a \o st.after
        BY <2>1, <2>3 DEF Result
      <4>2. a \in Seq(Line)
        BY <1>1
      <4>3. <<line>> \in Seq(Line) /\ a \o st.after \in Seq(Line)
        BY <1>1, <4>2
      <4> HIDE DEF a, R, T
      <4>4. T = (a \o st.after) \o <<line>>
        <5> DEFINE b == st.after
                   c == <<line>>
        <5>1. a \in Seq(Line) /\ b \in Seq(Line) /\ c \in Seq(Line) /\ T = a \o (b \o c)
          BY <1>1, <4>1, <4>2, <4>3
        <5> HIDE DEF b, c
        <5>2. T = (a \o b) \o c
          BY <5>1, Joining
        <5> QED BY <5>2 DEF b, c
      <4> QED BY <1>1, <4>1, <4>3, <4>4, JoinOne
    <3>2. /\ Spliced(mine, fresh, x, R) /\ st.pending = <<>>
          /\ \A s \in Sections : EndsIn(R, s) <=> EndsIn(x, s)
      BY <1>12, <2>3 DEF Scanning
    <3>3. line # Header(mine)
      BY <1>7, <1>12
    <3>4. Spliced(mine, fresh, y, T)
      BY <3>1, <3>2, <3>3, KeepsLine
    <3>5. T \in Seq(Line) /\ T \o t.pending = T /\ t.pending = <<>>
      BY <1>9, <2>1, <3>2, <3>4 DEF Spliced
    <3>6. \A s \in Sections : EndsIn(T, s) <=> EndsIn(y, s)
      BY <1>5, <1>8, <1>12, <3>1, <3>2, EndsInAppend
    <3> HIDE DEF t, y, T
    <3>7. Scanning(mine, fresh, y, t)
      BY <2>1, <2>3, <3>4, <3>5, <3>6 DEF Scanning, T
    <3> QED BY <3>7 DEF t, y
  <2> QED BY <2>2, <2>3
<1>13. CASE line.kind \in {"text", "note"} /\ st.inside
  <2>1. /\ t \in StateT /\ t.found = st.found /\ t.inside = TRUE /\ t.before = st.before /\ t.after = st.after
        /\ line.kind = "note" => t.pending = Append(st.pending, line)
        /\ line.kind = "text" => t.pending = <<>>
    <3>1. CASE line.kind = "note"
      <4>1. /\ t \in StateT /\ t.found = st.found /\ t.inside = TRUE /\ t.pending = Append(st.pending, line)
            /\ t.before = st.before /\ t.after = st.after
        BY <1>1, <1>13, <3>1, ScanNote
      <4> HIDE DEF t
      <4> QED BY <3>1, <4>1
    <3>2. CASE line.kind = "text"
      <4>1. /\ t \in StateT /\ t.found = st.found /\ t.inside = TRUE /\ t.pending = <<>>
            /\ t.before = st.before /\ t.after = st.after
        BY <1>1, <1>13, <3>2, ScanText
      <4> HIDE DEF t
      <4> QED BY <3>2, <4>1
    <3> QED BY <1>13, <3>1, <3>2
  <2>2. st.found /\ EndsIn(x, mine) /\ Spliced(mine, fresh, x, R) /\ Spliced(mine, fresh, x, R \o st.pending)
    BY <1>13 DEF Scanning
  <2>3. T = R
    BY <2>1 DEF Result
  <2>4. EndsIn(y, mine)
    BY <1>5, <1>13, <2>2
  <2>5. ~IsOwn(line) /\ \A s \in Sections \ {mine} : line # Header(s)
    <3>1. \A s \in Sections \ {mine} : line # Header(s)
      BY <1>7, <1>13
    <3>2. CASE line.kind = "note"
      BY <3>1, <3>2, NotOwn
    <3>3. CASE line.kind = "text"
      <4>1. line.name = mine
        BY <1>2, <2>2, <3>3
      <4> QED BY <3>1, <4>1 DEF IsOwn
    <3> QED BY <1>13, <3>1, <3>2, <3>3
  <2>6. Spliced(mine, fresh, y, T)
    BY <2>2, <2>3, <2>5, DropsLine
  <2>7. Spliced(mine, fresh, y, T \o t.pending)
    <3>1. CASE line.kind = "note"
      <4>1. T \o t.pending = Append(R \o st.pending, line)
        <5> DEFINE b == st.pending
        <5>1. R \in Seq(Line) /\ b \in Seq(Line) /\ T \o t.pending = R \o Append(b, line)
          BY <1>1, <1>8, <2>1, <2>3, <3>1
        <5> HIDE DEF T, R, t, b
        <5>2. T \o t.pending = Append(R \o b, line)
          BY <5>1, JoinAppend
        <5> QED BY <5>2 DEF b
      <4>2. line # Header(mine) /\ line.kind # "text"
        BY <1>7, <3>1
      <4> QED BY <2>2, <4>1, <4>2, KeepsLine
    <3>2. CASE line.kind = "text"
      BY <1>9, <2>1, <2>3, <2>6, <3>2
    <3> QED BY <1>13, <3>1, <3>2
  <2> HIDE DEF t, y, T
  <2>8. Scanning(mine, fresh, y, t)
    BY <2>1, <2>2, <2>4, <2>6, <2>7 DEF Scanning, T
  <2> QED BY <2>8 DEF t, y
<1> QED BY <1>2, <1>3, <1>4, <1>10, <1>11, <1>12, <1>13

Begin == [before |-> <<>>, after |-> <<>>, pending |-> <<>>, found |-> FALSE, inside |-> FALSE]

(* g[i] is the state of the splice after i lines.                           *)
ScanRun(g, mine, l, n) == g = [i \in 0..n |-> IF i = 0 THEN Begin ELSE Scan(mine, g[i - 1], l[i])]

(* There is such a function.                                                *)
LEMMA ScanRunExists ==
    ASSUME NEW mine, NEW l, NEW n \in Nat
    PROVE  \E g : ScanRun(g, mine, l, n)
<1> DEFINE S == {k \in Nat : \E g : ScanRun(g, mine, l, k)}
<1>1. 0 \in S
  <2> DEFINE g == [i \in 0..0 |-> Begin]
  <2>1. g = [i \in 0..0 |-> IF i = 0 THEN Begin ELSE Scan(mine, g[i - 1], l[i])]
    OBVIOUS
  <2>2. ScanRun(g, mine, l, 0)
    BY <2>1 DEF ScanRun
  <2> QED BY <2>2
<1>2. ASSUME NEW k \in Nat, k \in S PROVE k + 1 \in S
  <2>1. PICK g : ScanRun(g, mine, l, k)
    BY <1>2
  <2> DEFINE h == [i \in 0..(k + 1) |-> IF i = k + 1 THEN Scan(mine, g[k], l[k + 1]) ELSE g[i]]
  <2>2. \A i \in 0..k : g[i] = IF i = 0 THEN Begin ELSE Scan(mine, g[i - 1], l[i])
    BY <2>1 DEF ScanRun
  <2>3. ASSUME NEW i \in 0..(k + 1)
        PROVE  h[i] = IF i = 0 THEN Begin ELSE Scan(mine, h[i - 1], l[i])
    <3>1. CASE i = k + 1
      BY <3>1
    <3>2. CASE i # k + 1
      <4>1. i \in 0..k /\ h[i] = g[i] /\ (i # 0 => i - 1 \in 0..k /\ i - 1 # k + 1 /\ h[i - 1] = g[i - 1])
        BY <3>2
      <4> QED BY <2>2, <4>1
    <3> QED BY <3>1, <3>2
  <2>4. h = [i \in 0..(k + 1) |-> h[i]]
    OBVIOUS
  <2> HIDE DEF h
  <2>5. ScanRun(h, mine, l, k + 1)
    BY <2>3, <2>4 DEF ScanRun
  <2> QED BY <2>5
<1> HIDE DEF S
<1>3. n \in S
  BY <1>1, <1>2, EveryNumber
<1> QED BY <1>3 DEF S

(* Splice is made of its last value.                                        *)
LEMMA SpliceByRun ==
    ASSUME NEW mine, NEW fresh, NEW l, Len(l) \in Nat
    PROVE  \E g : ScanRun(g, mine, l, Len(l)) /\ Splice(l, mine, fresh) = Result(g[Len(l)], fresh)
<1> DEFINE n == Len(l)
           h == CHOOSE h : h = [i \in 0..n |->
                  IF i = 0 THEN [before |-> <<>>, after |-> <<>>, pending |-> <<>>, found |-> FALSE, inside |-> FALSE]
                           ELSE Scan(mine, h[i - 1], l[i])]
<1>1. Splice(l, mine, fresh) = Result(h[n], fresh)
  BY DEF Splice, Result
<1>2. PICK g : ScanRun(g, mine, l, n)
  BY ScanRunExists
<1>3. g = [i \in 0..n |->
                  IF i = 0 THEN [before |-> <<>>, after |-> <<>>, pending |-> <<>>, found |-> FALSE, inside |-> FALSE]
                           ELSE Scan(mine, g[i - 1], l[i])]
  BY <1>2 DEF ScanRun, Begin
<1>4. h = [i \in 0..n |->
                  IF i = 0 THEN [before |-> <<>>, after |-> <<>>, pending |-> <<>>, found |-> FALSE, inside |-> FALSE]
                           ELSE Scan(mine, h[i - 1], l[i])]
  BY <1>3
<1>5. ScanRun(h, mine, l, n)
  BY <1>4 DEF ScanRun, Begin
<1> HIDE DEF h
<1> QED BY <1>1, <1>5

(* The beginning of a file is as well formed.                               *)
LEMMA WellFormedPrefix ==
    ASSUME NEW l, WellFormed(l), NEW k \in 0..Len(l)
    PROVE  WellFormed(SubSeq(l, 1, k)) /\ SubSeq(l, 1, k) \in Seq(Line)
<1> DEFINE m == SubSeq(l, 1, k)
<1>0. l \in Seq(Line)
  BY DEF WellFormed
<1>1. m \in Seq(Line) /\ Len(m) = k /\ k \in Nat /\ k <= Len(l) /\ \A i \in 1..k : m[i] = l[i]
  BY <1>0
<1> HIDE DEF m
<1>2. DOMAIN m = 1..k /\ DOMAIN l = 1..Len(l)
  BY <1>0, <1>1
<1>3. ASSUME NEW i \in 1..k, NEW s PROVE Under(m, i, s) <=> Under(l, i, s)
  <2>1. \A j \in 1..i - 1 : m[j] = l[j]
    BY <1>1
  <2>2. ASSUME NEW h \in 1..i - 1
        PROVE  /\ m[h] = l[h]
               /\ (\A j \in h + 1..i - 1 : m[j].kind \in {"text", "note"}) <=>
                    (\A j \in h + 1..i - 1 : l[j].kind \in {"text", "note"})
    <3>1. \A j \in h + 1..i - 1 : j \in 1..i - 1
      BY <1>1
    <3> QED BY <2>1, <3>1
  <2> QED BY <2>2 DEF Under
<1>4. ASSUME NEW i \in 1..k, NEW s \in Sections
      PROVE  (m[i].kind = "table" => m[i].name # s) /\ (m[i].kind = "text" /\ Under(m, i, s) => m[i].name = s)
  <2>1. i \in DOMAIN l /\ m[i] = l[i]
    BY <1>1, <1>2
  <2> QED BY <1>3, <2>1 DEF WellFormed
<1>5. WellFormed(m)
  BY <1>1, <1>2, <1>4 DEF WellFormed
<1> QED BY <1>1, <1>5 DEF m

(* What the splice makes of a file: it is well formed, the operator's lines *)
(* are as they were, the own section is there as wanted and the other one   *)
(* as before.                                                               *)
LEMMA SpliceFacts ==
    ASSUME NEW mine \in Sections, NEW fresh \in {<<>>, Section(mine)}, NEW l, WellFormed(l)
    PROVE  Spliced(mine, fresh, l, Splice(l, mine, fresh))
<1> DEFINE n == Len(l)
<1>1. l \in Seq(Line) /\ n \in Nat
  BY DEF WellFormed
<1>2. PICK g : ScanRun(g, mine, l, n) /\ Splice(l, mine, fresh) = Result(g[n], fresh)
  BY <1>1, SpliceByRun
<1>3. \A i \in 0..n : g[i] = IF i = 0 THEN Begin ELSE Scan(mine, g[i - 1], l[i])
  BY <1>2 DEF ScanRun
<1> DEFINE S == {i \in Nat : i <= n => Scanning(mine, fresh, SubSeq(l, 1, i), g[i])}
<1>4. 0 \in S
  <2>1. g[0] = Begin /\ SubSeq(l, 1, 0) = <<>>
    BY <1>1, <1>3
  <2>2. ~Has(<<>>, mine)
    BY DEF Has
  <2>3. Begin \in StateT
    <3> DEFINE e == <<>>
    <3>1. e \in Seq(Line)
      OBVIOUS
    <3> HIDE DEF e
    <3>2. Begin = [before |-> e, after |-> e, pending |-> e, found |-> FALSE, inside |-> FALSE]
      BY DEF Begin, e
    <3> QED BY <3>1, <3>2 DEF StateT
  <2>4. /\ Begin.before = <<>> /\ Begin.after = <<>> /\ Begin.pending = <<>>
        /\ Begin.found = FALSE /\ Begin.inside = FALSE
    BY DEF Begin
  <2>5. Scanning(mine, fresh, <<>>, Begin)
    BY <2>2, <2>3, <2>4 DEF Scanning
  <2> QED BY <2>1, <2>5
<1>5. ASSUME NEW i \in Nat, i \in S PROVE i + 1 \in S
  <2> SUFFICES ASSUME i + 1 <= n PROVE Scanning(mine, fresh, SubSeq(l, 1, i + 1), g[i + 1])
    OBVIOUS
  <2> DEFINE x == SubSeq(l, 1, i)
             y == SubSeq(l, 1, i + 1)
             line == l[i + 1]
  <2>1. i \in 0..n /\ i + 1 \in 0..n /\ i + 1 \in 1..n /\ i + 1 # 0 /\ (i + 1) - 1 = i
    BY <1>1
  <2>2. line \in Line
    BY <1>1, <2>1
  <2>3. x \in Seq(Line) /\ y \in Seq(Line) /\ WellFormed(y)
    BY <2>1, WellFormedPrefix
  <2>4. y = Append(x, line)
    BY <1>1, <2>1
  <2>5. Scanning(mine, fresh, x, g[i])
    BY <1>5, <2>1
  <2>6. g[i + 1] = Scan(mine, g[i], line)
    BY <1>3, <2>1
  <2> HIDE DEF x, y, line
  <2>7. Scanning(mine, fresh, y, g[i + 1])
    BY <2>2, <2>3, <2>4, <2>5, <2>6, ScanStep
  <2> QED BY <2>7 DEF y
<1> HIDE DEF S
<1>6. n \in S
  BY <1>1, <1>4, <1>5, EveryNumber
<1>7. SubSeq(l, 1, n) = l
  BY <1>1
<1> DEFINE st == g[n]
<1>8. Scanning(mine, fresh, l, st)
  <2>1. Scanning(mine, fresh, SubSeq(l, 1, n), g[n])
    BY <1>1, <1>6 DEF S
  <2> QED BY <1>7, <2>1
<1> HIDE DEF st
<1>9. Spliced(mine, fresh, l, Result(st, fresh))
  <2>1. CASE st.found
    BY <1>8, <2>1 DEF Scanning
  <2>2. CASE ~st.found
    <3>1. st.before = l /\ st.after = <<>> /\ ~Has(l, mine)
      BY <1>8, <2>2 DEF Scanning
    <3>2. fresh \in Seq(Line)
      BY FreshType
    <3>3. Result(st, fresh) = (l \o fresh) \o <<>> /\ l \o fresh \in Seq(Line)
      BY <1>1, <3>1, <3>2 DEF Result
    <3>4. Result(st, fresh) = l \o fresh
      BY <3>3, JoinNone
    <3> QED BY <1>1, <3>1, <3>4, AddsFresh
  <2> QED BY <2>1, <2>2
<1> QED BY <1>2, <1>9 DEF st
-----------------------------------------------------------------------------
(* The accounts and the known clients in the config file.                   *)

(* Accounts, as the store or a file has them.                               *)
IsAccounts(a) == a = [users |-> a.users, groups |-> a.groups, keys |-> a.keys]

NamesOf(ks) == {k.name : k \in ks}

(* The lists are functions and sets of records, and the file is a record.   *)
ListsType ==
    /\ users = [i \in DOMAIN users |-> users[i]]
    /\ groups = [g \in DOMAIN groups |-> groups[g]]
    /\ Protected \subseteq DOMAIN groups
    /\ \A k \in keys : k = [name |-> k.name, expired |-> k.expired]

SavingType ==
    /\ pc = [a \in Actor |-> pc[a]]
    /\ base = [a \in Actor |-> base[a]]
    /\ snap = [w \in Worker |-> snap[w]]
    /\ \A w \in Worker : IsAccounts(snap[w])
    /\ file = [lines |-> file.lines, auth |-> file.auth, clients |-> file.clients]
    /\ IsAccounts(file.auth)

(* Who is inside the lock, and has the file as it is.                       *)
Saving == {"users", "groups", "base", "write"}

Locked ==
    /\ \A w \in Worker : pc[w] \in Saving <=> lock = w
    /\ pc["sync"] = "write" <=> lock = "sync"
    /\ \A a \in Actor : pc[a] = "write" => base[a] = file

(* The lines of the file; an unusable one is left alone.                    *)
FileKept ==
    /\ WellFormed(file.lines) /\ Owned(file.lines) = Owned(start)
    /\ mode = "invalid" => /\ file.lines = start
                           /\ \A w \in Worker : pc[w] \notin Saving
                           /\ pc["sync"] = "idle"

(* Each list is in the file, in the hands of the request that is saving, or *)
(* some request is on its way to read it.                                   *)
UsersSaved ==
    \/ \E w \in Worker : pc[w] \in {"purge", "ungroup", "lock", "users"}
    \/ \E w \in Worker : pc[w] \in {"groups", "base", "write"} /\ snap[w].users = users
    \/ (\A w \in Worker : pc[w] \notin {"groups", "base", "write"}) /\ Load(file).users = users

GroupsSaved ==
    \/ \E w \in Worker : pc[w] \in {"lock", "users", "groups"}
    \/ \E w \in Worker : pc[w] \in {"base", "write"} /\ snap[w].groups = groups
    \/ (\A w \in Worker : pc[w] \notin {"base", "write"}) /\ Load(file).groups = groups

KeysSaved ==
    \/ \E w \in Worker : pc[w] \in {"lock", "users", "groups"}
    \/ \E w \in Worker : pc[w] \in {"base", "write"} /\ NamesOf(snap[w].keys) = NamesOf(keys)
    \/ (\A w \in Worker : pc[w] \notin {"base", "write"}) /\ NamesOf(Load(file).keys) = NamesOf(keys)

ClientsSaved == pc["sync"] \in {"lock", "write"} \/ LoadClients(file) = clients

AllSaved == ~failed /\ mode # "invalid" => UsersSaved /\ GroupsSaved /\ KeysSaved /\ ClientsSaved

CInv == ListsType /\ SavingType /\ Locked /\ FileKept /\ AllSaved

-----------------------------------------------------------------------------
(* What a start would load.                                                 *)

(* The lists in a file.                                                     *)
LEMMA LoadFields ==
    ASSUME NEW f, IsAccounts(f.auth)
    PROVE  /\ Load(f).users = IF Has(f.lines, "auth") THEN f.auth.users ELSE <<>>
           /\ Load(f).groups = WithProtected(IF Has(f.lines, "auth") THEN f.auth.groups ELSE [g \in {} |-> {}])
           /\ Load(f).keys = IF Has(f.lines, "auth") THEN f.auth.keys ELSE {}
<1>1. CASE Has(f.lines, "auth")
  <2> DEFINE a == f.auth
             p == WithProtected(a.groups)
  <2>1. a = [users |-> a.users, groups |-> a.groups, keys |-> a.keys]
    BY DEF IsAccounts
  <2>2. Load(f) = [a EXCEPT !.groups = p]
    BY <1>1 DEF Load
  <2> HIDE DEF a, p
  <2>3. Load(f).users = a.users /\ Load(f).groups = p /\ Load(f).keys = a.keys
    BY <2>1, <2>2
  <2> QED BY <1>1, <2>3 DEF a, p
<1>2. CASE ~Has(f.lines, "auth")
  <2> DEFINE a == Empty
             none == <<>>
             e == [g \in {} |-> {}]
             p == WithProtected(a.groups)
  <2>1. a = [users |-> none, groups |-> e, keys |-> {}]
    BY DEF Empty
  <2>2. Load(f) = [a EXCEPT !.groups = p]
    BY <1>2 DEF Load
  <2>3. a.groups = e
    BY <2>1
  <2> HIDE DEF a, p, e, none
  <2>4. Load(f).users = none /\ Load(f).groups = p /\ Load(f).keys = {}
    BY <2>1, <2>2
  <2> QED BY <1>2, <2>3, <2>4 DEF p, e, none
<1> QED BY <1>1, <1>2

(* It depends on the section and on what it says.                           *)
LEMMA LoadSame ==
    ASSUME NEW f, NEW g, Has(f.lines, "auth") <=> Has(g.lines, "auth"), f.auth = g.auth
    PROVE  Load(f) = Load(g)
BY Zenon DEF Load

(* Groups that have the protected ones are loaded as they are.              *)
LEMMA NothingMissing ==
    ASSUME ListsType
    PROVE  WithProtected(groups) = groups
<1>1. DOMAIN groups \cup Protected = DOMAIN groups
  BY DEF ListsType
<1>2. WithProtected(groups) = [n \in DOMAIN groups |-> groups[n]]
  BY <1>1 DEF WithProtected
<1> QED BY <1>2 DEF ListsType

-----------------------------------------------------------------------------
(* The steps.                                                               *)

(* A step that touches neither file nor lock, and goes on to a save if it   *)
(* changes what is to be saved.                                             *)
LEMMA Undisturbed ==
    ASSUME CInv, NEW w \in Worker, NEW nx, Go(w, nx), Quiet,
           pc[w] \notin Saving \cup {"lock"}, nx \notin Saving,
           users' = users \/ nx \in {"purge", "lock"}, groups' = groups \/ nx = "lock",
           NamesOf(keys') = NamesOf(keys) \/ nx = "lock",
           pc[w] \in {"purge", "ungroup"} => nx \in {"ungroup", "lock"},
           ListsType'
    PROVE  CInv'
<1> USE DEF Saving
<1>1. /\ file' = file /\ lock' = lock /\ snap' = snap /\ base' = base /\ failed' = failed
      /\ clients' = clients /\ mode' = mode /\ start' = start
  BY DEF Quiet, Same, SameFile, SameSync
<1>2. pc' = [pc EXCEPT ![w] = nx] /\ w \in Actor /\ "sync" \in Actor /\ w # "sync" /\ w # "none"
  BY WorkerAssumption DEF Go, Actor
<1>3. SavingType' /\ pc'[w] = nx /\ \A a \in Actor : a # w => pc'[a] = pc[a]
  BY <1>1, <1>2 DEF CInv, SavingType
<1>4. \A v \in Worker : v \in Actor /\ (v # w => pc'[v] = pc[v])
  BY <1>3 DEF Actor
<1>5. pc'["sync"] = pc["sync"]
  BY <1>2, <1>3
<1>6. Locked'
  BY <1>1, <1>2, <1>3, <1>4, <1>5 DEF CInv, Locked
<1>7. FileKept'
  BY <1>1, <1>3, <1>4, <1>5 DEF CInv, FileKept
<1>8. ASSUME AllSaved, ~failed, mode # "invalid" PROVE UsersSaved' /\ GroupsSaved' /\ KeysSaved' /\ ClientsSaved'
  <2>1. UsersSaved'
    <3>1. CASE nx \in {"purge", "lock"}
      BY <1>3, <3>1 DEF UsersSaved
    <3>2. CASE nx \notin {"purge", "lock"}
      BY <1>1, <1>3, <1>4, <1>8, <3>2 DEF AllSaved, UsersSaved
    <3> QED BY <3>1, <3>2
  <2>2. GroupsSaved'
    <3>1. CASE nx = "lock"
      BY <1>3, <3>1 DEF GroupsSaved
    <3>2. CASE nx # "lock"
      BY <1>1, <1>3, <1>4, <1>8, <3>2 DEF AllSaved, GroupsSaved
    <3> QED BY <3>1, <3>2
  <2>3. KeysSaved'
    <3>1. CASE nx = "lock"
      BY <1>3, <3>1 DEF KeysSaved
    <3>2. CASE nx # "lock"
      BY <1>1, <1>3, <1>4, <1>8, <3>2 DEF AllSaved, KeysSaved
    <3> QED BY <3>1, <3>2
  <2>4. ClientsSaved'
    BY <1>1, <1>5, <1>8 DEF AllSaved, ClientsSaved
  <2> QED BY <2>1, <2>2, <2>3, <2>4
<1>9. AllSaved'
  BY <1>1, <1>8 DEF CInv, AllSaved
<1> QED BY <1>3, <1>6, <1>7, <1>9 DEF CInv

(* A step in which no request goes on.                                      *)
LEMMA NobodyGoesOn ==
    ASSUME CInv, pc' = pc, Quiet, users' = users, groups' = groups,
           NamesOf(keys') = NamesOf(keys), ListsType'
    PROVE  CInv'
<1>1. /\ file' = file /\ lock' = lock /\ snap' = snap /\ base' = base /\ failed' = failed
      /\ clients' = clients /\ mode' = mode /\ start' = start
  BY DEF Quiet, Same, SameFile, SameSync
<1>2. SavingType' /\ Locked' /\ FileKept'
  BY <1>1 DEF CInv, SavingType, Locked, FileKept
<1>3. ASSUME UsersSaved /\ GroupsSaved /\ KeysSaved /\ ClientsSaved
      PROVE  UsersSaved' /\ GroupsSaved' /\ KeysSaved' /\ ClientsSaved'
  BY <1>1, <1>3 DEF UsersSaved, GroupsSaved, KeysSaved, ClientsSaved
<1>4. AllSaved'
  BY <1>1, <1>3 DEF CInv, AllSaved
<1> QED BY <1>2, <1>4 DEF CInv

(* Requests that change no list.                                            *)
LEMMA OtherRequests ==
    ASSUME CInv, NEW w \in Worker,
           \/ SetupCheck(w) \/ LoginVerify(w) \/ LoginInsert(w) \/ logout(w)
           \/ Validate(w) \/ Authorize(w) \/ AdmitKey(w) \/ PurgeSessions(w)
    PROVE  CInv'
<1>1. Quiet /\ users' = users /\ groups' = groups /\ keys' = keys
  BY DEF SetupCheck, LoginVerify, LoginInsert, logout, Validate, Authorize, AdmitKey, PurgeSessions, store
<1>2. ListsType'
  BY <1>1 DEF CInv, ListsType
<1>3. CASE logout(w)
  <2>1. pc' = pc
    BY <1>3 DEF logout
  <2> QED BY <1>1, <1>2, <2>1, NobodyGoesOn
<1>4. ASSUME NEW nx, Go(w, nx), nx \in {"setup", "insert", "idle", "authorize", "admitted", "ungroup"},
             pc[w] \in {"idle", "insert", "authorize", "purge"}, pc[w] = "purge" => nx = "ungroup"
      PROVE  CInv'
  BY <1>1, <1>2, <1>4, Undisturbed DEF Saving
<1>5. CASE SetupCheck(w)
  <2>1. pc[w] = "idle" /\ Go(w, "setup")
    BY <1>5 DEF SetupCheck
  <2> QED BY <1>4, <2>1
<1>6. CASE LoginVerify(w)
  <2>1. pc[w] = "idle" /\ Go(w, "insert")
    BY <1>6 DEF LoginVerify
  <2> QED BY <1>4, <2>1
<1>7. CASE LoginInsert(w)
  <2>1. pc[w] = "insert" /\ Go(w, "idle")
    BY <1>7 DEF LoginInsert
  <2> QED BY <1>4, <2>1
<1>8. CASE Validate(w)
  <2>1. pc[w] = "idle" /\ Go(w, "authorize")
    BY <1>8 DEF Validate
  <2> QED BY <1>4, <2>1
<1>9. CASE Authorize(w)
  <2> DEFINE nx == IF arg[w].name \in groups["admin"] THEN "admitted" ELSE "idle"
  <2>1. pc[w] = "authorize" /\ Go(w, nx) /\ nx \in {"admitted", "idle"}
    BY <1>9 DEF Authorize
  <2> HIDE DEF nx
  <2> QED BY <1>4, <2>1
<1>10. CASE AdmitKey(w)
  <2>1. pc[w] = "idle" /\ Go(w, "admitted")
    BY <1>10 DEF AdmitKey
  <2> QED BY <1>4, <2>1
<1>11. CASE PurgeSessions(w)
  <2>1. pc[w] = "purge" /\ Go(w, "ungroup")
    BY <1>11 DEF PurgeSessions
  <2> QED BY <1>4, <2>1
<1> QED BY <1>3, <1>5, <1>6, <1>7, <1>8, <1>9, <1>10, <1>11

(* Steps that change a list and go on to save it.                           *)
LEMMA ListRequests ==
    ASSUME CInv, NEW w \in Worker, SetupPush(w) \/ PurgeMember(w) \/ Join(w)
    PROVE  CInv'
<1>0. ListsType /\ Protected \subseteq DOMAIN groups
  BY DEF CInv, ListsType
<1>1. Quiet /\ Go(w, "lock") /\ pc[w] \in {"setup", "ungroup", "join"} /\ keys' = keys
  BY DEF SetupPush, PurgeMember, Join
<1>2. ListsType'
  <2>1. CASE SetupPush(w)
    <3>1. users' = [i \in DOMAIN users' |-> users'[i]]
      BY <2>1 DEF SetupPush, Pushed
    <3>2. groups' = [g \in DOMAIN groups |-> groups[g] \cup IF g \in Protected THEN {"admin"} ELSE {}]
      BY <2>1 DEF SetupPush
    <3> QED BY <1>0, <1>1, <3>1, <3>2 DEF ListsType
  <2>2. CASE PurgeMember(w)
    <3>1. groups' = [g \in DOMAIN groups |-> groups[g] \ {arg[w].name}] /\ users' = users
      BY <2>2 DEF PurgeMember
    <3> QED BY <1>0, <1>1, <3>1 DEF ListsType
  <2>3. CASE Join(w)
    <3>1. groups' = Joined(arg[w].group, arg[w].name) /\ users' = users
      BY <2>3 DEF Join
    <3> QED BY <1>0, <1>1, <3>1 DEF ListsType, Joined
  <2> QED BY <2>1, <2>2, <2>3
<1> QED BY <1>1, <1>2, Undisturbed DEF Saving

(* A request that is admitted changes a list and goes on to save it, or     *)
(* answers with an error and leaves the lists as they are.                  *)
LEMMA ChangeStep ==
    ASSUME CInv, NEW w \in Worker, NEW ok, NEW nx \in {"lock", "purge"}, NEW a, Change(w, ok, nx, a), ListsType',
           ~ok => users' = users /\ groups' = groups /\ keys' = keys,
           nx = "purge" => groups' = groups /\ keys' = keys
    PROVE  CInv'
<1> DEFINE go == IF ok THEN nx ELSE "idle"
<1>1. Quiet /\ Go(w, go) /\ pc[w] = "admitted"
  BY DEF Change
<1>2. go \in {"lock", "purge", "idle"} /\ (go # "idle" => go = nx) /\ (go = "idle" => ~ok)
  OBVIOUS
<1> HIDE DEF go
<1> QED BY <1>1, <1>2, Undisturbed DEF Saving

(* Requests about the users.                                                *)
LEMMA UserRequests ==
    ASSUME CInv, NEW w \in Worker, NEW u, add_user(w, u) \/ remove_user(w, u) \/ update_user(w, u)
    PROVE  CInv'
<1>0. ListsType /\ users = [i \in DOMAIN users |-> users[i]]
  BY DEF CInv, ListsType
<1>1. CASE add_user(w, u)
  <2>1. Change(w, ~Named(users, u), "lock", About(u, "user")) /\ groups' = groups /\ keys' = keys
    BY <1>1 DEF add_user
  <2>2. users' = IF Named(users, u) THEN users ELSE Pushed(users, [name |-> u, pw |-> 0])
    BY <1>1 DEF add_user
  <2>3. ListsType'
    <3>1. users' = [i \in DOMAIN users' |-> users'[i]]
      BY <1>0, <2>2 DEF Pushed
    <3> QED BY <1>0, <2>1, <3>1 DEF ListsType
  <2> QED BY <2>1, <2>2, <2>3, ChangeStep
<1>2. CASE remove_user(w, u)
  <2>1. Change(w, Named(users, u), "purge", About(u, "none")) /\ groups' = groups /\ keys' = keys
    BY <1>2 DEF remove_user
  <2> DEFINE left == {i \in DOMAIN users : users[i].name # u}
  <2>2. users' = [i \in left |-> users[i]]
    BY <1>2 DEF remove_user, Without, Restrict
  <2>3. ListsType'
    <3>1. users' = [i \in DOMAIN users' |-> users'[i]]
      BY <2>2
    <3> QED BY <1>0, <2>1, <3>1 DEF ListsType
  <2>4. ~Named(users, u) => users' = users
    <3>1. ~Named(users, u) => left = DOMAIN users
      BY DEF Named
    <3> QED BY <1>0, <2>2, <3>1
  <2> QED BY <2>1, <2>3, <2>4, ChangeStep
<1>3. CASE update_user(w, u)
  <2>1. Change(w, Named(users, u), "lock", None) /\ groups' = groups /\ keys' = keys
    BY <1>3 DEF update_user
  <2> DEFINE mine == {i \in DOMAIN users : users[i].name = u}
  <2>2. users' = [i \in DOMAIN users |-> IF i \in mine /\ \A j \in mine : i <= j
                                 THEN [users[i] EXCEPT !.pw = @ + 1] ELSE users[i]]
    BY <1>3 DEF update_user
  <2>3. ListsType'
    <3>1. users' = [i \in DOMAIN users' |-> users'[i]]
      BY <2>2
    <3> QED BY <1>0, <2>1, <3>1 DEF ListsType
  <2>4. ~Named(users, u) => users' = users
    <3>1. ~Named(users, u) => mine = {}
      BY DEF Named
    <3> QED BY <1>0, <2>2, <3>1
  <2> QED BY <2>1, <2>3, <2>4, ChangeStep
<1> QED BY <1>1, <1>2, <1>3

(* Requests about the groups.                                               *)
LEMMA GroupRequests ==
    ASSUME CInv, NEW w \in Worker, NEW g, NEW u,
           \/ add_group(w, g) \/ remove_group(w, g)
           \/ add_member_to_group(w, g, u) \/ remove_member_from_group(w, g, u)
    PROVE  CInv'
<1>0. ListsType /\ groups = [n \in DOMAIN groups |-> groups[n]] /\ Protected \subseteq DOMAIN groups
  BY DEF CInv, ListsType
<1>2. CASE add_group(w, g)
  <2>1. /\ Change(w, g \notin DOMAIN groups, "lock", None) /\ users' = users /\ keys' = keys
        /\ groups' = [n \in DOMAIN groups \cup {g} |-> IF n \in DOMAIN groups THEN groups[n] ELSE {}]
    BY <1>2 DEF add_group
  <2>2. ListsType'
    BY <1>0, <2>1 DEF ListsType
  <2>3. g \in DOMAIN groups => groups' = groups
    <3>1. g \in DOMAIN groups => DOMAIN groups \cup {g} = DOMAIN groups
      OBVIOUS
    <3> QED BY <1>0, <2>1, <3>1
  <2> DEFINE ok == g \notin DOMAIN groups
  <2>4. Change(w, ok, "lock", None) /\ (~ok => groups' = groups)
    BY <2>1, <2>3
  <2> HIDE DEF ok
  <2> QED BY <2>1, <2>2, <2>4, ChangeStep
<1>3. CASE remove_group(w, g)
  <2>1. /\ Change(w, g \in DOMAIN groups \ Protected, "lock", None) /\ users' = users /\ keys' = keys
        /\ groups' = [n \in DOMAIN groups \ ({g} \ Protected) |-> groups[n]]
    BY <1>3 DEF remove_group
  <2>2. ListsType'
    BY <1>0, <2>1 DEF ListsType
  <2>3. g \notin DOMAIN groups \ Protected => groups' = groups
    <3>1. g \notin DOMAIN groups \ Protected => DOMAIN groups \ ({g} \ Protected) = DOMAIN groups
      OBVIOUS
    <3> QED BY <1>0, <2>1, <3>1
  <2> DEFINE ok == g \in DOMAIN groups \ Protected
  <2>4. Change(w, ok, "lock", None) /\ (~ok => groups' = groups)
    BY <2>1, <2>3
  <2> HIDE DEF ok
  <2> QED BY <2>1, <2>2, <2>4, ChangeStep
<1>4. CASE add_member_to_group(w, g, u)
  <2>1. /\ Change(w, g \in DOMAIN groups, "lock", None) /\ users' = users /\ keys' = keys
        /\ groups' = [n \in DOMAIN groups |-> IF n = g THEN groups[n] \cup {u} ELSE groups[n]]
    BY <1>4 DEF add_member_to_group, Joined
  <2>2. ListsType'
    BY <1>0, <2>1 DEF ListsType
  <2>3. g \notin DOMAIN groups => groups' = groups
    BY <1>0, <2>1
  <2> QED BY <2>1, <2>2, <2>3, ChangeStep
<1>5. CASE remove_member_from_group(w, g, u)
  <2>1. /\ Change(w, g \in DOMAIN groups, "lock", None) /\ users' = users /\ keys' = keys
        /\ groups' = [n \in DOMAIN groups |-> IF n = g THEN groups[n] \ {u} ELSE groups[n]]
    BY <1>5 DEF remove_member_from_group
  <2>2. ListsType'
    BY <1>0, <2>1 DEF ListsType
  <2>3. g \notin DOMAIN groups => groups' = groups
    BY <1>0, <2>1
  <2> QED BY <2>1, <2>2, <2>3, ChangeStep
<1> QED BY <1>2, <1>3, <1>4, <1>5

(* Requests about the API keys.                                             *)
LEMMA KeyRequests ==
    ASSUME CInv, NEW w \in Worker, NEW n, create_api_key(w, n) \/ revoke_api_key(w, n)
    PROVE  CInv'
<1>0. ListsType /\ \A k \in keys : k = [name |-> k.name, expired |-> k.expired]
  BY DEF CInv, ListsType
<1>1. CASE create_api_key(w, n)
  <2> DEFINE free == \A k \in keys : k.name # n
  <2>1. /\ Change(w, free, "lock", None) /\ users' = users /\ groups' = groups
        /\ keys' = IF free THEN keys \cup {[name |-> n, expired |-> FALSE]} ELSE keys
    BY <1>1 DEF create_api_key
  <2> HIDE DEF free
  <2>2. ListsType'
    BY <1>0, <2>1 DEF ListsType
  <2> QED BY <2>1, <2>2, ChangeStep
<1>2. CASE revoke_api_key(w, n)
  <2> DEFINE found == \E k \in keys : k.name = n
  <2>1. /\ Change(w, found, "lock", None) /\ users' = users /\ groups' = groups
        /\ keys' = {k \in keys : k.name # n}
    BY <1>2 DEF revoke_api_key
  <2>2. ListsType'
    BY <1>0, <2>1 DEF ListsType
  <2>3. ~found => keys' = keys
    BY <2>1
  <2> HIDE DEF found
  <2> QED BY <2>1, <2>2, <2>3, ChangeStep
<1> QED BY <1>1, <1>2

(* Sessions and keys expire.                                                *)
LEMMA Expiries ==
    ASSUME CInv, SessionExpires \/ KeyExpires
    PROVE  CInv'
<1>0. ListsType /\ \A k \in keys : k = [name |-> k.name, expired |-> k.expired]
  BY DEF CInv, ListsType
<1>1. Quiet /\ pc' = pc /\ users' = users /\ groups' = groups
  BY DEF SessionExpires, KeyExpires, store
<1>2. CASE SessionExpires
  <2>1. keys' = keys
    BY <1>2 DEF SessionExpires, store
  <2>2. ListsType'
    BY <1>0, <1>1, <2>1 DEF ListsType
  <2> QED BY <1>1, <2>1, <2>2, NobodyGoesOn
<1>3. CASE KeyExpires
  <2>1. PICK k \in keys : keys' = (keys \ {k}) \cup {[k EXCEPT !.expired = TRUE]}
    BY <1>3 DEF KeyExpires
  <2> DEFINE x == [k EXCEPT !.expired = TRUE]
  <2>2. x = [name |-> k.name, expired |-> TRUE] /\ x.name = k.name
    <3> DEFINE n == k.name
               e == k.expired
    <3>1. k = [name |-> n, expired |-> e]
      BY <1>0
    <3> HIDE DEF n, e
    <3>2. ASSUME NEW t, t = TRUE PROVE x = [name |-> n, expired |-> t] /\ x.name = n
      <4>1. x = [[name |-> n, expired |-> e] EXCEPT !.expired = t]
        BY <3>1, <3>2, Zenon
      <4> HIDE DEF x
      <4>2. [[name |-> n, expired |-> e] EXCEPT !.expired = t] = [name |-> n, expired |-> t]
        OBVIOUS
      <4> QED BY <4>1, <4>2
    <3>3. x = [name |-> n, expired |-> TRUE] /\ x.name = n
      BY <3>2, Zenon
    <3> QED BY <3>3 DEF n
  <2> HIDE DEF x
  <2>3. keys' = (keys \ {k}) \cup {x}
    BY <2>1 DEF x
  <2>4. ListsType'
    BY <1>0, <1>1, <2>2, <2>3 DEF ListsType
  <2>5. NamesOf(keys') = NamesOf(keys)
    BY <2>2, <2>3 DEF NamesOf
  <2> QED BY <1>1, <2>4, <2>5, NobodyGoesOn
<1> QED BY <1>2, <1>3

(* Where a request goes on after persist.                                   *)
LEMMA AfterSaving ==
    ASSUME NEW w
    PROVE  After(w) \in {"insert", "idle", "join"}
BY DEF After

(* The accounts in the hands of a request that reads the lists.             *)
LEMMA SnapUsers ==
    ASSUME SavingType, NEW w \in Worker, snap' = [snap EXCEPT ![w].users = users]
    PROVE  /\ snap' = [v \in Worker |-> snap'[v]] /\ \A v \in Worker : IsAccounts(snap'[v])
           /\ \A v \in Worker : v # w => snap'[v] = snap[v]
           /\ snap'[w].users = users /\ snap'[w].groups = snap[w].groups /\ snap'[w].keys = snap[w].keys
<1> DEFINE a == snap[w]
           x == [a EXCEPT !.users = users]
<1>1. snap = [v \in Worker |-> snap[v]]
  BY DEF SavingType
<1>2. a = [users |-> a.users, groups |-> a.groups, keys |-> a.keys]
  BY DEF SavingType, IsAccounts
<1>3. snap' = [snap EXCEPT ![w] = x]
  BY Zenon
<1> HIDE DEF a
<1>4. x.users = users /\ x.groups = a.groups /\ x.keys = a.keys /\ x = [users |-> x.users, groups |-> x.groups, keys |-> x.keys]
  BY <1>2
<1> HIDE DEF x
<1>5. snap' = [v \in Worker |-> snap'[v]] /\ (\A v \in Worker : v # w => snap'[v] = snap[v]) /\ snap'[w] = x
  BY <1>1, <1>3
<1>6. ASSUME NEW v \in Worker PROVE IsAccounts(snap'[v])
  <2>1. CASE v = w
    BY <1>4, <1>5, <2>1 DEF IsAccounts
  <2>2. CASE v # w
    BY <1>5, <2>2 DEF SavingType
  <2> QED BY <2>1, <2>2
<1> QED BY <1>4, <1>5, <1>6 DEF a

(* The same for the groups and the keys, which are read together.           *)
LEMMA SnapGroups ==
    ASSUME SavingType, NEW w \in Worker, snap' = [snap EXCEPT ![w].groups = groups, ![w].keys = keys]
    PROVE  /\ snap' = [v \in Worker |-> snap'[v]] /\ \A v \in Worker : IsAccounts(snap'[v])
           /\ \A v \in Worker : v # w => snap'[v] = snap[v]
           /\ snap'[w].users = snap[w].users /\ snap'[w].groups = groups /\ snap'[w].keys = keys
<1> DEFINE a == snap[w]
           x == [a EXCEPT !.groups = groups]
           y == [x EXCEPT !.keys = keys]
           s == [snap EXCEPT ![w] = x]
<1>1. snap = [v \in Worker |-> snap[v]]
  BY DEF SavingType
<1>2. a = [users |-> a.users, groups |-> a.groups, keys |-> a.keys]
  BY DEF SavingType, IsAccounts
<1>3. snap' = [[snap EXCEPT ![w] = x] EXCEPT ![w] = [@ EXCEPT !.keys = keys]]
  BY Zenon
<1> HIDE DEF a
<1>4. x.users = a.users /\ x.groups = groups /\ x.keys = a.keys /\ x = [users |-> a.users, groups |-> groups, keys |-> a.keys]
  BY <1>2
<1> HIDE DEF x
<1>5. y.users = a.users /\ y.groups = groups /\ y.keys = keys /\ y = [users |-> y.users, groups |-> y.groups, keys |-> y.keys]
  BY <1>4
<1>6. s = [v \in Worker |-> s[v]] /\ s[w] = x /\ (\A v \in Worker : v # w => s[v] = snap[v])
  BY <1>1
<1>7. snap' = [s EXCEPT ![w] = [s[w] EXCEPT !.keys = keys]]
  BY <1>3
<1> HIDE DEF s
<1>8. snap' = [s EXCEPT ![w] = y]
  BY <1>6, <1>7
<1> HIDE DEF y
<1>9. snap' = [v \in Worker |-> snap'[v]] /\ (\A v \in Worker : v # w => snap'[v] = snap[v]) /\ snap'[w] = y
  BY <1>6, <1>8
<1>10. ASSUME NEW v \in Worker PROVE IsAccounts(snap'[v])
  <2>1. CASE v = w
    BY <1>5, <1>9, <2>1 DEF IsAccounts
  <2>2. CASE v # w
    BY <1>9, <2>2 DEF SavingType
  <2> QED BY <2>1, <2>2
<1> QED BY <1>5, <1>9, <1>10 DEF a

(* The steps of a request from one phase of persist to the next.            *)
LEMMA SavingSteps ==
    ASSUME CInv, NEW w \in Worker, LockFile(w) \/ ReadUsers(w) \/ ReadGroups(w) \/ ReadBase(w)
    PROVE  CInv'
<1> USE DEF Saving
<1>1. /\ users' = users /\ groups' = groups /\ keys' = keys /\ clients' = clients
      /\ mode' = mode /\ start' = start /\ file' = file /\ failed' = failed
  BY DEF LockFile, ReadUsers, ReadGroups, ReadBase, SameStore, SameSync, Same, store
<1>2. w \in Actor /\ "sync" \in Actor /\ w # "sync" /\ w # "none" /\ \A v \in Worker : v \in Actor /\ v # "sync" /\ v # "none"
  BY WorkerAssumption DEF Actor
<1>3. ListsType' /\ ListsType /\ SavingType /\ Locked /\ FileKept /\ AllSaved
  BY <1>1 DEF CInv, ListsType
<1>4. ASSUME NEW nx, Go(w, nx)
      PROVE  /\ pc' = [a \in Actor |-> pc'[a]] /\ pc'[w] = nx /\ pc'["sync"] = pc["sync"]
             /\ \A a \in Actor : a # w => pc'[a] = pc[a]
  BY <1>2, <1>3, <1>4 DEF Go, SavingType
<1>5. CASE LockFile(w) /\ mode = "invalid"
  <2>1. pc[w] = "lock" /\ Go(w, After(w)) /\ lock' = lock /\ snap' = snap /\ base' = base
    BY <1>5 DEF LockFile
  <2>2. After(w) \in {"insert", "idle", "join"}
    BY AfterSaving
  <2>3. /\ pc' = [a \in Actor |-> pc'[a]] /\ pc'[w] \in {"insert", "idle", "join"} /\ pc'["sync"] = pc["sync"]
        /\ \A a \in Actor : a # w => pc'[a] = pc[a]
    BY <1>4, <2>1, <2>2
  <2>4. SavingType'
    BY <1>1, <1>3, <2>1, <2>3 DEF SavingType
  <2>5. Locked'
    BY <1>1, <1>2, <1>3, <2>1, <2>3 DEF Locked
  <2>6. FileKept'
    BY <1>1, <1>2, <1>3, <2>3 DEF FileKept
  <2> QED BY <1>1, <1>3, <1>5, <2>4, <2>5, <2>6 DEF CInv, AllSaved
<1>6. CASE LockFile(w) /\ mode # "invalid"
  <2>1. pc[w] = "lock" /\ Go(w, "users") /\ lock = "none" /\ lock' = w /\ snap' = snap /\ base' = base
    BY <1>6 DEF LockFile
  <2>2. /\ pc' = [a \in Actor |-> pc'[a]] /\ pc'[w] = "users" /\ pc'["sync"] = pc["sync"]
        /\ \A a \in Actor : a # w => pc'[a] = pc[a]
    BY <1>4, <2>1
  <2>3. SavingType'
    BY <1>1, <1>3, <2>1, <2>2 DEF SavingType
  <2>4. Locked'
    BY <1>1, <1>2, <1>3, <2>1, <2>2 DEF Locked
  <2>5. FileKept'
    BY <1>1, <1>3, <1>6 DEF FileKept
  <2>6. AllSaved'
    BY <1>1, <1>3, <2>2 DEF AllSaved, UsersSaved, GroupsSaved, KeysSaved, ClientsSaved
  <2> QED BY <1>3, <2>3, <2>4, <2>5, <2>6 DEF CInv
<1>7. CASE ReadUsers(w)
  <2>1. pc[w] = "users" /\ Go(w, "groups") /\ lock' = lock /\ base' = base /\ snap' = [snap EXCEPT ![w].users = users]
    BY <1>7 DEF ReadUsers
  <2>2. /\ pc' = [a \in Actor |-> pc'[a]] /\ pc'[w] = "groups" /\ pc'["sync"] = pc["sync"]
        /\ \A a \in Actor : a # w => pc'[a] = pc[a]
    BY <1>4, <2>1
  <2>3. /\ snap' = [v \in Worker |-> snap'[v]] /\ \A v \in Worker : IsAccounts(snap'[v])
        /\ snap'[w].users = users
    BY <1>3, <2>1, SnapUsers
  <2>4. SavingType'
    BY <1>1, <1>3, <2>1, <2>2, <2>3 DEF SavingType
  <2>5. Locked'
    BY <1>1, <1>2, <1>3, <2>1, <2>2 DEF Locked
  <2>6. FileKept'
    BY <1>1, <1>2, <1>3, <2>1, <2>2 DEF FileKept
  <2>7. AllSaved'
    BY <1>1, <1>3, <2>2, <2>3 DEF AllSaved, UsersSaved, GroupsSaved, KeysSaved, ClientsSaved
  <2> QED BY <1>3, <2>4, <2>5, <2>6, <2>7 DEF CInv
<1>8. CASE ReadGroups(w)
  <2>1. /\ pc[w] = "groups" /\ Go(w, "base") /\ lock' = lock /\ base' = base
        /\ snap' = [snap EXCEPT ![w].groups = groups, ![w].keys = keys]
    BY <1>8 DEF ReadGroups
  <2>2. /\ pc' = [a \in Actor |-> pc'[a]] /\ pc'[w] = "base" /\ pc'["sync"] = pc["sync"]
        /\ \A a \in Actor : a # w => pc'[a] = pc[a]
    BY <1>4, <2>1
  <2>3. /\ snap' = [v \in Worker |-> snap'[v]] /\ \A v \in Worker : IsAccounts(snap'[v])
        /\ \A v \in Worker : v # w => snap'[v] = snap[v]
        /\ snap'[w].users = snap[w].users /\ snap'[w].groups = groups /\ snap'[w].keys = keys
    BY <1>3, <2>1, SnapGroups
  <2>4. SavingType'
    BY <1>1, <1>3, <2>1, <2>2, <2>3 DEF SavingType
  <2>5. Locked'
    BY <1>1, <1>2, <1>3, <2>1, <2>2 DEF Locked
  <2>6. FileKept'
    BY <1>1, <1>2, <1>3, <2>1, <2>2 DEF FileKept
  <2>7. AllSaved'
    <3> SUFFICES ASSUME ~failed, mode # "invalid" PROVE UsersSaved' /\ GroupsSaved' /\ KeysSaved' /\ ClientsSaved'
      BY <1>1 DEF AllSaved
    <3>1. UsersSaved /\ ClientsSaved
      BY <1>3 DEF AllSaved
    <3>2. UsersSaved'
      <4>1. CASE \E v \in Worker : pc[v] \in {"purge", "ungroup", "lock", "users"}
        <5>1. PICK v \in Worker : pc[v] \in {"purge", "ungroup", "lock", "users"}
          BY <4>1
        <5>2. pc'[v] = pc[v]
          BY <1>2, <2>1, <2>2, <5>1
        <5> QED BY <5>1, <5>2 DEF UsersSaved
      <4>2. CASE \E v \in Worker : pc[v] \in {"groups", "base", "write"} /\ snap[v].users = users
        <5>1. PICK v \in Worker : pc[v] \in {"groups", "base", "write"} /\ snap[v].users = users
          BY <4>2
        <5>2. pc'[v] \in {"base", "groups", "write"} /\ snap'[v].users = users
          BY <1>2, <2>2, <2>3, <5>1
        <5> QED BY <1>1, <5>2 DEF UsersSaved
      <4> QED BY <2>1, <3>1, <4>1, <4>2 DEF UsersSaved
    <3>3. GroupsSaved' /\ KeysSaved'
      BY <1>1, <2>2, <2>3 DEF GroupsSaved, KeysSaved
    <3>4. ClientsSaved'
      BY <1>1, <2>2, <3>1 DEF ClientsSaved
    <3> QED BY <3>2, <3>3, <3>4
  <2> QED BY <1>3, <2>4, <2>5, <2>6, <2>7 DEF CInv
<1>9. CASE ReadBase(w)
  <2>1. pc[w] = "base" /\ Go(w, "write") /\ lock' = lock /\ snap' = snap /\ base' = [base EXCEPT ![w] = file]
    BY <1>9 DEF ReadBase
  <2>2. /\ pc' = [a \in Actor |-> pc'[a]] /\ pc'[w] = "write" /\ pc'["sync"] = pc["sync"]
        /\ \A a \in Actor : a # w => pc'[a] = pc[a]
    BY <1>4, <2>1
  <2>3. base' = [a \in Actor |-> base'[a]] /\ base'[w] = file /\ \A a \in Actor : a # w => base'[a] = base[a]
    BY <1>2, <1>3, <2>1 DEF SavingType
  <2>4. SavingType'
    BY <1>1, <1>3, <2>1, <2>2, <2>3 DEF SavingType
  <2>5. Locked'
    BY <1>1, <1>2, <1>3, <2>1, <2>2, <2>3 DEF Locked
  <2>6. FileKept'
    BY <1>1, <1>2, <1>3, <2>1, <2>2 DEF FileKept
  <2>7. AllSaved'
    <3> SUFFICES ASSUME ~failed, mode # "invalid" PROVE UsersSaved' /\ GroupsSaved' /\ KeysSaved' /\ ClientsSaved'
      BY <1>1 DEF AllSaved
    <3>1. UsersSaved /\ GroupsSaved /\ KeysSaved /\ ClientsSaved
      BY <1>3 DEF AllSaved
    <3>2. UsersSaved'
      BY <1>1, <1>2, <2>1, <2>2, <3>1 DEF UsersSaved
    <3>3. GroupsSaved'
      BY <1>1, <1>2, <2>1, <2>2, <3>1 DEF GroupsSaved
    <3>4. KeysSaved'
      BY <1>1, <1>2, <2>1, <2>2, <3>1 DEF KeysSaved
    <3>5. ClientsSaved'
      BY <1>1, <2>2, <3>1 DEF ClientsSaved
    <3> QED BY <3>2, <3>3, <3>4, <3>5
  <2> QED BY <1>3, <2>4, <2>5, <2>6, <2>7 DEF CInv
<1> QED BY <1>5, <1>6, <1>7, <1>8, <1>9

(* A request that has saved, or could not, lets go of the lock.             *)
LEMMA LetsGo ==
    ASSUME CInv, NEW w \in Worker, pc[w] \in Saving, Rest(w)
    PROVE  /\ pc' = [a \in Actor |-> pc'[a]] /\ pc'["sync"] = pc["sync"]
           /\ \A a \in Actor : a # w => pc'[a] = pc[a]
           /\ snap' = [v \in Worker |-> snap'[v]] /\ \A v \in Worker : IsAccounts(snap'[v])
           /\ base' = [a \in Actor |-> base'[a]]
           /\ \A v \in Worker : pc'[v] \notin Saving
           /\ Locked' /\ mode # "invalid"
<1> USE DEF Saving
<1>1. w \in Actor /\ "sync" \in Actor /\ w # "sync" /\ w # "none" /\ \A v \in Worker : v \in Actor /\ v # "sync" /\ v # "none"
  BY WorkerAssumption DEF Actor
<1>2. SavingType /\ Locked /\ FileKept
  BY DEF CInv
<1>3. After(w) \in {"insert", "idle", "join"}
  BY AfterSaving
<1> DEFINE nx == After(w)
           e == Empty
           b == [file EXCEPT !.lines = <<>>]
<1>4. /\ pc' = [pc EXCEPT ![w] = nx] /\ snap' = [snap EXCEPT ![w] = e]
      /\ base' = [base EXCEPT ![w] = b] /\ lock' = "none"
  BY DEF Rest, Go
<1>5. IsAccounts(e)
  <2> DEFINE n == <<>>
             g == [x \in {} |-> {}]
  <2>1. e = [users |-> n, groups |-> g, keys |-> {}]
    BY DEF Empty
  <2> HIDE DEF n, g, e
  <2> QED BY <2>1 DEF IsAccounts
<1>6. nx \in {"insert", "idle", "join"}
  BY <1>3
<1> HIDE DEF nx, e, b
<1>7. /\ pc' = [a \in Actor |-> pc'[a]] /\ pc'[w] = nx /\ pc'["sync"] = pc["sync"]
      /\ \A a \in Actor : a # w => pc'[a] = pc[a]
  BY <1>1, <1>2, <1>4 DEF SavingType
<1>8. snap' = [v \in Worker |-> snap'[v]] /\ \A v \in Worker : IsAccounts(snap'[v])
  BY <1>2, <1>4, <1>5 DEF SavingType
<1>9. base' = [a \in Actor |-> base'[a]]
  BY <1>2, <1>4 DEF SavingType
<1>10. lock = w
  BY <1>2 DEF Locked
<1>11. \A v \in Worker : pc'[v] \notin Saving
  BY <1>1, <1>2, <1>6, <1>7, <1>10 DEF Locked
<1>12. pc'["sync"] # "write"
  BY <1>1, <1>2, <1>7, <1>10 DEF Locked
<1>13. \A a \in Actor : pc'[a] # "write"
  BY <1>11, <1>12 DEF Actor
<1>14. Locked'
  BY <1>1, <1>4, <1>11, <1>12, <1>13 DEF Locked
<1>15. mode # "invalid"
  BY <1>2 DEF FileKept
<1> QED BY <1>7, <1>8, <1>9, <1>11, <1>14, <1>15

(* The file cannot be read or written: nothing is promised from here on.    *)
LEMMA FailedSave ==
    ASSUME CInv, NEW w \in Worker, PersistFails(w)
    PROVE  CInv'
<1>1. /\ users' = users /\ groups' = groups /\ keys' = keys
      /\ mode' = mode /\ start' = start /\ file' = file /\ failed' = TRUE
      /\ pc[w] \in Saving /\ Rest(w)
  BY DEF PersistFails, SameStore, Same, store, Saving
<1>2. ListsType' /\ SavingType /\ FileKept
  BY <1>1 DEF CInv, ListsType
<1>3. /\ pc' = [a \in Actor |-> pc'[a]] /\ snap' = [v \in Worker |-> snap'[v]]
      /\ \A v \in Worker : IsAccounts(snap'[v])
      /\ base' = [a \in Actor |-> base'[a]] /\ Locked' /\ mode # "invalid"
  BY <1>1, LetsGo
<1>4. SavingType'
  BY <1>1, <1>2, <1>3 DEF SavingType
<1>5. FileKept'
  BY <1>1, <1>2, <1>3 DEF FileKept
<1>6. AllSaved'
  BY <1>1 DEF AllSaved
<1> QED BY <1>2, <1>3, <1>4, <1>5, <1>6 DEF CInv

(* A section that is put into the file.                                     *)
LEMMA SectionIsSome ==
    ASSUME NEW s \in Sections
    PROVE  Section(s) # <<>> /\ Section(s) \in {<<>>, Section(s)}
<1> DEFINE a == Header(s)
           b == Text(s)
<1>1. Section(s) = <<a, b>>
  BY DEF Section
<1> HIDE DEF a, b
<1> QED BY <1>1

(* A request writes the accounts it has read: the other section and the     *)
(* operator's lines stay, and what it has in hand is in the file.           *)
LEMMA SaveStep ==
    ASSUME CInv, NEW w \in Worker, WriteFile(w)
    PROVE  CInv'
<1> USE DEF Saving
<1>1. /\ users' = users /\ groups' = groups /\ keys' = keys /\ clients' = clients
      /\ mode' = mode /\ start' = start /\ failed' = failed
      /\ pc[w] = "write" /\ pc[w] \in Saving /\ Rest(w)
  BY DEF WriteFile, SameStore, SameSync, Same, store
<1>2. ListsType' /\ ListsType /\ SavingType /\ Locked /\ FileKept /\ AllSaved
  BY <1>1 DEF CInv, ListsType
<1>3. /\ pc' = [a \in Actor |-> pc'[a]] /\ pc'["sync"] = pc["sync"]
      /\ \A a \in Actor : a # w => pc'[a] = pc[a]
      /\ snap' = [v \in Worker |-> snap'[v]] /\ \A v \in Worker : IsAccounts(snap'[v])
      /\ base' = [a \in Actor |-> base'[a]]
      /\ \A v \in Worker : pc'[v] \notin Saving
      /\ Locked' /\ mode # "invalid"
  BY <1>1, LetsGo
<1>4. w \in Actor /\ lock = w /\ \A v \in Worker : v \in Actor
  BY <1>1, <1>2 DEF Actor, Locked
<1>5. base[w] = file
  BY <1>1, <1>2, <1>4 DEF Locked
<1> DEFINE l == file.lines
           fresh == Section("auth")
           r == Splice(l, "auth", fresh)
           a == snap[w]
           c == file.clients
<1>6. file' = [lines |-> r, auth |-> a, clients |-> c]
  BY <1>5 DEF WriteFile
<1>7. Spliced("auth", fresh, l, r) /\ fresh # <<>>
  <2>1. "auth" \in Sections
    BY DEF Sections
  <2>2. WellFormed(l)
    BY <1>2 DEF FileKept
  <2>3. fresh # <<>> /\ fresh \in {<<>>, Section("auth")}
    BY <2>1, SectionIsSome
  <2> HIDE DEF l, fresh
  <2> QED BY <2>1, <2>2, <2>3, SpliceFacts
<1> HIDE DEF r, fresh
<1>8. WellFormed(r) /\ Owned(r) = Owned(l) /\ Has(r, "auth") /\ (Has(r, "clients") <=> Has(l, "clients"))
  BY <1>7 DEF Spliced, Sections
<1>9. IsAccounts(a)
  BY <1>2 DEF SavingType
<1> HIDE DEF l, a, c
<1>10. file'.lines = r /\ file'.auth = a /\ file'.clients = c
       /\ file' = [lines |-> file'.lines, auth |-> file'.auth, clients |-> file'.clients]
  BY <1>6
<1>11. SavingType'
  BY <1>3, <1>9, <1>10 DEF SavingType
<1>12. FileKept'
  BY <1>1, <1>2, <1>3, <1>8, <1>10 DEF FileKept, l
<1>13. /\ Load(file').users = a.users /\ Load(file').groups = WithProtected(a.groups)
       /\ Load(file').keys = a.keys
  <2> DEFINE f == file'
  <2>1. IsAccounts(f.auth) /\ Has(f.lines, "auth") /\ f.auth = a
    BY <1>8, <1>9, <1>10
  <2> HIDE DEF f
  <2>2. /\ Load(f).users = IF Has(f.lines, "auth") THEN f.auth.users ELSE <<>>
        /\ Load(f).groups = WithProtected(IF Has(f.lines, "auth") THEN f.auth.groups ELSE [g \in {} |-> {}])
        /\ Load(f).keys = IF Has(f.lines, "auth") THEN f.auth.keys ELSE {}
    BY <2>1, LoadFields
  <2>3. /\ Load(f).users = a.users /\ Load(f).groups = WithProtected(a.groups)
        /\ Load(f).keys = a.keys
    BY <2>1, <2>2, Zenon
  <2> QED BY <2>3 DEF f
<1>14. LoadClients(file') = LoadClients(file)
  BY <1>8, <1>10 DEF LoadClients, l, c
<1>15. \A v \in Worker : v # w => pc[v] \notin Saving /\ pc'[v] = pc[v]
  BY <1>2, <1>3, <1>4 DEF Locked
<1>16. ASSUME ~failed PROVE UsersSaved' /\ GroupsSaved' /\ KeysSaved' /\ ClientsSaved'
  <2>1. UsersSaved /\ GroupsSaved /\ KeysSaved /\ ClientsSaved
    BY <1>2, <1>3, <1>16 DEF AllSaved
  <2>2. UsersSaved'
    <3>1. CASE \E v \in Worker : pc[v] \in {"purge", "ungroup", "lock", "users"}
      <4>1. PICK v \in Worker : pc[v] \in {"purge", "ungroup", "lock", "users"}
        BY <3>1
      <4>2. pc'[v] = pc[v]
        BY <1>1, <1>15, <4>1
      <4> QED BY <4>1, <4>2 DEF UsersSaved
    <3>2. CASE a.users = users
      BY <1>1, <1>3, <1>13, <3>2 DEF UsersSaved
    <3> QED BY <1>1, <1>15, <2>1, <3>1, <3>2 DEF UsersSaved, a
  <2>3. GroupsSaved'
    <3>1. CASE \E v \in Worker : pc[v] \in {"lock", "users", "groups"}
      <4>1. PICK v \in Worker : pc[v] \in {"lock", "users", "groups"}
        BY <3>1
      <4>2. pc'[v] = pc[v]
        BY <1>1, <1>15, <4>1
      <4> QED BY <4>1, <4>2 DEF GroupsSaved
    <3>2. CASE a.groups = groups
      <4>1. WithProtected(groups) = groups
        BY <1>2, NothingMissing
      <4> QED BY <1>1, <1>3, <1>13, <3>2, <4>1 DEF GroupsSaved
    <3> QED BY <1>1, <1>15, <2>1, <3>1, <3>2 DEF GroupsSaved, a
  <2>4. KeysSaved'
    <3>1. CASE \E v \in Worker : pc[v] \in {"lock", "users", "groups"}
      <4>1. PICK v \in Worker : pc[v] \in {"lock", "users", "groups"}
        BY <3>1
      <4>2. pc'[v] = pc[v]
        BY <1>1, <1>15, <4>1
      <4> QED BY <4>1, <4>2 DEF KeysSaved
    <3>2. CASE NamesOf(a.keys) = NamesOf(keys)
      <4>1. NamesOf(Load(file').keys) = NamesOf(keys')
        BY <1>1, <1>13, <3>2
      <4> QED BY <1>3, <4>1 DEF KeysSaved
    <3> QED BY <1>1, <1>15, <2>1, <3>1, <3>2 DEF KeysSaved, a
  <2>5. ClientsSaved'
    BY <1>1, <1>3, <1>14, <2>1 DEF ClientsSaved
  <2> QED BY <2>2, <2>3, <2>4, <2>5
<1>17. AllSaved'
  BY <1>1, <1>16 DEF AllSaved
<1> QED BY <1>2, <1>3, <1>11, <1>12, <1>17 DEF CInv

(* The sync server changes its list and takes the lock for it.              *)
LEMMA ClientsChange ==
    ASSUME CInv, ChangeClients \/ SaveRead
    PROVE  CInv'
<1> USE DEF Saving
<1>1. /\ users' = users /\ groups' = groups /\ keys' = keys
      /\ mode' = mode /\ start' = start /\ file' = file /\ failed' = failed /\ snap' = snap
  BY DEF ChangeClients, SaveRead, SameWorkers, Same, store
<1>2. "sync" \in Actor /\ \A v \in Worker : v \in Actor /\ v # "sync" /\ v # "none"
  BY WorkerAssumption DEF Actor
<1>3. ListsType' /\ SavingType /\ Locked /\ FileKept /\ AllSaved
  BY <1>1 DEF CInv, ListsType
<1>4. mode # "invalid"
  BY <1>3 DEF ChangeClients, SaveRead, FileKept
<1>5. PICK nx \in {"lock", "write"} : Go("sync", nx) /\ (nx = "write" <=> lock' = "sync")
        /\ (nx = "lock" => pc["sync"] = "idle" /\ lock' = lock /\ base' = base)
        /\ (nx = "write" => lock = "none" /\ lock' = "sync" /\ base' = [base EXCEPT !["sync"] = file])
  <2>1. CASE ChangeClients
    BY <1>3, <2>1 DEF ChangeClients, Locked
  <2>2. CASE SaveRead
    BY <2>2 DEF SaveRead
  <2> QED BY <2>1, <2>2
<1>6. /\ pc' = [a \in Actor |-> pc'[a]] /\ pc'["sync"] = nx
      /\ \A v \in Worker : pc'[v] = pc[v]
  BY <1>2, <1>3, <1>5 DEF SavingType, Go
<1>7. base' = [a \in Actor |-> base'[a]] /\ \A v \in Worker : base'[v] = base[v]
  BY <1>2, <1>3, <1>5 DEF SavingType
<1>8. nx = "write" => base'["sync"] = file
  BY <1>2, <1>3, <1>5 DEF SavingType
<1>9. SavingType'
  BY <1>1, <1>3, <1>6, <1>7 DEF SavingType
<1>10. Locked'
  <2>1. \A v \in Worker : pc'[v] \in Saving <=> lock' = v
    BY <1>2, <1>3, <1>5, <1>6 DEF Locked
  <2>2. pc'["sync"] = "write" <=> lock' = "sync"
    BY <1>5, <1>6
  <2>3. ASSUME NEW a \in Actor, pc'[a] = "write" PROVE base'[a] = file
    <3>1. CASE a \in Worker
      BY <1>2, <1>3, <1>6, <1>7, <2>3, <3>1 DEF Locked
    <3>2. CASE a = "sync"
      BY <1>6, <1>8, <2>3, <3>2
    <3> QED BY <3>1, <3>2 DEF Actor
  <2> QED BY <1>1, <2>1, <2>2, <2>3 DEF Locked
<1>11. FileKept'
  BY <1>1, <1>3, <1>4 DEF FileKept
<1>12. AllSaved'
  <2>1. ASSUME UsersSaved PROVE UsersSaved'
    BY <1>1, <1>6, <2>1 DEF UsersSaved
  <2>2. ASSUME GroupsSaved PROVE GroupsSaved'
    BY <1>1, <1>6, <2>2 DEF GroupsSaved
  <2>3. ASSUME KeysSaved PROVE KeysSaved'
    BY <1>1, <1>6, <2>3 DEF KeysSaved
  <2>4. ClientsSaved'
    BY <1>6 DEF ClientsSaved
  <2> QED BY <1>1, <1>3, <2>1, <2>2, <2>3, <2>4 DEF AllSaved
<1> QED BY <1>3, <1>9, <1>10, <1>11, <1>12 DEF CInv

(* The sync server writes its list: the accounts in the file stay.          *)
LEMMA ClientsSave ==
    ASSUME CInv, SaveWrite
    PROVE  CInv'
<1> USE DEF Saving
<1>1. /\ users' = users /\ groups' = groups /\ keys' = keys /\ clients' = clients
      /\ mode' = mode /\ start' = start /\ snap' = snap /\ lock' = "none"
      /\ pc["sync"] = "write" /\ Go("sync", "idle")
  BY DEF SaveWrite, SameWorkers, Same, store
<1>2. "sync" \in Actor /\ \A v \in Worker : v \in Actor /\ v # "sync" /\ v # "none"
  BY WorkerAssumption DEF Actor
<1>3. ListsType' /\ SavingType /\ Locked /\ FileKept /\ AllSaved
  BY <1>1 DEF CInv, ListsType
<1>4. mode # "invalid" /\ lock = "sync" /\ base["sync"] = file
  BY <1>1, <1>2, <1>3 DEF FileKept, Locked
<1>5. /\ pc' = [a \in Actor |-> pc'[a]] /\ pc'["sync"] = "idle"
      /\ \A v \in Worker : pc'[v] = pc[v] /\ pc'[v] \notin Saving
  BY <1>1, <1>2, <1>3, <1>4 DEF SavingType, Go, Locked
<1>6. base' = [a \in Actor |-> base'[a]]
  <2> DEFINE b == [file EXCEPT !.lines = <<>>]
  <2>1. base' = [base EXCEPT !["sync"] = b]
    BY DEF SaveWrite
  <2> HIDE DEF b
  <2> QED BY <1>3, <2>1 DEF SavingType
<1>7. \A a \in Actor : pc'[a] # "write"
  BY <1>5 DEF Actor
<1>8. Locked'
  BY <1>1, <1>2, <1>5, <1>7 DEF Locked
<1>9. CASE failed' = TRUE /\ file' = file
  <2>1. SavingType'
    BY <1>1, <1>3, <1>5, <1>6, <1>9 DEF SavingType
  <2>2. FileKept'
    BY <1>1, <1>3, <1>4, <1>9 DEF FileKept
  <2>3. AllSaved'
    BY <1>9 DEF AllSaved
  <2> QED BY <1>3, <1>8, <2>1, <2>2, <2>3 DEF CInv
<1>10. CASE ~(failed' = TRUE /\ file' = file)
  <2> DEFINE l == file.lines
             fresh == IF clients = {} THEN <<>> ELSE Section("clients")
             r == Splice(l, "clients", fresh)
             a == file.auth
  <2>1. file' = [lines |-> r, auth |-> a, clients |-> clients] /\ failed' = failed
    BY <1>4, <1>10 DEF SaveWrite
  <2>2. Spliced("clients", fresh, l, r) /\ (fresh # <<>> <=> clients # {})
    <3>1. "clients" \in Sections
      BY DEF Sections
    <3>2. WellFormed(l)
      BY <1>3 DEF FileKept
    <3>3. (fresh # <<>> <=> clients # {}) /\ fresh \in {<<>>, Section("clients")}
      BY <3>1, SectionIsSome
    <3> HIDE DEF l, fresh
    <3> QED BY <3>1, <3>2, <3>3, SpliceFacts
  <2> HIDE DEF r, fresh
  <2>3. /\ WellFormed(r) /\ Owned(r) = Owned(l) /\ (Has(r, "clients") <=> clients # {})
        /\ (Has(r, "auth") <=> Has(l, "auth"))
    BY <2>2 DEF Spliced, Sections
  <2>4. IsAccounts(a)
    BY <1>3 DEF SavingType
  <2> HIDE DEF l, a
  <2>5. /\ file'.lines = r /\ file'.auth = a /\ file'.clients = clients
        /\ file' = [lines |-> file'.lines, auth |-> file'.auth, clients |-> file'.clients]
    BY <2>1
  <2>6. SavingType'
    BY <1>1, <1>3, <1>5, <1>6, <2>4, <2>5 DEF SavingType
  <2>7. FileKept'
    BY <1>1, <1>3, <1>4, <2>3, <2>5 DEF FileKept, l
  <2>8. Load(file') = Load(file)
    BY <2>3, <2>5, LoadSame DEF l, a
  <2>9. LoadClients(file') = clients
    BY <2>3, <2>5 DEF LoadClients
  <2>10. AllSaved'
    <3>1. ASSUME UsersSaved PROVE UsersSaved'
      BY <1>1, <1>5, <2>8, <3>1 DEF UsersSaved
    <3>2. ASSUME GroupsSaved PROVE GroupsSaved'
      BY <1>1, <1>5, <2>8, <3>2 DEF GroupsSaved
    <3>3. ASSUME KeysSaved PROVE KeysSaved'
      BY <1>1, <1>5, <2>8, <3>3 DEF KeysSaved
    <3>4. ClientsSaved'
      BY <1>1, <2>9 DEF ClientsSaved
    <3> QED BY <1>1, <1>3, <2>1, <3>1, <3>2, <3>3, <3>4 DEF AllSaved
  <2> QED BY <1>3, <1>8, <2>6, <2>7, <2>10 DEF CInv
<1> QED BY <1>9, <1>10

(* The file as the program finds it.                                        *)
LEMMA CInit == Init => CInv
<1> SUFFICES ASSUME Init PROVE CInv
  OBVIOUS
<1> USE DEF Saving
<1>1. "sync" \in Actor /\ \A v \in Worker : v \in Actor /\ v # "sync" /\ v # "none"
  BY WorkerAssumption DEF Actor
<1>2. /\ pc = [a \in Actor |-> "idle"] /\ lock = "none" /\ snap = [w \in Worker |-> Empty]
      /\ mode \in {"loaded", "absent", "invalid"}
  BY DEF Init
<1> DEFINE f == file
           none == <<>>
           u == <<[name |-> "admin", pw |-> 0]>>
           g == [x \in {"admin"} |-> {"admin"}]
           k == {[name |-> "key", expired |-> FALSE]}
           a == [Empty EXCEPT !.users = u, !.groups = g, !.keys = k]
           e == [x \in {} |-> {}]
<1>3. /\ file = [lines |-> start, auth |-> a, clients |-> Client]
      /\ start \in IF mode = "absent" THEN {none} ELSE File
  BY DEF Init
<1>4. Empty = [users |-> none, groups |-> e, keys |-> {}]
  BY DEF Empty
<1>5. IsAccounts(Empty)
  <2> HIDE DEF none, e
  <2> QED BY <1>4 DEF IsAccounts
<1>6. /\ a.users = u /\ a.groups = g /\ a.keys = k
      /\ a = [users |-> u, groups |-> g, keys |-> k]
  <2> DEFINE E == Empty
  <2> HIDE DEF u, g, k, e, none
  <2>1. a = [E EXCEPT !.users = u, !.groups = g, !.keys = k]
    OBVIOUS
  <2>2. E = [users |-> none, groups |-> e, keys |-> {}]
    BY <1>4
  <2> HIDE DEF E, a
  <2> QED BY <2>1, <2>2
<1>7. IsAccounts(a)
  <2> HIDE DEF u, g, k, a
  <2> QED BY <1>6 DEF IsAccounts
<1>8. WellFormed(start)
  <2>1. WellFormed(none)
    BY DEF WellFormed
  <2> QED BY <1>2, <1>3, <2>1, FileAssumption
<1>9. /\ file.lines = start /\ file.auth = a /\ file.clients = Client
      /\ file = [lines |-> file.lines, auth |-> file.auth, clients |-> file.clients]
  <2> HIDE DEF a, none
  <2> QED BY <1>3
<1>10. SavingType
  <2>1. base = [b \in Actor |-> base[b]]
    <3> DEFINE x == [file EXCEPT !.lines = none]
    <3>1. base = [b \in Actor |-> x]
      BY DEF Init
    <3> HIDE DEF x
    <3> QED BY <3>1
  <2> QED BY <1>1, <1>2, <1>5, <1>7, <1>9, <2>1 DEF SavingType
<1>11. Locked
  <2>1. \A b \in Actor : pc[b] = "idle"
    BY <1>2
  <2> QED BY <1>1, <1>2, <2>1 DEF Locked
<1>12. FileKept
  BY <1>1, <1>2, <1>8, <1>9 DEF FileKept
<1> DEFINE m == IF mode = "invalid" THEN Load([file EXCEPT !.lines = none]) ELSE Load(file)
<1>13. users = m.users /\ groups = m.groups /\ keys = m.keys
  BY DEF Init
<1>14. ASSUME NEW h, IsAccounts(h.auth), h.auth = a, m = Load(h)
       PROVE  ListsType
  <2>1. /\ Load(h).users = IF Has(h.lines, "auth") THEN h.auth.users ELSE <<>>
        /\ Load(h).groups = WithProtected(IF Has(h.lines, "auth") THEN h.auth.groups ELSE [x \in {} |-> {}])
        /\ Load(h).keys = IF Has(h.lines, "auth") THEN h.auth.keys ELSE {}
    BY <1>14, LoadFields
  <2> DEFINE gs == IF Has(h.lines, "auth") THEN h.auth.groups ELSE [x \in {} |-> {}]
  <2>2. users \in {u, none} /\ keys \in {k, {}} /\ groups = WithProtected(gs)
    <3> HIDE DEF m, a, u, g, k
    <3> QED BY <1>6, <1>13, <1>14, <2>1
  <2>3. groups = [x \in DOMAIN groups |-> groups[x]] /\ Protected \subseteq DOMAIN groups
    <3> HIDE DEF gs
    <3> QED BY <2>2 DEF WithProtected
  <2>4. users = [i \in DOMAIN users |-> users[i]]
    <3> DEFINE r == [name |-> "admin", pw |-> 0]
    <3> HIDE DEF r
    <3>1. <<r>> = [i \in DOMAIN <<r>> |-> <<r>>[i]]
      OBVIOUS
    <3>2. none = [i \in DOMAIN none |-> none[i]]
      OBVIOUS
    <3>3. u = <<r>>
      BY DEF r
    <3> QED BY <2>2, <3>1, <3>2, <3>3
  <2>5. \A x \in keys : x = [name |-> x.name, expired |-> x.expired]
    <3>1. ASSUME NEW x, x = [name |-> "key", expired |-> FALSE] PROVE x = [name |-> x.name, expired |-> x.expired]
      <4>1. ASSUME NEW t, t = FALSE PROVE x = [name |-> x.name, expired |-> x.expired]
        <5>1. x = [name |-> "key", expired |-> t]
          BY <3>1, <4>1, Zenon
        <5> QED BY <5>1
      <4> QED BY <4>1, Zenon
    <3>2. \A x \in k : x = [name |-> "key", expired |-> FALSE]
      BY Zenon
    <3> HIDE DEF k
    <3> QED BY <2>2, <3>1, <3>2
  <2> QED BY <2>3, <2>4, <2>5 DEF ListsType
<1>15. ListsType
  <2>1. CASE mode = "invalid"
    <3> DEFINE h == [file EXCEPT !.lines = none]
    <3>1. h.auth = a
      <4> HIDE DEF a, none
      <4> QED BY <1>9
    <3>2. m = Load(h)
      BY <2>1
    <3> HIDE DEF h, m, a
    <3> QED BY <1>7, <1>14, <3>1, <3>2
  <2>2. CASE mode # "invalid"
    <3>1. m = Load(file)
      BY <2>2
    <3> HIDE DEF m, a
    <3> QED BY <1>7, <1>9, <1>14, <3>1
  <2> QED BY <2>1, <2>2
<1>16. AllSaved
  <2>1. ASSUME mode # "invalid" PROVE UsersSaved /\ GroupsSaved /\ KeysSaved /\ ClientsSaved
    <3>1. m = Load(file)
      BY <2>1
    <3> HIDE DEF m, a, u, g, k, e, none
    <3>2. Load(file).users = users /\ Load(file).groups = groups /\ NamesOf(Load(file).keys) = NamesOf(keys)
      BY <1>13, <3>1
    <3>3. LoadClients(file) = clients
      BY <2>1 DEF Init
    <3>4. \A w \in Worker : pc[w] = "idle"
      BY <1>1, <1>2
    <3> QED BY <3>2, <3>3, <3>4 DEF UsersSaved, GroupsSaved, KeysSaved, ClientsSaved
  <2> QED BY <2>1 DEF AllSaved
<1> QED BY <1>10, <1>11, <1>12, <1>15, <1>16 DEF CInv

(* Every step.                                                              *)
LEMMA CStep == CInv /\ [Next]_vars => CInv'
<1> SUFFICES ASSUME CInv, [Next]_vars PROVE CInv'
  OBVIOUS
<1>1. ASSUME NEW w \in Worker, Request(w) PROVE CInv'
  BY <1>1, OtherRequests, ListRequests, UserRequests, GroupRequests, KeyRequests DEF Request
<1>2. ASSUME NEW w \in Worker, Persist(w) PROVE CInv'
  BY <1>2, SavingSteps, SaveStep, FailedSave DEF Persist
<1>3. CASE UNCHANGED vars
  <2>1. pc' = pc /\ Quiet /\ users' = users /\ groups' = groups /\ keys' = keys
    BY <1>3 DEF vars, Quiet, Same, SameFile, SameSync
  <2>2. ListsType'
    BY <2>1 DEF CInv, ListsType
  <2> QED BY <2>1, <2>2, NobodyGoesOn
<1>4. CASE Next
  BY <1>1, <1>2, <1>4, Expiries, ClientsChange, ClientsSave DEF Next
<1> QED BY <1>3, <1>4

(* Whenever the requests have answered and no save has failed, a restart    *)
(* would find the accounts and the known clients as they are in memory,     *)
(* however persist and the sync server's save interleave; the operator's    *)
(* lines are always as they were, and an unusable file is never written.    *)
THEOREM ConfigIsSaved == Spec => []ConfigAgrees
<1>1. CInv => ConfigAgrees
  <2> SUFFICES ASSUME CInv PROVE ConfigAgrees
    OBVIOUS
  <2>1. FileKept /\ AllSaved
    BY DEF CInv
  <2>2. ASSUME \A a \in Actor : pc[a] \in {"idle", "admitted"}, ~failed, mode # "invalid"
        PROVE  /\ Load(file).users = users /\ Load(file).groups = groups
               /\ NamesOf(Load(file).keys) = NamesOf(keys) /\ LoadClients(file) = clients
    <3>1. \A v \in Worker : pc[v] \in {"idle", "admitted"}
      BY <2>2 DEF Actor
    <3>2. pc["sync"] \in {"idle", "admitted"}
      BY <2>2 DEF Actor
    <3> QED BY <2>1, <2>2, <3>1, <3>2 DEF AllSaved, UsersSaved, GroupsSaved, KeysSaved, ClientsSaved
  <2> QED BY <2>1, <2>2 DEF ConfigAgrees, FileKept, NamesOf
<1> QED BY <1>1, CInit, CStep, PTL DEF Spec
=============================================================================
