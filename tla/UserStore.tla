----------------------------- MODULE UserStore -----------------------------
(***************************************************************************)
(* Accounts (core/src/users.rs), the handlers of the HTTP server that      *)
(* change them (core/src/http.rs), and the config file they are saved in,  *)
(* which the sync server's list of known clients shares                    *)
(* (filesync/src/known_hosts.rs).                                          *)
(*                                                                         *)
(* Every list of the store has a lock of its own.  A change is made under  *)
(* the lock of its list; then persist takes the lock of the file, reads    *)
(* the lists one after another, reads the file as it is now, splices the   *)
(* new sections in and writes it.  Requests run concurrently.              *)
(***************************************************************************)
EXTENDS Integers, FiniteSets, ConfigFile

CONSTANTS
    Worker,    \* requests being served
    User,      \* names an admin may create; "admin" is the one setup creates
    Group,     \* group names, the protected ones among them
    Client,    \* fingerprints of sync clients
    File,      \* config files the program may be started with, as lines
    MaxChange, \* bound: changes of the accounts
    MaxLogin,  \* bound: logins
    MaxClient  \* bound: changes of the known clients

(* A key in a file is named for the section it stands in.                   *)
ASSUME FileAssumption == \A f \in File : WellFormed(f)

(* The sync server is none of the requests.                                 *)
ASSUME WorkerAssumption == {"sync", "none"} \cap Worker = {}

Protected == {"admin", "user"}
About(u, g) == [name |-> u, group |-> g, token |-> <<>>]
None == About("none", "none")

VARIABLES
    mode,     \* ConfigState: how the config file was found at the start
    users,    \* the entries by their places in the list, each with the version of its password
    groups,   \* members of each existing group
    keys,     \* API keys, each with its name and whether it has expired
    sessions, \* live and expired sessions
    clients,  \* KnownClients.clients
    file,     \* the config file: its lines, and what its two sections say
    raw,      \* raw_config: the file as this store last wrote it
    start,    \* history: the lines at the start
    lock,     \* who holds CONFIG_FILE_LOCK
    pc,       \* what request w does next
    arg,      \* the user and group it is about
    snap,     \* the lists persist has read so far
    base,     \* the file as persist or save read it
    changes,  \* the three counters that are bounded
    logins,
    visits,
    failed    \* history: a save could not read or write the file

store == <<users, groups, keys>>
vars == <<mode, users, groups, keys, sessions, clients, file, raw, start, lock, pc, arg, snap, base, changes, logins, visits, failed>>

Actor == Worker \cup {"sync"}
Empty == [users |-> <<>>, groups |-> [g \in {} |-> {}], keys |-> {}]
Named(list, u) == \E i \in DOMAIN list : list[i].name = u
needs_setup == users = <<>>

(* push puts an entry behind the others; retain leaves the others as they   *)
(* are, in their order.                                                     *)
Pushed(list, e) == [i \in DOMAIN list \cup {1 + Max(DOMAIN list \cup {0})} |->
                       IF i \in DOMAIN list THEN list[i] ELSE e]
Without(list, u) == Restrict(list, {i \in DOMAIN list : list[i].name # u})

(* UserStore::new: a group that the file does not name but must exist.      *)
WithProtected(g) == [n \in DOMAIN g \cup Protected |-> IF n \in DOMAIN g THEN g[n] ELSE {}]

(* What a start of the program would make of a file.                        *)
Load(f) == IF Has(f.lines, "auth") THEN [f.auth EXCEPT !.groups = WithProtected(@)]
                                   ELSE [Empty EXCEPT !.groups = WithProtected(@)]
LoadClients(f) == IF Has(f.lines, "clients") THEN f.clients ELSE {}

(* main: an account file that cannot be parsed is never written.            *)
Init ==
    /\ mode \in {"loaded", "absent", "invalid"}
    /\ start \in IF mode = "absent" THEN {<<>>} ELSE File
    /\ file = [lines |-> start,
               auth |-> [Empty EXCEPT !.users = <<[name |-> "admin", pw |-> 0]>>,
                                      !.groups = [g \in {"admin"} |-> {"admin"}],
                                      !.keys = {[name |-> "key", expired |-> FALSE]}],
               clients |-> Client]
    /\ raw = file
    /\ LET m == IF mode = "invalid" THEN Load([file EXCEPT !.lines = <<>>]) ELSE Load(file)
       IN  users = m.users /\ groups = m.groups /\ keys = m.keys
    /\ clients = IF mode = "invalid" THEN {} ELSE LoadClients(file)
    /\ sessions = {} /\ lock = "none" /\ failed = FALSE
    /\ pc = [a \in Actor |-> "idle"]
    /\ arg = [w \in Worker |-> None]
    /\ snap = [w \in Worker |-> Empty]
    /\ base = [a \in Actor |-> [file EXCEPT !.lines = <<>>]]
    /\ changes = 0 /\ logins = 0 /\ visits = 0

Go(a, next) == pc' = [pc EXCEPT ![a] = next]
Same == UNCHANGED <<mode, start>>
SameFile == UNCHANGED <<file, raw, lock, snap, base, failed>>
SameSync == UNCHANGED <<clients, visits>>

(* Mutant: a login lets go of the users once the password is verified. *)
UsersFree_Unlocked == TRUE

(* users.write() waits for a login, which holds users.read() to its end.    *)
UsersFree == \A w \in Worker : pc[w] # "insert"

-----------------------------------------------------------------------------
(* Requests.                                                                *)

Quiet == Same /\ SameFile /\ SameSync

(* setup_api_handler and complete_setup look for users first and push the   *)
(* entry later, under the two locks.                                        *)
SetupCheck(w) ==
    /\ pc[w] = "idle" /\ needs_setup /\ changes < MaxChange
    /\ changes' = changes + 1
    /\ Go(w, "setup")
    /\ arg' = [arg EXCEPT ![w] = About("admin", "login")]
    /\ UNCHANGED <<store, sessions, logins>> /\ Quiet

SetupPush(w) ==
    /\ pc[w] = "setup" /\ UsersFree
    /\ users' = Pushed(users, [name |-> "admin", pw |-> 0])
    /\ groups' = [g \in DOMAIN groups |-> groups[g] \cup IF g \in Protected THEN {"admin"} ELSE {}]
    /\ Go(w, "lock")
    /\ UNCHANGED <<keys, sessions, arg, changes, logins>> /\ Quiet

(* login finds the user and verifies the password, ...                      *)
LoginVerify(w) ==
    /\ pc[w] = "idle" /\ logins < MaxLogin
    /\ \E u \in User \cup {"admin"} :
         /\ Named(users, u)
         /\ arg' = [arg EXCEPT ![w] = About(u, "none")]
    /\ logins' = logins + 1
    /\ Go(w, "insert")
    /\ UNCHANGED <<store, sessions, changes>> /\ Quiet

(* ... and adds the session before it lets go of the lock of the users.     *)
LoginInsert(w) ==
    /\ pc[w] = "insert"
    /\ sessions' = sessions \cup {[token |-> <<w, logins>>, user |-> arg[w].name, live |-> TRUE]}
    /\ Go(w, "idle")
    /\ arg' = [arg EXCEPT ![w] = None]
    /\ UNCHANGED <<store, changes, logins>> /\ Quiet

logout(w) ==
    /\ pc[w] = "idle"
    /\ \E s \in sessions : sessions' = sessions \ {s}
    /\ UNCHANGED <<store, pc, arg, changes, logins>> /\ Quiet

(* auth_middleware and admin_middleware: the session is looked up, then the *)
(* groups of its user, and then its expiry is moved if it is still there.   *)
Validate(w) ==
    /\ pc[w] = "idle" /\ ~needs_setup /\ changes < MaxChange
    /\ \E s \in sessions :
         /\ s.live
         /\ arg' = [arg EXCEPT ![w] = [About(s.user, "none") EXCEPT !.token = s.token]]
    /\ Go(w, "authorize")
    /\ UNCHANGED <<store, sessions, changes, logins>> /\ Quiet

Authorize(w) ==
    /\ pc[w] = "authorize"
    /\ sessions' = {[s EXCEPT !.live = @ \/ s.token = arg[w].token] : s \in sessions}
    /\ Go(w, IF arg[w].name \in groups["admin"] THEN "admitted" ELSE "idle")
    /\ arg' = [arg EXCEPT ![w] = None]
    /\ UNCHANGED <<store, changes, logins>> /\ Quiet

(* authenticate_credential: a key that has not expired is an admin's.       *)
AdmitKey(w) ==
    /\ pc[w] = "idle" /\ ~needs_setup /\ changes < MaxChange
    /\ \E k \in keys : ~k.expired
    /\ Go(w, "admitted")
    /\ UNCHANGED <<store, sessions, arg, changes, logins>> /\ Quiet

(* Time passes.                                                             *)
SessionExpires ==
    /\ \E s \in sessions : s.live /\ sessions' = (sessions \ {s}) \cup {[s EXCEPT !.live = FALSE]}
    /\ UNCHANGED <<store, pc, arg, changes, logins>> /\ Quiet

KeyExpires ==
    /\ \E k \in keys : ~k.expired /\ keys' = (keys \ {k}) \cup {[k EXCEPT !.expired = TRUE]}
    /\ UNCHANGED <<users, groups, sessions, pc, arg, changes, logins>> /\ Quiet

(* A change an admitted request makes: it goes on to persist, or answers    *)
(* with an error at once.                                                   *)
Change(w, ok, next, a) ==
    /\ pc[w] = "admitted" /\ changes < MaxChange
    /\ changes' = changes + 1
    /\ Go(w, IF ok THEN next ELSE "idle")
    /\ arg' = [arg EXCEPT ![w] = IF ok THEN a ELSE None]
    /\ UNCHANGED <<sessions, logins>> /\ Quiet

(* create_user_handler: add_user, and then add_member_to_group for the      *)
(* group "user", each with a persist of its own.                            *)
add_user(w, u) ==
    /\ UsersFree
    /\ Change(w, ~Named(users, u), "lock", About(u, "user"))
    /\ users' = IF Named(users, u) THEN users ELSE Pushed(users, [name |-> u, pw |-> 0])
    /\ UNCHANGED <<groups, keys>>

(* remove_user: the entry first, then the sessions, then the memberships.   *)
remove_user(w, u) ==
    /\ UsersFree
    /\ Change(w, Named(users, u), "purge", About(u, "none"))
    /\ users' = Without(users, u)
    /\ UNCHANGED <<groups, keys>>

PurgeSessions(w) ==
    /\ pc[w] = "purge"
    /\ sessions' = {s \in sessions : s.user # arg[w].name}
    /\ Go(w, "ungroup")
    /\ UNCHANGED <<store, arg, changes, logins>> /\ Quiet

PurgeMember(w) ==
    /\ pc[w] = "ungroup"
    /\ groups' = [g \in DOMAIN groups |-> groups[g] \ {arg[w].name}]
    /\ Go(w, "lock")
    /\ UNCHANGED <<users, keys, sessions, arg, changes, logins>> /\ Quiet

(* update_user changes the first entry of that name.                        *)
update_user(w, u) ==
    /\ UsersFree
    /\ Change(w, Named(users, u), "lock", None)
    /\ users' = LET mine == {i \in DOMAIN users : users[i].name = u} IN
         [i \in DOMAIN users |-> IF i \in mine /\ \A j \in mine : i <= j
                                 THEN [users[i] EXCEPT !.pw = @ + 1] ELSE users[i]]
    /\ UNCHANGED <<groups, keys>>

add_group(w, g) ==
    /\ Change(w, g \notin DOMAIN groups, "lock", None)
    /\ groups' = [n \in DOMAIN groups \cup {g} |-> IF n \in DOMAIN groups THEN groups[n] ELSE {}]
    /\ UNCHANGED <<users, keys>>

remove_group(w, g) ==
    /\ Change(w, g \in DOMAIN groups \ Protected, "lock", None)
    /\ groups' = [n \in DOMAIN groups \ ({g} \ Protected) |-> groups[n]]
    /\ UNCHANGED <<users, keys>>

remove_member_from_group(w, g, u) ==
    /\ Change(w, g \in DOMAIN groups, "lock", None)
    /\ groups' = [n \in DOMAIN groups |-> IF n = g THEN groups[n] \ {u} ELSE groups[n]]
    /\ UNCHANGED <<users, keys>>

Joined(g, u) == [n \in DOMAIN groups |-> IF n = g THEN groups[n] \cup {u} ELSE groups[n]]

add_member_to_group(w, g, u) ==
    /\ Change(w, g \in DOMAIN groups, "lock", None)
    /\ groups' = Joined(g, u)
    /\ UNCHANGED <<users, keys>>

create_api_key(w, n) ==
    LET free == \A k \in keys : k.name # n IN
    /\ Change(w, free, "lock", None)
    /\ keys' = IF free THEN keys \cup {[name |-> n, expired |-> FALSE]} ELSE keys
    /\ UNCHANGED <<users, groups>>

revoke_api_key(w, n) ==
    /\ Change(w, \E k \in keys : k.name = n, "lock", None)
    /\ keys' = {k \in keys : k.name # n}
    /\ UNCHANGED <<users, groups>>

-----------------------------------------------------------------------------
(* persist.                                                                 *)

SameStore == UNCHANGED <<store, sessions, changes, logins>> /\ SameSync /\ Same

(* What the request does after persist: the second half of create_user, the *)
(* login of setup, or its answer.                                           *)
After(w) ==
    CASE arg[w].group = "login" -> IF Named(users, "admin") /\ logins < MaxLogin THEN "insert" ELSE "idle"
      [] arg[w].group = "user" -> "join"
      [] OTHER -> "idle"

(* Without a path (main passes none for an unusable file) nothing is saved. *)
LockFile(w) ==
    /\ pc[w] = "lock"
    /\ IF mode = "invalid" THEN Go(w, After(w)) /\ UNCHANGED lock
       ELSE lock = "none" /\ lock' = w /\ Go(w, "users")
    /\ UNCHANGED <<arg, file, raw, snap, base, failed>> /\ SameStore

(* The three lists are read one after another.                              *)
ReadUsers(w) ==
    /\ pc[w] = "users"
    /\ snap' = [snap EXCEPT ![w].users = users]
    /\ Go(w, "groups")
    /\ UNCHANGED <<arg, file, raw, lock, base, failed>> /\ SameStore

ReadGroups(w) ==
    /\ pc[w] = "groups"
    /\ snap' = [snap EXCEPT ![w].groups = groups, ![w].keys = keys]
    /\ Go(w, "base")
    /\ UNCHANGED <<arg, file, raw, lock, base, failed>> /\ SameStore

(* Mutant: the sections are spliced into the file as this store knows it. *)
ReadBase_Snapshot(w) ==
    /\ pc[w] = "base"
    /\ base' = [base EXCEPT ![w] = raw]
    /\ Go(w, "write")
    /\ UNCHANGED <<arg, file, raw, lock, snap, failed>> /\ SameStore

(* The file as it is now; an absent one reads as the text of the start,     *)
(* which is as empty.                                                       *)
ReadBase(w) ==
    /\ pc[w] = "base"
    /\ base' = [base EXCEPT ![w] = file]
    /\ Go(w, "write")
    /\ UNCHANGED <<arg, file, raw, lock, snap, failed>> /\ SameStore

(* The rest of the request; a request with nothing left forgets its locals. *)
Rest(w) ==
    /\ Go(w, After(w))
    /\ arg' = IF After(w) = "idle" THEN [arg EXCEPT ![w] = None] ELSE arg
    /\ snap' = [snap EXCEPT ![w] = Empty]
    /\ base' = [base EXCEPT ![w] = [file EXCEPT !.lines = <<>>]]
    /\ lock' = "none"

WriteFile(w) ==
    /\ pc[w] = "write"
    /\ file' = [lines |-> Splice(base[w].lines, "auth", Section("auth")),
                auth |-> snap[w], clients |-> base[w].clients]
    /\ raw' = file'
    /\ Rest(w)
    /\ UNCHANGED failed /\ SameStore

(* The file cannot be read, or not be written.                              *)
PersistFails(w) ==
    /\ pc[w] \in {"base", "write"}
    /\ failed' = TRUE
    /\ Rest(w)
    /\ UNCHANGED <<file, raw>> /\ SameStore

(* create_user_handler goes on: the membership, and a second persist.       *)
Join(w) ==
    /\ pc[w] = "join"
    /\ groups' = Joined(arg[w].group, arg[w].name)
    /\ Go(w, "lock")
    /\ arg' = [arg EXCEPT ![w] = None]
    /\ UNCHANGED <<users, keys, sessions, changes, logins>> /\ Quiet

-----------------------------------------------------------------------------
(* The known clients of the sync server, changed under a mutex of theirs:   *)
(* upsert_pending, set_status, set_label and remove, each with save().      *)

SameWorkers == UNCHANGED <<store, sessions, arg, snap, raw, changes, logins>> /\ Same

ChangeClients ==
    /\ mode # "invalid" /\ pc["sync"] = "idle" /\ visits < MaxClient
    /\ visits' = visits + 1
    /\ \E c \in Client : clients' = IF c \in clients THEN clients \ {c} ELSE clients \cup {c}
    /\ Go("sync", "lock")
    /\ UNCHANGED <<file, lock, base, failed>> /\ SameWorkers

SaveRead ==
    /\ pc["sync"] = "lock" /\ lock = "none"
    /\ lock' = "sync"
    /\ base' = [base EXCEPT !["sync"] = file]
    /\ Go("sync", "write")
    /\ UNCHANGED <<clients, visits, file, failed>> /\ SameWorkers

SaveWrite ==
    /\ pc["sync"] = "write"
    /\ \/ /\ file' = [lines |-> Splice(base["sync"].lines, "clients", IF clients = {} THEN <<>> ELSE Section("clients")),
                        auth |-> base["sync"].auth, clients |-> clients]
          /\ UNCHANGED failed
       \/ failed' = TRUE /\ UNCHANGED file
    /\ lock' = "none"
    /\ base' = [base EXCEPT !["sync"] = [file EXCEPT !.lines = <<>>]]
    /\ Go("sync", "idle")
    /\ UNCHANGED <<clients, visits>> /\ SameWorkers

-----------------------------------------------------------------------------
Request(w) ==
    \/ SetupCheck(w) \/ SetupPush(w) \/ LoginVerify(w) \/ LoginInsert(w) \/ logout(w)
    \/ Validate(w) \/ Authorize(w) \/ AdmitKey(w)
    \/ PurgeSessions(w) \/ PurgeMember(w) \/ Join(w)
    \/ \E u \in User \cup {"admin"} : add_user(w, u) \/ remove_user(w, u) \/ update_user(w, u)
    \/ \E g \in Group : \/ add_group(w, g) \/ remove_group(w, g)
                         \/ \E u \in User : add_member_to_group(w, g, u) \/ remove_member_from_group(w, g, u)
    \/ create_api_key(w, "key") \/ revoke_api_key(w, "key")

Persist(w) == \/ LockFile(w) \/ ReadUsers(w) \/ ReadGroups(w) \/ ReadBase(w)
              \/ WriteFile(w) \/ PersistFails(w)

Next ==
    \/ \E w \in Worker : Request(w) \/ Persist(w)
    \/ SessionExpires \/ KeyExpires
    \/ ChangeClients \/ SaveRead \/ SaveWrite

Spec == Init /\ [][Next]_vars

-----------------------------------------------------------------------------
(* Nobody stays logged in as a user who was removed: a session whose user   *)
(* is gone is one that the removal is about to drop, whatever logins and    *)
(* refreshes run beside remove_user.                                        *)
SessionsHaveUsers ==
    \A s \in sessions : \/ Named(users, s.user)
                         \/ \E w \in Worker : pc[w] = "purge" /\ arg[w].name = s.user

(* Once every request has answered, and unless a save failed, a restart     *)
(* would find the accounts and the known clients just as they are in        *)
(* memory, and the operator's own lines where they were: neither writer of  *)
(* the file undoes the other's section, or its own earlier change.  A file  *)
(* that could not be parsed is left as it was.                              *)
ConfigAgrees ==
    /\ (\A a \in Actor : pc[a] \in {"idle", "admitted"}) /\ ~failed /\ mode # "invalid" =>
         /\ LET saved == Load(file) IN
              /\ saved.users = users /\ saved.groups = groups
              /\ {k.name : k \in saved.keys} = {k.name : k \in keys}
         /\ LoadClients(file) = clients
    /\ Owned(file.lines) = Owned(start)
    /\ mode = "invalid" => file.lines = start
=============================================================================
