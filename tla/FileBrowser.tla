----------------------------- MODULE FileBrowser -----------------------------
(***************************************************************************)
(* The file browser app (filebrowser/src): its handlers over the root, the *)
(* share links, and what a restore or a purge does to the deletion ledger, *)
(* next to the sync engine that works on the same root.                    *)
(*                                                                         *)
(* A thread is an HTTP worker of the browser or a thread of the engine,    *)
(* told apart by the TrashManager it uses.  Requests that only read (ls,   *)
(* download, preview, read, search, detect) change nothing and are left    *)
(* out, and so are the refusals of a request (400, 401, 404, 409).         *)
(*                                                                         *)
(* mem and file are the tombstoned paths in the engine's memory and in     *)
(* deletion-ledger.json.  The two apps share no lock for that file: the    *)
(* engine writes it whole from memory, the browser reads it, takes some    *)
(* tombstones out and writes it back.  An item is moved as one; the paths  *)
(* below a directory are known to the ledger only.                         *)
(***************************************************************************)
EXTENDS Trash

CONSTANTS
    Token,     \* share tokens
    User,      \* users of the web interface
    RoleOf,    \* RoleOf[u]: "admin", "user" or "readonly"
    Inner,     \* Inner[p]: the paths below directory p, as the ledger knows them
    Buried,    \* tombstones in the ledger when the model starts
    MaxCount,  \* bound: share accesses counted
    MaxCall    \* bound: requests, engine calls and sweeps

ASSUME BrowserAssumption ==
    /\ Manager = {"browser", "engine"}
    /\ \A p \in Path : Inner[p] \cap Path = {}
    /\ Buried \subseteq Path \cup UNION {Inner[p] : p \in Path}
    /\ RoleOf \in [User -> {"admin", "user", "readonly"}]
    /\ MaxCount \in Nat /\ MaxCall \in Nat

VARIABLES
    running,  \* inner is Some
    shares,   \* shares[k]: the share with token k, or NoShare
    opened,   \* opened[t]: the share access thread t is in
    mem, file,
    edit,     \* edit[t]: what thread t is going to write to the ledger file
    calls,    \* requests, engine calls and sweeps so far
    ended,    \* history: tokens revoked or collected
    lifted,   \* history: paths whose tombstones a restore or a purge lifted
    crossed   \* history: tombstones the engine saved while an edit was under way

browserVars == <<running, shares, opened, mem, file, edit, ended, lifted, crossed>>
vars == <<trashVars, browserVars, calls>>

NoShare == [path |-> "none"]
Never == 0
Share == [path : Path, created_by : User, expires : 0..(MaxDay + 1), count : 0..MaxCount]
Browsers == {t \in Thread : ManagerOf[t] = "browser"}
Engines == {t \in Thread : ManagerOf[t] = "engine"}
NotOpen == {}
NoEdit == {}
LedgerPath == Path \cup UNION {Inner[p] : p \in Path}
Editing == \E t \in Thread : edit[t] # NoEdit

(* handle_http: a request without a user is refused, a readonly one may not *)
(* change anything.                                                         *)
MayWrite(u) == RoleOf[u] # "readonly"
Writes(t) ==
    t \in Browsers /\ running /\ At(t, "idle") /\ opened[t] = NotOpen /\ \E u \in User : MayWrite(u)

-----------------------------------------------------------------------------
(* Handlers over the tree                                                   *)

(* fs::write over whatever is at the path.                                  *)
Put(t, p) ==
    /\ Writes(t)
    /\ items < MaxItem
    /\ items' = items + 1
    /\ tree' = [tree EXCEPT ![p] = items + 1]
    /\ gone' = gone \cup ({tree[p]} \ {0})
    /\ UNCHANGED <<data, index, tmp, lock, th, ids, today, faults, clobbered, wiped, overlap>>
    /\ UNCHANGED browserVars

(* A body over max_upload_mb is refused; missing folders are made.          *)
handle_upload(t, p) == Put(t, p)

(* The editor: refused unless the name or the content is text, or forced.   *)
handle_write(t, p) == Put(t, p)

(* handle_mkdir: create_dir_all leaves an existing directory as it is.      *)
handle_mkdir(t, p) ==
    /\ Writes(t)
    /\ items < MaxItem
    /\ tree[p] = 0
    /\ items' = items + 1
    /\ tree' = [tree EXCEPT ![p] = items + 1]
    /\ UNCHANGED <<data, index, tmp, lock, th, ids, today, faults, gone, clobbered, wiped, overlap>>
    /\ UNCHANGED browserVars

(* handle_rename: fs::rename replaces the target without a check.           *)
handle_rename(t, from, to) ==
    /\ Writes(t)
    /\ tree[from] # 0 /\ from # to
    /\ tree' = [tree EXCEPT ![to] = tree[from], ![from] = 0]
    /\ gone' = gone \cup ({tree[to]} \ {0})
    /\ UNCHANGED <<data, index, tmp, lock, th, items, ids, today, faults, clobbered, wiped, overlap>>
    /\ UNCHANGED browserVars

handle_delete(t, p) == Writes(t) /\ BeginMove(t, {p}) /\ UNCHANGED browserVars

(* The paths of the list that exist are moved to the trash one by one.      *)
handle_batch_delete(t, paths) == Writes(t) /\ BeginMove(t, paths) /\ UNCHANGED browserVars

BeginCopy(t, paths) ==
    /\ Writes(t)
    /\ th' = [th EXCEPT ![t] = [Idle EXCEPT !.op = "copy", !.step = "pick", !.todo = paths]]
    /\ UNCHANGED <<tree, data, index, tmp, lock, items, ids, today, faults, gone, clobbered, wiped, overlap>>
    /\ UNCHANGED browserVars

handle_copy(t, p) == BeginCopy(t, {p})

(* The jobs are done one by one, whatever became of the others.             *)
handle_batch_copy(t, paths) == BeginCopy(t, paths)

Next1(t, p) == IF th[t].todo = {p} THEN "done" ELSE "pick"

(* One job: refused unless the source exists and the destination does not.  *)
CopyCheck(t) ==
    /\ At(t, "pick") /\ th[t].op = "copy"
    /\ \E p \in th[t].todo, q \in Path :
         IF tree[p] # 0 /\ tree[q] = 0
         THEN th' = [th EXCEPT ![t].step = "copying", ![t].from = {p}, ![t].dest = {q},
                               ![t].todo = @ \ {p}]
         ELSE th' = [th EXCEPT ![t].todo = @ \ {p}, ![t].step = Next1(t, p)]
    /\ UNCHANGED <<tree, data, index, tmp, lock, items, ids, today, faults, gone, clobbered, wiped, overlap>>
    /\ UNCHANGED browserVars

(* ... and then copied over whatever has come to be there.                  *)
CopyData(t) ==
    /\ At(t, "copying")
    /\ \E p \in th[t].from, q \in th[t].dest :
         IF tree[p] = 0 THEN UNCHANGED <<tree, gone>>
         ELSE /\ tree' = [tree EXCEPT ![q] = tree[p]]
              /\ gone' = gone \cup ({tree[q]} \ {0})
    /\ th' = [th EXCEPT ![t].from = {}, ![t].dest = {},
                        ![t].step = IF th[t].todo = {} THEN "done" ELSE "pick"]
    /\ UNCHANGED <<data, index, tmp, lock, items, ids, today, faults, clobbered, wiped, overlap>>
    /\ UNCHANGED browserVars

-----------------------------------------------------------------------------
(* Trash handlers, of the browser and of the engine                         *)

handle_trash_restore(t, e, dest) ==
    Writes(t) /\ BeginRestore(t, e, dest) /\ UNCHANGED browserVars
handle_trash_purge_entry(t) == Writes(t) /\ BeginDrop(t, "purge") /\ UNCHANGED browserVars
handle_trash_empty(t) == Writes(t) /\ BeginDrop(t, "empty") /\ UNCHANGED browserVars
handle_trash_purge_expired(t) == Writes(t) /\ BeginDrop(t, "expire") /\ UNCHANGED browserVars

restore_trash_entry_with_dest(t, e, dest) ==
    t \in Engines /\ BeginRestore(t, e, dest) /\ UNCHANGED browserVars
purge_trash_entry(t) == t \in Engines /\ BeginDrop(t, "purge") /\ UNCHANGED browserVars
empty_trash(t) == t \in Engines /\ BeginDrop(t, "empty") /\ UNCHANGED browserVars
purge_expired_trash(t) == t \in Engines /\ BeginDrop(t, "expire") /\ UNCHANGED browserVars

(* filebrowser-trash-gc: purge_expired, and nothing else.                   *)
Sweep(t) == t \in Browsers /\ BeginDrop(t, "sweep") /\ UNCHANGED browserVars

(* The engine deletes a path a peer deleted.                                *)
EngineDelete(t, p) == t \in Engines /\ BeginMove(t, {p}) /\ UNCHANGED browserVars

Prefixes(t) == {e.original_path : e \in th[t].entry}
Clears(t) == th[t].op \in {"restore", "purge", "expire", "empty"}

(* A tombstone is covered by a prefix when it is of that path or of one     *)
(* below it.                                                                *)
Covered(t) == Prefixes(t) \cup UNION {Inner[p] : p \in Prefixes(t)}

(* Mutant: the sweep and the deletes clear the ledger file as well. *)
Finish_Always(t) ==
    /\ At(t, "done")
    /\ th' = [th EXCEPT ![t] = Idle]
    /\ file' = file \ Covered(t)
    /\ lifted' = IF Clears(t) THEN lifted \cup Covered(t) ELSE lifted
    /\ UNCHANGED <<tree, data, index, tmp, lock, items, ids, today, faults, gone, clobbered, wiped, overlap>>
    /\ UNCHANGED <<running, shares, opened, mem, edit, ended, crossed>>

(* What the caller does last.  The engine's clear_ledger_prefix changes its *)
(* memory and saves it; clear_ledger_covering reads the file, and is done   *)
(* when it finds nothing to take out.                                       *)
Finish(t) ==
    /\ At(t, "done")
    /\ \/ /\ ~Clears(t)
          /\ th' = [th EXCEPT ![t] = Idle]
          /\ UNCHANGED <<mem, file, edit, lifted, crossed>>
       \/ /\ Clears(t) /\ t \in Engines
          /\ th' = [th EXCEPT ![t] = Idle]
          /\ mem' = mem \ Covered(t)
          /\ file' = mem \ Covered(t)
          /\ lifted' = lifted \cup Covered(t)
          /\ crossed' = IF Editing THEN crossed ELSE {}
          /\ UNCHANGED edit
       \/ /\ Clears(t) /\ t \notin Engines
          /\ IF Covered(t) \cap file = {}
             THEN th' = [th EXCEPT ![t] = Idle] /\ UNCHANGED edit
             ELSE Goto(t, "edit") /\ edit' = [edit EXCEPT ![t] = {file \ Covered(t)}]
          /\ lifted' = lifted \cup Covered(t)
          /\ UNCHANGED <<mem, file, crossed>>
    /\ UNCHANGED <<tree, data, index, tmp, lock, items, ids, today, faults, gone, clobbered, wiped, overlap>>
    /\ UNCHANGED <<running, shares, opened, ended>>

(* ... and writes what it read, less what it took out, over whatever the    *)
(* file holds by now; a failing write or rename leaves the file.            *)
WriteBack(t) ==
    /\ At(t, "edit")
    /\ th' = [th EXCEPT ![t] = Idle]
    /\ edit' = [edit EXCEPT ![t] = NoEdit]
    /\ \E f \in edit[t] : \/ file' = f /\ UNCHANGED faults
                          \/ Fault /\ UNCHANGED file
    /\ UNCHANGED <<tree, data, index, tmp, lock, items, ids, today, gone, clobbered, wiped, overlap>>
    /\ UNCHANGED <<running, shares, opened, mem, ended, lifted, crossed>>

(* The engine records a deletion it captured or applied, and saves its      *)
(* ledger over the file.                                                    *)
RecordDelete(p) ==
    /\ p \in Path => tree[p] = 0
    /\ p \notin mem \ lifted
    /\ mem' = mem \cup {p}
    /\ file' = mem \cup {p}
    /\ lifted' = lifted \ {p}
    /\ crossed' = IF Editing THEN crossed \cup {p} ELSE {}
    /\ UNCHANGED <<running, shares, opened, edit, ended>>
    /\ UNCHANGED trashVars

-----------------------------------------------------------------------------
(* Share links                                                              *)

is_expired(s) == s.expires # Never /\ s.expires < today

(* A token is drawn once.                                                   *)
NewShare(t, k, p, u, expires) ==
    /\ Writes(t) /\ MayWrite(u)
    /\ tree[p] # 0
    /\ shares[k] = NoShare /\ k \notin ended
    /\ shares' = [shares EXCEPT ![k] = [path |-> p, created_by |-> u,
                                        expires |-> expires, count |-> 0]]
    /\ UNCHANGED <<running, opened, mem, file, edit, ended, lifted, crossed>>
    /\ UNCHANGED trashVars

handle_create_share(t, k, p, u, expires) == NewShare(t, k, p, u, expires)

(* The loop over the list; each round takes the lock and inserts one share. *)
handle_batch_share(t, u, expires) ==
    \E k \in Token, p \in Path : NewShare(t, k, p, u, expires)

(* handle_delete_share: its creator or an admin.                            *)
handle_delete_share(t, k, u) ==
    /\ Writes(t) /\ MayWrite(u)
    /\ shares[k] # NoShare
    /\ RoleOf[u] = "admin" \/ shares[k].created_by = u
    /\ shares' = [shares EXCEPT ![k] = NoShare]
    /\ ended' = ended \cup {k}
    /\ UNCHANGED <<running, opened, mem, file, edit, lifted, crossed>>
    /\ UNCHANGED trashVars

(* filebrowser-gc *)
CollectShares ==
    LET old == {k \in Token : shares[k] # NoShare /\ is_expired(shares[k])} IN
    /\ old # {}
    /\ shares' = [k \in Token |-> IF k \in old THEN NoShare ELSE shares[k]]
    /\ ended' = ended \cup old
    /\ UNCHANGED <<running, opened, mem, file, edit, lifted, crossed>>
    /\ UNCHANGED trashVars

(* handle_share_access: the share is looked up and cloned under the read    *)
(* lock, the password checked against the clone ...                         *)
OpenShare(t, k) ==
    /\ t \in Browsers /\ running
    /\ At(t, "idle") /\ opened[t] = NotOpen
    /\ shares[k] # NoShare /\ ~is_expired(shares[k])
    /\ opened' = [opened EXCEPT ![t] = {[token |-> k, share |-> shares[k]]}]
    /\ UNCHANGED <<running, shares, mem, file, edit, ended, lifted, crossed>>
    /\ UNCHANGED trashVars

(* Mutant: the clone is written back with its count raised. *)
CountAccess_Reinserts(t) ==
    /\ \E o \in opened[t] :
         shares' = IF tree[o.share.path] # 0 /\ o.share.count < MaxCount
                   THEN [shares EXCEPT ![o.token] = [o.share EXCEPT !.count = @ + 1]]
                   ELSE shares
    /\ opened[t] # NotOpen
    /\ opened' = [opened EXCEPT ![t] = NotOpen]
    /\ UNCHANGED <<running, mem, file, edit, ended, lifted, crossed>>
    /\ UNCHANGED trashVars

(* ... and the access counted later, on the share if it is still there.     *)
CountAccess(t) ==
    /\ \E o \in opened[t] :
         shares' = IF /\ tree[o.share.path] # 0
                      /\ shares[o.token] # NoShare
                      /\ shares[o.token].count < MaxCount
                   THEN [shares EXCEPT ![o.token].count = @ + 1]
                   ELSE shares
    /\ opened[t] # NotOpen
    /\ opened' = [opened EXCEPT ![t] = NotOpen]
    /\ UNCHANGED <<running, mem, file, edit, ended, lifted, crossed>>
    /\ UNCHANGED trashVars

-----------------------------------------------------------------------------
(* App::stop takes the write lock of inner, which the handlers that change  *)
(* the trash hold for reading until they return.  A sweep holds nothing and *)
(* is taken to be over before the app starts again.                         *)
Stop ==
    /\ running
    /\ \A t \in Browsers : th[t].op \in {"idle", "copy", "sweep"}
    /\ running' = FALSE
    /\ UNCHANGED <<shares, opened, mem, file, edit, ended, lifted, crossed>>
    /\ UNCHANGED trashVars

Start ==
    /\ ~running
    /\ \A t \in Browsers : th[t].op # "sweep"
    /\ running' = TRUE
    /\ UNCHANGED <<shares, opened, mem, file, edit, ended, lifted, crossed>>
    /\ UNCHANGED trashVars

(* The process dies: shares are kept in memory only, the ledger is loaded.  *)
Restart ==
    /\ Crash
    /\ shares' = [k \in Token |-> NoShare]
    /\ ended' = ended \cup {k \in Token : shares[k] # NoShare}
    /\ opened' = [t \in Thread |-> NotOpen]
    /\ mem' = file
    /\ edit' = [t \in Thread |-> NoEdit]
    /\ crossed' = {}
    /\ running' = TRUE
    /\ UNCHANGED <<file, lifted>>

Init ==
    /\ TrashInit
    /\ running = TRUE
    /\ shares = [k \in Token |-> NoShare]
    /\ opened = [t \in Thread |-> NotOpen]
    /\ mem = Buried /\ file = Buried /\ edit = [t \in Thread |-> NoEdit]
    /\ ended = {} /\ lifted = {} /\ crossed = {} /\ calls = 0

PathLists == SUBSET Path \ {{}}

Requests(t) ==
    \/ \E p \in Path : \/ handle_upload(t, p) \/ handle_write(t, p) \/ handle_mkdir(t, p)
                        \/ handle_delete(t, p) \/ handle_copy(t, p) \/ EngineDelete(t, p)
    \/ \E p, q \in Path : handle_rename(t, p, q)
    \/ \E ps \in PathLists : handle_batch_delete(t, ps) \/ handle_batch_copy(t, ps)
    \/ \E e \in index : \E q \in Path :
          handle_trash_restore(t, e, q) \/ restore_trash_entry_with_dest(t, e, q)
    \/ handle_trash_purge_entry(t) \/ handle_trash_empty(t) \/ handle_trash_purge_expired(t)
    \/ purge_trash_entry(t) \/ empty_trash(t) \/ purge_expired_trash(t)
    \/ Sweep(t)

Steps(t) ==
    \/ TrashStep(t) /\ th[t].op # "copy" /\ UNCHANGED browserVars
    \/ CopyCheck(t) \/ CopyData(t) \/ Finish(t) \/ WriteBack(t)

Sharing(t) ==
    \/ \E k \in Token, p \in Path, u \in User, d \in {Never, 1} : handle_create_share(t, k, p, u, d)
    \/ \E u \in User, d \in {Never, 1} : handle_batch_share(t, u, d)
    \/ \E k \in Token, u \in User : handle_delete_share(t, k, u)
    \/ \E k \in Token : OpenShare(t, k)

Call ==
    \/ \E t \in Thread : Requests(t) \/ Sharing(t)
    \/ \E p \in LedgerPath : RecordDelete(p)
    \/ Stop

Going == \/ \E t \in Thread : Steps(t) \/ CountAccess(t)
         \/ CollectShares \/ Start \/ Restart
         \/ NextDay /\ UNCHANGED browserVars

Next ==
    \/ calls < MaxCall /\ calls' = calls + 1 /\ Call
    \/ UNCHANGED calls /\ Going

Spec == Init /\ [][Next]_vars

-----------------------------------------------------------------------------
(* The trash, the shares and their accesses, and the two ledgers have their *)
(* types.                                                                   *)
TypeOK ==
    /\ TrashTypeOK
    /\ running \in BOOLEAN
    /\ shares \in [Token -> Share \cup {NoShare}]
    /\ \A t \in Thread : \A o \in opened[t] : o.token \in Token /\ o.share \in Share
    /\ mem \subseteq LedgerPath /\ file \subseteq LedgerPath
    /\ lifted \subseteq LedgerPath /\ crossed \subseteq LedgerPath
    /\ \A t \in Thread : edit[t] \subseteq SUBSET LedgerPath
    /\ ended \subseteq Token /\ calls \in 0..MaxCall

(* A link that was revoked, or collected after its expiry, never works      *)
(* again, however an access to it that had already begun goes on.           *)
RevokedStaysRevoked == \A k \in ended : shares[k] = NoShare

(* The browser edits deletion-ledger.json behind the engine's back: its     *)
(* edits take out only tombstones at or below the paths of entries that     *)
(* were restored or purged, so that every other tombstone the engine holds  *)
(* survives a restart.  Left out are those the engine saved between an      *)
(* edit's read and its write, until the engine saves again: the write takes *)
(* them out of the file.                                                    *)
TombstonesSurvive == (mem \ lifted) \ crossed \subseteq file
=============================================================================
