-------------------------------- MODULE Trash --------------------------------
(***************************************************************************)
(* The trash of one root (core/src/trash.rs): moving a path into it,       *)
(* restoring an entry, purging one, purging the expired ones, emptying it. *)
(*                                                                         *)
(* The data of an entry lives in trash/<id>/ and what is known of it in    *)
(* index.json.  A TrashManager guards the index with a mutex of its own;   *)
(* every app that works on the root builds its own TrashManager, so the    *)
(* mutex excludes only the threads of one app.  The data of an entry is    *)
(* moved before the mutex is taken, and the index is read, changed and     *)
(* written back through index.json.tmp.                                    *)
(*                                                                         *)
(* A file or a whole directory moved as one is an item, known by a number; *)
(* item 0 is "nothing there".  Days stand for deleted_at_ms.               *)
(***************************************************************************)
EXTENDS Integers, FiniteSets

CONSTANTS
    Path,        \* root-relative paths
    Thread,      \* threads that call into a TrashManager
    Manager,     \* TrashManager instances on this root
    ManagerOf,   \* ManagerOf[t]: the instance thread t uses
    ExpiryDays,  \* expiry_days; 0 when it is not configured
    Stored,      \* Stored[p]: the item at path p when the model starts
    MaxItem,     \* bound: items ever written, the stored ones included
    MaxId,       \* bound: trash ids ever drawn
    MaxDay,      \* bound: days that pass
    MaxFault     \* bound: crashes and failing file operations, together

NoThread == "no thread"

ASSUME TrashAssumption ==
    /\ NoThread \notin Thread
    /\ ManagerOf \in [Thread -> Manager]
    /\ Stored \in [Path -> 0..MaxItem]
    /\ \A i \in 1..MaxItem, p \in Path : Stored[p] = i => \A j \in 1..i : \E q \in Path : Stored[q] = j
    /\ ExpiryDays \in Nat /\ MaxItem \in Nat /\ MaxId \in Nat
    /\ MaxDay \in Nat /\ MaxFault \in Nat

VARIABLES
    tree,    \* tree[p]: the item at path p under the root
    data,    \* data[i]: the item in trash/<i>/
    index,   \* index.json: a set of TrashEntry
    tmp,     \* index.json.tmp: NoFile, or {the entries in it}
    lock,    \* lock[m]: the thread that holds TrashManager::lock, or NoThread
    th,      \* th[t]: the operation thread t is in
    items,   \* items written so far
    ids,     \* trash ids drawn so far
    today,
    faults,
    gone,      \* history: items somebody chose to discard
    clobbered, \* history: items a restore replaced that came after its check
    wiped,     \* history: items hard_delete destroyed
    overlap    \* history: two managers held their locks at the same time

trashVars == <<tree, data, index, tmp, lock, th, items, ids, today, faults, gone, clobbered, wiped, overlap>>

NoFile == {}
Item == 1..MaxItem
Id == 1..MaxId

Idle == [op |-> "idle", step |-> "idle", todo |-> {}, from |-> {}, entry |-> {}, dest |-> {}, snap |-> {}]

TrashEntry == [id : Id, original_path : Path, deleted_at : 0..MaxDay]
OnDisk == {tree[p] : p \in Path} \cup {data[i] : i \in Id}

At(t, step) == th[t].step = step
Goto(t, step) == th' = [th EXCEPT ![t].step = step]
Free(t) == lock[ManagerOf[t]] = NoThread
Acquire(t) ==
    /\ lock' = [lock EXCEPT ![ManagerOf[t]] = t]
    /\ overlap' = (overlap \/ \E m \in Manager : lock[m] # NoThread)
Release(t) == lock' = [lock EXCEPT ![ManagerOf[t]] = NoThread]
Fault == faults < MaxFault /\ faults' = faults + 1

-----------------------------------------------------------------------------
(* move_to_trash, called for one path or for each of a list in turn.        *)

BeginMove(t, todo) ==
    /\ At(t, "idle")
    /\ th' = [th EXCEPT ![t] = [Idle EXCEPT !.op = "move", !.step = "pick", !.todo = todo]]
    /\ UNCHANGED <<tree, data, index, tmp, lock, items, ids, today, faults, gone, clobbered, wiped, overlap>>

trash_id == ids + 1

Entry(p) == [id |-> trash_id, original_path |-> p, deleted_at |-> today]

(* The path does not exist: move_to_trash returns at once.                  *)
MoveMissing(t) ==
    /\ At(t, "pick")
    /\ \E p \in th[t].todo :
         /\ tree[p] = 0
         /\ th' = [th EXCEPT ![t].todo = @ \ {p},
                             ![t].step = IF th[t].todo = {p} THEN "done" ELSE "pick"]
    /\ UNCHANGED <<tree, data, index, tmp, lock, items, ids, today, faults, gone, clobbered, wiped, overlap>>

(* The path exists.  Nothing keeps it from changing before it is moved.     *)
CheckExists(t) ==
    /\ At(t, "pick")
    /\ \E p \in th[t].todo :
         /\ tree[p] # 0
         /\ th' = [th EXCEPT ![t].todo = @ \ {p}, ![t].step = "moving", ![t].from = {p}]
    /\ UNCHANGED <<tree, data, index, tmp, lock, items, ids, today, faults, gone, clobbered, wiped, overlap>>

(* What is at the path now is renamed into trash/<id>/, or copied there and *)
(* removed; the removal that follows a copy may fail and is not checked.    *)
(* The copy and the removal are one step here.                              *)
MoveData(t) ==
    /\ At(t, "moving")
    /\ ids < MaxId
    /\ \E p \in th[t].from :
         /\ tree[p] # 0
         /\ data' = [data EXCEPT ![trash_id] = tree[p]]
         /\ ids' = ids + 1
         /\ \/ tree' = [tree EXCEPT ![p] = 0] /\ UNCHANGED faults
            \/ Fault /\ UNCHANGED tree
         /\ th' = [th EXCEPT ![t].step = "lock", ![t].from = {}, ![t].entry = {Entry(p)}]
    /\ UNCHANGED <<index, tmp, lock, items, today, gone, clobbered, wiped, overlap>>

(* The entry's directory cannot be made, or neither the rename nor the copy *)
(* works: another thread has moved the path away since the check, or the    *)
(* disk fails.                                                              *)
MoveFails(t) ==
    /\ At(t, "moving")
    /\ \E p \in th[t].from :
         \/ tree[p] = 0 /\ UNCHANGED faults
         \/ Fault
    /\ Goto(t, "hard")
    /\ UNCHANGED <<tree, data, index, tmp, lock, items, ids, today, gone, clobbered, wiped, overlap>>

(* hard_delete then removes for good whatever is at the path by now; that   *)
(* this may fail is not checked.                                            *)
HardDelete(t) ==
    /\ At(t, "hard")
    /\ \E p \in th[t].from :
         \/ /\ tree' = [tree EXCEPT ![p] = 0]
            /\ wiped' = wiped \cup ({tree[p]} \ {0})
            /\ UNCHANGED faults
         \/ Fault /\ UNCHANGED <<tree, wiped>>
    /\ th' = [th EXCEPT ![t].from = {},
                        ![t].step = IF th[t].todo = {} THEN "done" ELSE "pick"]
    /\ UNCHANGED <<data, index, tmp, lock, items, ids, today, gone, clobbered, overlap>>

(* Mutant: the index is read before the lock is taken. *)
LockIndex_Unlocked(t) ==
    /\ At(t, "lock")
    /\ th' = [th EXCEPT ![t].step = "write", ![t].snap = index \cup th[t].entry]
    /\ UNCHANGED <<tree, data, index, tmp, lock, items, ids, today, faults, gone, clobbered, wiped, overlap>>

(* The mutex, load_index, push.                                             *)
LockIndex(t) ==
    /\ At(t, "lock")
    /\ Free(t)
    /\ Acquire(t)
    /\ th' = [th EXCEPT ![t].step = "write", ![t].snap = index \cup th[t].entry]
    /\ UNCHANGED <<tree, data, index, tmp, items, ids, today, faults, gone, clobbered, wiped>>

-----------------------------------------------------------------------------
(* restore_entry_with_dest                                                  *)

(* The checks: the entry is in the index, its data is there, and nothing is *)
(* at the destination.                                                      *)
BeginRestore(t, e, dest) ==
    /\ At(t, "idle")
    /\ Free(t)
    /\ e \in index
    /\ data[e.id] # 0
    /\ tree[dest] = 0
    /\ Acquire(t)
    /\ th' = [th EXCEPT ![t] = [Idle EXCEPT !.op = "restore", !.step = "place",
                                            !.entry = {e}, !.dest = {dest}, !.snap = index]]
    /\ UNCHANGED <<tree, data, index, tmp, items, ids, today, faults, gone, clobbered, wiped>>

(* The data is renamed to the destination.  Rename replaces what has come   *)
(* to be there since the check.  The entry's directory goes, and the entry. *)
Place(t) ==
    /\ At(t, "place")
    /\ \E e \in th[t].entry, d \in th[t].dest :
         IF data[e.id] = 0
         THEN /\ th' = [th EXCEPT ![t] = Idle]
              /\ Release(t)
              /\ UNCHANGED <<tree, data, clobbered>>
         ELSE /\ tree' = [tree EXCEPT ![d] = data[e.id]]
              /\ data' = [data EXCEPT ![e.id] = 0]
              /\ clobbered' = clobbered \cup ({tree[d]} \ {0})
              /\ th' = [th EXCEPT ![t].step = "write", ![t].snap = @ \ {e}]
              /\ UNCHANGED lock
    /\ UNCHANGED <<index, tmp, items, ids, today, faults, gone, wiped, overlap>>

(* Neither the rename nor the copy works: the entry stays.                  *)
RestoreFails(t) ==
    /\ At(t, "place")
    /\ Fault
    /\ th' = [th EXCEPT ![t] = Idle]
    /\ Release(t)
    /\ UNCHANGED <<tree, data, index, tmp, items, ids, today, gone, clobbered, wiped, overlap>>

-----------------------------------------------------------------------------
(* purge_entry, purge_expired, empty                                        *)

Cutoff == IF today < ExpiryDays THEN 0 ELSE today - ExpiryDays

(* purge_expired: the entries older than expiry_days, none without it.      *)
Expired == IF ExpiryDays = 0 THEN {} ELSE {e \in index : e.deleted_at < Cutoff}

(* The entries an operation takes out of the index.                         *)
Doomed(op) == IF op \in {"expire", "sweep"} THEN {Expired}
              ELSE IF op = "empty" THEN {index}
              ELSE {{e} : e \in index}

(* A purge of nothing changes nothing: purge_entry answers not found, and   *)
(* purge_expired does not save.                                             *)
BeginDrop(t, op) ==
    /\ At(t, "idle")
    /\ Free(t)
    /\ \E doomed \in Doomed(op) :
         /\ doomed # {}
         /\ th' = [th EXCEPT ![t] = [Idle EXCEPT !.op = op, !.step = "remove",
                                                 !.entry = doomed, !.snap = index \ doomed]]
    /\ Acquire(t)
    /\ UNCHANGED <<tree, data, index, tmp, items, ids, today, faults, gone, clobbered, wiped>>

DroppedIds(t) == {e.id : e \in th[t].entry}

(* Mutant: empty removes the whole trash directory, not the entries'. *)
RemoveData_All(t) ==
    /\ At(t, "remove")
    /\ gone' = gone \cup ({data[i] : i \in DroppedIds(t)} \ {0})
    /\ data' = [i \in Id |-> 0]
    /\ Goto(t, "write")
    /\ UNCHANGED <<tree, index, tmp, lock, items, ids, today, faults, clobbered, wiped, overlap>>

(* remove_dir_all of each entry's directory; one already gone is fine.      *)
RemoveData(t) ==
    /\ At(t, "remove")
    /\ gone' = gone \cup ({data[i] : i \in DroppedIds(t)} \ {0})
    /\ data' = [i \in Id |-> IF i \in DroppedIds(t) THEN 0 ELSE data[i]]
    /\ Goto(t, "write")
    /\ UNCHANGED <<tree, index, tmp, lock, items, ids, today, faults, clobbered, wiped, overlap>>

(* The directory cannot be removed: purge_entry gives up, purge_expired and *)
(* empty log it and drop the entry all the same.                            *)
RemoveFails(t) ==
    /\ At(t, "remove")
    /\ Fault
    /\ IF th[t].op = "purge"
       THEN th' = [th EXCEPT ![t] = Idle] /\ Release(t)
       ELSE Goto(t, "write") /\ UNCHANGED lock
    /\ UNCHANGED <<tree, data, index, tmp, items, ids, today, gone, clobbered, wiped, overlap>>

-----------------------------------------------------------------------------
(* save_index: write index.json.tmp, rename it over index.json; the caller  *)
(* returns and drops the mutex.                                             *)
AfterSave(t) == IF th[t].op = "move" /\ th[t].todo # {} THEN "pick" ELSE "done"

WriteIndex(t) ==
    /\ At(t, "write")
    /\ tmp' = {th[t].snap}
    /\ Goto(t, "commit")
    /\ UNCHANGED <<tree, data, index, lock, items, ids, today, faults, gone, clobbered, wiped, overlap>>

(* The write fails: save_index says nothing and the caller goes on.         *)
WriteIndexFails(t) ==
    /\ At(t, "write")
    /\ Fault
    /\ Goto(t, AfterSave(t))
    /\ Release(t)
    /\ UNCHANGED <<tree, data, index, tmp, items, ids, today, gone, clobbered, wiped, overlap>>

CommitIndex(t) ==
    /\ At(t, "commit")
    /\ index' = IF tmp = NoFile THEN index ELSE UNION tmp
    /\ tmp' = NoFile
    /\ Goto(t, AfterSave(t))
    /\ Release(t)
    /\ UNCHANGED <<tree, data, items, ids, today, faults, gone, clobbered, wiped, overlap>>

(* The process dies at any point: locks and threads go, files stay.         *)
Crash ==
    /\ Fault
    /\ th' = [t \in Thread |-> Idle]
    /\ lock' = [m \in Manager |-> NoThread]
    /\ UNCHANGED <<tree, data, index, tmp, items, ids, today, gone, clobbered, wiped, overlap>>

NextDay ==
    /\ today < MaxDay
    /\ today' = today + 1
    /\ UNCHANGED <<tree, data, index, tmp, lock, th, items, ids, faults, gone, clobbered, wiped, overlap>>

TrashStep(t) ==
    \/ MoveMissing(t) \/ CheckExists(t) \/ MoveData(t) \/ MoveFails(t) \/ HardDelete(t)
    \/ LockIndex(t)
    \/ Place(t) \/ RestoreFails(t)
    \/ RemoveData(t) \/ RemoveFails(t)
    \/ WriteIndex(t) \/ WriteIndexFails(t) \/ CommitIndex(t)

TrashInit ==
    /\ tree = Stored
    /\ data = [i \in Id |-> 0]
    /\ index = {} /\ tmp = NoFile
    /\ lock = [m \in Manager |-> NoThread]
    /\ th = [t \in Thread |-> Idle]
    /\ items = Cardinality({Stored[p] : p \in Path} \ {0}) /\ ids = 0 /\ today = 0 /\ faults = 0
    /\ gone = {} /\ clobbered = {} /\ wiped = {} /\ overlap = FALSE

-----------------------------------------------------------------------------
(* The tree, the trash and its index, the locks and the threads have their  *)
(* types; index.json.tmp exists or not.                                     *)
TrashTypeOK ==
    /\ tree \in [Path -> Item \cup {0}]
    /\ data \in [Id -> Item \cup {0}]
    /\ index \subseteq TrashEntry
    /\ tmp \subseteq SUBSET TrashEntry /\ Cardinality(tmp) <= 1
    /\ lock \in [Manager -> Thread \cup {NoThread}]
    /\ \A t \in Thread :
         /\ th[t].op \in {"idle", "move", "restore", "purge", "expire", "sweep", "empty",
                         "copy", "share", "access"}
         /\ th[t].step \in {"idle", "pick", "moving", "hard", "lock", "place", "remove", "write",
                           "commit", "done", "copying", "edit"}
         /\ th[t].todo \subseteq Path /\ th[t].dest \subseteq Path /\ th[t].from \subseteq Path
         /\ th[t].entry \subseteq TrashEntry /\ th[t].snap \subseteq TrashEntry
    /\ items \in 0..MaxItem /\ ids \in 0..MaxId /\ today \in 0..MaxDay /\ faults \in 0..MaxFault
    /\ gone \subseteq Item /\ clobbered \subseteq Item /\ wiped \subseteq Item
    /\ overlap \in BOOLEAN

(* Whatever operations, failures and crashes interleave, an item that was   *)
(* written is still under the root or in the trash, unless somebody         *)
(* overwrote or discarded it, a restore replaced it that had found its      *)
(* destination free, or hard_delete took it, which move_to_trash calls for  *)
(* the path once its move has failed: for the item it was asked to move, or *)
(* for one that came to the path since.  A purge of something else, an      *)
(* index update, a crash or a move that works never destroys anything.      *)
NothingDestroyed == 1..items \subseteq OnDisk \cup gone \cup clobbered \cup wiped

(* With no crash, no failing file operation, and no two managers inside the *)
(* index at once: while no thread is between its move of data and its save, *)
(* the index lists exactly the entries whose data is in the trash, so that  *)
(* everything in it can be restored or purged and nothing fills the disk    *)
(* unlisted.                                                                *)
IndexExact ==
    faults = 0 /\ ~overlap
      /\ (\A t \in Thread : th[t].step \notin {"lock", "place", "remove", "write", "commit"})
      => {e.id : e \in index} = {i \in Id : data[i] # 0}

=============================================================================
