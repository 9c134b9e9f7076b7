-------------------------- MODULE FileBrowserProofs --------------------------
(* Proofs about Trash and FileBrowser, for any paths, threads, managers,    *)
(* tokens, users and bounds.                                                *)
EXTENDS FileBrowser, FiniteSetTheorems, TLAPS

-----------------------------------------------------------------------------
(* What the steps of the browser and of the engine do to the trash.         *)

(* A thread writes, renames or copies a file, or goes on with an operation. *)
TrashAct(t) ==
    \/ \E p \in Path : Put(t, p) \/ handle_mkdir(t, p)
    \/ \E p, q \in Path : handle_rename(t, p, q)
    \/ \E ps \in SUBSET Path : BeginMove(t, ps) \/ BeginCopy(t, ps)
    \/ \E e \in index, q \in Path : BeginRestore(t, e, q)
    \/ \E op \in {"purge", "empty", "expire", "sweep"} : BeginDrop(t, op)
    \/ TrashStep(t) /\ th[t].op # "copy"
    \/ CopyCheck(t) \/ CopyData(t) \/ Finish(t) \/ WriteBack(t)

LEMMA NextSplit ==
    ASSUME [Next]_vars
    PROVE  (\E t \in Thread : TrashAct(t)) \/ Crash \/ NextDay \/ UNCHANGED trashVars
<1>1. CASE UNCHANGED vars
  BY <1>1 DEF vars
<1>2. ASSUME NEW t \in Thread, Requests(t) PROVE TrashAct(t)
  <2>1. ASSUME NEW p \in Path PROVE {p} \in SUBSET Path
    OBVIOUS
  <2> QED BY <1>2, <2>1 DEF Requests, TrashAct, PathLists, handle_upload, handle_write,
           handle_delete, handle_copy, EngineDelete, handle_batch_delete, handle_batch_copy,
           handle_trash_restore, restore_trash_entry_with_dest, handle_trash_purge_entry,
           handle_trash_empty, handle_trash_purge_expired, purge_trash_entry, empty_trash,
           purge_expired_trash, Sweep
<1>3. ASSUME NEW t \in Thread, Sharing(t) PROVE UNCHANGED trashVars
  BY <1>3 DEF Sharing, handle_create_share, handle_batch_share, NewShare,
              handle_delete_share, OpenShare
<1>4. ASSUME NEW t \in Thread, Steps(t) PROVE TrashAct(t)
  BY <1>4 DEF Steps, TrashAct
<1>5. ASSUME NEW t \in Thread, CountAccess(t) PROVE UNCHANGED trashVars
  BY <1>5 DEF CountAccess
<1>6. ASSUME NEW p \in LedgerPath, RecordDelete(p) PROVE UNCHANGED trashVars
  BY <1>6 DEF RecordDelete
<1>7. CASE Stop \/ CollectShares \/ Start
  BY <1>7 DEF Stop, CollectShares, Start
<1>8. CASE Restart
  BY <1>8 DEF Restart
<1> QED BY <1>1, <1>2, <1>3, <1>4, <1>5, <1>6, <1>7, <1>8 DEF Next, Call, Going

-----------------------------------------------------------------------------
(* Types.                                                                   *)

Op == {"idle", "move", "restore", "purge", "expire", "sweep", "empty", "copy"}
Step == {"idle", "pick", "moving", "hard", "lock", "place", "remove", "write", "commit", "done",
         "copying", "edit"}
OpRec == [op : Op, step : Step, todo : SUBSET Path, from : SUBSET Path,
          entry : SUBSET TrashEntry, dest : SUBSET Path, snap : SUBSET TrashEntry]

FilesType ==
    /\ tree \in [Path -> Item \cup {0}] /\ data \in [Id -> Item \cup {0}]
    /\ items \in 0..MaxItem /\ gone \subseteq Item /\ clobbered \subseteq Item
    /\ wiped \subseteq Item

ThreadsType ==
    /\ index \subseteq TrashEntry
    /\ tmp = NoFile \/ \E s \in SUBSET TrashEntry : tmp = {s}
    /\ lock \in [Manager -> Thread \cup {NoThread}]
    /\ th \in [Thread -> OpRec]
    /\ ids \in 0..MaxId /\ today \in 0..MaxDay /\ faults \in 0..MaxFault
    /\ overlap \in BOOLEAN

TType == FilesType /\ ThreadsType

LEMMA Bounds ==
    MaxItem \in Nat /\ MaxId \in Nat /\ MaxDay \in Nat /\ MaxFault \in Nat
BY TrashAssumption

LEMMA HasManager == ManagerOf \in [Thread -> Manager]
BY TrashAssumption

LEMMA IdleType == Idle \in OpRec
BY DEF Idle, OpRec, Op, Step

(* The updates of an operation that the steps make.                         *)
LEMMA UpdateType ==
    ASSUME th \in [Thread -> OpRec], NEW t \in Thread, NEW s \in Step, NEW x,
           NEW es \in SUBSET TrashEntry, NEW ps \in SUBSET Path
    PROVE  /\ [th EXCEPT ![t].step = s] \in [Thread -> OpRec]
           /\ [th EXCEPT ![t].todo = @ \ {x}, ![t].step = s] \in [Thread -> OpRec]
           /\ [th EXCEPT ![t].step = s, ![t].snap = @ \ {x}] \in [Thread -> OpRec]
           /\ [th EXCEPT ![t].from = {}, ![t].dest = {}, ![t].step = s] \in [Thread -> OpRec]
           /\ [th EXCEPT ![t].step = s, ![t].from = {}, ![t].entry = es] \in [Thread -> OpRec]
           /\ [th EXCEPT ![t].todo = @ \ {x}, ![t].step = s, ![t].from = ps] \in [Thread -> OpRec]
           /\ [th EXCEPT ![t].from = {}, ![t].step = s] \in [Thread -> OpRec]
<1>0. th[t] \in OpRec
  OBVIOUS
<1>1. [th EXCEPT ![t].step = s] \in [Thread -> OpRec]
  BY <1>0 DEF OpRec
<1>2. [th EXCEPT ![t].todo = @ \ {x}, ![t].step = s] \in [Thread -> OpRec]
  BY <1>0 DEF OpRec
<1>3. [th EXCEPT ![t].step = s, ![t].snap = @ \ {x}] \in [Thread -> OpRec]
  BY <1>0 DEF OpRec
<1>4. [th EXCEPT ![t].from = {}, ![t].dest = {}, ![t].step = s] \in [Thread -> OpRec]
  BY <1>0 DEF OpRec
<1>5. [th EXCEPT ![t].step = s, ![t].from = {}, ![t].entry = es] \in [Thread -> OpRec]
  BY <1>0 DEF OpRec
<1>6. [th EXCEPT ![t].todo = @ \ {x}, ![t].step = s, ![t].from = ps] \in [Thread -> OpRec]
  BY <1>0 DEF OpRec
<1>7. [th EXCEPT ![t].from = {}, ![t].step = s] \in [Thread -> OpRec]
  BY <1>0 DEF OpRec
<1> QED BY <1>1, <1>2, <1>3, <1>4, <1>5, <1>6, <1>7

LEMMA FilesStep == ThreadsType /\ FilesType /\ [Next]_vars => FilesType'
<1> SUFFICES ASSUME ThreadsType, FilesType, [Next]_vars PROVE FilesType'
  OBVIOUS
<1> USE Bounds DEF FilesType, Item
<1>1. CASE Crash \/ NextDay \/ UNCHANGED trashVars
  <2>1. UNCHANGED <<tree, data, items, gone, clobbered, wiped>>
    BY <1>1 DEF Crash, NextDay, trashVars
  <2> QED BY <2>1
<1>2. ASSUME NEW t \in Thread, NEW p \in Path, Put(t, p) \/ handle_mkdir(t, p) PROVE FilesType'
  <2>1. items + 1 \in Item /\ items' = items + 1 /\ tree' = [tree EXCEPT ![p] = items + 1]
    BY <1>2 DEF Put, handle_mkdir
  <2>2. gone' \subseteq gone \cup ({tree[p]} \ {0}) /\ UNCHANGED <<data, clobbered, wiped>>
    BY <1>2 DEF Put, handle_mkdir
  <2> QED BY <2>1, <2>2
<1>3. ASSUME NEW t \in Thread, NEW p \in Path, NEW q \in Path, handle_rename(t, p, q)
      PROVE  FilesType'
  BY <1>3 DEF handle_rename
<1>4. ASSUME NEW t \in Thread,
             \/ \E ps \in SUBSET Path : BeginMove(t, ps) \/ BeginCopy(t, ps)
             \/ \E e \in index, q \in Path : BeginRestore(t, e, q)
             \/ \E op \in {"purge", "empty", "expire", "sweep"} : BeginDrop(t, op)
             \/ CopyCheck(t) \/ Finish(t) \/ WriteBack(t)
      PROVE  FilesType'
  BY <1>4 DEF BeginMove, BeginCopy, BeginRestore, BeginDrop, CopyCheck, Finish, WriteBack
<1>5. ASSUME NEW t \in Thread,
             MoveMissing(t) \/ CheckExists(t) \/ MoveFails(t) \/ LockIndex(t) \/ RestoreFails(t)
               \/ RemoveFails(t) \/ WriteIndex(t) \/ WriteIndexFails(t) \/ CommitIndex(t)
      PROVE  FilesType'
  BY <1>5 DEF MoveMissing, CheckExists, MoveFails, LockIndex, RestoreFails, RemoveFails, WriteIndex,
              WriteIndexFails, CommitIndex
<1>6. ASSUME NEW t \in Thread, CopyData(t) PROVE FilesType'
  <2>1. th[t].from \in SUBSET Path /\ th[t].dest \in SUBSET Path
    BY DEF ThreadsType, OpRec
  <2> QED BY <1>6, <2>1 DEF CopyData
<1>7. ASSUME NEW t \in Thread, MoveData(t) PROVE FilesType'
  <2>1. th[t].from \in SUBSET Path
    BY DEF ThreadsType, OpRec
  <2> QED BY <1>7, <2>1 DEF MoveData
<1>8. ASSUME NEW t \in Thread, HardDelete(t) PROVE FilesType'
  <2>1. th[t].from \in SUBSET Path
    BY DEF ThreadsType, OpRec
  <2> QED BY <1>8, <2>1 DEF HardDelete
<1>9. ASSUME NEW t \in Thread, Place(t) PROVE FilesType'
  <2>1. th[t].dest \in SUBSET Path /\ \A e \in th[t].entry : e.id \in Id
    BY DEF ThreadsType, OpRec, TrashEntry
  <2> QED BY <1>9, <2>1 DEF Place
<1>10. ASSUME NEW t \in Thread, RemoveData(t) PROVE FilesType'
  <2>1. \A i \in DroppedIds(t) : i \in Id
    BY DEF ThreadsType, OpRec, TrashEntry, DroppedIds
  <2> QED BY <1>10, <2>1 DEF RemoveData
<1> QED
  <2>1. ASSUME NEW t \in Thread, TrashAct(t) PROVE FilesType'
    BY <1>2, <1>3, <1>4, <1>5, <1>6, <1>7, <1>8, <1>9, <1>10, <2>1 DEF TrashAct, TrashStep
  <2> QED BY <1>1, <2>1, NextSplit

LEMMA ThreadsStep == ThreadsType /\ [Next]_vars => ThreadsType'
<1> SUFFICES ASSUME ThreadsType, [Next]_vars PROVE ThreadsType'
  OBVIOUS
<1> USE Bounds, HasManager, IdleType DEF ThreadsType, Goto, Acquire, Release, Fault
<1>0. ASSUME NEW t \in Thread
      PROVE  th[t] \in OpRec /\ ManagerOf[t] \in Manager
  OBVIOUS
<1>1. CASE Crash
  BY <1>1 DEF Crash
<1>2. CASE NextDay
  BY <1>2 DEF NextDay
<1>3. CASE UNCHANGED trashVars
  BY <1>3 DEF trashVars
<1>4. ASSUME NEW t \in Thread, NEW p \in Path, NEW q \in Path,
             Put(t, p) \/ handle_mkdir(t, p) \/ handle_rename(t, p, q)
      PROVE  ThreadsType'
  BY <1>4 DEF Put, handle_mkdir, handle_rename
<1>5. ASSUME NEW t \in Thread, NEW ps \in SUBSET Path, BeginMove(t, ps) \/ BeginCopy(t, ps)
      PROVE  ThreadsType'
  <2>1. [Idle EXCEPT !.op = "move", !.step = "pick", !.todo = ps] \in OpRec
    BY DEF OpRec, Op, Step
  <2>2. [Idle EXCEPT !.op = "copy", !.step = "pick", !.todo = ps] \in OpRec
    BY DEF OpRec, Op, Step
  <2> QED BY <1>5, <2>1, <2>2 DEF BeginMove, BeginCopy
<1>6. ASSUME NEW t \in Thread, NEW e \in index, NEW q \in Path, BeginRestore(t, e, q)
      PROVE  ThreadsType'
  <2>1. [Idle EXCEPT !.op = "restore", !.step = "place", !.entry = {e}, !.dest = {q},
                     !.snap = index] \in OpRec
    BY DEF OpRec, Op, Step
  <2> QED BY <1>0, <1>6, <2>1 DEF BeginRestore
<1>7. ASSUME NEW t \in Thread, NEW op \in {"purge", "empty", "expire", "sweep"}, BeginDrop(t, op)
      PROVE  ThreadsType'
  <2>1. \A d \in Doomed(op) : d \in SUBSET TrashEntry
    BY DEF Doomed, Expired
  <2>2. \A d \in Doomed(op) : [Idle EXCEPT !.op = op, !.step = "remove", !.entry = d,
                                           !.snap = index \ d] \in OpRec
    BY <2>1 DEF OpRec, Op, Step
  <2> QED BY <1>0, <1>7, <2>2 DEF BeginDrop
<1>8. ASSUME NEW t \in Thread, MoveMissing(t) PROVE ThreadsType'
  <2>1. th' \in [Thread -> OpRec]
    <3>1. PICK p \in th[t].todo :
             th' = [th EXCEPT ![t].todo = @ \ {p},
                              ![t].step = IF th[t].todo = {p} THEN "done" ELSE "pick"]
      BY <1>8 DEF MoveMissing
    <3>2. (IF th[t].todo = {p} THEN "done" ELSE "pick") \in Step
      BY DEF Step
    <3> QED BY <3>1, <3>2, UpdateType
  <2> QED BY <1>8, <2>1 DEF MoveMissing
<1>9. ASSUME NEW t \in Thread, MoveData(t) PROVE ThreadsType'
  <2>1. ids + 1 \in Id
    BY <1>9 DEF MoveData, Id
  <2>2. \A p \in Path : Entry(p) \in TrashEntry
    BY <2>1 DEF Entry, TrashEntry, trash_id
  <2>3. th' \in [Thread -> OpRec]
    <3>1. PICK p \in th[t].from :
             th' = [th EXCEPT ![t].step = "lock", ![t].from = {}, ![t].entry = {Entry(p)}]
      BY <1>9 DEF MoveData
    <3>2. "lock" \in Step /\ {Entry(p)} \in SUBSET TrashEntry
      BY <1>0, <2>2 DEF Step, OpRec
    <3> QED BY <3>1, <3>2, UpdateType
  <2>4. ids' \in 0..MaxId /\ faults' \in 0..MaxFault
    BY <1>9 DEF MoveData
  <2> QED BY <1>9, <2>3, <2>4 DEF MoveData
<1>10. ASSUME NEW t \in Thread, HardDelete(t) PROVE ThreadsType'
  <2>1. th' \in [Thread -> OpRec]
    <3>1. (IF th[t].todo = {} THEN "done" ELSE "pick") \in Step
      BY DEF Step
    <3> QED BY <1>10, <3>1, UpdateType DEF HardDelete
  <2>2. faults' \in 0..MaxFault /\ UNCHANGED <<index, tmp, lock, ids, today, overlap>>
    BY <1>10 DEF HardDelete
  <2> QED BY <2>1, <2>2
<1>21. ASSUME NEW t \in Thread, CheckExists(t) PROVE ThreadsType'
  <2>1. th' \in [Thread -> OpRec]
    <3>1. PICK p \in th[t].todo :
             th' = [th EXCEPT ![t].todo = @ \ {p}, ![t].step = "moving", ![t].from = {p}]
      BY <1>21 DEF CheckExists
    <3>2. "moving" \in Step /\ {p} \in SUBSET Path
      BY <1>0 DEF Step, OpRec
    <3> QED BY <3>1, <3>2, UpdateType
  <2> QED BY <1>21, <2>1 DEF CheckExists
<1>22. ASSUME NEW t \in Thread, MoveFails(t) PROVE ThreadsType'
  <2>1. th' \in [Thread -> OpRec]
    <3>1. "hard" \in Step
      BY DEF Step
    <3> QED BY <1>22, <3>1, UpdateType DEF MoveFails
  <2>2. faults' \in 0..MaxFault /\ UNCHANGED <<index, tmp, lock, ids, today, overlap>>
    BY <1>22 DEF MoveFails
  <2> QED BY <2>1, <2>2
<1>11. ASSUME NEW t \in Thread, LockIndex(t) PROVE ThreadsType'
  <2>1. th' \in [Thread -> OpRec]
    BY <1>0, <1>11 DEF LockIndex, OpRec, Step
  <2> QED BY <1>0, <1>11, <2>1 DEF LockIndex
<1>12. ASSUME NEW t \in Thread, Place(t) PROVE ThreadsType'
  <2>1. th' \in [Thread -> OpRec]
    <3>1. PICK e \in th[t].entry : \/ th' = [th EXCEPT ![t] = Idle]
                                   \/ th' = [th EXCEPT ![t].step = "write", ![t].snap = @ \ {e}]
      BY <1>12 DEF Place
    <3>2. "write" \in Step
      BY DEF Step
    <3>3. CASE th' = [th EXCEPT ![t] = Idle]
      BY <3>3
    <3>4. CASE th' = [th EXCEPT ![t].step = "write", ![t].snap = @ \ {e}]
      BY <3>2, <3>4, UpdateType
    <3> QED BY <3>1, <3>3, <3>4
  <2>2. lock' \in [Manager -> Thread \cup {NoThread}]
    BY <1>0, <1>12 DEF Place
  <2>3. UNCHANGED <<index, tmp, ids, today, faults, overlap>>
    BY <1>12 DEF Place
  <2> QED BY <2>1, <2>2, <2>3
<1>13. ASSUME NEW t \in Thread, RestoreFails(t) PROVE ThreadsType'
  BY <1>0, <1>13 DEF RestoreFails
<1>14. ASSUME NEW t \in Thread, RemoveData(t) PROVE ThreadsType'
  <2>1. th' \in [Thread -> OpRec]
    BY <1>0, <1>14 DEF RemoveData, OpRec, Step
  <2> QED BY <1>14, <2>1 DEF RemoveData
<1>15. ASSUME NEW t \in Thread, RemoveFails(t) PROVE ThreadsType'
  <2>1. th' \in [Thread -> OpRec]
    BY <1>0, <1>15 DEF RemoveFails, OpRec, Step
  <2>2. lock' \in [Manager -> Thread \cup {NoThread}]
    BY <1>0, <1>15 DEF RemoveFails
  <2>3. faults' \in 0..MaxFault /\ UNCHANGED <<index, tmp, ids, today, overlap>>
    BY <1>15 DEF RemoveFails
  <2> QED BY <2>1, <2>2, <2>3
<1>16. ASSUME NEW t \in Thread, WriteIndex(t) PROVE ThreadsType'
  <2>1. th' \in [Thread -> OpRec]
    BY <1>0, <1>16 DEF WriteIndex, OpRec, Step
  <2>2. th[t].snap \in SUBSET TrashEntry
    BY <1>0 DEF OpRec
  <2> QED BY <1>16, <2>1, <2>2 DEF WriteIndex
<1>17. ASSUME NEW t \in Thread, WriteIndexFails(t) \/ CommitIndex(t) PROVE ThreadsType'
  <2>1. AfterSave(t) \in Step
    BY DEF AfterSave, Step
  <2>2. th' \in [Thread -> OpRec]
    <3>1. th' = [th EXCEPT ![t].step = AfterSave(t)]
      BY <1>17 DEF WriteIndexFails, CommitIndex
    <3> QED BY <2>1, <3>1, UpdateType
  <2>3. tmp # NoFile => UNION tmp \subseteq TrashEntry
    OBVIOUS
  <2> QED BY <1>0, <1>17, <2>2, <2>3 DEF WriteIndexFails, CommitIndex
<1>18. ASSUME NEW t \in Thread, CopyCheck(t) PROVE ThreadsType'
  <2>1. th' \in [Thread -> OpRec]
    <3>1. PICK p \in th[t].todo, q \in Path :
             \/ th' = [th EXCEPT ![t].step = "copying", ![t].from = {p}, ![t].dest = {q},
                                 ![t].todo = @ \ {p}]
             \/ th' = [th EXCEPT ![t].todo = @ \ {p}, ![t].step = Next1(t, p)]
      BY <1>18 DEF CopyCheck
    <3>2. Next1(t, p) \in Step /\ p \in Path
      BY <1>0 DEF Next1, Step, OpRec
    <3>3. CASE th' = [th EXCEPT ![t].todo = @ \ {p}, ![t].step = Next1(t, p)]
      BY <3>2, <3>3, UpdateType
    <3>4. CASE th' = [th EXCEPT ![t].step = "copying", ![t].from = {p}, ![t].dest = {q},
                                ![t].todo = @ \ {p}]
      <4>1. "copying" \in Step
        BY DEF Step
      <4> DEFINE o == [th[t] EXCEPT !.step = "copying", !.from = {p}, !.dest = {q}, !.todo = @ \ {p}]
      <4>2. o \in OpRec
        BY <1>0, <3>2, <4>1 DEF OpRec
      <4>3. th' = [th EXCEPT ![t] = o]
        BY <1>0, <3>4 DEF OpRec
      <4> QED BY <4>2, <4>3
    <3> QED BY <3>1, <3>3, <3>4
  <2> QED BY <1>18, <2>1 DEF CopyCheck
<1>19. ASSUME NEW t \in Thread, CopyData(t) PROVE ThreadsType'
  <2>1. th' \in [Thread -> OpRec]
    <3>1. (IF th[t].todo = {} THEN "done" ELSE "pick") \in Step
      BY DEF Step
    <3> QED BY <1>19, <3>1, UpdateType DEF CopyData
  <2> QED BY <1>19, <2>1 DEF CopyData
<1>20. ASSUME NEW t \in Thread, Finish(t) PROVE ThreadsType'
  <2>1. th' \in [Thread -> OpRec]
    <3>1. "edit" \in Step
      BY DEF Step
    <3>2. th' = [th EXCEPT ![t] = Idle] \/ th' = [th EXCEPT ![t].step = "edit"]
      BY <1>20 DEF Finish
    <3>3. CASE th' = [th EXCEPT ![t] = Idle]
      BY <3>3
    <3>4. CASE th' = [th EXCEPT ![t].step = "edit"]
      BY <3>1, <3>4, UpdateType
    <3> QED BY <3>2, <3>3, <3>4
  <2> QED BY <1>20, <2>1 DEF Finish
<1>23. ASSUME NEW t \in Thread, WriteBack(t) PROVE ThreadsType'
  <2>1. faults' \in 0..MaxFault /\ th' = [th EXCEPT ![t] = Idle]
    BY <1>23 DEF WriteBack
  <2> QED BY <1>23, <2>1 DEF WriteBack
<1> QED
  <2>1. ASSUME NEW t \in Thread, TrashAct(t) PROVE ThreadsType'
    BY <1>4, <1>5, <1>6, <1>7, <1>8, <1>9, <1>10, <1>11, <1>12, <1>13, <1>14, <1>15, <1>16,
       <1>17, <1>18, <1>19, <1>20, <1>21, <1>22, <1>23, <2>1 DEF TrashAct, TrashStep
  <2> QED BY <1>1, <1>2, <1>3, <2>1, NextSplit

-----------------------------------------------------------------------------
(* Nothing is destroyed: a new trash directory is never one in use.         *)

Fresh == \A i \in Id : i > ids => data[i] = 0

LEMMA FreshStep == TType /\ Fresh /\ [Next]_vars => Fresh'
<1> SUFFICES ASSUME TType, Fresh, [Next]_vars PROVE Fresh'
  OBVIOUS
<1> USE Bounds DEF TType, FilesType, ThreadsType, Fresh, Id
<1>1. CASE UNCHANGED <<data, ids>>
  BY <1>1
<1>2. ASSUME NEW t \in Thread, MoveData(t) PROVE Fresh'
  BY <1>2 DEF MoveData, trash_id
<1>3. ASSUME NEW t \in Thread, Place(t) \/ RemoveData(t) PROVE Fresh'
  <2>1. ids' = ids /\ \A i \in Id : data'[i] \in {0, data[i]}
    BY <1>3 DEF Place, RemoveData
  <2> QED BY <2>1
<1>4. CASE Crash \/ NextDay \/ UNCHANGED trashVars
  BY <1>1, <1>4 DEF Crash, NextDay, trashVars
<1>5. ASSUME NEW t \in Thread, TrashAct(t) PROVE Fresh'
  BY <1>1, <1>2, <1>3, <1>5
  DEF TrashAct, TrashStep, Put, handle_mkdir, handle_rename, BeginMove, BeginCopy, BeginRestore,
      BeginDrop, CopyCheck, CopyData, Finish, WriteBack, MoveMissing, CheckExists, MoveFails,
      HardDelete, LockIndex, RestoreFails,
      RemoveFails, WriteIndex, WriteIndexFails, CommitIndex
<1> QED BY <1>4, <1>5, NextSplit

(* Where an item that was written is.                                       *)
Kept(x) == \/ \E p \in Path : tree[p] = x
           \/ \E i \in Id : data[i] = x
           \/ x \in gone \cup clobbered \cup wiped

LEMMA NothingDestroyedMeans == NothingDestroyed <=> \A x \in 1..items : Kept(x)
BY DEF NothingDestroyed, OnDisk, Kept

LEMMA KeptStep == TType /\ Fresh /\ NothingDestroyed /\ [Next]_vars => NothingDestroyed'
<1> SUFFICES ASSUME TType, Fresh, \A x \in 1..items : Kept(x), [Next]_vars,
                    NEW x \in 1..items'
             PROVE  Kept(x)'
  <2>1. NothingDestroyed' <=> \A x \in 1..items' : Kept(x)'
    BY DEF NothingDestroyed, OnDisk, Kept
  <2> QED BY <2>1, NothingDestroyedMeans
<1> USE Bounds DEF TType, FilesType
<1>0. items' = items => Kept(x) /\ x # 0
  OBVIOUS
<1>1. CASE UNCHANGED <<tree, data, items, gone, clobbered, wiped>>
  BY <1>0, <1>1 DEF Kept
<1>2. ASSUME NEW t \in Thread, NEW p \in Path, Put(t, p) \/ handle_mkdir(t, p) PROVE Kept(x)'
  <2>1. /\ items' = items + 1 /\ tree' = [tree EXCEPT ![p] = items + 1]
        /\ UNCHANGED <<data, clobbered, wiped>>
        /\ gone \cup ({tree[p]} \ {0}) \subseteq gone'
    BY <1>2 DEF Put, handle_mkdir
  <2>2. CASE x = items + 1
    BY <2>1, <2>2 DEF Kept
  <2>3. CASE x # items + 1
    <3>1. Kept(x) /\ x # 0
      BY <2>1, <2>3
    <3> QED BY <2>1, <3>1 DEF Kept
  <2> QED BY <2>2, <2>3
<1>3. ASSUME NEW t \in Thread, NEW p \in Path, NEW q \in Path, handle_rename(t, p, q)
      PROVE  Kept(x)'
  BY <1>0, <1>3 DEF handle_rename, Kept
<1>4. ASSUME NEW t \in Thread, CopyData(t) PROVE Kept(x)'
  <2>1. th[t].from \in SUBSET Path /\ th[t].dest \in SUBSET Path
    BY DEF ThreadsType, OpRec
  <2> QED BY <1>0, <1>4, <2>1 DEF CopyData, Kept
<1>5. ASSUME NEW t \in Thread, MoveData(t) PROVE Kept(x)'
  <2>1. th[t].from \in SUBSET Path
    BY DEF ThreadsType, OpRec
  <2>a. ids \in Nat /\ ids + 1 \in Id
    BY <1>5 DEF MoveData, Id, ThreadsType
  <2>2. ids + 1 \in Id /\ data[ids + 1] = 0
    BY <2>a DEF Fresh
  <2>3. PICK p \in th[t].from :
           /\ data' = [data EXCEPT ![ids + 1] = tree[p]]
           /\ tree' = [tree EXCEPT ![p] = 0] \/ UNCHANGED tree
    BY <1>5 DEF MoveData, trash_id
  <2>4. UNCHANGED <<items, gone, clobbered, wiped>>
    BY <1>5 DEF MoveData
  <2> QED BY <1>0, <2>1, <2>2, <2>3, <2>4 DEF Kept
<1>6. ASSUME NEW t \in Thread, HardDelete(t) PROVE Kept(x)'
  <2>1. th[t].from \in SUBSET Path
    BY DEF ThreadsType, OpRec
  <2> QED BY <1>0, <1>6, <2>1 DEF HardDelete, Kept
<1>7. ASSUME NEW t \in Thread, Place(t) PROVE Kept(x)'
  <2>1. th[t].dest \in SUBSET Path /\ \A e \in th[t].entry : e.id \in Id
    BY DEF ThreadsType, OpRec, TrashEntry
  <2>2. items' = items /\ gone' = gone /\ wiped' = wiped
    BY <1>7 DEF Place
  <2>3. CASE UNCHANGED <<tree, data, clobbered>>
    BY <1>1, <2>2, <2>3
  <2>4. ASSUME NEW i \in Id, NEW d \in Path,
               tree' = [tree EXCEPT ![d] = data[i]], data' = [data EXCEPT ![i] = 0],
               clobbered' = clobbered \cup ({tree[d]} \ {0})
        PROVE  Kept(x)'
    BY <1>0, <2>2, <2>4 DEF Kept
  <2> QED BY <1>7, <2>1, <2>3, <2>4 DEF Place
<1>8. ASSUME NEW t \in Thread, RemoveData(t) PROVE Kept(x)'
  BY <1>0, <1>8 DEF RemoveData, Kept
<1>9. CASE Crash \/ NextDay \/ UNCHANGED trashVars
  BY <1>1, <1>9 DEF Crash, NextDay, trashVars
<1>10. ASSUME NEW t \in Thread, TrashAct(t) PROVE Kept(x)'
  BY <1>1, <1>2, <1>3, <1>4, <1>5, <1>6, <1>7, <1>8, <1>10
  DEF TrashAct, TrashStep, BeginMove, BeginCopy, BeginRestore, BeginDrop, CopyCheck, Finish,
      WriteBack, CheckExists, MoveFails, MoveMissing, LockIndex, RestoreFails, RemoveFails, WriteIndex, WriteIndexFails, CommitIndex
<1> QED BY <1>9, <1>10, NextSplit

(* The items stored when the model starts are numbered from 1 on.           *)
LEMMA InitKept == Init => TType /\ Fresh /\ NothingDestroyed
<1> SUFFICES ASSUME Init PROVE TType /\ Fresh /\ NothingDestroyed
  OBVIOUS
<1> DEFINE S == {Stored[p] : p \in Path} \ {0}
<1>1. tree = Stored /\ items = Cardinality(S) /\ data = [i \in Id |-> 0]
  BY DEF Init, TrashInit
<1>2. S \subseteq 1..MaxItem /\ IsFiniteSet(S) /\ Cardinality(S) \in 0..MaxItem
  <2>1. S \subseteq 1..MaxItem
    BY TrashAssumption
  <2>2. IsFiniteSet(1..MaxItem) /\ Cardinality(1..MaxItem) = MaxItem
    BY Bounds, FS_Interval
  <2>3. IsFiniteSet(S) /\ Cardinality(S) <= MaxItem
    BY <2>1, <2>2, FS_Subset
  <2>4. Cardinality(S) \in Nat
    BY <2>3, FS_CardinalityType
  <2> QED BY <2>1, <2>3, <2>4, Bounds
<1>3. ASSUME NEW j \in 1..Cardinality(S), j \notin S PROVE FALSE
  <2>1. S \subseteq 1..(j - 1)
    <3>1. ASSUME NEW i \in S, i >= j PROVE FALSE
      <4>1. PICK p \in Path : Stored[p] = i
        OBVIOUS
      <4>2. i \in 1..MaxItem /\ j \in 1..i
        BY <1>2, <3>1
      <4>3. \E q \in Path : Stored[q] = j
        BY <4>1, <4>2, TrashAssumption
      <4> QED BY <1>3, <4>2, <4>3
    <3> QED BY <1>2, <3>1
  <2>2. j - 1 \in Nat
    BY <1>2
  <2>3. IsFiniteSet(1..(j - 1)) /\ Cardinality(1..(j - 1)) = j - 1
    BY <2>2, FS_Interval
  <2>4. Cardinality(S) <= j - 1
    BY <2>1, <2>3, FS_Subset
  <2> QED BY <1>2, <2>2, <2>4
<1>4. FilesType
  BY <1>1, <1>2, TrashAssumption DEF FilesType, Item, Init, TrashInit
<1>5. ThreadsType
  <2>1. th \in [Thread -> OpRec] /\ lock \in [Manager -> Thread \cup {NoThread}]
    BY IdleType DEF Init, TrashInit
  <2>2. ids \in 0..MaxId /\ today \in 0..MaxDay /\ faults \in 0..MaxFault
    BY Bounds DEF Init, TrashInit
  <2> QED BY <2>1, <2>2 DEF ThreadsType, Init, TrashInit
<1>6. Fresh
  BY <1>1 DEF Fresh
<1>7. NothingDestroyed
  BY <1>1, <1>3 DEF NothingDestroyed, OnDisk
<1> QED BY <1>4, <1>5, <1>6, <1>7 DEF TType

LEMMA KeptInvariance == Spec => [](TType /\ Fresh /\ NothingDestroyed)
<1>1. TType /\ [Next]_vars => TType'
  BY FilesStep, ThreadsStep DEF TType
<1> QED BY <1>1, InitKept, FreshStep, KeptStep, PTL DEF Spec

-----------------------------------------------------------------------------
(* The index is exact.  A thread is inside the index from the check of a    *)
(* restore or a purge, or from the lock of a move, to its save.             *)

Inside(t) == th[t].step \in {"place", "remove", "write", "commit"}

(* The data is in the trash and the index does not list it yet, or the data *)
(* is gone and the index still lists it.                                    *)
Adding(t) == th[t].step = "lock" \/ (th[t].op = "move" /\ th[t].step \in {"write", "commit"})
Removing(t) == th[t].op # "move" /\ th[t].step \in {"write", "commit"}

Steady == faults = 0 /\ ~overlap

(* The mutex of a manager is held by the thread that is inside, and as long *)
(* as no two managers have been, by one thread in all.                      *)
LockHeld ==
    /\ \A t \in Thread : Inside(t) => lock[ManagerOf[t]] = t
    /\ ~overlap => \A m, n \in Manager : lock[m] # NoThread /\ lock[n] # NoThread => m = n

OpFits ==
    \A t \in Thread :
      /\ th[t].step = "pick" => th[t].op \in {"move", "copy"}
      /\ th[t].step = "copying" => th[t].op = "copy"
      /\ th[t].step \in {"moving", "hard"} => th[t].op = "move"
      /\ th[t].step = "lock" => th[t].op = "move"
      /\ th[t].step \in {"place", "remove"} => th[t].op # "move"

(* What a thread inside is going to save is the index with its change.      *)
SnapIsNext ==
    \A t \in Thread :
      /\ th[t].step = "place" => th[t].snap = index /\ \E e \in index : th[t].entry = {e}
      /\ th[t].step = "remove" \/ Removing(t) =>
            th[t].entry \subseteq index /\ th[t].snap = index \ th[t].entry
      /\ th[t].op = "move" /\ th[t].step \in {"write", "commit"} =>
            th[t].snap = index \cup th[t].entry
      /\ th[t].step = "commit" => tmp = {th[t].snap}

(* Entries of the index, and those still to come, are told apart by ids.    *)
IdsDiffer ==
    /\ \A e, f \in index : e.id = f.id => e = f
    /\ \A t \in Thread : Adding(t) => \A e \in th[t].entry, f \in index : e.id # f.id
    /\ \A t, u \in Thread : Adding(t) /\ Adding(u) =>
          \A e \in th[t].entry, f \in th[u].entry : e.id = f.id => t = u /\ e = f
    /\ \A e \in index : e.id <= ids
    /\ \A t \in Thread : Adding(t) => \A e \in th[t].entry : e.id <= ids

InIndex(i) == \E e \in index : e.id = i /\ \A t \in Thread : Removing(t) => e \notin th[t].entry
ToCome(i) == \E t \in Thread : Adding(t) /\ \E e \in th[t].entry : e.id = i

DataListed == \A i \in Id : data[i] # 0 <=> InIndex(i) \/ ToCome(i)

IndexInv ==
    /\ LockHeld /\ OpFits
    /\ Steady => SnapIsNext /\ IdsDiffer /\ DataListed

(* What a step of t does to the operations: the others' are as they were.   *)
Only(t) == \A u \in Thread : u # t => th'[u] = th[u]

Becomes(t, op, step, entry, snap) ==
    /\ th'[t].op = op /\ th'[t].step = step /\ th'[t].entry = entry /\ th'[t].snap = snap

LEMMA FieldFacts ==
    ASSUME ThreadsType, NEW t \in Thread, NEW s, NEW x
    PROVE  /\ th' = [th EXCEPT ![t] = x] => Only(t) /\ th'[t] = x
           /\ th' = [th EXCEPT ![t].step = s] =>
                 Only(t) /\ Becomes(t, th[t].op, s, th[t].entry, th[t].snap)
           /\ th' = [th EXCEPT ![t].todo = @ \ {x}, ![t].step = s] =>
                 Only(t) /\ Becomes(t, th[t].op, s, th[t].entry, th[t].snap)
           /\ th' = [th EXCEPT ![t].step = s, ![t].snap = x] =>
                 Only(t) /\ Becomes(t, th[t].op, s, th[t].entry, x)
           /\ th' = [th EXCEPT ![t].from = {}, ![t].dest = {}, ![t].step = s] =>
                 Only(t) /\ Becomes(t, th[t].op, s, th[t].entry, th[t].snap)
           /\ th' = [th EXCEPT ![t].from = {}, ![t].step = s] =>
                 Only(t) /\ Becomes(t, th[t].op, s, th[t].entry, th[t].snap)
           /\ th' = [th EXCEPT ![t].todo = @ \ {x}, ![t].step = s, ![t].from = {x}] =>
                 Only(t) /\ Becomes(t, th[t].op, s, th[t].entry, th[t].snap)
<1>0. th[t] \in OpRec /\ th \in [Thread -> OpRec]
  BY DEF ThreadsType
<1>1. th' = [th EXCEPT ![t] = x] => Only(t) /\ th'[t] = x
  BY <1>0 DEF Only
<1>2. th' = [th EXCEPT ![t].step = s] =>
        Only(t) /\ Becomes(t, th[t].op, s, th[t].entry, th[t].snap)
  BY <1>0 DEF Only, Becomes, OpRec
<1>3. th' = [th EXCEPT ![t].todo = @ \ {x}, ![t].step = s] =>
        Only(t) /\ Becomes(t, th[t].op, s, th[t].entry, th[t].snap)
  BY <1>0 DEF Only, Becomes, OpRec
<1>4. th' = [th EXCEPT ![t].step = s, ![t].snap = x] =>
        Only(t) /\ Becomes(t, th[t].op, s, th[t].entry, x)
  BY <1>0 DEF Only, Becomes, OpRec
<1>5. th' = [th EXCEPT ![t].from = {}, ![t].dest = {}, ![t].step = s] =>
        Only(t) /\ Becomes(t, th[t].op, s, th[t].entry, th[t].snap)
  BY <1>0 DEF Only, Becomes, OpRec
<1>6. th' = [th EXCEPT ![t].from = {}, ![t].step = s] =>
        Only(t) /\ Becomes(t, th[t].op, s, th[t].entry, th[t].snap)
  BY <1>0 DEF Only, Becomes, OpRec
<1>7. th' = [th EXCEPT ![t].todo = @ \ {x}, ![t].step = s, ![t].from = {x}] =>
        Only(t) /\ Becomes(t, th[t].op, s, th[t].entry, th[t].snap)
  BY <1>0 DEF Only, Becomes, OpRec
<1> QED BY <1>1, <1>2, <1>3, <1>4, <1>5, <1>6, <1>7

(* The steps, by what they do to the index and the data.                    *)

Outside == {"idle", "pick", "moving", "hard", "done", "copying", "edit"}
IndexSame == UNCHANGED <<data, index, tmp, lock, ids, overlap>>

QuietStep(t) ==
    /\ IndexSame /\ Only(t)
    /\ th[t].step \in Outside /\ th'[t].step \in Outside
    /\ th'[t].step = "pick" => th'[t].op \in {"move", "copy"}
    /\ th'[t].step = "copying" => th'[t].op = "copy"
    /\ th'[t].step \in {"moving", "hard"} => th'[t].op = "move"

LEMMA QuietSteps ==
    ASSUME ThreadsType, OpFits, NEW t \in Thread,
           \/ \E ps \in SUBSET Path : BeginMove(t, ps) \/ BeginCopy(t, ps)
           \/ MoveMissing(t) \/ (CheckExists(t) /\ th[t].op # "copy") \/ MoveFails(t) \/ HardDelete(t)
           \/ CopyCheck(t) \/ CopyData(t) \/ Finish(t) \/ WriteBack(t)
    PROVE  QuietStep(t)
<1> USE DEF QuietStep, IndexSame, Outside, At
<1>1. ASSUME NEW ps \in SUBSET Path, BeginMove(t, ps) PROVE QuietStep(t)
  <2>1. Only(t) /\ th'[t] = [Idle EXCEPT !.op = "move", !.step = "pick", !.todo = ps]
    BY <1>1, FieldFacts DEF BeginMove
  <2>2. th'[t].op = "move" /\ th'[t].step = "pick"
    BY <2>1 DEF Idle
  <2> QED BY <1>1, <2>1, <2>2 DEF BeginMove
<1>2. ASSUME NEW ps \in SUBSET Path, BeginCopy(t, ps) PROVE QuietStep(t)
  <2>1. Only(t) /\ th'[t] = [Idle EXCEPT !.op = "copy", !.step = "pick", !.todo = ps]
    BY <1>2, FieldFacts DEF BeginCopy
  <2>2. th'[t].op = "copy" /\ th'[t].step = "pick"
    BY <2>1 DEF Idle
  <2> QED BY <1>2, <2>1, <2>2 DEF BeginCopy, Writes
<1>3. CASE MoveMissing(t)
  <2>1. PICK p \in th[t].todo :
           th' = [th EXCEPT ![t].todo = @ \ {p},
                            ![t].step = IF th[t].todo = {p} THEN "done" ELSE "pick"]
    BY <1>3 DEF MoveMissing
  <2>2. Only(t) /\ th'[t].op = th[t].op /\ th'[t].step \in {"done", "pick"}
    BY <2>1, FieldFacts DEF Becomes
  <2> QED BY <1>3, <2>2 DEF MoveMissing, OpFits
<1>4. CASE CopyCheck(t)
  <2>1. PICK p \in th[t].todo, q \in Path :
           \/ th' = [th EXCEPT ![t].step = "copying", ![t].from = {p}, ![t].dest = {q},
                               ![t].todo = @ \ {p}]
           \/ th' = [th EXCEPT ![t].todo = @ \ {p}, ![t].step = Next1(t, p)]
    BY <1>4 DEF CopyCheck
  <2>2. th[t] \in OpRec /\ th \in [Thread -> OpRec] /\ th[t].op = "copy"
    BY <1>4 DEF ThreadsType, CopyCheck
  <2>3. Only(t) /\ th'[t].op = "copy" /\ th'[t].step \in {"copying", "done", "pick"}
    BY <2>1, <2>2 DEF Only, OpRec, Next1
  <2> QED BY <1>4, <2>3 DEF CopyCheck
<1>5. CASE CopyData(t)
  <2>1. Only(t) /\ th'[t].op = th[t].op /\ th'[t].step \in {"done", "pick"}
    BY <1>5, FieldFacts DEF CopyData, Becomes
  <2> QED BY <1>5, <2>1 DEF CopyData, OpFits
<1>6. CASE Finish(t)
  <2>1. th' = [th EXCEPT ![t] = Idle] \/ th' = [th EXCEPT ![t].step = "edit"]
    BY <1>6 DEF Finish, Goto
  <2>2. Only(t) /\ th'[t].step \in {"idle", "edit"}
    <3>1. CASE th' = [th EXCEPT ![t] = Idle]
      <4>1. Only(t) /\ th'[t] = Idle
        BY <3>1, FieldFacts
      <4> QED BY <4>1 DEF Idle
    <3>2. CASE th' = [th EXCEPT ![t].step = "edit"]
      BY <3>2, FieldFacts DEF Becomes
    <3> QED BY <2>1, <3>1, <3>2
  <2> QED BY <1>6, <2>2 DEF Finish
<1>7. CASE WriteBack(t)
  <2>1. Only(t) /\ th'[t] = Idle
    BY <1>7, FieldFacts DEF WriteBack
  <2> QED BY <1>7, <2>1 DEF WriteBack, Idle
<1>8. CASE CheckExists(t) /\ th[t].op # "copy"
  <2>1. PICK p \in th[t].todo :
           th' = [th EXCEPT ![t].todo = @ \ {p}, ![t].step = "moving", ![t].from = {p}]
    BY <1>8 DEF CheckExists
  <2>2. Only(t) /\ th'[t].op = th[t].op /\ th'[t].step = "moving"
    BY <2>1, FieldFacts DEF Becomes
  <2> QED BY <1>8, <2>2 DEF CheckExists, OpFits
<1>9. CASE MoveFails(t)
  <2>1. Only(t) /\ th'[t].op = th[t].op /\ th'[t].step = "hard"
    BY <1>9, FieldFacts DEF MoveFails, Goto, Becomes
  <2> QED BY <1>9, <2>1 DEF MoveFails, OpFits
<1>10. CASE HardDelete(t)
  <2>1. Only(t) /\ th'[t].op = th[t].op /\ th'[t].step \in {"done", "pick"}
    BY <1>10, FieldFacts DEF HardDelete, Becomes
  <2> QED BY <1>10, <2>1 DEF HardDelete, OpFits
<1> QED BY <1>1, <1>2, <1>3, <1>4, <1>5, <1>6, <1>7, <1>8, <1>9, <1>10

(* The steps into, inside and out of the index.                             *)

Enters(t) ==
    /\ UNCHANGED <<data, index, tmp, ids, faults>> /\ Only(t)
    /\ Free(t) /\ Acquire(t)
    /\ \/ /\ th[t].step = "lock"
          /\ Becomes(t, th[t].op, "write", th[t].entry, index \cup th[t].entry)
       \/ /\ th[t].step = "idle"
          /\ \E e \in index : Becomes(t, "restore", "place", {e}, index)
       \/ /\ th[t].step = "idle"
          /\ \E op \in {"purge", "empty", "expire", "sweep"}, doomed \in SUBSET index :
                Becomes(t, op, "remove", doomed, index \ doomed)

LEMMA EnterSteps ==
    ASSUME ThreadsType, NEW t \in Thread,
           \/ LockIndex(t)
           \/ \E e \in index, q \in Path : BeginRestore(t, e, q)
           \/ \E op \in {"purge", "empty", "expire", "sweep"} : BeginDrop(t, op)
    PROVE  Enters(t)
<1> USE DEF At
<1>1. CASE LockIndex(t)
  <2>1. Only(t) /\ Becomes(t, th[t].op, "write", th[t].entry, index \cup th[t].entry)
    BY <1>1, FieldFacts DEF LockIndex
  <2> QED BY <1>1, <2>1 DEF LockIndex, Enters
<1>2. ASSUME NEW e \in index, NEW q \in Path, BeginRestore(t, e, q) PROVE Enters(t)
  <2>1. Only(t) /\ th'[t] = [Idle EXCEPT !.op = "restore", !.step = "place",
                                         !.entry = {e}, !.dest = {q}, !.snap = index]
    BY <1>2, FieldFacts DEF BeginRestore
  <2>2. Becomes(t, "restore", "place", {e}, index)
    BY <2>1 DEF Becomes, Idle
  <2> QED BY <1>2, <2>1, <2>2 DEF BeginRestore, Enters
<1>3. ASSUME NEW op \in {"purge", "empty", "expire", "sweep"}, BeginDrop(t, op) PROVE Enters(t)
  <2>1. PICK doomed \in Doomed(op) :
           th' = [th EXCEPT ![t] = [Idle EXCEPT !.op = op, !.step = "remove",
                                                !.entry = doomed, !.snap = index \ doomed]]
    BY <1>3 DEF BeginDrop
  <2>2. doomed \in SUBSET index
    BY DEF Doomed, Expired
  <2>3. Only(t) /\ th'[t] = [Idle EXCEPT !.op = op, !.step = "remove",
                                         !.entry = doomed, !.snap = index \ doomed]
    BY <2>1, FieldFacts
  <2>4. Becomes(t, op, "remove", doomed, index \ doomed)
    BY <2>3 DEF Becomes, Idle
  <2>5. \E o \in {"purge", "empty", "expire", "sweep"}, d \in SUBSET index :
           Becomes(t, o, "remove", d, index \ d)
    BY <2>2, <2>4
  <2> QED BY <1>3, <2>3, <2>5 DEF BeginDrop, Enters
<1> QED BY <1>1, <1>2, <1>3

(* The mutexes.                                                             *)
LEMMA LockStep == TType /\ LockHeld /\ OpFits /\ [Next]_vars => LockHeld' /\ OpFits'
<1> SUFFICES ASSUME TType, LockHeld, OpFits, [Next]_vars PROVE LockHeld' /\ OpFits'
  OBVIOUS
<1>0. /\ ThreadsType /\ lock \in [Manager -> Thread \cup {NoThread}]
      /\ ManagerOf \in [Thread -> Manager] /\ NoThread \notin Thread
      /\ th' \in [Thread -> OpRec]
  BY TrashAssumption, ThreadsStep DEF TType, ThreadsType
<1>1. ASSUME NEW t \in Thread, Only(t), Inside(t)' => Inside(t), UNCHANGED <<lock, overlap>>
      PROVE  LockHeld'
  BY <1>1 DEF LockHeld, Only, Inside
<1>2. ASSUME NEW t \in Thread, Only(t), Free(t), Acquire(t) PROVE LockHeld'
  BY <1>0, <1>2 DEF LockHeld, Only, Inside, Free, Acquire
<1>3. ASSUME NEW t \in Thread, Only(t), Inside(t), ~Inside(t)', Release(t), overlap' = overlap
      PROVE  LockHeld'
  BY <1>0, <1>3 DEF LockHeld, Only, Inside, Release
<1>4. ASSUME NEW t \in Thread, QuietStep(t) PROVE LockHeld' /\ OpFits'
  <2>1. LockHeld'
    BY <1>1, <1>4 DEF QuietStep, IndexSame, Outside, Inside
  <2>2. OpFits'
    BY <1>4 DEF QuietStep, Outside, Only, OpFits
  <2> QED BY <2>1, <2>2
<1>5. ASSUME NEW t \in Thread, Enters(t) PROVE LockHeld' /\ OpFits'
  <2>1. LockHeld'
    BY <1>2, <1>5 DEF Enters
  <2>2. OpFits'
    BY <1>5 DEF Enters, Becomes, Only, OpFits
  <2> QED BY <2>1, <2>2
<1>6. ASSUME NEW t \in Thread, NEW p \in Path, NEW q \in Path,
             Put(t, p) \/ handle_mkdir(t, p) \/ handle_rename(t, p, q)
      PROVE  LockHeld' /\ OpFits'
  <2>1. UNCHANGED <<th, lock, overlap>>
    BY <1>6 DEF Put, handle_mkdir, handle_rename
  <2> QED BY <2>1 DEF LockHeld, OpFits, Inside
<1>7. CASE Crash
  BY <1>0, <1>7 DEF Crash, LockHeld, OpFits, Inside, Idle
<1>8. CASE NextDay \/ UNCHANGED trashVars
  <2>1. UNCHANGED <<th, lock, overlap>>
    BY <1>8 DEF NextDay, trashVars
  <2> QED BY <2>1 DEF LockHeld, OpFits, Inside
<1>9. ASSUME NEW t \in Thread, MoveData(t) PROVE LockHeld' /\ OpFits'
  <2>1. PICK p \in th[t].from :
          th' = [th EXCEPT ![t].step = "lock", ![t].from = {}, ![t].entry = {Entry(p)}]
    BY <1>9 DEF MoveData
  <2>2. Only(t) /\ th'[t].step = "lock" /\ th'[t].op = th[t].op
    BY <1>0, <2>1 DEF Only, OpRec, ThreadsType
  <2>3. th[t].op = "move"
    BY <1>9 DEF MoveData, At, OpFits
  <2>4. LockHeld'
    BY <1>1, <1>9, <2>2 DEF MoveData, Inside
  <2>5. OpFits'
    BY <2>2, <2>3 DEF OpFits, Only
  <2> QED BY <2>4, <2>5
<1>11. ASSUME NEW t \in Thread, Place(t) PROVE LockHeld' /\ OpFits'
  <2>1. Inside(t) /\ overlap' = overlap /\ th[t].op # "move"
    BY <1>11 DEF Place, At, Inside, OpFits
  <2>2. CASE th' = [th EXCEPT ![t] = Idle] /\ Release(t)
    <3>1. Only(t) /\ th'[t] = Idle
      BY <1>0, <2>2, FieldFacts
    <3>2. th'[t].step = "idle"
      BY <3>1 DEF Idle
    <3> QED BY <1>3, <2>1, <2>2, <3>1, <3>2 DEF Inside, OpFits, Only
  <2>3. ASSUME NEW e, th' = [th EXCEPT ![t].step = "write", ![t].snap = @ \ {e}], lock' = lock
        PROVE  LockHeld' /\ OpFits'
    <3>1. Only(t) /\ th'[t].step = "write"
      BY <1>0, <2>3, FieldFacts DEF Becomes
    <3> QED BY <1>1, <2>1, <2>3, <3>1 DEF OpFits, Only
  <2> QED BY <1>11, <2>2, <2>3 DEF Place
<1>12. ASSUME NEW t \in Thread, RestoreFails(t) PROVE LockHeld' /\ OpFits'
  <2>1. Only(t) /\ th'[t] = Idle
    BY <1>0, <1>12, FieldFacts DEF RestoreFails
  <2>2. th'[t].step = "idle"
    BY <2>1 DEF Idle
  <2> QED BY <1>3, <1>12, <2>1, <2>2 DEF RestoreFails, At, Inside, OpFits, Only
<1>13. ASSUME NEW t \in Thread, RemoveData(t) \/ WriteIndex(t) PROVE LockHeld' /\ OpFits'
  <2>1. PICK s \in {"write", "commit"} : th' = [th EXCEPT ![t].step = s]
    BY <1>13 DEF RemoveData, WriteIndex, Goto
  <2>2. Only(t) /\ th'[t].step \in {"write", "commit"}
    BY <1>0, <2>1, FieldFacts DEF Becomes
  <2>3. Inside(t) /\ UNCHANGED <<lock, overlap>>
    BY <1>13 DEF RemoveData, WriteIndex, At, Inside
  <2> QED BY <1>1, <2>2, <2>3 DEF OpFits, Only
<1>14. ASSUME NEW t \in Thread, RemoveFails(t) PROVE LockHeld' /\ OpFits'
  <2>1. Inside(t) /\ overlap' = overlap
    BY <1>14 DEF RemoveFails, At, Inside
  <2>2. CASE th' = [th EXCEPT ![t] = Idle] /\ Release(t)
    <3>1. Only(t) /\ th'[t] = Idle
      BY <1>0, <2>2, FieldFacts
    <3>2. th'[t].step = "idle"
      BY <3>1 DEF Idle
    <3> QED BY <1>3, <2>1, <2>2, <3>1, <3>2 DEF Inside, OpFits, Only
  <2>3. CASE th' = [th EXCEPT ![t].step = "write"] /\ lock' = lock
    <3>1. Only(t) /\ th'[t].step = "write"
      BY <1>0, <2>3, FieldFacts DEF Becomes
    <3> QED BY <1>1, <2>1, <2>3, <3>1 DEF OpFits, Only
  <2> QED BY <1>14, <2>2, <2>3 DEF RemoveFails, Goto
<1>15. ASSUME NEW t \in Thread, WriteIndexFails(t) \/ CommitIndex(t) PROVE LockHeld' /\ OpFits'
  <2>1. th' = [th EXCEPT ![t].step = AfterSave(t)] /\ Release(t) /\ overlap' = overlap
    BY <1>15 DEF WriteIndexFails, CommitIndex, Goto
  <2>2. Only(t) /\ th'[t].step = AfterSave(t) /\ th'[t].op = th[t].op
    BY <1>0, <2>1, FieldFacts DEF Becomes
  <2>3. AfterSave(t) = "done" \/ (AfterSave(t) = "pick" /\ th[t].op = "move")
    BY DEF AfterSave
  <2>4. Inside(t) /\ ~Inside(t)'
    BY <1>15, <2>2, <2>3 DEF WriteIndexFails, CommitIndex, At, Inside
  <2>5. OpFits'
    BY <2>2, <2>3 DEF OpFits, Only
  <2> QED BY <1>3, <2>1, <2>2, <2>4, <2>5
<1> QED
  <2>1. ASSUME NEW t \in Thread, TrashAct(t) PROVE LockHeld' /\ OpFits'
    <3>1. CASE \/ \E p \in Path : Put(t, p) \/ handle_mkdir(t, p)
               \/ \E p, q \in Path : handle_rename(t, p, q)
      BY <1>6, <3>1
    <3>2. CASE \/ \E ps \in SUBSET Path : BeginMove(t, ps) \/ BeginCopy(t, ps)
               \/ MoveMissing(t) \/ (CheckExists(t) /\ th[t].op # "copy")
               \/ MoveFails(t) \/ HardDelete(t)
               \/ CopyCheck(t) \/ CopyData(t) \/ Finish(t) \/ WriteBack(t)
      BY <1>0, <1>4, <3>2, QuietSteps
    <3>3. CASE \/ LockIndex(t)
               \/ \E e \in index, q \in Path : BeginRestore(t, e, q)
               \/ \E op \in {"purge", "empty", "expire", "sweep"} : BeginDrop(t, op)
      BY <1>0, <1>5, <3>3, EnterSteps
    <3> QED BY <1>9, <1>11, <1>12, <1>13, <1>14, <1>15, <2>1, <3>1, <3>2, <3>3
            DEF TrashAct, TrashStep
  <2> QED BY <1>7, <1>8, <2>1, NextSplit

(* As long as no two managers have been inside at once, one thread is.      *)
LEMMA OneInside ==
    ASSUME LockHeld, ~overlap, NEW t \in Thread, NEW u \in Thread, Inside(t), Inside(u)
    PROVE  t = u
<1>1. lock[ManagerOf[t]] = t /\ lock[ManagerOf[u]] = u
  BY DEF LockHeld
<1>2. t # NoThread /\ u # NoThread /\ ManagerOf[t] \in Manager /\ ManagerOf[u] \in Manager
  BY TrashAssumption
<1> QED BY <1>1, <1>2 DEF LockHeld

LEMMA IdsNat == TType => ids \in Nat /\ \A e \in TrashEntry : e.id \in Id /\ e.id \in Nat
BY Bounds DEF TType, ThreadsType, TrashEntry, Id

IndexParts == SnapIsNext /\ IdsDiffer /\ DataListed

LEMMA QuietKeeps ==
    ASSUME IndexParts, NEW t \in Thread, QuietStep(t)
    PROVE  IndexParts'
<1>1. \A u \in Thread : Adding(u)' <=> Adding(u)
  BY DEF QuietStep, Only, Outside, Adding
<1>2. \A u \in Thread : Removing(u)' <=> Removing(u)
  BY DEF QuietStep, Only, Outside, Removing
<1>3. \A u \in Thread : Adding(u) \/ Removing(u) => th'[u] = th[u]
  BY DEF QuietStep, Only, Outside, Adding, Removing
<1>4. SnapIsNext'
  <2>1. UNCHANGED <<index, tmp>> /\ \A u \in Thread : u # t => th'[u] = th[u]
    BY DEF QuietStep, IndexSame, Only
  <2>2. th'[t].step \in Outside /\ ~Removing(t)'
    BY DEF QuietStep, Removing, Outside
  <2> QED BY <1>2, <2>1, <2>2 DEF Outside, IndexParts, SnapIsNext
<1>5. IdsDiffer'
  BY <1>1, <1>3 DEF QuietStep, IndexSame, IndexParts, IdsDiffer
<1>6. DataListed'
  BY <1>1, <1>2, <1>3 DEF QuietStep, IndexSame, IndexParts, DataListed, InIndex, ToCome
<1> QED BY <1>4, <1>5, <1>6 DEF IndexParts

LEMMA EnterKeeps ==
    ASSUME TType, LockHeld, OpFits, IndexParts, NEW t \in Thread, Enters(t), ~overlap'
    PROVE  IndexParts'
<1>1. \A u \in Thread : ~Inside(u)
  BY TrashAssumption DEF Enters, Acquire, LockHeld
<1>2. \A u \in Thread : Adding(u)' <=> Adding(u)
  BY DEF Enters, Only, Becomes, Adding, OpFits
<1>3. \A u \in Thread : ~Removing(u) /\ ~Removing(u)'
  BY <1>1 DEF Enters, Only, Becomes, Removing, Inside, OpFits
<1>4. \A u \in Thread : Adding(u) => th'[u].entry = th[u].entry
  BY DEF Enters, Only, Becomes, Adding
<1>5. index' = index /\ data' = data /\ ids' = ids
  BY DEF Enters
<1>6. SnapIsNext'
  <2>1. ASSUME NEW u \in Thread, u # t PROVE th'[u] = th[u] /\ ~Inside(u)
    BY <1>1, <2>1 DEF Enters, Only
  <2>2. CASE th[t].step = "lock" /\ Becomes(t, th[t].op, "write", th[t].entry, index \cup th[t].entry)
    BY <1>3, <1>5, <2>1, <2>2 DEF SnapIsNext, Inside, Becomes, OpFits
  <2>3. CASE \E e \in index : Becomes(t, "restore", "place", {e}, index)
    BY <1>3, <1>5, <2>1, <2>3 DEF SnapIsNext, Inside, Becomes
  <2>4. CASE \E op \in {"purge", "empty", "expire", "sweep"}, doomed \in SUBSET index :
                Becomes(t, op, "remove", doomed, index \ doomed)
    BY <1>3, <1>5, <2>1, <2>4 DEF SnapIsNext, Inside, Becomes
  <2> QED BY <2>2, <2>3, <2>4 DEF Enters
<1>7. IdsDiffer'
  BY <1>2, <1>4, <1>5 DEF IndexParts, IdsDiffer
<1>8. DataListed'
  BY <1>2, <1>3, <1>4, <1>5 DEF IndexParts, DataListed, InIndex, ToCome
<1> QED BY <1>6, <1>7, <1>8 DEF IndexParts

LEMMA MoveKeeps ==
    ASSUME TType, OpFits, IndexParts, NEW t \in Thread, MoveData(t)
    PROVE  IndexParts'
<1>0. ids \in Nat /\ \A e \in TrashEntry : e.id \in Id /\ e.id \in Nat
  BY IdsNat
<1>1. PICK p \in th[t].from :
        /\ tree[p] # 0
        /\ data' = [data EXCEPT ![ids + 1] = tree[p]]
        /\ th' = [th EXCEPT ![t].step = "lock", ![t].from = {}, ![t].entry = {Entry(p)}]
  BY DEF MoveData, trash_id
<1>2. th \in [Thread -> OpRec] /\ th[t] \in OpRec /\ index \subseteq TrashEntry
  BY DEF TType, ThreadsType
<1>3. Only(t) /\ th'[t].step = "lock" /\ th'[t].entry = {Entry(p)} /\ Entry(p).id = ids + 1
  BY <1>1, <1>2 DEF Only, OpRec, Entry, trash_id
<1>4. UNCHANGED <<index, tmp>> /\ ids' = ids + 1 /\ ids + 1 \in Id /\ th[t].step = "moving"
  BY <1>0, Bounds DEF MoveData, At, Id
<1>5. \A u \in Thread : Adding(u)' <=> Adding(u) \/ u = t
  BY <1>3, <1>4 DEF Only, Adding
<1>6. \A u \in Thread : (Removing(u)' <=> Removing(u)) /\ ~Removing(t) /\ ~Adding(t)
  BY <1>3, <1>4 DEF Only, Removing, Adding
<1>7. SnapIsNext'
  BY <1>3, <1>4, <1>6 DEF Only, IndexParts, SnapIsNext
<1>8. IdsDiffer'
  <2>1. \A u \in Thread : Adding(u) => \A e \in th[u].entry : e.id \in Nat /\ e.id <= ids
    BY <1>0, <1>2 DEF IndexParts, IdsDiffer, OpRec
  <2>2. \A e \in index : e.id \in Nat /\ e.id <= ids
    BY <1>0, <1>2 DEF IndexParts, IdsDiffer
  <2>3. \A u \in Thread : u # t /\ Adding(u)' => Adding(u) /\ th'[u].entry = th[u].entry
    BY <1>3, <1>5 DEF Only
  <2>4. \A u \in Thread : Adding(u)' => \A e \in th'[u].entry, f \in index' : e.id # f.id
    BY <1>0, <1>3, <1>4, <2>2, <2>3 DEF IndexParts, IdsDiffer
  <2>5. \A u, v \in Thread : Adding(u)' /\ Adding(v)' =>
          \A e \in th'[u].entry, f \in th'[v].entry : e.id = f.id => u = v /\ e = f
    <3>1. ASSUME NEW u \in Thread, NEW v \in Thread, Adding(u)', Adding(v)',
                 NEW e \in th'[u].entry, NEW f \in th'[v].entry, e.id = f.id
          PROVE  u = v /\ e = f
      <4>1. CASE u = t /\ v = t
        BY <1>3, <3>1, <4>1
      <4>2. CASE u # t /\ v # t
        BY <2>3, <3>1, <4>2 DEF IndexParts, IdsDiffer
      <4>3. CASE u = t /\ v # t
        BY <1>0, <1>3, <2>1, <2>3, <3>1, <4>3
      <4>4. CASE u # t /\ v = t
        BY <1>0, <1>3, <2>1, <2>3, <3>1, <4>4
      <4> QED BY <4>1, <4>2, <4>3, <4>4
    <3> QED BY <3>1
  <2>6. \A e \in index' : e.id <= ids'
    BY <1>0, <1>4, <2>2
  <2>7. \A u \in Thread : Adding(u)' => \A e \in th'[u].entry : e.id <= ids'
    BY <1>0, <1>3, <1>4, <2>1, <2>3
  <2> QED BY <1>4, <2>4, <2>5, <2>6, <2>7 DEF IndexParts, IdsDiffer
<1>9. DataListed'
  <2>1. \A i \in Id : InIndex(i)' <=> InIndex(i)
    BY <1>3, <1>4, <1>6 DEF InIndex, Only
  <2>2. \A i \in Id : ToCome(i)' <=> ToCome(i) \/ i = ids + 1
    <3>1. \A u \in Thread : u # t => th'[u] = th[u]
      BY <1>3 DEF Only
    <3> QED BY <1>3, <1>5, <1>6, <3>1 DEF ToCome
  <2>3. tree[p] # 0 /\ data' = [data EXCEPT ![ids + 1] = tree[p]] /\ data \in [Id -> Item \cup {0}]
    BY <1>1 DEF TType, FilesType
  <2> QED BY <1>4, <2>1, <2>2, <2>3 DEF IndexParts, DataListed
<1> QED BY <1>7, <1>8, <1>9 DEF IndexParts

(* The data of the entries of t is taken out of the trash.                  *)
LEMMA TakeKeeps ==
    ASSUME TType, LockHeld, OpFits, ~overlap, IndexParts, NEW t \in Thread,
           th[t].step \in {"place", "remove"}, th[t].entry \subseteq index,
           Only(t), Becomes(t, th[t].op, "write", th[t].entry, index \ th[t].entry),
           UNCHANGED <<index, tmp, ids>>,
           \A i \in Id : data'[i] = IF i \in DroppedIds(t) THEN 0 ELSE data[i]
    PROVE  IndexParts'
<1>1. ASSUME NEW u \in Thread, u # t PROVE ~Inside(u) /\ th'[u] = th[u]
  BY <1>1, OneInside DEF Inside, Only
<1>2. Removing(t)' /\ ~Removing(t) /\ ~Adding(t)' /\ ~Adding(t)
  BY DEF Removing, Adding, Becomes, OpFits
<1>3. \A u \in Thread : ~Removing(u) /\ (Removing(u)' <=> u = t) /\ (Adding(u)' <=> Adding(u))
  BY <1>1, <1>2 DEF Removing, Adding, Inside
<1>4. th'[t].entry = th[t].entry /\ th'[t].snap = index \ th[t].entry /\ th'[t].step = "write"
  BY DEF Becomes
<1>5. SnapIsNext'
  <2>1. ASSUME NEW u \in Thread, u # t
        PROVE  th'[u].step \notin {"place", "remove", "write", "commit"}
    BY <1>1, <2>1 DEF Inside
  <2> QED BY <1>2, <1>3, <1>4, <2>1 DEF SnapIsNext, Removing
<1>6. IdsDiffer'
  BY <1>1, <1>2, <1>3 DEF IndexParts, IdsDiffer
<1>7. DataListed'
  <2>1. \A i \in Id : ToCome(i)' <=> ToCome(i)
    BY <1>1, <1>2, <1>3 DEF ToCome
  <2>2. \A i \in Id : i \in DroppedIds(t) => ~ToCome(i)
    BY DEF DroppedIds, ToCome, IndexParts, IdsDiffer
  <2>3. \A i \in Id : InIndex(i) <=> \E e \in index : e.id = i
    BY <1>3 DEF InIndex
  <2>4. \A i \in Id : InIndex(i)' <=> \E e \in index : e.id = i /\ e \notin th[t].entry
    BY <1>3, <1>4 DEF InIndex
  <2>5. \A i \in Id : (\E e \in index : e.id = i /\ e \notin th[t].entry) <=>
                        (\E e \in index : e.id = i) /\ i \notin DroppedIds(t)
    BY DEF DroppedIds, IndexParts, IdsDiffer
  <2> QED BY <2>1, <2>2, <2>3, <2>4, <2>5 DEF IndexParts, DataListed
<1> QED BY <1>5, <1>6, <1>7 DEF IndexParts

LEMMA WriteKeeps ==
    ASSUME TType, LockHeld, ~overlap, IndexParts, NEW t \in Thread, WriteIndex(t)
    PROVE  IndexParts'
<1>0. Inside(t) /\ th[t].step = "write" /\ UNCHANGED <<data, index, ids>> /\ tmp' = {th[t].snap}
  BY DEF WriteIndex, At, Inside
<1>1. Only(t) /\ Becomes(t, th[t].op, "commit", th[t].entry, th[t].snap)
  BY FieldFacts DEF WriteIndex, Goto, TType
<1>2. ASSUME NEW u \in Thread, u # t PROVE ~Inside(u) /\ th'[u] = th[u]
  BY <1>0, <1>1, <1>2, OneInside DEF Only
<1>a. \A u \in Thread : Removing(u)' <=> Removing(u)
  BY <1>0, <1>1, <1>2 DEF Removing, Becomes
<1>b. \A u \in Thread : Adding(u)' <=> Adding(u)
  BY <1>0, <1>1, <1>2 DEF Adding, Becomes
<1>c. \A u \in Thread : th'[u].entry = th[u].entry
  BY <1>1, <1>2 DEF Becomes
<1>4. SnapIsNext'
  <2>1. ASSUME NEW u \in Thread, u # t
        PROVE  th'[u].step \notin {"place", "remove", "write", "commit"} /\ ~Removing(u)
    BY <1>2, <2>1 DEF Inside, Removing
  <2>2. /\ Removing(t) => th[t].entry \subseteq index /\ th[t].snap = index \ th[t].entry
        /\ th[t].op = "move" => th[t].snap = index \cup th[t].entry
    BY <1>0 DEF IndexParts, SnapIsNext
  <2> QED BY <1>0, <1>1, <1>a, <2>1, <2>2 DEF SnapIsNext, Becomes
<1>5. IdsDiffer'
  BY <1>0, <1>b, <1>c DEF IndexParts, IdsDiffer
<1>6. DataListed'
  BY <1>0, <1>a, <1>b, <1>c DEF IndexParts, DataListed, InIndex, ToCome
<1> QED BY <1>4, <1>5, <1>6 DEF IndexParts

LEMMA CommitKeeps ==
    ASSUME TType, LockHeld, ~overlap, IndexParts, NEW t \in Thread, CommitIndex(t)
    PROVE  IndexParts'
<1>0. /\ Inside(t) /\ th[t].step = "commit" /\ UNCHANGED <<data, ids>>
      /\ index' = IF tmp = NoFile THEN index ELSE UNION tmp
  BY DEF CommitIndex, At, Inside
<1>1. Only(t) /\ Becomes(t, th[t].op, AfterSave(t), th[t].entry, th[t].snap)
  BY FieldFacts DEF CommitIndex, Goto, TType
<1>2. ASSUME NEW u \in Thread, u # t PROVE ~Inside(u) /\ th'[u] = th[u]
  BY <1>0, <1>1, <1>2, OneInside DEF Only
<1>3. index' = th[t].snap
  <2>1. tmp = {th[t].snap}
    BY <1>0 DEF IndexParts, SnapIsNext
  <2>2. UNION {th[t].snap} = th[t].snap
    OBVIOUS
  <2> QED BY <1>0, <2>1, <2>2 DEF NoFile
<1>4. th'[t].step \in {"pick", "done"}
  BY <1>1 DEF Becomes, AfterSave
<1>5. \A u \in Thread : ~Removing(u)' /\ (Adding(u)' <=> Adding(u) /\ u # t)
  BY <1>2, <1>4 DEF Removing, Adding, Inside
<1>6. SnapIsNext'
  BY <1>2, <1>4, <1>5 DEF SnapIsNext, Inside
<1>7. CASE th[t].op = "move"
  <2>1. Adding(t) /\ \A u \in Thread : ~Removing(u)
    BY <1>0, <1>2, <1>7 DEF Adding, Removing, Inside
  <2>2. index' = index \cup th[t].entry
    BY <1>0, <1>3, <1>7 DEF IndexParts, SnapIsNext
  <2>3. IdsDiffer'
    BY <1>0, <1>2, <1>5, <2>1, <2>2 DEF IndexParts, IdsDiffer
  <2>4. \A i \in Id : InIndex(i)' \/ ToCome(i)' <=> InIndex(i) \/ ToCome(i)
    BY <1>2, <1>5, <2>1, <2>2 DEF InIndex, ToCome
  <2> QED BY <1>0, <1>6, <2>3, <2>4 DEF IndexParts, DataListed
<1>8. CASE th[t].op # "move"
  <2>1. Removing(t) /\ ~Adding(t) /\ \A u \in Thread : u # t => ~Removing(u)
    BY <1>0, <1>2, <1>8 DEF Adding, Removing, Inside
  <2>2. index' = index \ th[t].entry
    BY <1>0, <1>3, <2>1 DEF IndexParts, SnapIsNext
  <2>3. IdsDiffer'
    BY <1>0, <1>2, <1>5, <2>1, <2>2 DEF IndexParts, IdsDiffer
  <2>4. \A i \in Id : (InIndex(i)' <=> InIndex(i)) /\ (ToCome(i)' <=> ToCome(i))
    BY <1>2, <1>5, <2>1, <2>2 DEF InIndex, ToCome
  <2> QED BY <1>0, <1>6, <2>3, <2>4 DEF IndexParts, DataListed
<1> QED BY <1>7, <1>8

LEMMA IndexStep ==
    TType /\ IndexInv /\ [Next]_vars => IndexInv'
<1> SUFFICES ASSUME TType, IndexInv, [Next]_vars PROVE IndexInv'
  OBVIOUS
<1>0. LockHeld /\ OpFits /\ LockHeld' /\ OpFits' /\ ThreadsType /\ faults \in Nat
  BY LockStep, Bounds DEF IndexInv, TType, ThreadsType
<1> SUFFICES ASSUME Steady' PROVE IndexParts'
  BY <1>0 DEF IndexInv, IndexParts
<1>1. ASSUME Steady PROVE IndexParts /\ ~overlap
  BY <1>1 DEF IndexInv, IndexParts, Steady
<1>2. CASE UNCHANGED <<th, data, index, tmp, ids, faults, overlap>>
  BY <1>1, <1>2 DEF Steady, IndexParts, SnapIsNext, IdsDiffer, DataListed, InIndex, ToCome,
                    Adding, Removing
<1>3. ASSUME Fault PROVE FALSE
  BY <1>0, <1>3 DEF Fault, Steady
<1>4. ASSUME NEW t \in Thread, QuietStep(t), faults' = 0 => faults = 0 PROVE IndexParts'
  <2>1. Steady
    BY <1>0, <1>4 DEF QuietStep, IndexSame, Steady
  <2> QED BY <1>1, <1>4, <2>1, QuietKeeps
<1>5. ASSUME NEW t \in Thread, Enters(t) PROVE IndexParts'
  BY <1>0, <1>1, <1>5, EnterKeeps DEF Enters, Acquire, Steady
<1>6. ASSUME NEW t \in Thread, MoveData(t) PROVE IndexParts'
  <2>1. Steady
    BY <1>3, <1>6 DEF MoveData, Steady
  <2> QED BY <1>0, <1>1, <1>6, <2>1, MoveKeeps
<1>7. ASSUME NEW t \in Thread, Place(t) PROVE IndexParts'
  <2>1. Steady /\ th[t].step = "place" /\ UNCHANGED <<index, tmp, ids, faults, overlap>>
    BY <1>7 DEF Place, At, Steady
  <2>2. PICK e \in index : th[t].entry = {e} /\ th[t].snap = index
    BY <1>1, <2>1 DEF IndexParts, SnapIsNext
  <2>3. CASE th' = [th EXCEPT ![t] = Idle] /\ data' = data
    <3>1. Only(t) /\ th'[t] = Idle
      BY <1>0, <2>3, FieldFacts
    <3>2. th'[t].step = "idle"
      BY <3>1 DEF Idle
    <3>a. \A u \in Thread : Adding(u)' <=> Adding(u)
      BY <1>0, <2>1, <3>1, <3>2 DEF Adding, Only, OpFits
    <3>b. \A u \in Thread : Removing(u)' <=> Removing(u)
      BY <2>1, <3>1, <3>2 DEF Removing, Only
    <3>c. \A u \in Thread : Adding(u) \/ Removing(u) => th'[u] = th[u]
      BY <2>1, <3>1 DEF Adding, Removing, Only
    <3>4. SnapIsNext'
      <4>1. \A u \in Thread : u # t => th'[u] = th[u]
        BY <3>1 DEF Only
      <4>2. ~Removing(t)'
        BY <3>2 DEF Removing
      <4> QED BY <1>1, <2>1, <3>2, <3>b, <4>1, <4>2 DEF IndexParts, SnapIsNext
    <3>5. IdsDiffer'
      BY <1>1, <2>1, <3>a, <3>c DEF IndexParts, IdsDiffer
    <3>6. DataListed'
      BY <1>1, <2>1, <2>3, <3>a, <3>b, <3>c DEF IndexParts, DataListed, InIndex, ToCome
    <3> QED BY <3>4, <3>5, <3>6 DEF IndexParts
  <2>4. CASE /\ th' = [th EXCEPT ![t].step = "write", ![t].snap = @ \ {e}]
             /\ data' = [data EXCEPT ![e.id] = 0]
    <3>1. Only(t) /\ Becomes(t, th[t].op, "write", th[t].entry, index \ th[t].entry)
      BY <1>0, <2>2, <2>4, FieldFacts
    <3>2. \A i \in Id : data'[i] = IF i \in DroppedIds(t) THEN 0 ELSE data[i]
      BY <2>2, <2>4 DEF DroppedIds, TType, FilesType
    <3> QED BY <1>0, <1>1, <2>1, <2>2, <3>1, <3>2, TakeKeeps
  <2> QED BY <1>7, <2>2, <2>3, <2>4 DEF Place
<1>8. ASSUME NEW t \in Thread, RemoveData(t) PROVE IndexParts'
  <2>1. Steady /\ th[t].step = "remove" /\ UNCHANGED <<index, tmp, ids, faults, overlap>>
    BY <1>8 DEF RemoveData, At, Steady
  <2>2. th[t].entry \subseteq index /\ th[t].snap = index \ th[t].entry
    BY <1>1, <2>1 DEF IndexParts, SnapIsNext
  <2>3. Only(t) /\ Becomes(t, th[t].op, "write", th[t].entry, index \ th[t].entry)
    <3>1. Only(t) /\ Becomes(t, th[t].op, "write", th[t].entry, th[t].snap)
      BY <1>0, <1>8, FieldFacts DEF RemoveData, Goto
    <3> QED BY <2>2, <3>1
  <2>4. \A i \in Id : data'[i] = IF i \in DroppedIds(t) THEN 0 ELSE data[i]
    BY <1>8 DEF RemoveData
  <2> QED BY <1>0, <1>1, <2>1, <2>2, <2>3, <2>4, TakeKeeps
<1>9. ASSUME NEW t \in Thread, WriteIndex(t) PROVE IndexParts'
  BY <1>0, <1>1, <1>9, WriteKeeps DEF WriteIndex, Steady
<1>10. ASSUME NEW t \in Thread, CommitIndex(t) PROVE IndexParts'
  BY <1>0, <1>1, <1>10, CommitKeeps DEF CommitIndex, Steady
<1>11. ASSUME NEW t \in Thread,
              RestoreFails(t) \/ RemoveFails(t) \/ WriteIndexFails(t)
       PROVE  FALSE
  BY <1>3, <1>11 DEF RestoreFails, RemoveFails, WriteIndexFails
<1>12. CASE Crash
  BY <1>3, <1>12 DEF Crash
<1>13. CASE NextDay \/ UNCHANGED trashVars
  BY <1>2, <1>13 DEF NextDay, trashVars
<1> QED
  <2>1. ASSUME NEW t \in Thread, TrashAct(t) PROVE IndexParts'
    <3>1. CASE \/ \E p \in Path : Put(t, p) \/ handle_mkdir(t, p)
               \/ \E p, q \in Path : handle_rename(t, p, q)
      BY <1>2, <3>1 DEF Put, handle_mkdir, handle_rename
    <3>2. CASE \/ \E ps \in SUBSET Path : BeginMove(t, ps) \/ BeginCopy(t, ps)
               \/ MoveMissing(t) \/ (CheckExists(t) /\ th[t].op # "copy")
               \/ MoveFails(t) \/ HardDelete(t)
               \/ CopyCheck(t) \/ CopyData(t) \/ Finish(t) \/ WriteBack(t)
      <4>1. faults' = 0 => faults = 0
        <5>1. faults' = faults \/ faults' = faults + 1
          BY <3>2 DEF BeginMove, BeginCopy, MoveMissing, CheckExists, MoveFails, HardDelete,
               CopyCheck, CopyData, Finish, WriteBack, Fault
        <5> QED BY <1>0, <5>1
      <4> QED BY <1>0, <1>4, <3>2, <4>1, QuietSteps
    <3>3. CASE \/ LockIndex(t)
               \/ \E e \in index, q \in Path : BeginRestore(t, e, q)
               \/ \E op \in {"purge", "empty", "expire", "sweep"} : BeginDrop(t, op)
      BY <1>0, <1>5, <3>3, EnterSteps
    <3> QED BY <1>6, <1>7, <1>8, <1>9, <1>10, <1>11, <2>1, <3>1, <3>2, <3>3
            DEF TrashAct, TrashStep
  <2> QED BY <1>12, <1>13, <2>1, NextSplit

LEMMA IndexInvariance == Spec => []IndexInv
<1>1. Init => IndexInv
  <2> SUFFICES ASSUME Init PROVE IndexInv
    OBVIOUS
  <2>1. /\ index = {} /\ data = [i \in Id |-> 0] /\ lock = [m \in Manager |-> NoThread]
        /\ \A t \in Thread : th[t].step = "idle"
    BY DEF Init, TrashInit, Idle
  <2>2. LockHeld /\ OpFits
    BY <2>1 DEF LockHeld, OpFits, Inside
  <2>3. SnapIsNext /\ IdsDiffer /\ DataListed
    BY <2>1 DEF SnapIsNext, IdsDiffer, DataListed, InIndex, ToCome, Adding, Removing
  <2> QED BY <2>2, <2>3 DEF IndexInv
<1> QED BY <1>1, IndexStep, KeptInvariance, PTL DEF Spec

-----------------------------------------------------------------------------
(* The shares and the two ledgers.                                          *)

ShareStep ==
    \/ \E t \in Thread, k \in Token :
         \/ \E p \in Path, u \in User, d \in {Never, 1} : NewShare(t, k, p, u, d)
         \/ \E u \in User : handle_delete_share(t, k, u)
         \/ OpenShare(t, k)
    \/ \E t \in Thread : CountAccess(t)
    \/ CollectShares

LEMMA BrowserSplit ==
    ASSUME [Next]_vars
    PROVE  \/ UNCHANGED browserVars \/ ShareStep
           \/ \E t \in Thread : Finish(t) \/ WriteBack(t)
           \/ \E p \in LedgerPath : RecordDelete(p)
           \/ Stop \/ Start \/ Restart
<1>1. ASSUME NEW t \in Thread, Requests(t) PROVE UNCHANGED browserVars
  BY <1>1 DEF Requests, handle_upload, handle_write, Put, handle_mkdir, handle_rename,
       handle_delete, handle_copy, EngineDelete, handle_batch_delete, handle_batch_copy,
       BeginCopy, handle_trash_restore, restore_trash_entry_with_dest, handle_trash_purge_entry,
       handle_trash_empty, handle_trash_purge_expired, purge_trash_entry, empty_trash,
       purge_expired_trash, Sweep
<1>2. ASSUME NEW t \in Thread, Sharing(t) PROVE ShareStep
  BY <1>2 DEF Sharing, ShareStep, handle_create_share, handle_batch_share
<1>3. ASSUME NEW t \in Thread, Steps(t) PROVE UNCHANGED browserVars \/ Finish(t) \/ WriteBack(t)
  BY <1>3 DEF Steps, CopyCheck, CopyData
<1>4. ASSUME NEW t \in Thread, CountAccess(t) PROVE ShareStep
  BY <1>4 DEF ShareStep
<1>5. CASE UNCHANGED vars
  BY <1>5 DEF vars
<1> QED BY <1>1, <1>2, <1>3, <1>4, <1>5 DEF Next, Call, Going, ShareStep

Access == [token : Token, share : Share]

SharesType ==
    /\ shares \in [Token -> Share \cup {NoShare}]
    /\ opened \in [Thread -> SUBSET Access]
    /\ ended \subseteq Token /\ running \in BOOLEAN

LEMMA SharesStep ==
    SharesType /\ RevokedStaysRevoked /\ [Next]_vars => SharesType' /\ RevokedStaysRevoked'
<1> SUFFICES ASSUME SharesType, RevokedStaysRevoked, [Next]_vars
             PROVE  SharesType' /\ RevokedStaysRevoked'
  OBVIOUS
<1> USE DEF SharesType, RevokedStaysRevoked
<1>1. ASSUME UNCHANGED <<shares, opened, ended>>, running' \in BOOLEAN
      PROVE  SharesType' /\ RevokedStaysRevoked'
  BY <1>1
<1>2. ASSUME NEW t \in Thread, NEW k \in Token, NEW p \in Path, NEW u \in User,
             NEW d \in {Never, 1}, NewShare(t, k, p, u, d)
      PROVE  SharesType' /\ RevokedStaysRevoked'
  <2>1. d \in 0..(MaxDay + 1) /\ 0 \in 0..MaxCount
    BY Bounds, BrowserAssumption DEF Never
  <2>2. [path |-> p, created_by |-> u, expires |-> d, count |-> 0] \in Share
    BY <2>1 DEF Share
  <2> QED BY <1>2, <2>2 DEF NewShare
<1>3. ASSUME NEW t \in Thread, NEW k \in Token, NEW u \in User, handle_delete_share(t, k, u)
      PROVE  SharesType' /\ RevokedStaysRevoked'
  BY <1>3 DEF handle_delete_share
<1>4. ASSUME NEW t \in Thread, NEW k \in Token, OpenShare(t, k)
      PROVE  SharesType' /\ RevokedStaysRevoked'
  <2>1. shares[k] \in Share
    BY <1>4 DEF OpenShare
  <2>2. [token |-> k, share |-> shares[k]] \in Access
    BY <2>1 DEF Access
  <2> QED BY <1>4, <2>2 DEF OpenShare
<1>5. ASSUME NEW t \in Thread, CountAccess(t) PROVE SharesType' /\ RevokedStaysRevoked'
  <2>1. PICK o \in opened[t] :
           shares' = IF /\ tree[o.share.path] # 0
                        /\ shares[o.token] # NoShare
                        /\ shares[o.token].count < MaxCount
                     THEN [shares EXCEPT ![o.token].count = @ + 1]
                     ELSE shares
    BY <1>5 DEF CountAccess
  <2>2. o.token \in Token
    BY DEF Access
  <2>3. opened' \in [Thread -> SUBSET Access] /\ UNCHANGED <<ended, running>>
    BY <1>5 DEF CountAccess, NotOpen
  <2>4. CASE shares' = shares
    BY <2>3, <2>4
  <2>5. CASE /\ shares[o.token] # NoShare /\ shares[o.token].count < MaxCount
             /\ shares' = [shares EXCEPT ![o.token].count = @ + 1]
    <3>1. shares[o.token] \in Share
      BY <2>2, <2>5
    <3>2. [shares[o.token] EXCEPT !.count = @ + 1] \in Share
      BY <2>5, <3>1, BrowserAssumption DEF Share
    <3>3. shares' = [shares EXCEPT ![o.token] = [shares[o.token] EXCEPT !.count = @ + 1]]
      BY <2>5
    <3>4. shares' \in [Token -> Share \cup {NoShare}]
      BY <2>2, <3>2, <3>3
    <3>5. \A k \in ended : shares'[k] = NoShare
      BY <2>5, <3>3
    <3> QED BY <2>3, <3>4, <3>5
  <2> QED BY <2>1, <2>4, <2>5
<1>6. CASE CollectShares
  BY <1>6 DEF CollectShares
<1>7. CASE Restart
  BY <1>7 DEF Restart, NotOpen
<1>8. CASE UNCHANGED browserVars
  BY <1>1, <1>8 DEF browserVars
<1>9. ASSUME NEW t \in Thread, Finish(t) \/ WriteBack(t) PROVE SharesType' /\ RevokedStaysRevoked'
  BY <1>1, <1>9 DEF Finish, WriteBack
<1>10. ASSUME NEW p \in LedgerPath, RecordDelete(p) PROVE SharesType' /\ RevokedStaysRevoked'
  BY <1>1, <1>10 DEF RecordDelete
<1>11. CASE Stop \/ Start
  BY <1>1, <1>11 DEF Stop, Start
<1> QED BY <1>2, <1>3, <1>4, <1>5, <1>6, <1>7, <1>8, <1>9, <1>10, <1>11, BrowserSplit DEF ShareStep

TombsType ==
    /\ mem \subseteq LedgerPath /\ file \subseteq LedgerPath
    /\ lifted \subseteq LedgerPath /\ crossed \subseteq LedgerPath
    /\ edit \in [Thread -> SUBSET (SUBSET LedgerPath)]

(* What a browser thread is going to write has every tombstone that no      *)
(* restore or purge lifted and that the engine did not save since the read. *)
EditsKeep == \A t \in Thread : \A f \in edit[t] : (mem \ lifted) \ crossed \subseteq f

TombsInv == TombsType /\ EditsKeep /\ TombstonesSurvive

LEMMA TombsStep == TType /\ TombsInv /\ [Next]_vars => TombsInv'
<1> SUFFICES ASSUME TType, TombsInv, [Next]_vars PROVE TombsInv'
  OBVIOUS
<1> USE DEF TombsInv, TombsType, EditsKeep, TombstonesSurvive
<1>1. ASSUME UNCHANGED <<mem, file, edit, lifted, crossed>> PROVE TombsInv'
  BY <1>1
<1>2. ASSUME NEW t \in Thread, Finish(t) PROVE TombsInv'
  <2>1. \A e \in th[t].entry : e.original_path \in Path
    BY DEF TType, ThreadsType, OpRec, TrashEntry
  <2>2. Covered(t) \subseteq LedgerPath
    BY <2>1 DEF Prefixes, Covered, LedgerPath
  <2> DEFINE C == Covered(t)
  <2> HIDE DEF C
  <2>3. CASE UNCHANGED <<mem, file, edit, lifted, crossed>>
    BY <1>1, <2>3
  <2>4. CASE /\ mem' = mem \ C /\ file' = mem \ C /\ lifted' = lifted \cup C
             /\ crossed' = (IF Editing THEN crossed ELSE {}) /\ edit' = edit
    <3>1. CASE Editing
      BY <2>2, <2>4, <3>1 DEF C
    <3>2. CASE ~Editing
      <4>1. \A u \in Thread : edit'[u] = {}
        BY <2>4, <3>2 DEF Editing, NoEdit
      <4> QED BY <2>2, <2>4, <3>2, <4>1 DEF C
    <3> QED BY <3>1, <3>2
  <2>5. CASE /\ edit' = edit \/ edit' = [edit EXCEPT ![t] = {file \ C}]
             /\ lifted' = lifted \cup C /\ UNCHANGED <<mem, file, crossed>>
    BY <2>2, <2>5 DEF C
  <2> QED BY <1>2, <2>3, <2>4, <2>5 DEF Finish, C
<1>3. ASSUME NEW t \in Thread, WriteBack(t) PROVE TombsInv'
  <2>1. UNCHANGED <<mem, lifted, crossed>> /\ edit' = [edit EXCEPT ![t] = {}]
    BY <1>3 DEF WriteBack, NoEdit
  <2>2. file' = file \/ \E f \in edit[t] : file' = f
    BY <1>3 DEF WriteBack
  <2> QED BY <2>1, <2>2
<1>4. ASSUME NEW p \in LedgerPath, RecordDelete(p) PROVE TombsInv'
  <2>1. /\ mem' = mem \cup {p} /\ file' = mem \cup {p} /\ lifted' = lifted \ {p} /\ edit' = edit
        /\ crossed' = IF Editing THEN crossed \cup {p} ELSE {}
    BY <1>4 DEF RecordDelete
  <2>2. CASE Editing
    BY <2>1, <2>2
  <2>3. CASE ~Editing
    <3>1. \A u \in Thread : edit'[u] = {}
      BY <2>1, <2>3 DEF Editing, NoEdit
    <3> QED BY <2>1, <2>3, <3>1
  <2> QED BY <2>2, <2>3
<1>5. CASE Restart
  BY <1>5 DEF Restart, NoEdit
<1>6. CASE UNCHANGED browserVars
  BY <1>1, <1>6 DEF browserVars
<1>7. CASE ShareStep
  BY <1>1, <1>7 DEF ShareStep, NewShare, handle_delete_share, OpenShare, CountAccess, CollectShares
<1>8. CASE Stop \/ Start
  BY <1>1, <1>8 DEF Stop, Start
<1> QED BY <1>2, <1>3, <1>4, <1>5, <1>6, <1>7, <1>8, BrowserSplit

LEMMA BrowserInvariance ==
    Spec => []((SharesType /\ RevokedStaysRevoked) /\ TombsInv)
<1>1. Init => SharesType /\ RevokedStaysRevoked
  BY DEF Init, SharesType, RevokedStaysRevoked, NotOpen
<1>2. Init => TombsInv
  BY BrowserAssumption DEF Init, TombsInv, TombsType, EditsKeep, TombstonesSurvive, NoEdit, LedgerPath
<1> QED BY <1>1, <1>2, SharesStep, TombsStep, KeptInvariance, PTL DEF Spec

LEMMA CallsInvariance == Spec => [](calls \in 0..MaxCall)
<1>1. Init => calls \in 0..MaxCall
  BY BrowserAssumption DEF Init
<1>2. calls \in 0..MaxCall /\ [Next]_vars => (calls \in 0..MaxCall)'
  BY BrowserAssumption DEF Next, vars
<1> QED BY <1>1, <1>2, PTL DEF Spec

-----------------------------------------------------------------------------
(* The theorems.                                                            *)

(* The trash and its index, the mutexes and the operations of its threads,  *)
(* the shares and the two ledgers keep their types.                         *)
THEOREM TypeCorrect == Spec => []TypeOK
<1>1. TType => TrashTypeOK
  <2> SUFFICES ASSUME TType PROVE TrashTypeOK
    OBVIOUS
  <2>1. tmp \subseteq SUBSET TrashEntry /\ Cardinality(tmp) <= 1
    <3>1. CASE tmp = NoFile
      BY <3>1, FS_EmptySet DEF NoFile
    <3>2. ASSUME NEW s \in SUBSET TrashEntry, tmp = {s}
          PROVE  tmp \subseteq SUBSET TrashEntry /\ Cardinality(tmp) <= 1
      BY <3>2, FS_Singleton
    <3> QED BY <3>1, <3>2 DEF TType, ThreadsType
  <2>2. ASSUME NEW t \in Thread
        PROVE  /\ th[t].op \in Op /\ th[t].step \in Step
               /\ th[t].todo \subseteq Path /\ th[t].dest \subseteq Path /\ th[t].from \subseteq Path
               /\ th[t].entry \subseteq TrashEntry /\ th[t].snap \subseteq TrashEntry
    BY DEF TType, ThreadsType, OpRec
  <2> QED BY <2>1, <2>2 DEF TType, FilesType, ThreadsType, TrashTypeOK, Op, Step
<1>2. SharesType => /\ shares \in [Token -> Share \cup {NoShare}]
                    /\ \A t \in Thread : \A o \in opened[t] : o.token \in Token /\ o.share \in Share
                    /\ ended \subseteq Token /\ running \in BOOLEAN
  BY DEF SharesType, Access
<1>3. TType /\ SharesType /\ TombsInv /\ calls \in 0..MaxCall => TypeOK
  BY <1>1, <1>2 DEF TombsInv, TombsType, TypeOK
<1> QED BY <1>3, KeptInvariance, BrowserInvariance, CallsInvariance, PTL

(* Whatever uploads, renames, copies, deletes, restores, purges and sweeps  *)
(* interleave, and whatever fails or dies in the middle: an item is under   *)
(* the root or in the trash unless somebody overwrote or discarded it,      *)
(* restore_entry_with_dest replaced it, or hard_delete took it after a      *)
(* failed move of its path.                                                 *)
THEOREM NothingLost == Spec => []NothingDestroyed
BY KeptInvariance, PTL

(* Without failures, and as long as no two managers are inside index.json   *)
(* at once: while no thread is between its move of data and its save, the   *)
(* index lists exactly the data in the trash.                               *)
THEOREM IndexStaysExact == Spec => []IndexExact
<1>1. TType /\ IndexInv => IndexExact
  <2> SUFFICES ASSUME TType, IndexInv, faults = 0, ~overlap,
                      \A t \in Thread :
                        th[t].step \notin {"lock", "place", "remove", "write", "commit"}
               PROVE  {e.id : e \in index} = {i \in Id : data[i] # 0}
    BY DEF IndexExact
  <2>1. DataListed /\ index \subseteq TrashEntry
    BY DEF IndexInv, Steady, TType, ThreadsType
  <2>2. \A t \in Thread : ~Adding(t) /\ ~Removing(t)
    BY DEF Adding, Removing
  <2>3. \A i \in Id : data[i] # 0 <=> \E e \in index : e.id = i
    BY <2>1, <2>2 DEF DataListed, InIndex, ToCome
  <2>4. \A e \in index : e.id \in Id
    BY <2>1 DEF TrashEntry
  <2> QED BY <2>3, <2>4
<1> QED BY <1>1, KeptInvariance, IndexInvariance, PTL

(* A share that handle_delete_share revoked or filebrowser-gc collected     *)
(* never works again, even when handle_share_access had cloned it before.   *)
THEOREM RevokedForGood == Spec => []RevokedStaysRevoked
BY BrowserInvariance, PTL

(* What the browser's clear_ledger_covering edits out of the file behind    *)
(* the engine's back, and what a crash takes from its memory, are never     *)
(* tombstones that no restore or purge covered, but for those the engine    *)
(* saved between the edit's read and its write.                             *)
THEOREM TombstonesKept == Spec => []TombstonesSurvive
<1>1. TombsInv => TombstonesSurvive
  BY DEF TombsInv
<1> QED BY <1>1, BrowserInvariance, PTL
=============================================================================
