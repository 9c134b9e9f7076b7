----------------------------- MODULE EngineApply -----------------------------
(***************************************************************************)
(* SyncEngine applying remote writes and deletes of one path               *)
(* (sync_engine.rs, apply_bundle and apply_deletes), step by step.         *)
(*                                                                         *)
(* The engine is shared by threads: one per connected client on a server,  *)
(* the receive and the send loop on a client.  Each lock is taken and      *)
(* released for one step: the ledger is read for the verdict, written for  *)
(* the record, and the file and the manifest change in between.            *)
(*                                                                         *)
(* Writes are live actions; the content of the file is the stamp of the    *)
(* write that put it there, 0 when there is no file and Torn when a write  *)
(* failed half way.  Persistence of the ledger is in LedgerStore,          *)
(* directories are in DeletionLedger.                                      *)
(*                                                                         *)
(* An operation suppresses the path, so that its own change is not taken   *)
(* for a user's, and starts a timer that ends the suppression.             *)
(***************************************************************************)
EXTENDS Integers, FiniteSets

CONSTANTS
    Thread,
    MaxStamp,   \* bound: action stamps
    MaxOps,     \* bound: operations applied
    DiskFails   \* whether a write may fail on the disk

ASSUME EngineAssumption == MaxStamp \in Nat /\ MaxOps \in Nat /\ DiskFails \in BOOLEAN

VARIABLES
    ledger,     \* RwLock<DeletionLedger>
    disk,       \* the file
    manifest,   \* its manifest entry
    sup,        \* suppressed, suppressed_deletes: which of them hold the path
    pc, at,     \* pc[t], at[t]: the operation t is in and its stamp
    own,        \* own changes whose suppression has not been ended by a timer
    ops,        \* operations begun
    live, del,  \* history: the newest stamp of a write, of a delete, begun
    broken      \* history: what a failed write left: "disk" until the file is
                \* written or deleted, "sup" until a timer ends the suppression

vars == <<ledger, disk, manifest, sup, pc, at, own, ops, live, del, broken>>

File == "file"
Path == {File}
Ancestors == [p \in Path |-> <<p>>]
Stamp == 0..MaxStamp
Ttl == MaxStamp
Torn == -1

L == INSTANCE LedgerOps

MaxOfTwo(x, y) == IF x >= y THEN x ELSE y

Goto(t, label) == pc' = [pc EXCEPT ![t] = label]

-----------------------------------------------------------------------------
(* Mutant: the resurrection guard is missing. *)
BeginWrite_Unguarded(t, s) ==
    /\ pc[t] = "idle"
    /\ ops < MaxOps
    /\ ops' = ops + 1
    /\ at' = [at EXCEPT ![t] = s]
    /\ live' = MaxOfTwo(live, s)
    /\ Goto(t, "admit")
    /\ UNCHANGED <<ledger, disk, manifest, sup, own, del, broken>>

(* apply_bundle.  The resurrection guard reads the ledger ...               *)
BeginWrite(t, s) ==
    /\ pc[t] = "idle"
    /\ ops < MaxOps
    /\ ops' = ops + 1
    /\ at' = [at EXCEPT ![t] = s]
    /\ live' = MaxOfTwo(live, s)
    /\ Goto(t, IF L!veto_for(ledger, File, s, 0) THEN "idle" ELSE "admit")
    /\ UNCHANGED <<ledger, disk, manifest, sup, own, del, broken>>

(* ... admit_record writes it ...                                           *)
AdmitWrite(t) ==
    /\ pc[t] = "admit"
    /\ ledger' = L!admit_record(ledger, File, at[t], 0)
    /\ Goto(t, "write")
    /\ UNCHANGED <<disk, manifest, sup, at, own, ops, live, del, broken>>

(* ... the path is suppressed and written ...                               *)
WriteFile(t) ==
    /\ pc[t] = "write"
    /\ sup' = sup \cup {"write"}
    /\ disk' = at[t]
    /\ own' = own \cup {[by |-> t, kind |-> "write", id |-> ops, timer |-> FALSE]}
    /\ broken' = broken \ {"disk"}
    /\ Goto(t, "list")
    /\ UNCHANGED <<ledger, manifest, at, ops, live, del>>

(* ... or a directory or the write fails (930 before the path is            *)
(* suppressed, 955, 959 and 961 after it) and apply_bundle returns, without *)
(* schedule_unsuppress ...                                                  *)
WriteFails(t) ==
    /\ pc[t] = "write" /\ DiskFails
    /\ \/ UNCHANGED <<sup, disk>> /\ broken' = broken \cup {"disk"}
       \/ /\ sup' = sup \cup {"write"}
          /\ disk' \in {disk, Torn}
          /\ broken' = broken \cup {"disk", "sup"}
    /\ Goto(t, "idle")
    /\ UNCHANGED <<ledger, manifest, at, own, ops, live, del>>

(* Mutant: no unsuppress thread is started. *)
Schedule_Never(t, kind) == UNCHANGED own

Schedule(t, kind) ==
    own' = {IF o.by = t /\ o.kind = kind /\ ~o.timer THEN [o EXCEPT !.timer = TRUE] ELSE o : o \in own}

(* ... and the manifest updated; schedule_unsuppress.                       *)
ListFile(t) ==
    /\ pc[t] = "list"
    /\ manifest' = at[t]
    /\ Schedule(t, "write")
    /\ Goto(t, "idle")
    /\ UNCHANGED <<ledger, disk, sup, at, ops, live, del, broken>>

(* ... or a later file of the bundle fails, and none is scheduled.          *)
LaterFails(t) ==
    /\ pc[t] = "list" /\ DiskFails
    /\ manifest' = at[t]
    /\ own' = {o \in own : o.by # t \/ o.timer}
    /\ broken' = broken \cup {"sup"}
    /\ Goto(t, "idle")
    /\ UNCHANGED <<ledger, disk, sup, at, ops, live, del>>

(* apply_deletes.  The live-action guard reads the ledger ...               *)
BeginDelete(t, s) ==
    /\ pc[t] = "idle"
    /\ ops < MaxOps
    /\ ops' = ops + 1
    /\ at' = [at EXCEPT ![t] = s]
    /\ del' = MaxOfTwo(del, s)
    /\ LET a == ledger.alive[File]
       IN  Goto(t, IF a > 0 /\ a >= s THEN "record" ELSE "trash")
    /\ UNCHANGED <<ledger, disk, manifest, sup, own, live, broken>>

(* ... the file goes to the trash ...                                       *)
TrashFile(t) ==
    /\ pc[t] = "trash"
    /\ sup' = sup \cup {"delete"}
    /\ disk' = 0
    /\ own' = own \cup {[by |-> t, kind |-> "delete", id |-> ops, timer |-> FALSE]}
    /\ broken' = broken \ {"disk"}
    /\ Goto(t, "unlist")
    /\ UNCHANGED <<ledger, manifest, at, ops, live, del>>

(* Mutant: the manifest keeps the entry. *)
UnlistFile_Missing(t) ==
    /\ pc[t] = "unlist"
    /\ Goto(t, "record")
    /\ UNCHANGED <<ledger, disk, manifest, sup, at, own, ops, live, del, broken>>

(* ... its manifest entry is removed ...                                    *)
UnlistFile(t) ==
    /\ pc[t] = "unlist"
    /\ manifest' = 0
    /\ Goto(t, "record")
    /\ UNCHANGED <<ledger, disk, sup, at, own, ops, live, del, broken>>

(* ... and the tombstone recorded; schedule_unsuppress_deletes.             *)
RecordDelete(t) ==
    /\ pc[t] = "record"
    /\ ledger' = L!record(ledger, File, at[t])
    /\ Schedule(t, "delete")
    /\ Goto(t, "idle")
    /\ UNCHANGED <<disk, manifest, sup, at, ops, live, del, broken>>

(* The unsuppress thread of one operation wakes up.                         *)
Unsuppress(o) ==
    /\ o.timer
    /\ sup' = sup \ {o.kind}
    /\ own' = own \ {o}
    /\ broken' = IF o.kind = "write" THEN broken \ {"sup"} ELSE broken
    /\ UNCHANGED <<ledger, disk, manifest, pc, at, ops, live, del>>

Init ==
    /\ ledger = L!EmptyLedger
    /\ disk = 0 /\ manifest = 0 /\ sup = {}
    /\ pc = [t \in Thread |-> "idle"] /\ at = [t \in Thread |-> 0]
    /\ own = {} /\ ops = 0 /\ live = 0 /\ del = 0 /\ broken = {}

Apply(t) ==
    \/ \E s \in 1..MaxStamp : BeginWrite(t, s) \/ BeginDelete(t, s)
    \/ AdmitWrite(t) \/ WriteFile(t) \/ WriteFails(t) \/ ListFile(t) \/ LaterFails(t)
    \/ TrashFile(t) \/ UnlistFile(t) \/ RecordDelete(t)

Next ==
    \/ \E t \in Thread : Apply(t)
    \/ \E o \in own : Unsuppress(o)

(* Operations begun finish, the timers run.                                 *)
Spec ==
    /\ Init /\ [][Next]_vars
    /\ WF_vars(\E o \in own : Unsuppress(o))
    /\ \A t \in Thread :
          WF_vars(AdmitWrite(t) \/ WriteFile(t) \/ ListFile(t)
                    \/ TrashFile(t) \/ UnlistFile(t) \/ RecordDelete(t))

-----------------------------------------------------------------------------
(* The engine's state and the operations under way have their types.        *)
TypeOK ==
    /\ ledger \in L!Ledger
    /\ disk \in Stamp \cup {Torn} /\ manifest \in Stamp /\ live \in Stamp /\ del \in Stamp
    /\ sup \subseteq {"write", "delete"} /\ broken \subseteq {"disk", "sup"}
    /\ pc \in [Thread -> {"idle", "admit", "write", "list", "trash", "unlist", "record"}]
    /\ at \in [Thread -> Stamp] /\ ops \in 0..MaxOps
    /\ \A o \in own : o.by \in Thread /\ o.kind \in {"write", "delete"}

AllIdle == \A t \in Thread : pc[t] = "idle"

(* sync_engine.rs:1503, "a path whose live action is at least as new as     *)
(* this delete was recreated after the delete was issued. It is kept", and  *)
(* the resurrection guard of apply_bundle (895): when the engine rests, the *)
(* file exists exactly when the newest write is at least as new as the      *)
(* newest delete, whatever order they arrived in.  A write that fails on    *)
(* the disk leaves its live record, so it is not claimed from a failed      *)
(* write to the next write or delete that reaches the file.                 *)
NewestActionWins ==
    AllIdle /\ "disk" \notin broken => ((disk # 0) <=> (live > 0 /\ live >= del))

(* When the engine rests, the manifest lists what is on disk, again from    *)
(* the next write or delete on when a write has failed.                     *)
ManifestMatchesDisk == AllIdle /\ "disk" \notin broken => manifest = disk

(* Suppression is not left behind: it ends once the operations have ended   *)
(* and their timers have run, so later user actions are seen.  Only a       *)
(* bundle that fails after it suppressed the path (955, 959, 961) leaves    *)
(* it suppressed, until a later write's timer; a delete never does.         *)
SuppressionEnds == <>[](sup \subseteq IF "sup" \in broken THEN {"write"} ELSE {})
=============================================================================
