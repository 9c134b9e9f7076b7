----------------------------- MODULE LedgerStore -----------------------------
(***************************************************************************)
(* Persistence of the deletion ledger: the dirty flag and flush_ledger of  *)
(* SyncEngine, save_atomic and load of DeletionLedger.                     *)
(*                                                                         *)
(* Several threads share one engine (one per connected client on the       *)
(* server, the receive and send loops on a client).  A thread changes the  *)
(* ledger under the write lock, marks it dirty, and later flushes; a save  *)
(* holds the read lock, which other saves may hold as well.  The content   *)
(* of the ledger is the set of changes it contains.                        *)
(*                                                                         *)
(* The file system is modelled by names and open handles: renaming the     *)
(* temporary file moves the inode, and with it every handle open on it.    *)
(* A crash is the death of the process; what was written stays.            *)
(***************************************************************************)
EXTENDS Integers, FiniteSets

CONSTANTS
    Thread,
    MaxChange,  \* bound: changes ever made to the ledger
    MaxFault    \* bound: crashes and failing writes, together

ASSUME StoreAssumption == MaxChange \in Nat /\ MaxFault \in Nat

VARIABLES
    mem,        \* RwLock<DeletionLedger>: the changes it contains
    dirty,      \* ledger_dirty
    pc,         \* pc[t]: what thread t does next
    mine,       \* mine[t]: changes made by the operation t is in
    handle,     \* handle[t]: the file fs::write has open
    dest, tmp,  \* contents of deletion-ledger.json and of its .json.tmp
    next,       \* the next change
    faults,     \* crashes and write errors so far
    flushed,    \* history: changes whose flush returned without an error
    overlapped  \* history: two saves have been under way at once

vars == <<mem, dirty, pc, mine, handle, dest, tmp, next, faults, flushed, overlapped>>

Absent == [kind |-> "absent", has |-> {}]
Torn == [kind |-> "torn", has |-> {}]
Complete(c) == [kind |-> "complete", has |-> c]

(* DeletionLedger::load: a missing or corrupt file gives an empty ledger.   *)
load(file) == IF file.kind = "complete" THEN file.has ELSE {}

Saving(t) == pc[t] \in {"write", "rename"}

(* ledger_mut: the closure runs under the write lock.                       *)
Mutate(t) ==
    /\ pc[t] \in {"idle", "flush"}
    /\ next <= MaxChange
    /\ \A u \in Thread : ~Saving(u)
    /\ mem' = mem \cup {next}
    /\ mine' = [mine EXCEPT ![t] = @ \cup {next}]
    /\ next' = next + 1
    /\ pc' = [pc EXCEPT ![t] = "mark"]
    /\ UNCHANGED <<dirty, handle, dest, tmp, faults, flushed, overlapped>>

(* ... and the flag is set after the lock is released.                      *)
MarkDirty(t) ==
    /\ pc[t] = "mark"
    /\ dirty' = TRUE
    /\ pc' = [pc EXCEPT ![t] = "flush"]
    /\ UNCHANGED <<mem, mine, handle, dest, tmp, next, faults, flushed, overlapped>>

Return(t) ==
    /\ pc' = [pc EXCEPT ![t] = "idle"]
    /\ mine' = [mine EXCEPT ![t] = {}]
    /\ handle' = [handle EXCEPT ![t] = "none"]

(* flush_ledger: swap the flag, return at once when it was clear.  A batch  *)
(* that changed nothing flushes too.                                        *)
SwapDirty(t) ==
    /\ pc[t] \in {"idle", "flush"}
    /\ dirty' = FALSE
    /\ IF dirty
       THEN pc' = [pc EXCEPT ![t] = "open"] /\ UNCHANGED <<mine, handle, flushed>>
       ELSE Return(t) /\ flushed' = flushed \cup mine[t]
    /\ UNCHANGED <<mem, dest, tmp, next, faults, overlapped>>

(* Mutant: the file itself is opened and truncated, there is no other. *)
OpenTmp_InPlace(t) ==
    /\ pc[t] = "open"
    /\ dest' = Torn
    /\ handle' = [handle EXCEPT ![t] = "dest"]
    /\ pc' = [pc EXCEPT ![t] = "write"]
    /\ overlapped' = (overlapped \/ \E u \in Thread : Saving(u))
    /\ UNCHANGED <<mem, dirty, mine, tmp, next, faults, flushed>>

(* save_atomic, under the read lock: fs::write opens and truncates ...      *)
OpenTmp(t) ==
    /\ pc[t] = "open"
    /\ tmp' = Torn
    /\ handle' = [handle EXCEPT ![t] = "tmp"]
    /\ pc' = [pc EXCEPT ![t] = "write"]
    /\ overlapped' = (overlapped \/ \E u \in Thread : Saving(u))
    /\ UNCHANGED <<mem, dirty, mine, dest, next, faults, flushed>>

(* ... then writes through its handle, wherever the inode is by now ...     *)
WriteTmp(t) ==
    /\ pc[t] = "write"
    /\ tmp' = IF handle[t] = "tmp" THEN Complete(mem) ELSE tmp
    /\ dest' = IF handle[t] = "dest" THEN Complete(mem) ELSE dest
    /\ pc' = [pc EXCEPT ![t] = "rename"]
    /\ UNCHANGED <<mem, dirty, mine, handle, next, faults, flushed, overlapped>>

Moved(h) == CASE h = "tmp" -> "dest" [] h = "dest" -> "unlinked" [] OTHER -> h

(* ... and renames.  The rename fails when another save took the file.      *)
RenameTmp(t) ==
    /\ pc[t] = "rename"
    /\ pc' = [pc EXCEPT ![t] = "idle"]
    /\ mine' = [mine EXCEPT ![t] = {}]
    /\ IF tmp = Absent
       THEN /\ dirty' = TRUE
            /\ handle' = [handle EXCEPT ![t] = "none"]
            /\ UNCHANGED <<dest, tmp, flushed>>
       ELSE /\ dest' = tmp
            /\ tmp' = Absent
            /\ handle' = [u \in Thread |-> IF u = t THEN "none" ELSE Moved(handle[u])]
            /\ flushed' = flushed \cup mine[t]
            /\ UNCHANGED dirty
    /\ UNCHANGED <<mem, next, faults, overlapped>>

(* Mutant: the flag is not set again. *)
SaveFails_Forgets(t) ==
    /\ pc[t] = "write"
    /\ faults < MaxFault
    /\ faults' = faults + 1
    /\ Return(t)
    /\ UNCHANGED <<mem, dirty, dest, tmp, next, flushed, overlapped>>

(* fs::write fails (disk full): the flag is set again, the error logged.    *)
SaveFails(t) ==
    /\ pc[t] = "write"
    /\ faults < MaxFault
    /\ faults' = faults + 1
    /\ dirty' = TRUE
    /\ Return(t)
    /\ UNCHANGED <<mem, dest, tmp, next, flushed, overlapped>>

(* The process dies at any point and starts again.                          *)
Crash ==
    /\ faults < MaxFault
    /\ faults' = faults + 1
    /\ mem' = load(dest)
    /\ dirty' = FALSE
    /\ pc' = [t \in Thread |-> "idle"]
    /\ mine' = [t \in Thread |-> {}]
    /\ handle' = [t \in Thread |-> "none"]
    /\ UNCHANGED <<dest, tmp, next, flushed, overlapped>>

Init ==
    /\ mem = {} /\ dirty = FALSE
    /\ pc = [t \in Thread |-> "idle"]
    /\ mine = [t \in Thread |-> {}]
    /\ handle = [t \in Thread |-> "none"]
    /\ dest = Absent /\ tmp = Absent
    /\ next = 1 /\ faults = 0 /\ flushed = {} /\ overlapped = FALSE

Next ==
    \/ \E t \in Thread :
          Mutate(t) \/ MarkDirty(t) \/ SwapDirty(t) \/ OpenTmp(t) \/ WriteTmp(t)
            \/ RenameTmp(t) \/ SaveFails(t)
    \/ Crash

Spec == Init /\ [][Next]_vars

-----------------------------------------------------------------------------
Change == 1..MaxChange
File == {Absent, Torn} \cup {Complete(c) : c \in SUBSET Change}

(* The ledger, the flag, the threads and the two files have their types.    *)
TypeOK ==
    /\ mem \subseteq Change /\ flushed \subseteq Change
    /\ dirty \in BOOLEAN /\ overlapped \in BOOLEAN
    /\ pc \in [Thread -> {"idle", "mark", "flush", "open", "write", "rename"}]
    /\ mine \in [Thread -> SUBSET Change]
    /\ handle \in [Thread -> {"none", "tmp", "dest", "unlinked"}]
    /\ dest \in File /\ tmp \in File
    /\ next \in 1..(MaxChange + 1) /\ faults \in 0..MaxFault

(* server.rs:792, "The ledger is persisted before every ack": when          *)
(* flush_ledger has returned without an error, the changes made before the  *)
(* call are in the file.                                                    *)
FlushedIsDurable == flushed \subseteq load(dest)

(* However threads, failing saves and crashes interleave, once every thread *)
(* is out of the ledger and the flag is clear, the file holds the ledger:   *)
(* no change is stranded in memory with nobody left to write it.            *)
CleanMeansSaved ==
    (\A t \in Thread : pc[t] = "idle") /\ ~dirty => load(dest) = mem

Atomic == INSTANCE AtomicFile WITH memory <- mem, durable <- load(dest)

(* ledger.rs:116, "Persist atomically: write `<file>.tmp` then rename":     *)
(* whenever the process dies, and whatever write fails, it starts again     *)
(* from the whole of one ledger it had saved.  The steps of flush_ledger    *)
(* implement the atomic file.                                               *)
StoreIsAtomic == Atomic!Spec
=============================================================================
