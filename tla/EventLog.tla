----------------------------- MODULE EventLog -----------------------------
(***************************************************************************)
(* The bus logger (core/src/logging.rs): a subscriber of everything that   *)
(* appends each message to a file which rotates by size, beside the        *)
(* cleanup thread, which lists the rotated files and removes some of them  *)
(* by name.  A file operation may fail: the record is lost and counted,    *)
(* and the file is opened again; a part of it may be in the file, and the  *)
(* next record then shares its line.                                       *)
(*                                                                         *)
(* A record, or a part of one, counts for one byte.  A file's age is the   *)
(* last record in it.                                                      *)
(***************************************************************************)
EXTENDS MessageBus

CONSTANTS
    Logger,   \* the subscription of the bus logger
    MaxSize,  \* max_bytes
    MaxFiles, \* max_files
    Cap,      \* max_total_bytes
    MaxClean, \* bound: cleanup passes
    MaxFail   \* bound: failing file operations

VARIABLES
    disk,     \* disk[n]: the records of file name.n, the active one for n = 0; empty when there is none
    size,     \* the open file's size, -1 when it is not open
    step,     \* what the logger does next
    shift,    \* during a rotation: the name to be moved next
    record,   \* the logger has a message in hand
    lost,     \* LogSink.lost
    accepted, \* history: how many records were written, a part of one included; a record on disk is its number
    torn,     \* history: those of them of which only a part was written
    doomed,   \* names the cleanup thread is about to remove
    passes,   \* the two counters that are bounded
    failures,
    crossed   \* history: a rotation and a cleanup pass overlapped

logv == <<disk, size, step, shift, record, lost, accepted, torn, doomed, passes, failures, crossed>>
vars == <<bus, logv>>

Name == 0..MaxFiles
Rotated == {n \in 1..MaxFiles : disk[n] # <<>>}
Age(n) == Last(disk[n])

(* spawn_bus_logger subscribes before main starts any app.                  *)
Init ==
    /\ BusInit({Logger})
    /\ disk = [n \in Name |-> <<>>]
    /\ size = -1 /\ step = "receive" /\ shift = 0 /\ record = FALSE
    /\ lost = 0 /\ accepted = 0 /\ torn = {}
    /\ doomed = {} /\ passes = 0 /\ failures = 0 /\ crossed = FALSE

(* bus_loop takes a message; the cleanup thread has state of its own.       *)
LogReceive ==
    /\ step = "receive" /\ Receive(Logger)
    /\ record' = TRUE
    /\ step' = "write"
    /\ UNCHANGED <<disk, size, shift, lost, accepted, torn, doomed, passes, failures, crossed>>

(* open_append; the size is the file's.                                     *)
OpenAppend ==
    /\ step = "write" /\ size = -1
    /\ size' = Len(disk[0])
    /\ UNCHANGED <<bus, disk, step, shift, record, lost, accepted, torn, doomed, passes, failures, crossed>>

MustRotate == size > 0 /\ size + 1 > MaxSize

(* write_locked closes the file before it renames it; the oldest one goes,  *)
(* the active one itself when no other is kept.                             *)
BeginRotate ==
    /\ step = "write" /\ MustRotate
    /\ size' = -1
    /\ step' = IF MaxFiles = 0 THEN "write" ELSE "rotate"
    /\ disk' = [disk EXCEPT ![MaxFiles] = <<>>]
    /\ shift' = IF MaxFiles = 0 THEN 0 ELSE MaxFiles - 1
    /\ crossed' = (crossed \/ doomed # {})
    /\ UNCHANGED <<bus, record, lost, accepted, torn, doomed, passes, failures>>

Moved(n) == [disk EXCEPT ![n + 1] = IF disk[n] = <<>> THEN @ ELSE disk[n], ![n] = <<>>]

(* Mutant: the names are moved from the newest up. *)
RotateStep_Upward ==
    /\ step = "rotate" /\ shift < MaxFiles
    /\ disk' = Moved(MaxFiles - 1 - shift)
    /\ step' = IF shift = 0 THEN "write" ELSE "rotate"
    /\ shift' = IF shift = 0 THEN 0 ELSE shift - 1
    /\ UNCHANGED <<bus, size, record, lost, accepted, torn, doomed, passes, failures, crossed>>

(* rotate_files: name.i becomes name.(i + 1), from the oldest down.         *)
RotateStep ==
    /\ step = "rotate"
    /\ disk' = Moved(shift)
    /\ step' = IF shift = 0 THEN "write" ELSE "rotate"
    /\ shift' = IF shift = 0 THEN 0 ELSE shift - 1
    /\ UNCHANGED <<bus, size, record, lost, accepted, torn, doomed, passes, failures, crossed>>

WriteLine ==
    /\ step = "write" /\ size >= 0 /\ ~MustRotate
    /\ disk' = [disk EXCEPT ![0] = Append(@, accepted + 1)]
    /\ size' = size + 1
    /\ accepted' = accepted + 1
    /\ step' = "receive" /\ record' = FALSE
    /\ UNCHANGED <<bus, shift, lost, torn, doomed, passes, failures, crossed>>

(* Any of these operations fails: LogSink counts the record as lost, and    *)
(* the file is closed.                                                      *)
Fails ==
    /\ failures < MaxFail
    /\ failures' = failures + 1
    /\ lost' = lost + 1
    /\ size' = -1 /\ step' = "receive" /\ shift' = 0 /\ record' = FALSE

WriteFails ==
    /\ step \in {"write", "rotate"} /\ Fails
    /\ UNCHANGED <<bus, disk, accepted, torn, doomed, passes, crossed>>

(* write_all fails after a part of the record: that part stays at the end   *)
(* of the file, and the next record goes on its line.                       *)
WriteTears ==
    /\ step = "write" /\ size >= 0 /\ ~MustRotate /\ Fails
    /\ disk' = [disk EXCEPT ![0] = Append(@, accepted + 1)]
    /\ accepted' = accepted + 1
    /\ torn' = torn \cup {accepted + 1}
    /\ UNCHANGED <<bus, doomed, passes, crossed>>

(* cleanup: the rotated files older than the cutoff, and then the oldest    *)
(* ones until the total is within the cap; active files are never listed.   *)
Expired(cutoff) == {n \in Rotated : Age(n) < cutoff}
Older(n, left) == {m \in left : Age(m) <= Age(n)}
Total(left) == Cardinality(UNION {{n} \X DOMAIN disk[n] : n \in left \cup {0}})
OverCap(left) == {n \in left : Total(left \ (Older(n, left) \ {n})) > Cap}

Collect ==
    /\ doomed = {} /\ passes < MaxClean
    /\ passes' = passes + 1
    /\ \E cutoff \in 0..MaxMessage :
         doomed' = Expired(cutoff) \cup OverCap(Rotated \ Expired(cutoff))
    /\ crossed' = (crossed \/ (step = "rotate" /\ doomed' # {}))
    /\ UNCHANGED <<bus, disk, size, step, shift, record, lost, accepted, torn, failures>>

(* The names are removed one by one, in the order of the directory or by    *)
(* age, whatever file has the name by then.                                 *)
RemoveEntry ==
    /\ \E n \in doomed :
         /\ disk' = [disk EXCEPT ![n] = <<>>]
         /\ doomed' = doomed \ {n}
    /\ UNCHANGED <<bus, size, step, shift, record, lost, accepted, torn, passes, failures, crossed>>

RemoveFails ==
    /\ failures < MaxFail
    /\ failures' = failures + 1
    /\ \E n \in doomed : doomed' = doomed \ {n}
    /\ UNCHANGED <<bus, disk, size, step, shift, record, lost, accepted, torn, passes, crossed>>

Next ==
    \/ Publish /\ UNCHANGED logv
    \/ \E s \in Subscription : subscribe(s) /\ UNCHANGED logv
    \/ \E s \in Subscription \ {Logger} : (Receive(s) \/ DropReceiver(s)) /\ UNCHANGED logv
    \/ LogReceive \/ OpenAppend \/ BeginRotate \/ RotateStep \/ WriteLine \/ WriteFails \/ WriteTears
    \/ Collect \/ RemoveEntry \/ RemoveFails

Spec == Init /\ [][Next]_vars

-----------------------------------------------------------------------------
Records(n) == {disk[n][i] : i \in DOMAIN disk[n]}
Kept == UNION {Records(n) : n \in Name}

(* Read from the oldest file to the active one, the log repeats nothing and *)
(* keeps the order of writing, parts of records included, and every message *)
(* the logger took is written whole or counted as lost (one that follows a  *)
(* part shares its line).  Once no cleanup pass runs, and unless an         *)
(* operation failed or a pass and a rotation overlapped, nothing is missing *)
(* between the oldest record that is left and the newest; without cleanup,  *)
(* MaxFiles full files are kept, and the active one beside them between two *)
(* records.                                                                 *)
LogKeepsTail ==
    /\ Kept \subseteq 1..accepted
    /\ \A n \in Name : \A i, j \in DOMAIN disk[n] : i < j => disk[n][i] < disk[n][j]
    /\ \A n \in Name : \A older \in n + 1..MaxFiles :
         \A j \in Records(older), k \in Records(n) : j < k
    /\ got[Logger] + Cardinality(torn) = accepted + lost + IF record THEN 1 ELSE 0
    /\ failures = 0 /\ ~crossed /\ doomed = {} => \A k \in Kept : k..accepted \subseteq Kept
    /\ failures = 0 /\ passes = 0 =>
         \A k \in 1..accepted :
            k > accepted - (MaxFiles * MaxSize + IF step = "receive" THEN 1 ELSE 0) => k \in Kept
=============================================================================
