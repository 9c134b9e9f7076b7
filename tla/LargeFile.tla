------------------------------ MODULE LargeFile ------------------------------
(***************************************************************************)
(* Assembly of a large file from chunks in one engine (sync_engine.rs,     *)
(* begin_large_file_with_action, receive_large_file_chunk,                 *)
(* finish_large_file, commit_large_file, clear_in_progress), step by step. *)
(*                                                                         *)
(* All transfers are of one path; a thread serves one sending peer and     *)
(* gets its frames in order.  The content of a chunk is the peer it came   *)
(* from, so a file has the hash of transfer t when all its chunks are t.   *)
(* A peer's stream may break off, and it may skip chunks it fails to read  *)
(* and send them when RequestChunks asks for them; a chunk the receiver    *)
(* fails to store is like one that was skipped.  A delete of the path is   *)
(* applied in one step (EngineApply has its steps).                        *)
(***************************************************************************)
EXTENDS Integers, FiniteSets, Sequences, SequencesExt

CONSTANTS
    Thread,
    TotalChunks,
    MaxBegin,   \* bound: transfers begun
    MaxStamp    \* bound: action stamps

VARIABLES
    ledger,     \* RwLock<DeletionLedger>
    asm,        \* in_progress: the path's LargeFileAssembly, or none
    tmp,        \* the staging file: chunk -> content, or absent
    dst,        \* the file: chunk -> content, or absent
    sup,        \* the path is suppressed
    timers,     \* unsuppress threads that have not run
    pc,         \* pc[t]: what thread t does next
    at,         \* at[t]: action stamp of t's transfer
    left,       \* left[t]: chunks the peer has still to send
    hash,       \* hash[t]: final_hash t commits with
    begun,
    reported,   \* history: transfers whose end was reported as Committed
    settled,    \* history: transfers committed or vetoed
    failed,     \* history: transfers whose LargeFileStart failed
    crossed,    \* history: two threads have been at the path at once
    abandoned   \* history: some transfer ended without a commit

vars == <<ledger, asm, tmp, dst, sup, timers, pc, at, left, hash, begun, reported, settled, failed, crossed, abandoned>>

Chunk == 1..TotalChunks
Absent == <<>>
Empty == [i \in Chunk |-> "hole"]
None == [total |-> 0, received |-> {}, pending |-> "none", at |-> 0]

File == "file"
Path == {File}
Ancestors == [p \in Path |-> <<p>>]
Stamp == 0..MaxStamp
Ttl == MaxStamp

L == INSTANCE LedgerOps

Crossing(t) == crossed' = (crossed \/ \E u \in Thread \ {t} : pc[u] # "idle")

Goto(t, label) == pc' = [pc EXCEPT ![t] = label]

-----------------------------------------------------------------------------
(* begin_large_file_with_action: the resurrection guard; frames of a vetoed *)
(* transfer find no assembly and are ignored.                               *)
Begin(t, s) ==
    /\ pc[t] = "idle"
    /\ begun < MaxBegin
    /\ begun' = begun + 1
    /\ at' = [at EXCEPT ![t] = s]
    /\ reported' = reported \ {t} /\ failed' = failed \ {t}
    /\ Crossing(t)
    /\ IF L!veto_for(ledger, File, s, 0)
       THEN Goto(t, "idle") /\ settled' = settled \cup {t} /\ UNCHANGED ledger
       ELSE /\ Goto(t, "open")
            /\ settled' = settled \ {t}
            /\ ledger' = L!admit_record(ledger, File, s, 0)
    /\ UNCHANGED <<asm, tmp, dst, sup, timers, left, hash, abandoned>>

(* Mutant: the destination is truncated too. *)
OpenStaging_InPlace(t) ==
    /\ pc[t] = "open"
    /\ tmp' = Empty
    /\ dst' = Empty
    /\ Goto(t, "insert")
    /\ UNCHANGED <<ledger, asm, sup, timers, at, left, hash, begun, reported, settled, crossed, abandoned, failed>>

(* The staging file is truncated and given its size.                        *)
OpenStaging(t) ==
    /\ pc[t] = "open"
    /\ tmp' = Empty
    /\ Goto(t, "insert")
    /\ UNCHANGED <<ledger, asm, dst, sup, timers, at, left, hash, begun, reported, settled, crossed, abandoned, failed>>

(* ... or a directory, the file or its size fails: there is no assembly,    *)
(* and the handler goes on to the chunks and the end, which the peer sends  *)
(* all the same.                                                            *)
BeginFails(t) ==
    /\ pc[t] = "open"
    /\ tmp' \in {tmp, Empty}
    /\ failed' = failed \cup {t}
    /\ \E skipped \in SUBSET Chunk :
          left' = [left EXCEPT ![t] = SetToSortSeq(Chunk \ skipped, <)]
    /\ Goto(t, "stream")
    /\ UNCHANGED <<ledger, asm, dst, sup, timers, at, hash, begun, reported, settled, crossed, abandoned>>

InsertAssembly(t) ==
    /\ pc[t] = "insert"
    /\ sup' = TRUE
    /\ asm' = [total |-> TotalChunks, received |-> {}, pending |-> "none", at |-> at[t]]
    /\ \E skipped \in SUBSET Chunk :
          left' = [left EXCEPT ![t] = SetToSortSeq(Chunk \ skipped, <)]
    /\ Goto(t, "stream")
    /\ UNCHANGED <<ledger, tmp, dst, timers, at, hash, begun, reported, settled, crossed, abandoned, failed>>

(* receive_large_file_chunk, under the lock of in_progress.  Without a      *)
(* staging file the open fails and the chunk is lost.                       *)
RecvChunk(t) ==
    /\ pc[t] \in {"stream", "retransmit"}
    /\ left[t] # <<>>
    /\ left' = [left EXCEPT ![t] = Tail(@)]
    /\ LET i == Head(left[t])
           got == asm.received \cup {i}
           stored == asm # None /\ tmp # Absent
           complete == stored /\ asm.pending # "none" /\ Cardinality(got) = asm.total
           over == pc[t] = "retransmit" /\ Len(left[t]) = 1
       IN  /\ tmp' = IF stored THEN [tmp EXCEPT ![i] = t] ELSE tmp
           /\ asm' = IF stored THEN [asm EXCEPT !.received = got] ELSE asm
           /\ hash' = IF complete THEN [hash EXCEPT ![t] = asm.pending] ELSE hash
           /\ Goto(t, IF complete THEN "take" ELSE IF over THEN "idle" ELSE pc[t])
           /\ abandoned' = (abandoned \/ (over /\ ~complete))
    /\ UNCHANGED <<ledger, dst, sup, timers, at, begun, reported, settled, crossed, failed>>

(* Mutant: missing chunks count as committed. *)
RecvEnd_ReportsMissing(t) ==
    /\ pc[t] = "stream"
    /\ left[t] = <<>>
    /\ IF asm = None \/ Chunk \ asm.received # {}
       THEN Goto(t, "idle") /\ reported' = reported \cup {t} /\ UNCHANGED hash
       ELSE Goto(t, "take") /\ hash' = [hash EXCEPT ![t] = t] /\ UNCHANGED reported
    /\ UNCHANGED <<ledger, asm, tmp, dst, sup, timers, at, left, begun, settled, crossed, abandoned, failed>>

(* finish_large_file: an unknown path counts as committed; missing chunks   *)
(* are asked for.                                                           *)
RecvEnd(t) ==
    /\ pc[t] = "stream"
    /\ left[t] = <<>>
    /\ LET missing == Chunk \ asm.received
       IN  \/ /\ asm = None
              /\ Goto(t, "idle")
              /\ reported' = reported \cup {t}
              /\ abandoned' = TRUE
              /\ UNCHANGED <<asm, left, hash>>
           \/ /\ asm # None /\ missing # {}
              /\ Goto(t, "retransmit")
              /\ asm' = [asm EXCEPT !.pending = t]
              /\ left' = [left EXCEPT ![t] = SetToSortSeq(missing, <)]
              /\ UNCHANGED <<hash, reported, abandoned>>
           \/ /\ asm # None /\ missing = {}
              /\ Goto(t, "take")
              /\ hash' = [hash EXCEPT ![t] = t]
              /\ UNCHANGED <<asm, left, reported, abandoned>>
    /\ UNCHANGED <<ledger, tmp, dst, sup, timers, at, begun, settled, crossed, failed>>

(* Mutant: the tombstone is not asked for again at commit. *)
TakeAssembly_Unguarded(t) ==
    /\ pc[t] = "take"
    /\ asm # None
    /\ asm' = None
    /\ Goto(t, "verify")
    /\ at' = [at EXCEPT ![t] = asm.at]
    /\ ledger' = L!admit_record(ledger, File, asm.at, 0)
    /\ UNCHANGED <<tmp, dst, sup, timers, left, hash, begun, reported, settled, crossed, abandoned, failed>>

(* commit_large_file: the assembly is taken out, the guard asked again.     *)
TakeAssembly(t) ==
    /\ pc[t] = "take"
    /\ asm' = None
    /\ \/ /\ asm = None
          /\ Goto(t, "idle")
          /\ reported' = reported \cup {t}
          /\ abandoned' = TRUE
          /\ UNCHANGED <<ledger, tmp, at, settled>>
       \/ /\ asm # None /\ L!veto_for(ledger, File, asm.at, 0)
          /\ Goto(t, "idle")
          /\ tmp' = Absent
          /\ reported' = reported \cup {t} /\ settled' = settled \cup {t}
          /\ abandoned' = TRUE
          /\ UNCHANGED <<ledger, at>>
       \/ /\ asm # None /\ ~L!veto_for(ledger, File, asm.at, 0)
          /\ Goto(t, "verify")
          /\ at' = [at EXCEPT ![t] = asm.at]
          /\ ledger' = L!admit_record(ledger, File, asm.at, 0)
          /\ UNCHANGED <<tmp, reported, settled, abandoned>>
    /\ UNCHANGED <<dst, sup, timers, left, hash, begun, crossed, failed>>

(* A wrong hash, or a staging file that is gone, is an error.               *)
VerifyHash(t) ==
    /\ pc[t] = "verify"
    /\ IF tmp # Absent /\ \A i \in Chunk : tmp[i] = hash[t]
       THEN Goto(t, "rename") /\ UNCHANGED <<tmp, abandoned>>
       ELSE Goto(t, "idle") /\ tmp' = Absent /\ abandoned' = TRUE
    /\ UNCHANGED <<ledger, asm, dst, sup, timers, at, left, hash, begun, reported, settled, crossed, failed>>

(* The rename, which may fail, the manifest entry and schedule_unsuppress.  *)
RenameStaging(t) ==
    /\ pc[t] = "rename"
    /\ Goto(t, "idle")
    /\ \/ abandoned' = TRUE /\ UNCHANGED <<tmp, dst, timers, reported, settled>>
       \/ /\ tmp # Absent
          /\ dst' = tmp
          /\ tmp' = Absent
          /\ timers' = timers + 1
          /\ reported' = reported \cup {t}
          /\ settled' = settled \cup {hash[t]}
          /\ UNCHANGED abandoned
    /\ UNCHANGED <<ledger, asm, sup, at, left, hash, begun, crossed, failed>>

(* The peer's stream breaks off; the server keeps the assembly.             *)
BreakOff(t) ==
    /\ pc[t] \in {"stream", "retransmit"}
    /\ Goto(t, "idle")
    /\ left' = [left EXCEPT ![t] = <<>>]
    /\ abandoned' = TRUE
    /\ UNCHANGED <<ledger, asm, tmp, dst, sup, timers, at, hash, begun, reported, settled, crossed, failed>>

(* A client starts a new session: clear_in_progress.                        *)
ClearInProgress ==
    /\ \A t \in Thread : pc[t] = "idle"
    /\ asm # None
    /\ asm' = None
    /\ tmp' = Absent
    /\ UNCHANGED <<ledger, dst, sup, timers, pc, at, left, hash, begun, reported, settled, crossed, abandoned, failed>>

(* apply_deletes, in one step, between two frames of a thread's peer.       *)
Delete(t, s) ==
    /\ pc[t] \in {"idle", "stream", "retransmit"}
    /\ ~(ledger.alive[File] > 0 /\ ledger.alive[File] >= s)
    /\ ledger.entries[File] # s
    /\ Crossing(t)
    /\ dst' = Absent
    /\ ledger' = L!record(ledger, File, s)
    /\ UNCHANGED <<asm, tmp, sup, timers, pc, at, left, hash, begun, reported, settled, abandoned, failed>>

Unsuppress ==
    /\ timers > 0
    /\ timers' = timers - 1
    /\ sup' = FALSE
    /\ UNCHANGED <<ledger, asm, tmp, dst, pc, at, left, hash, begun, reported, settled, crossed, abandoned, failed>>

Init ==
    /\ ledger = L!EmptyLedger
    /\ asm = None /\ tmp = Absent /\ dst = Absent
    /\ sup = FALSE /\ timers = 0
    /\ pc = [t \in Thread |-> "idle"] /\ at = [t \in Thread |-> 0]
    /\ left = [t \in Thread |-> <<>>] /\ hash = [t \in Thread |-> "none"]
    /\ begun = 0 /\ reported = {} /\ settled = {} /\ failed = {} /\ crossed = FALSE /\ abandoned = FALSE

Step(t) ==
    OpenStaging(t) \/ InsertAssembly(t) \/ RecvChunk(t) \/ RecvEnd(t)
      \/ TakeAssembly(t) \/ VerifyHash(t) \/ RenameStaging(t)

Next ==
    \/ \E t \in Thread, s \in 1..MaxStamp : Begin(t, s) \/ Delete(t, s)
    \/ \E t \in Thread : Step(t) \/ BeginFails(t) \/ BreakOff(t)
        \/ ClearInProgress \/ Unsuppress

(* A thread serves its peer's frames; the unsuppress threads run.           *)
Spec == Init /\ [][Next]_vars /\ WF_vars(Unsuppress) /\ \A t \in Thread : WF_vars(Step(t))

-----------------------------------------------------------------------------
Content == [Chunk -> Thread \cup {"hole"}] \cup {Absent}

(* The assembly, the two files and the transfers have their types.          *)
TypeOK ==
    /\ ledger \in L!Ledger
    /\ asm = None \/ (asm.received \subseteq Chunk /\ asm.at \in Stamp)
    /\ tmp \in Content /\ dst \in Content
    /\ sup \in BOOLEAN /\ timers \in 0..MaxBegin
    /\ pc \in [Thread -> {"idle", "open", "insert", "stream", "retransmit", "take", "verify", "rename"}]
    /\ hash \in [Thread -> Thread \cup {"none"}]
    /\ reported \subseteq Thread /\ settled \subseteq Thread /\ failed \subseteq Thread
    /\ crossed \in BOOLEAN /\ abandoned \in BOOLEAN

(* README.md, "receiver verifies BLAKE3 hash": a file put in place is one   *)
(* transfer's bytes, whole, never a mixture of two and never with holes,    *)
(* whatever chunks were skipped, sent again, or left behind by an earlier   *)
(* transfer.  The staging name belongs to the path (sync_engine.rs:1163),   *)
(* so it is claimed while no two threads are at the path at once.           *)
CommittedIsWhole ==
    ~crossed /\ dst # Absent => \E t \in Thread : \A i \in Chunk : dst[i] = t

(* server.rs:861, "Returns `true` when the action was applied, `false` when *)
(* it failed or is incomplete": a transfer whose end was reported as        *)
(* committed was put in place, or vetoed by a newer delete.  A transfer     *)
(* whose LargeFileStart failed (1034, 1042, 1050, 1051) is left out: its    *)
(* end finds no assembly and is answered as committed all the same (1124).  *)
ReportedIsSettled ==
    ~crossed => \A t \in Thread : pc[t] = "idle" /\ t \in reported \ failed => t \in settled

(* sync_engine.rs:1154, "a tombstone may have arrived between               *)
(* LargeFileStart and commit": a file in place is never older than the      *)
(* newest delete of its path.                                               *)
NeverResurrected == ~crossed /\ dst # Absent => ledger.entries[File] = L!NoStamp

(* README.md:303, write suppression lasts 2 s: when every transfer was      *)
(* committed the path does not stay suppressed, and user edits are seen     *)
(* again, also when several transfers overlapped.                           *)
SuppressionEnds == <>[](sup => abandoned \/ \E t \in Thread : pc[t] # "idle")
=============================================================================
