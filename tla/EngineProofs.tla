---------------------------- MODULE EngineProofs ----------------------------
(* Proofs about the engine of a node.  EngineApply: for any set of threads  *)
(* and any bounds, as long as the operations on the path do not overlap.    *)
(* LargeFile: for any set of peers, any number of chunks and transfers and  *)
(* any stamps.  LocalChanges: for any files and any bounds.                 *)
EXTENDS MCEngine, Sequences, WellFoundedInduction, TLAPS

-----------------------------------------------------------------------------
(* EngineApply: the inductive invariant.                                    *)

Tomb == ledger.entries[File]    \* the tombstone of the path, -1 for none
Alive == ledger.alive[File]     \* its live record, 0 for none

(* Operations on the path come one after the other.                         *)
Serial == \A s, t \in Thread : pc[s] # "idle" /\ pc[t] # "idle" => s = t

OwnOp == [by : Thread, kind : {"write", "delete"}, id : Nat, timer : BOOLEAN]

(* TypeOK, and the entries of own are records.                              *)
EType == TypeOK /\ own \subseteq OwnOp

(* A tombstone is newer than the live record beside it.                     *)
TombIsNewer == Tomb = -1 \/ (Tomb > 0 /\ Tomb > Alive)

(* The file exists when there is a live record and no tombstone, and the    *)
(* manifest lists it, except after a write that failed.                     *)
DiskFollows ==
    "disk" \notin broken =>
      /\ disk # 0 <=> (Tomb = -1 /\ Alive > 0)
      /\ manifest = disk

(* The ledger says what the newest write and the newest delete were: with   *)
(* no tombstone the live record is the newest write and no delete is newer, *)
(* with one it is the newest delete and every write is older.               *)
Settled ==
    \/ Tomb = -1 /\ live = Alive /\ del <= Alive
    \/ Tomb # -1 /\ del = Tomb /\ live < Tomb

(* It was settled before the write of t, which no tombstone forbids.        *)
Writing(t) ==
    /\ at[t] > 0
    /\ \/ Tomb = -1 /\ live = MaxOfTwo(Alive, at[t]) /\ del <= Alive
       \/ Tomb # -1 /\ live = at[t] /\ del = Tomb /\ Tomb <= at[t]

(* It was settled before the delete of t, which no live record overrules.   *)
Deleting(t) ==
    /\ at[t] > Alive
    /\ \/ Tomb = -1 /\ live = Alive /\ del = at[t]
       \/ Tomb # -1 /\ live < Tomb /\ del = MaxOfTwo(Tomb, at[t])

(* What holds at each step of an operation.                                 *)
During(t) ==
    /\ pc[t] = "admit" => Writing(t) /\ DiskFollows
    /\ pc[t] \in {"write", "list"} => at[t] > 0 /\ Tomb = -1 /\ Alive > 0 /\ Settled
    /\ pc[t] = "list" => disk = at[t]
    /\ pc[t] \in {"trash", "unlist"} => Deleting(t)
    /\ pc[t] = "unlist" => disk = 0
    /\ pc[t] = "record" =>
          \/ Deleting(t) /\ disk = 0 /\ manifest = 0
          \/ Alive > 0 /\ at[t] <= Alive /\ Settled /\ DiskFollows

EInv ==
    /\ TombIsNewer
    /\ AllIdle => Settled /\ DiskFollows
    /\ \A t \in Thread : During(t)

-----------------------------------------------------------------------------
(* The ledger's operators, on the one path.                                 *)

LEMMA LedgerType ==
    ledger \in L!Ledger => Tomb \in {-1} \cup Stamp /\ Alive \in Stamp
BY EngineAssumption DEF L!Ledger, L!NoStamp, Tomb, Alive, Path, Stamp

(* record takes a delete that is newer than both records.                   *)
LEMMA RecordEffect ==
    ASSUME ledger \in L!Ledger, NEW d \in Stamp, ledger' = L!record(ledger, File, d)
    PROVE  /\ ledger' \in L!Ledger /\ Alive' = Alive
           /\ Tomb' = IF (Alive > 0 /\ d <= Alive) \/ Tomb >= d THEN Tomb ELSE d
BY DEF L!Ledger, L!record, L!is_superseded, L!NoStamp, Tomb, Alive, Path

(* admit_record of a live action raises the live record and drops a         *)
(* tombstone that is not newer.                                             *)
LEMMA AdmitEffect ==
    ASSUME ledger \in L!Ledger, NEW s \in Stamp, s > 0,
           ledger' = L!admit_record(ledger, File, s, 0)
    PROVE  /\ ledger' \in L!Ledger
           /\ Alive' = MaxOfTwo(Alive, s)
           /\ Tomb' = IF Tomb <= s THEN -1 ELSE Tomb
<1>1. s # -1 /\ s \in Nat
  BY EngineAssumption DEF Stamp
<1>2. CASE L!alive_record_needed(ledger, File, s)
  <2>1. ledger' = [entries |-> [ledger.entries EXCEPT ![File] = IF @ <= s THEN -1 ELSE @],
                   alive   |-> [ledger.alive EXCEPT ![File] = MaxOfTwo(@, s)]]
    BY <1>1, <1>2 DEF L!admit_record, L!record_alive, L!NoStamp, L!MaxOf, MaxOfTwo
  <2> QED BY <1>1, <2>1 DEF L!Ledger, L!NoStamp, Tomb, Alive, Path, MaxOfTwo
<1>3. CASE ~L!alive_record_needed(ledger, File, s)
  <2>1. ledger' = ledger
    BY <1>1, <1>3 DEF L!admit_record, L!NoStamp
  <2>2. s <= Alive /\ (Tomb = -1 \/ Tomb > s)
    BY <1>1, <1>3, LedgerType, EngineAssumption
    DEF L!alive_record_needed, L!NoStamp, Tomb, Alive, Stamp
  <2> QED BY <1>1, <2>1, <2>2, LedgerType, EngineAssumption DEF Tomb, Alive, MaxOfTwo, Stamp
<1> QED BY <1>2, <1>3

LEMMA AdmitType ==
    ASSUME ledger \in L!Ledger, NEW s \in Stamp, ledger' = L!admit_record(ledger, File, s, 0)
    PROVE  ledger' \in L!Ledger
<1>1. s \in Nat
  BY EngineAssumption DEF Stamp
<1>2. CASE s = 0
  BY <1>2 DEF L!admit_record, L!record_alive, L!alive_record_needed, L!NoStamp
<1> QED BY <1>1, <1>2, AdmitEffect

(* The walk over the ancestors of the path is the path: a write is vetoed   *)
(* by a newer tombstone.                                                    *)
LEMMA VetoMeans ==
    ASSUME ledger \in L!Ledger, TombIsNewer, NEW s \in 1..MaxStamp
    PROVE  L!veto_for(ledger, File, s, 0) <=> Tomb > s
<1>1. s # -1 /\ s \in Nat /\ s > 0
  BY EngineAssumption
<1>2. Ancestors[File] = <<File>> /\ DOMAIN Ancestors[File] = {1} /\ Ancestors[File][1] = File
  BY DEF Ancestors, Path
<1>3. L!Applicable(ledger, File) = IF Tomb = -1 THEN {} ELSE {1}
  BY <1>2, LedgerType, EngineAssumption DEF L!Applicable, L!NoStamp, Tomb, Alive, TombIsNewer, Stamp
<1>4. L!covering_tombstone(ledger, File) = Tomb
  <2>1. CASE Tomb = -1
    BY <1>3, <2>1 DEF L!covering_tombstone, L!NoStamp
  <2>2. CASE Tomb # -1
    <3>1. L!Applicable(ledger, File) = {1}
      BY <1>3, <2>2
    <3>2. (CHOOSE i \in {1} : \A j \in {1} : i <= j) = 1
      OBVIOUS
    <3> QED BY <1>2, <3>1, <3>2 DEF L!covering_tombstone, Tomb
  <2> QED BY <2>1, <2>2
<1> QED BY <1>1, <1>4 DEF L!veto_for, L!Comparand, L!NoStamp

-----------------------------------------------------------------------------
(* Every step keeps the types.                                              *)

LEMMA Ints ==
    ASSUME EType
    PROVE  /\ Tomb \in Int /\ Alive \in Nat /\ disk \in Int /\ manifest \in Nat
           /\ live \in Nat /\ del \in Nat /\ at \in [Thread -> Nat]
BY EngineAssumption, LedgerType DEF EType, TypeOK, Stamp, Torn

LEMMA ScheduleType ==
    ASSUME own \subseteq OwnOp, NEW t, NEW kind, Schedule(t, kind)
    PROVE  own' \subseteq OwnOp
<1>1. ASSUME NEW o \in OwnOp PROVE [o EXCEPT !.timer = TRUE] \in OwnOp
  BY DEF OwnOp
<1> QED BY <1>1 DEF Schedule

LEMMA ETypeStep == EType /\ [Next]_vars => EType'
<1> SUFFICES ASSUME EType, [Next]_vars PROVE EType'
  OBVIOUS
<1> USE EngineAssumption DEF EType, Stamp, Torn, MaxOfTwo, Goto
<1>k. (own \subseteq OwnOp)' =>
          \A o \in own' : o.by \in Thread /\ o.kind \in {"write", "delete"}
  BY DEF OwnOp
<1>1. ASSUME NEW t \in Thread, NEW s \in 1..MaxStamp, BeginWrite(t, s) PROVE EType'
  BY <1>1 DEF BeginWrite, TypeOK
<1>2. ASSUME NEW t \in Thread, AdmitWrite(t) PROVE EType'
  <2>1. ledger' \in L!Ledger
    BY <1>2, AdmitType DEF AdmitWrite, TypeOK
  <2> QED BY <1>2, <2>1 DEF AdmitWrite, TypeOK
<1>3. ASSUME NEW t \in Thread, WriteFile(t) PROVE EType'
  <2>1. own' \subseteq OwnOp
    <3>1. ops \in Nat
      BY DEF TypeOK
    <3>2. [by |-> t, kind |-> "write", id |-> ops, timer |-> FALSE] \in OwnOp
      BY <3>1 DEF OwnOp
    <3> QED BY <1>3, <3>2 DEF WriteFile
  <2> QED BY <1>3, <2>1, <1>k DEF WriteFile, TypeOK
<1>4. ASSUME NEW t \in Thread, ListFile(t) PROVE EType'
  <2>1. own' \subseteq OwnOp
    BY <1>4, ScheduleType DEF ListFile
  <2> QED BY <1>4, <2>1, <1>k DEF ListFile, TypeOK
<1>11. ASSUME NEW t \in Thread, WriteFails(t) PROVE EType'
  BY <1>11 DEF WriteFails, TypeOK
<1>12. ASSUME NEW t \in Thread, LaterFails(t) PROVE EType'
  <2>1. own' \subseteq OwnOp
    BY <1>12 DEF LaterFails
  <2> QED BY <1>12, <2>1, <1>k DEF LaterFails, TypeOK
<1>5. ASSUME NEW t \in Thread, NEW s \in 1..MaxStamp, BeginDelete(t, s) PROVE EType'
  BY <1>5 DEF BeginDelete, TypeOK
<1>6. ASSUME NEW t \in Thread, TrashFile(t) PROVE EType'
  <2>1. own' \subseteq OwnOp
    <3>1. ops \in Nat
      BY DEF TypeOK
    <3>2. [by |-> t, kind |-> "delete", id |-> ops, timer |-> FALSE] \in OwnOp
      BY <3>1 DEF OwnOp
    <3> QED BY <1>6, <3>2 DEF TrashFile
  <2> QED BY <1>6, <2>1, <1>k DEF TrashFile, TypeOK
<1>7. ASSUME NEW t \in Thread, UnlistFile(t) PROVE EType'
  BY <1>7 DEF UnlistFile, TypeOK
<1>8. ASSUME NEW t \in Thread, RecordDelete(t) PROVE EType'
  <2>1. ledger' \in L!Ledger
    BY <1>8, RecordEffect DEF RecordDelete, TypeOK
  <2>2. own' \subseteq OwnOp
    BY <1>8, ScheduleType DEF RecordDelete
  <2> QED BY <1>8, <2>1, <2>2, <1>k DEF RecordDelete, TypeOK
<1>9. ASSUME NEW o \in own, Unsuppress(o) PROVE EType'
  BY <1>9 DEF Unsuppress, TypeOK
<1>10. CASE UNCHANGED vars
  BY <1>10 DEF vars, TypeOK
<1> QED BY <1>1, <1>2, <1>3, <1>4, <1>5, <1>6, <1>7, <1>8, <1>9, <1>10, <1>11, <1>12 DEF Next, Apply

-----------------------------------------------------------------------------
(* Every step keeps the rest, when operations do not overlap.               *)

LEMMA EInvStep ==
    EType /\ EInv /\ Serial /\ Serial' /\ [Next]_vars => EInv'
<1> SUFFICES ASSUME EType, EInv, Serial, Serial', [Next]_vars PROVE EInv'
  OBVIOUS
<1> USE DEF EInv, MaxOfTwo, Goto
<1>i. /\ Tomb \in Int /\ Alive \in Nat /\ disk \in Int /\ manifest \in Nat
      /\ live \in Nat /\ del \in Nat /\ at \in [Thread -> Nat]
  BY Ints
<1>p. pc \in [Thread -> {"idle", "admit", "write", "list", "trash", "unlist", "record"}]
  BY DEF EType, TypeOK
<1>l. ledger' = ledger => Tomb' = Tomb /\ Alive' = Alive
  BY DEF Tomb, Alive
<1>o. ASSUME NEW t \in Thread, pc[t] # "idle" \/ pc'[t] # "idle",
             \A u \in Thread : u # t => pc'[u] = pc[u]
      PROVE  \A u \in Thread : u # t => pc[u] = "idle" /\ pc'[u] = "idle" /\ During(u)'
  BY <1>o DEF Serial, During
<1>1. ASSUME NEW t \in Thread, NEW s \in 1..MaxStamp, BeginWrite(t, s) PROVE EInv'
  <2>1. L!veto_for(ledger, File, s, 0) <=> Tomb > s
    BY VetoMeans DEF EType, TypeOK
  <2>2. ledger' = ledger /\ Tomb' = Tomb /\ Alive' = Alive
    BY <1>1, <1>l DEF BeginWrite
  <2>3. s \in Nat /\ s > 0
    BY EngineAssumption
  <2>4. CASE Tomb > s
    <3>1. pc' = pc
      BY <1>1, <1>p, <2>1, <2>4 DEF BeginWrite
    <3>2. ASSUME NEW u \in Thread PROVE During(u)'
      <4>1. CASE u = t
        BY <1>1, <3>1, <4>1 DEF BeginWrite, During
      <4>2. CASE u # t
        <5>1. at'[u] = at[u]
          BY <1>1, <1>i, <4>2 DEF BeginWrite
        <5> QED BY <1>1, <1>i, <2>2, <2>3, <2>4, <3>1, <5>1
                DEF BeginWrite, During, Writing, Deleting, Settled, DiskFollows
      <4> QED BY <4>1, <4>2
    <3> QED BY <1>1, <1>i, <2>2, <2>3, <2>4, <3>1, <3>2
            DEF BeginWrite, TombIsNewer, AllIdle, Settled, DiskFollows
  <2>5. CASE ~(Tomb > s)
    <3>1. pc'[t] = "admit" /\ \A u \in Thread : u # t => pc'[u] = pc[u]
      BY <1>1, <1>p, <2>1, <2>5 DEF BeginWrite
    <3>2. AllIdle
      BY <1>1, <1>o, <3>1 DEF BeginWrite, AllIdle
    <3>3. at'[t] = s
      BY <1>1, <1>i DEF BeginWrite
    <3>4. During(t)'
      BY <1>1, <1>i, <2>2, <2>3, <2>5, <3>1, <3>2, <3>3
      DEF BeginWrite, During, Writing, Settled, DiskFollows, TombIsNewer
    <3> QED BY <1>o, <2>2, <3>1, <3>4 DEF TombIsNewer, AllIdle
  <2> QED BY <2>4, <2>5
<1>2. ASSUME NEW t \in Thread, AdmitWrite(t) PROVE EInv'
  <2>1. Writing(t) /\ pc[t] = "admit"
    BY <1>2 DEF AdmitWrite, During
  <2>2. /\ Alive' = MaxOfTwo(Alive, at[t])
        /\ Tomb' = IF Tomb <= at[t] THEN -1 ELSE Tomb
    BY <1>2, <2>1, AdmitEffect DEF AdmitWrite, Writing, EType, TypeOK
  <2>3. pc'[t] = "write" /\ \A u \in Thread : u # t => pc'[u] = pc[u]
    BY <1>2, <1>p DEF AdmitWrite
  <2>4. During(t)' /\ TombIsNewer'
    BY <1>2, <1>i, <2>1, <2>2, <2>3 DEF AdmitWrite, During, Writing, Settled, TombIsNewer
  <2> QED BY <1>o, <2>1, <2>3, <2>4 DEF AllIdle
<1>3. ASSUME NEW t \in Thread, WriteFile(t) PROVE EInv'
  <2>1. pc'[t] = "list" /\ \A u \in Thread : u # t => pc'[u] = pc[u]
    BY <1>3, <1>p DEF WriteFile
  <2>2. During(t)' /\ TombIsNewer'
    BY <1>3, <1>i, <1>l, <2>1 DEF WriteFile, During, Settled, TombIsNewer
  <2> QED BY <1>3, <1>o, <2>1, <2>2 DEF AllIdle
<1>4. ASSUME NEW t \in Thread, ListFile(t) PROVE EInv'
  <2>1. /\ pc[t] = "list" /\ pc'[t] = "idle"
        /\ \A u \in Thread : u # t => pc'[u] = pc[u]
    BY <1>4, <1>p DEF ListFile
  <2>2. During(t)' /\ TombIsNewer'
    BY <1>4, <1>l, <2>1 DEF ListFile, During, TombIsNewer
  <2>3. Settled' /\ DiskFollows'
    BY <1>4, <1>i, <1>l, <2>1 DEF ListFile, During, Settled, DiskFollows
  <2> QED BY <1>o, <2>1, <2>2, <2>3
<1>11. ASSUME NEW t \in Thread, WriteFails(t) PROVE EInv'
  <2>1. /\ pc[t] = "write" /\ pc'[t] = "idle"
        /\ \A u \in Thread : u # t => pc'[u] = pc[u]
    BY <1>11, <1>p DEF WriteFails
  <2>2. During(t)' /\ TombIsNewer'
    BY <1>11, <1>l, <2>1 DEF WriteFails, During, TombIsNewer
  <2>3. Settled' /\ DiskFollows'
    BY <1>11, <1>i, <1>l, <2>1 DEF WriteFails, During, Settled, DiskFollows
  <2> QED BY <1>o, <2>1, <2>2, <2>3
<1>12. ASSUME NEW t \in Thread, LaterFails(t) PROVE EInv'
  <2>1. /\ pc[t] = "list" /\ pc'[t] = "idle"
        /\ \A u \in Thread : u # t => pc'[u] = pc[u]
    BY <1>12, <1>p DEF LaterFails
  <2>2. During(t)' /\ TombIsNewer'
    BY <1>12, <1>l, <2>1 DEF LaterFails, During, TombIsNewer
  <2>3. Settled' /\ DiskFollows'
    BY <1>12, <1>i, <1>l, <2>1 DEF LaterFails, During, Settled, DiskFollows
  <2> QED BY <1>o, <2>1, <2>2, <2>3
<1>5. ASSUME NEW t \in Thread, NEW s \in 1..MaxStamp, BeginDelete(t, s) PROVE EInv'
  <2>2. ledger' = ledger /\ Tomb' = Tomb /\ Alive' = Alive
    BY <1>5, <1>l DEF BeginDelete
  <2>3. s \in Nat /\ s > 0
    BY EngineAssumption
  <2>4. /\ pc'[t] = IF Alive > 0 /\ Alive >= s THEN "record" ELSE "trash"
        /\ \A u \in Thread : u # t => pc'[u] = pc[u]
    BY <1>5, <1>p DEF BeginDelete, Alive
  <2>5. AllIdle
    BY <1>5, <1>o, <2>4 DEF BeginDelete, AllIdle
  <2>6. at'[t] = s
    BY <1>5, <1>i DEF BeginDelete
  <2>7. During(t)'
    BY <1>5, <1>i, <2>2, <2>3, <2>4, <2>5, <2>6
    DEF BeginDelete, During, Deleting, Settled, DiskFollows, TombIsNewer
  <2> QED BY <1>o, <2>2, <2>4, <2>7 DEF TombIsNewer, AllIdle
<1>6. ASSUME NEW t \in Thread, TrashFile(t) PROVE EInv'
  <2>1. /\ pc[t] = "trash" /\ pc'[t] = "unlist"
        /\ \A u \in Thread : u # t => pc'[u] = pc[u]
    BY <1>6, <1>p DEF TrashFile
  <2>2. During(t)' /\ TombIsNewer'
    BY <1>6, <1>l, <2>1 DEF TrashFile, During, Deleting, TombIsNewer
  <2> QED BY <1>o, <2>1, <2>2 DEF AllIdle
<1>7. ASSUME NEW t \in Thread, UnlistFile(t) PROVE EInv'
  <2>1. /\ pc[t] = "unlist" /\ pc'[t] = "record"
        /\ \A u \in Thread : u # t => pc'[u] = pc[u]
    BY <1>7, <1>p DEF UnlistFile
  <2>2. During(t)' /\ TombIsNewer'
    BY <1>7, <1>l, <2>1 DEF UnlistFile, During, Deleting, TombIsNewer
  <2> QED BY <1>o, <2>1, <2>2 DEF AllIdle
<1>8. ASSUME NEW t \in Thread, RecordDelete(t) PROVE EInv'
  <2>1. /\ pc[t] = "record" /\ pc'[t] = "idle"
        /\ \A u \in Thread : u # t => pc'[u] = pc[u]
    BY <1>8, <1>p DEF RecordDelete
  <2>2. /\ Alive' = Alive
        /\ Tomb' = IF (Alive > 0 /\ at[t] <= Alive) \/ Tomb >= at[t] THEN Tomb ELSE at[t]
    BY <1>8, RecordEffect DEF RecordDelete, EType, TypeOK
  <2>3. UNCHANGED <<disk, manifest, live, del, broken>>
    BY <1>8 DEF RecordDelete
  <2>4. CASE Deleting(t) /\ disk = 0 /\ manifest = 0
    BY <1>i, <1>o, <2>1, <2>2, <2>3, <2>4
    DEF During, Deleting, Settled, DiskFollows, TombIsNewer
  <2>5. CASE Alive > 0 /\ at[t] <= Alive /\ Settled /\ DiskFollows
    BY <1>i, <1>o, <2>1, <2>2, <2>3, <2>5
    DEF During, Settled, DiskFollows, TombIsNewer
  <2> QED BY <2>1, <2>4, <2>5 DEF During
<1>9. ASSUME NEW o \in own, Unsuppress(o) PROVE EInv'
  BY <1>9, <1>l
  DEF Unsuppress, During, Writing, Deleting, Settled, DiskFollows, TombIsNewer, AllIdle
<1>10. CASE UNCHANGED vars
  BY <1>10, <1>l
  DEF vars, During, Writing, Deleting, Settled, DiskFollows, TombIsNewer, AllIdle
<1> QED BY <1>1, <1>2, <1>3, <1>4, <1>5, <1>6, <1>7, <1>8, <1>9, <1>10, <1>11, <1>12 DEF Next, Apply

LEMMA InitHolds == Init => EType /\ EInv
<1> SUFFICES ASSUME Init PROVE EType /\ EInv
  OBVIOUS
<1>1. Tomb = -1 /\ Alive = 0
  BY DEF Init, L!EmptyLedger, L!NoStamp, Tomb, Alive, Path
<1>2. ledger \in L!Ledger
  BY DEF Init, L!EmptyLedger, L!Ledger
<1>3. EType
  BY <1>2, EngineAssumption DEF Init, EType, TypeOK, Stamp
<1>4. EInv
  BY <1>1 DEF Init, EInv, TombIsNewer, Settled, DiskFollows, During
<1> QED BY <1>3, <1>4

LEMMA ETypeInvariance == Spec => []EType
BY InitHolds, ETypeStep, PTL DEF Spec

LEMMA EInvariance == Spec /\ []Serial => [](EType /\ EInv)
BY InitHolds, ETypeStep, EInvStep, PTL DEF Spec

-----------------------------------------------------------------------------
(* The theorems.                                                            *)

(* The ledger, the manifest, the suppressed sets and the operations of      *)
(* apply_bundle and apply_deletes keep their types, overlapping or not.     *)
THEOREM TypeCorrect == Spec => []TypeOK
BY ETypeInvariance, PTL DEF EType

(* Whatever writes and deletes of a path apply_bundle and apply_deletes are *)
(* given, with whatever stamps and in whatever order: if the operations do  *)
(* not overlap, then between them the file exists exactly when the newest   *)
(* write is at least as new as the newest delete, except from a write that  *)
(* fails on the disk to the next write or delete that reaches the file.     *)
THEOREM NewestWinsSerially == Spec /\ []Serial => []NewestActionWins
<1>1. EType /\ EInv => NewestActionWins
  BY Ints DEF EInv, NewestActionWins, Settled, DiskFollows, TombIsNewer
<1> QED BY <1>1, EInvariance, PTL

(* ... and the manifest lists what is on disk.                              *)
THEOREM ManifestFollowsSerially == Spec /\ []Serial => []ManifestMatchesDisk
<1>1. EInv => ManifestMatchesDisk
  BY DEF EInv, ManifestMatchesDisk, DiskFollows
<1> QED BY <1>1, EInvariance, PTL

-----------------------------------------------------------------------------
(* LargeFile: the inductive invariant.  MCEngine has its variables under    *)
(* the names large (ledger), stage (pc), stamp (at) and held (sup).         *)

LargeTomb == large.entries[Large!File]    \* the tombstone of the path, -1 for none
LargeAlive == large.alive[Large!File]     \* its live record, 0 for none

Label == {"idle", "open", "insert", "stream", "retransmit", "take", "verify", "rename"}

(* An assembly is as InsertAssembly made it, apart from what was received   *)
(* and who waits for the rest.                                              *)
Assembly(a) ==
    /\ a = [total |-> TotalChunks, received |-> a.received, pending |-> a.pending, at |-> a.at]
    /\ a.pending \in LargeThread \cup {"none"} /\ a.at \in 1..LargeStamp

TransferType ==
    /\ large \in Large!L!Ledger
    /\ asm = Large!None \/ Assembly(asm)
    /\ tmp \in Large!Content /\ dst \in Large!Content
    /\ stage \in [LargeThread -> Label] /\ hash \in [LargeThread -> LargeThread \cup {"none"}]
    /\ stamp \in [LargeThread -> Large!Stamp]
    /\ \A t \in LargeThread : stage[t] \in {"open", "insert"} => stamp[t] \in 1..LargeStamp

(* A tombstone is newer than the live record beside it.                     *)
LargeTombIsNewer == LargeTomb = -1 \/ (LargeTomb > 0 /\ LargeTomb > LargeAlive)

(* The end of a transfer is reported when it is over.                       *)
ReportedAreOver == \A t \in LargeThread : stage[t] # "idle" => t \notin reported

(* Who commits has a hash to commit with.                                   *)
HashIsKnown == \A t \in LargeThread : stage[t] \in {"take", "verify", "rename"} => hash[t] \in LargeThread

(* While no two threads have met at the path: one thread has it to itself,  *)
OneAtPath == \A t, u \in LargeThread : stage[t] # "idle" /\ stage[u] # "idle" => t = u

(* the assembly of a transfer whose begin did not fail is there until it is *)
(* taken out, and waits for nobody else;                                    *)
AssemblyIsOwn ==
    \A t \in LargeThread \ failed :
      /\ stage[t] \in {"stream", "retransmit", "take"} => asm # Large!None
      /\ stage[t] \in {"stream", "retransmit"} => asm.pending \in {"none", t}
      /\ stage[t] \in {"take", "verify", "rename"} => hash[t] = t

(* from the second question on no tombstone comes in between, and what was  *)
(* verified is renamed;                                                     *)
CommitIsGuarded ==
    \A t \in LargeThread :
      /\ stage[t] \in {"verify", "rename"} => LargeTomb = -1
      /\ stage[t] = "rename" => \A i \in Large!Chunk : tmp[i] = hash[t]

(* and so is what is in place.                                              *)
Whole == dst # Large!Absent => \E t \in LargeThread : \A i \in Large!Chunk : dst[i] = t

Undisturbed ==
    /\ OneAtPath /\ AssemblyIsOwn /\ CommitIsGuarded /\ Whole
    /\ dst # Large!Absent => LargeTomb = -1
    /\ \A t \in LargeThread \ failed : t \in reported => t \in settled

TransferInv ==
    /\ TransferType /\ LargeTombIsNewer /\ ReportedAreOver /\ HashIsKnown
    /\ ~crossed => Undisturbed

-----------------------------------------------------------------------------
(* The ledger's operators, on the one path.                                 *)

(* The two records of the path are stamps.                                  *)
LEMMA LargeLedgerType ==
    ASSUME large \in Large!L!Ledger
    PROVE  LargeTomb \in Int /\ LargeTomb >= -1 /\ LargeAlive \in Nat
BY TransferAssumption DEF Large!L!Ledger, Large!L!NoStamp, LargeTomb, LargeAlive, Large!Path, Large!Stamp

(* record takes a delete that is newer than both records.                   *)
LEMMA LargeRecordEffect ==
    ASSUME large \in Large!L!Ledger, NEW d \in Large!Stamp, large' = Large!L!record(large, Large!File, d)
    PROVE  /\ large' \in Large!L!Ledger /\ LargeAlive' = LargeAlive
           /\ LargeTomb' = IF (LargeAlive > 0 /\ d <= LargeAlive) \/ LargeTomb >= d THEN LargeTomb ELSE d
BY DEF Large!L!Ledger, Large!L!record, Large!L!is_superseded, Large!L!NoStamp, LargeTomb, LargeAlive, Large!Path

(* admit_record leaves a tombstone only when it is newer than the action    *)
(* and than what was alive.                                                 *)
LEMMA LargeAdmitEffect ==
    ASSUME large \in Large!L!Ledger, LargeTombIsNewer, NEW s \in 1..LargeStamp,
           large' = Large!L!admit_record(large, Large!File, s, 0)
    PROVE  /\ large' \in Large!L!Ledger /\ LargeTombIsNewer'
           /\ LargeTomb' = IF LargeTomb <= s THEN -1 ELSE LargeTomb
<1>1. s # -1 /\ s \in Nat /\ s > 0 /\ s \in Large!Stamp
  BY TransferAssumption DEF Large!Stamp
<1>2. CASE Large!L!alive_record_needed(large, Large!File, s)
  <2>1. large' = [entries |-> [large.entries EXCEPT ![Large!File] = IF @ <= s THEN -1 ELSE @],
                   alive   |-> [large.alive EXCEPT ![Large!File] = IF @ >= s THEN @ ELSE s]]
    BY <1>1, <1>2 DEF Large!L!admit_record, Large!L!record_alive, Large!L!NoStamp, Large!L!MaxOf
  <2>2. /\ LargeTomb' = IF LargeTomb <= s THEN -1 ELSE LargeTomb
        /\ LargeAlive' = IF LargeAlive >= s THEN LargeAlive ELSE s
        /\ large' \in Large!L!Ledger
    BY <1>1, <2>1 DEF Large!L!Ledger, Large!L!NoStamp, LargeTomb, LargeAlive, Large!Path
  <2> QED BY <1>1, <2>2, LargeLedgerType DEF LargeTombIsNewer
<1>3. CASE ~Large!L!alive_record_needed(large, Large!File, s)
  <2>1. large' = large
    BY <1>1, <1>3 DEF Large!L!admit_record, Large!L!NoStamp
  <2>2. LargeTomb = -1 \/ LargeTomb > s
    BY <1>1, <1>3, LargeLedgerType DEF Large!L!alive_record_needed, Large!L!NoStamp, LargeTomb, LargeAlive
  <2> QED BY <1>1, <2>1, <2>2, LargeLedgerType DEF LargeTomb, LargeAlive, LargeTombIsNewer
<1> QED BY <1>2, <1>3

(* The walk over the ancestors of the path is the path: a transfer is       *)
(* vetoed by a newer tombstone.                                             *)
LEMMA LargeVetoMeans ==
    ASSUME large \in Large!L!Ledger, LargeTombIsNewer, NEW s \in 1..LargeStamp
    PROVE  Large!L!veto_for(large, Large!File, s, 0) <=> LargeTomb > s
<1>1. s # -1 /\ s \in Nat
  BY TransferAssumption
<1>2. /\ Large!Ancestors[Large!File] = <<Large!File>>
      /\ DOMAIN Large!Ancestors[Large!File] = {1} /\ Large!Ancestors[Large!File][1] = Large!File
  BY DEF Large!Ancestors, Large!Path
<1>3. Large!L!covering_tombstone(large, Large!File) = LargeTomb
  <2>1. CASE LargeTomb = -1
    <3>1. Large!L!Applicable(large, Large!File) = {}
      BY <1>2, <2>1 DEF Large!L!Applicable, Large!L!NoStamp, LargeTomb
    <3> QED BY <2>1, <3>1 DEF Large!L!covering_tombstone, Large!L!NoStamp
  <2>2. CASE LargeTomb # -1
    <3>1. Large!L!Applicable(large, Large!File) = {1}
      BY <1>2, <2>2, LargeLedgerType DEF Large!L!Applicable, Large!L!NoStamp, LargeTomb, LargeAlive, LargeTombIsNewer
    <3>2. (CHOOSE i \in {1} : \A j \in {1} : i <= j) = 1
      OBVIOUS
    <3> QED BY <1>2, <3>1, <3>2 DEF Large!L!covering_tombstone, LargeTomb
  <2> QED BY <2>1, <2>2
<1> QED BY <1>1, <1>3 DEF Large!L!veto_for, Large!L!Comparand, Large!L!NoStamp

-----------------------------------------------------------------------------
(* Every step keeps the invariant.                                          *)

(* A thread that moves on to a label of a transfer that is under way has    *)
(* had the path to itself, or threads have met.                             *)
LEMMA StillAlone ==
    ASSUME NEW t \in LargeThread, NEW label \in Label, stage \in [LargeThread -> Label],
           OneAtPath, stage[t] # "idle", Large!Goto(t, label)
    PROVE  /\ stage' \in [LargeThread -> Label] /\ stage'[t] = label
           /\ \A u \in LargeThread : u # t => stage[u] = "idle" /\ stage'[u] = "idle"
           /\ OneAtPath'
BY DEF OneAtPath, Large!Goto

(* begin_large_file_with_action.                                            *)
LEMMA BeginStep ==
    ASSUME TransferInv, NEW t \in LargeThread, NEW s \in 1..LargeStamp, Large!Begin(t, s)
    PROVE  TransferInv'
<1> USE DEF TransferInv
<1>1. TransferType /\ LargeTombIsNewer /\ s \in Large!Stamp /\ stage[t] = "idle"
  BY TransferAssumption DEF Large!Begin, Large!Stamp
<1>2. Large!L!veto_for(large, Large!File, s, 0) <=> LargeTomb > s
  BY <1>1, LargeVetoMeans DEF TransferType
<1>3. /\ stamp' \in [LargeThread -> Large!Stamp] /\ stamp'[t] = s
      /\ \A u \in LargeThread : u # t => stamp'[u] = stamp[u]
  BY <1>1 DEF Large!Begin, TransferType
<1>4. UNCHANGED <<asm, tmp, dst, hash>> /\ reported' = reported \ {t} /\ failed' = failed \ {t}
  BY DEF Large!Begin
<1>5. CASE LargeTomb > s
  <2>1. /\ stage' = stage /\ large' = large /\ LargeTomb' = LargeTomb /\ LargeAlive' = LargeAlive
        /\ settled' = settled \cup {t}
    BY <1>1, <1>2, <1>5 DEF Large!Begin, Large!Goto, TransferType, LargeTomb, LargeAlive
  <2>2. TransferType' /\ LargeTombIsNewer' /\ ReportedAreOver' /\ HashIsKnown'
    BY <1>1, <1>3, <1>4, <2>1
    DEF TransferType, LargeTombIsNewer, ReportedAreOver, HashIsKnown, Large!Content, Assembly
  <2>3. ~crossed' => Undisturbed
    BY DEF Large!Begin, Large!Crossing
  <2>4. Undisturbed => Undisturbed'
    BY <1>1, <1>4, <2>1 DEF Undisturbed, OneAtPath, AssemblyIsOwn, CommitIsGuarded, Whole
  <2> QED BY <2>2, <2>3, <2>4
<1>6. CASE ~(LargeTomb > s)
  <2>1. /\ Large!Goto(t, "open") /\ settled' = settled \ {t}
        /\ large' = Large!L!admit_record(large, Large!File, s, 0)
    BY <1>2, <1>6 DEF Large!Begin
  <2>2. /\ stage' \in [LargeThread -> Label] /\ stage'[t] = "open"
        /\ \A u \in LargeThread : u # t => stage'[u] = stage[u]
    BY <1>1, <2>1 DEF Large!Goto, TransferType, Label
  <2>3. large' \in Large!L!Ledger /\ LargeTombIsNewer' /\ LargeTomb' = IF LargeTomb <= s THEN -1 ELSE LargeTomb
    BY <1>1, <2>1, LargeAdmitEffect DEF TransferType
  <2>4. TransferType' /\ ReportedAreOver' /\ HashIsKnown'
    BY <1>1, <1>3, <1>4, <2>2, <2>3
    DEF TransferType, ReportedAreOver, HashIsKnown, Large!Content, Assembly
  <2>5. ASSUME ~crossed' PROVE Undisturbed'
    <3>1. Undisturbed /\ \A u \in LargeThread : u # t => stage[u] = "idle"
      BY <2>5 DEF Large!Begin, Large!Crossing
    <3>2. \A u \in LargeThread : u # t => stage'[u] = "idle"
      BY <2>2, <3>1
    <3>3. LargeTomb = -1 => LargeTomb' = -1
      BY <2>3
    <3>4. Whole' /\ (dst' # Large!Absent => LargeTomb' = -1)
      BY <1>4, <3>1, <3>3 DEF Undisturbed, Whole
    <3>5. \A u \in LargeThread \ failed' : u \in reported' => u \in settled'
      BY <1>4, <2>1, <3>1 DEF Undisturbed
    <3> QED BY <2>2, <3>2, <3>4, <3>5
            DEF Undisturbed, OneAtPath, AssemblyIsOwn, CommitIsGuarded
  <2> QED BY <2>3, <2>4, <2>5
<1> QED BY <1>5, <1>6

(* A thread that has the path to itself goes on: what it leaves is about it *)
(* alone.                                                                   *)
LEMMA GoesOn ==
    ASSUME NEW t \in LargeThread, NEW label \in Label, stage \in [LargeThread -> Label],
           Undisturbed, stage[t] # "idle", Large!Goto(t, label),
           label \in {"stream", "retransmit", "take"} /\ t \notin failed' => asm' # Large!None,
           label \in {"stream", "retransmit"} /\ t \notin failed' => asm'.pending \in {"none", t},
           label \in {"take", "verify", "rename"} /\ t \notin failed' => hash'[t] = t,
           label \in {"verify", "rename"} => LargeTomb' = -1,
           label = "rename" => \A i \in Large!Chunk : tmp'[i] = hash'[t],
           Whole', dst' # Large!Absent => LargeTomb' = -1,
           \A u \in LargeThread \ failed' : u \in reported' => u \in settled'
    PROVE  Undisturbed'
<1>1. /\ stage'[t] = label /\ OneAtPath'
      /\ \A u \in LargeThread : u # t => stage'[u] = "idle"
  BY StillAlone DEF Undisturbed
<1>2. AssemblyIsOwn'
  BY <1>1 DEF AssemblyIsOwn
<1>3. CommitIsGuarded'
  BY <1>1 DEF CommitIsGuarded
<1> QED BY <1>1, <1>2, <1>3 DEF Undisturbed

(* What a step of t leaves alone for the others.                            *)
LEMMA Moved ==
    ASSUME TransferType, NEW t \in LargeThread, NEW label \in Label, Large!Goto(t, label)
    PROVE  /\ stage' \in [LargeThread -> Label] /\ stage'[t] = label
           /\ \A u \in LargeThread : u # t => stage'[u] = stage[u]
BY DEF TransferType, Large!Goto

(* The staging file is opened.                                              *)
LEMMA OpenStep ==
    ASSUME TransferInv, NEW t \in LargeThread, Large!OpenStaging(t)
    PROVE  TransferInv'
<1> USE DEF TransferInv
<1>1. /\ stage[t] = "open" /\ Large!Goto(t, "insert") /\ "insert" \in Label /\ tmp' = Large!Empty
      /\ UNCHANGED <<large, asm, dst, stamp, hash, reported, settled, failed, crossed>>
  BY DEF Large!OpenStaging, Label
<1>2. /\ stage' \in [LargeThread -> Label] /\ stage'[t] = "insert"
      /\ \A u \in LargeThread : u # t => stage'[u] = stage[u]
  BY <1>1, Moved
<1>3. LargeTomb' = LargeTomb /\ LargeAlive' = LargeAlive
  BY <1>1 DEF LargeTomb, LargeAlive
<1>4. Large!Empty \in Large!Content
  BY DEF Large!Empty, Large!Content
<1>5. TransferType' /\ LargeTombIsNewer' /\ ReportedAreOver' /\ HashIsKnown'
  BY <1>1, <1>2, <1>3, <1>4
  DEF TransferType, LargeTombIsNewer, ReportedAreOver, HashIsKnown, Assembly
<1>6. ASSUME ~crossed' PROVE Undisturbed'
  <2>1. Undisturbed /\ stage \in [LargeThread -> Label]
    BY <1>1, <1>6 DEF TransferType
  <2>2. Whole' /\ (dst' # Large!Absent => LargeTomb' = -1) /\ \A u \in LargeThread \ failed' : u \in reported' => u \in settled'
    BY <1>1, <1>3, <2>1 DEF Undisturbed, Whole
  <2> QED BY <1>1, <2>1, <2>2, GoesOn
<1> QED BY <1>5, <1>6

(* begin_large_file_with_action fails: the stream goes on without an        *)
(* assembly of its own.                                                     *)
LEMMA FailStep ==
    ASSUME TransferInv, NEW t \in LargeThread, Large!BeginFails(t)
    PROVE  TransferInv'
<1> USE DEF TransferInv
<1>1. /\ stage[t] = "open" /\ Large!Goto(t, "stream") /\ "stream" \in Label
      /\ tmp' \in {tmp, Large!Empty} /\ failed' = failed \cup {t}
      /\ UNCHANGED <<large, asm, dst, stamp, hash, reported, settled, crossed>>
  BY DEF Large!BeginFails, Label
<1>2. /\ stage' \in [LargeThread -> Label] /\ stage'[t] = "stream"
      /\ \A u \in LargeThread : u # t => stage'[u] = stage[u]
  BY <1>1, Moved
<1>3. LargeTomb' = LargeTomb /\ LargeAlive' = LargeAlive
  BY <1>1 DEF LargeTomb, LargeAlive
<1>4. tmp' \in Large!Content
  BY <1>1 DEF Large!Empty, Large!Content, TransferType
<1>5. TransferType' /\ LargeTombIsNewer' /\ ReportedAreOver' /\ HashIsKnown'
  BY <1>1, <1>2, <1>3, <1>4
  DEF TransferType, LargeTombIsNewer, ReportedAreOver, HashIsKnown, Assembly
<1>6. ASSUME ~crossed' PROVE Undisturbed'
  <2>1. Undisturbed /\ stage \in [LargeThread -> Label]
    BY <1>1, <1>6 DEF TransferType
  <2>2. Whole' /\ (dst' # Large!Absent => LargeTomb' = -1) /\ \A u \in LargeThread \ failed' : u \in reported' => u \in settled'
    BY <1>1, <1>3, <2>1 DEF Undisturbed, Whole
  <2> QED BY <1>1, <2>1, <2>2, GoesOn
<1> QED BY <1>5, <1>6

(* The assembly is inserted.                                                *)
LEMMA InsertStep ==
    ASSUME TransferInv, NEW t \in LargeThread, Large!InsertAssembly(t)
    PROVE  TransferInv'
<1> USE DEF TransferInv
<1>1. /\ stage[t] = "insert" /\ Large!Goto(t, "stream") /\ "stream" \in Label
      /\ asm' = [total |-> TotalChunks, received |-> {}, pending |-> "none", at |-> stamp[t]]
      /\ UNCHANGED <<large, tmp, dst, stamp, hash, reported, settled, failed, crossed>>
  BY DEF Large!InsertAssembly, Label
<1>2. /\ stage' \in [LargeThread -> Label] /\ stage'[t] = "stream"
      /\ \A u \in LargeThread : u # t => stage'[u] = stage[u]
  BY <1>1, Moved
<1>3. LargeTomb' = LargeTomb /\ LargeAlive' = LargeAlive
  BY <1>1 DEF LargeTomb, LargeAlive
<1>4. Assembly(asm') /\ asm' # Large!None /\ asm'.pending = "none"
  BY <1>1, TransferAssumption DEF Assembly, TransferType, Large!None
<1>5. TransferType' /\ LargeTombIsNewer' /\ ReportedAreOver' /\ HashIsKnown'
  BY <1>1, <1>2, <1>3, <1>4
  DEF TransferType, LargeTombIsNewer, ReportedAreOver, HashIsKnown, Large!Content
<1>6. ASSUME ~crossed' PROVE Undisturbed'
  <2>1. Undisturbed /\ stage \in [LargeThread -> Label]
    BY <1>1, <1>6 DEF TransferType
  <2>2. Whole' /\ (dst' # Large!Absent => LargeTomb' = -1) /\ \A u \in LargeThread \ failed' : u \in reported' => u \in settled'
    BY <1>1, <1>3, <2>1 DEF Undisturbed, Whole
  <2> QED BY <1>1, <1>4, <2>1, <2>2, GoesOn
<1> QED BY <1>5, <1>6

(* receive_large_file_chunk.                                                *)
LEMMA ChunkStep ==
    ASSUME TransferInv, NEW t \in LargeThread, Large!RecvChunk(t)
    PROVE  TransferInv'
<1> USE DEF TransferInv
<1> DEFINE i == Head(left[t])
           got == asm.received \cup {i}
           stored == asm # Large!None /\ tmp # Large!Absent
           complete == stored /\ asm.pending # "none" /\ Large!Cardinality(got) = asm.total
           over == stage[t] = "retransmit" /\ Len(left[t]) = 1
           label == IF complete THEN "take" ELSE IF over THEN "idle" ELSE stage[t]
<1>1. /\ stage[t] \in {"stream", "retransmit"} /\ Large!Goto(t, label)
      /\ tmp' = (IF stored THEN [tmp EXCEPT ![i] = t] ELSE tmp)
      /\ asm' = (IF stored THEN [asm EXCEPT !.received = got] ELSE asm)
      /\ hash' = (IF complete THEN [hash EXCEPT ![t] = asm.pending] ELSE hash)
      /\ UNCHANGED <<large, dst, stamp, reported, settled, failed, crossed>>
  BY DEF Large!RecvChunk
<1>2. label \in Label /\ label \in {"take", "idle", "stream", "retransmit"}
  BY <1>1 DEF Label
<1>3. complete => stored /\ asm.pending # "none" /\ label = "take"
  OBVIOUS
<1>4. ~complete => label # "take"
  BY <1>1
<1>5. stored => asm # Large!None /\ tmp # Large!Absent
  OBVIOUS
<1> HIDE DEF i, got, stored, complete, over, label
<1>6. /\ stage' \in [LargeThread -> Label] /\ stage'[t] = label
      /\ \A u \in LargeThread : u # t => stage'[u] = stage[u]
  BY <1>1, <1>2, Moved
<1>7. LargeTomb' = LargeTomb /\ LargeAlive' = LargeAlive
  BY <1>1 DEF LargeTomb, LargeAlive
<1>8. /\ asm' = Large!None \/ Assembly(asm')
      /\ asm # Large!None => asm' # Large!None /\ asm'.pending = asm.pending
  <2>1. CASE stored
    BY <1>1, <1>5, <2>1, TransferAssumption DEF Assembly, TransferType, Large!None
  <2>2. CASE ~stored
    BY <1>1, <2>2 DEF TransferType
  <2> QED BY <2>1, <2>2
<1>9. tmp' \in Large!Content
  BY <1>1, <1>5 DEF TransferType, Large!Content
<1>10. /\ hash' \in [LargeThread -> LargeThread \cup {"none"}]
       /\ complete => hash'[t] = asm.pending /\ hash'[t] \in LargeThread
       /\ \A u \in LargeThread : u # t => hash'[u] = hash[u]
  <2>1. complete => asm.pending \in LargeThread
    BY <1>3, <1>5 DEF TransferType, Assembly
  <2> QED BY <1>1, <2>1 DEF TransferType
<1>11. TransferType' /\ LargeTombIsNewer'
  BY <1>1, <1>2, <1>6, <1>7, <1>8, <1>9, <1>10 DEF TransferType, LargeTombIsNewer
<1>12. ReportedAreOver'
  BY <1>1, <1>6 DEF ReportedAreOver
<1>13. HashIsKnown'
  BY <1>1, <1>2, <1>4, <1>6, <1>10 DEF HashIsKnown
<1>14. ASSUME ~crossed' PROVE Undisturbed'
  <2>1. Undisturbed /\ stage \in [LargeThread -> Label] /\ stage[t] # "idle"
    BY <1>1, <1>14 DEF TransferType
  <2>2. Whole' /\ (dst' # Large!Absent => LargeTomb' = -1) /\ \A u \in LargeThread \ failed' : u \in reported' => u \in settled'
    BY <1>1, <1>7, <2>1 DEF Undisturbed, Whole
  <2>3. t \notin failed' => /\ asm' # Large!None /\ asm'.pending \in {"none", t}
                            /\ asm.pending \in {"none", t}
    BY <1>1, <1>8, <2>1 DEF Undisturbed, AssemblyIsOwn
  <2>4. complete /\ t \notin failed' => hash'[t] = t
    BY <1>3, <1>10, <2>3
  <2> QED BY <1>1, <1>2, <1>4, <2>1, <2>2, <2>3, <2>4, GoesOn
<1> QED BY <1>11, <1>12, <1>13, <1>14

(* finish_large_file.                                                       *)
LEMMA EndStep ==
    ASSUME TransferInv, NEW t \in LargeThread, Large!RecvEnd(t)
    PROVE  TransferInv'
<1> USE DEF TransferInv
<1>1. /\ stage[t] = "stream" /\ stage[t] # "idle"
      /\ UNCHANGED <<large, tmp, dst, stamp, settled, failed, crossed>>
  BY DEF Large!RecvEnd
<1>2. LargeTomb' = LargeTomb /\ LargeAlive' = LargeAlive /\ LargeTombIsNewer'
  BY <1>1 DEF LargeTomb, LargeAlive, LargeTombIsNewer
<1>3. {"idle", "retransmit", "take"} \subseteq Label
  BY DEF Label
<1>4. ~crossed' => /\ Undisturbed /\ stage \in [LargeThread -> Label]
                   /\ t \notin failed => asm # Large!None
  BY <1>1 DEF TransferType, Undisturbed, AssemblyIsOwn
<1>5. ~crossed' => Whole' /\ (dst' # Large!Absent => LargeTomb' = -1)
  BY <1>1, <1>2, <1>4 DEF Undisturbed, Whole
<1>6. CASE asm = Large!None /\ Large!Goto(t, "idle") /\ reported' = reported \cup {t} /\ UNCHANGED <<asm, hash>>
  <2>1. /\ stage' \in [LargeThread -> Label] /\ stage'[t] = "idle"
        /\ \A u \in LargeThread : u # t => stage'[u] = stage[u]
    BY <1>3, <1>6, Moved
  <2>2. TransferType' /\ ReportedAreOver' /\ HashIsKnown'
    BY <1>1, <1>6, <2>1 DEF TransferType, ReportedAreOver, HashIsKnown
  <2>3. ASSUME ~crossed' PROVE Undisturbed'
    <3>1. \A u \in LargeThread \ failed' : u \in reported' => u \in settled'
      BY <1>1, <1>4, <1>6, <2>3 DEF Undisturbed
    <3> QED BY <1>1, <1>3, <1>4, <1>5, <1>6, <2>3, <3>1, GoesOn
  <2> QED BY <1>2, <2>2, <2>3
<1>7. CASE /\ asm # Large!None /\ Large!Goto(t, "retransmit") /\ asm' = [asm EXCEPT !.pending = t]
           /\ UNCHANGED <<hash, reported>>
  <2>1. /\ stage' \in [LargeThread -> Label] /\ stage'[t] = "retransmit"
        /\ \A u \in LargeThread : u # t => stage'[u] = stage[u]
    BY <1>3, <1>7, Moved
  <2>2. Assembly(asm') /\ asm' # Large!None /\ asm'.pending = t
    BY <1>7, TransferAssumption DEF Assembly, TransferType, Large!None
  <2>3. TransferType' /\ ReportedAreOver' /\ HashIsKnown'
    BY <1>1, <1>7, <2>1, <2>2 DEF TransferType, ReportedAreOver, HashIsKnown
  <2>4. ASSUME ~crossed' PROVE Undisturbed'
    <3>1. \A u \in LargeThread \ failed' : u \in reported' => u \in settled'
      BY <1>1, <1>4, <1>7, <2>4 DEF Undisturbed
    <3> QED BY <1>1, <1>3, <1>4, <1>5, <1>7, <2>2, <2>4, <3>1, GoesOn
  <2> QED BY <1>2, <2>3, <2>4
<1>8. CASE /\ asm # Large!None /\ Large!Goto(t, "take") /\ hash' = [hash EXCEPT ![t] = t]
           /\ UNCHANGED <<asm, reported>>
  <2>1. /\ stage' \in [LargeThread -> Label] /\ stage'[t] = "take"
        /\ \A u \in LargeThread : u # t => stage'[u] = stage[u]
    BY <1>3, <1>8, Moved
  <2>2. /\ hash' \in [LargeThread -> LargeThread \cup {"none"}] /\ hash'[t] = t
        /\ \A u \in LargeThread : u # t => hash'[u] = hash[u]
    BY <1>8 DEF TransferType
  <2>3. TransferType' /\ ReportedAreOver' /\ HashIsKnown'
    BY <1>1, <1>8, <2>1, <2>2 DEF TransferType, ReportedAreOver, HashIsKnown
  <2>4. ASSUME ~crossed' PROVE Undisturbed'
    <3>1. \A u \in LargeThread \ failed' : u \in reported' => u \in settled'
      BY <1>1, <1>4, <1>8, <2>4 DEF Undisturbed
    <3> QED BY <1>1, <1>3, <1>4, <1>5, <1>8, <2>2, <2>4, <3>1, GoesOn
  <2> QED BY <1>2, <2>3, <2>4
<1> QED BY <1>6, <1>7, <1>8 DEF Large!RecvEnd

(* commit_large_file takes the assembly out and asks again.                 *)
LEMMA TakeStep ==
    ASSUME TransferInv, NEW t \in LargeThread, Large!TakeAssembly(t)
    PROVE  TransferInv'
<1> USE DEF TransferInv
<1>1. /\ stage[t] = "take" /\ stage[t] # "idle" /\ asm' = Large!None
      /\ UNCHANGED <<dst, hash, failed, crossed>>
  BY DEF Large!TakeAssembly
<1>2. {"idle", "verify"} \subseteq Label
  BY DEF Label
<1>3. ~crossed' => /\ Undisturbed /\ stage \in [LargeThread -> Label]
                   /\ t \notin failed => asm # Large!None /\ hash[t] = t
  BY <1>1 DEF TransferType, Undisturbed, AssemblyIsOwn
<1>4. CASE asm = Large!None /\ Large!Goto(t, "idle") /\ reported' = reported \cup {t} /\ UNCHANGED <<large, tmp, stamp, settled>>
  <2>1. /\ stage' \in [LargeThread -> Label] /\ stage'[t] = "idle"
        /\ \A u \in LargeThread : u # t => stage'[u] = stage[u]
    BY <1>2, <1>4, Moved
  <2>2. TransferType' /\ LargeTombIsNewer' /\ ReportedAreOver' /\ HashIsKnown'
    BY <1>1, <1>4, <2>1
    DEF TransferType, ReportedAreOver, HashIsKnown, LargeTombIsNewer, LargeTomb, LargeAlive
  <2>3. ASSUME ~crossed' PROVE Undisturbed'
    <3>1. /\ \A u \in LargeThread \ failed' : u \in reported' => u \in settled'
          /\ Whole' /\ (dst' # Large!Absent => LargeTomb' = -1)
      BY <1>1, <1>3, <1>4, <2>3 DEF Undisturbed, Whole, LargeTomb
    <3> QED BY <1>1, <1>2, <1>3, <1>4, <2>3, <3>1, GoesOn
  <2> QED BY <2>2, <2>3
<1>5. CASE /\ Large!Goto(t, "idle") /\ tmp' = Large!Absent /\ reported' = reported \cup {t}
           /\ settled' = settled \cup {t} /\ UNCHANGED <<large, stamp>>
  <2>1. /\ stage' \in [LargeThread -> Label] /\ stage'[t] = "idle"
        /\ \A u \in LargeThread : u # t => stage'[u] = stage[u]
    BY <1>2, <1>5, Moved
  <2>2. LargeTomb' = LargeTomb /\ LargeAlive' = LargeAlive
    BY <1>5 DEF LargeTomb, LargeAlive
  <2>3. TransferType' /\ LargeTombIsNewer' /\ ReportedAreOver' /\ HashIsKnown'
    BY <1>1, <1>5, <2>1, <2>2
    DEF TransferType, ReportedAreOver, HashIsKnown, LargeTombIsNewer, Large!Content
  <2>4. ASSUME ~crossed' PROVE Undisturbed'
    <3>1. /\ \A u \in LargeThread \ failed' : u \in reported' => u \in settled'
          /\ Whole' /\ (dst' # Large!Absent => LargeTomb' = -1)
      BY <1>1, <1>3, <1>5, <2>2, <2>4 DEF Undisturbed, Whole
    <3> QED BY <1>1, <1>2, <1>3, <1>5, <2>4, <3>1, GoesOn
  <2> QED BY <2>3, <2>4
<1>6. CASE /\ asm # Large!None /\ ~Large!L!veto_for(large, Large!File, asm.at, 0)
           /\ Large!Goto(t, "verify") /\ stamp' = [stamp EXCEPT ![t] = asm.at]
           /\ large' = Large!L!admit_record(large, Large!File, asm.at, 0)
           /\ UNCHANGED <<tmp, reported, settled>>
  <2> DEFINE s == asm.at
  <2>1. s \in 1..LargeStamp /\ s \in Large!Stamp
    BY <1>6, TransferAssumption DEF TransferType, Assembly, Large!Stamp
  <2>2. large \in Large!L!Ledger /\ large' = Large!L!admit_record(large, Large!File, s, 0)
    BY <1>6 DEF TransferType
  <2>3. ~(LargeTomb > s)
    BY <1>6, <2>1, <2>2, LargeVetoMeans
  <2> HIDE DEF s
  <2>4. large' \in Large!L!Ledger /\ LargeTombIsNewer' /\ LargeTomb' = IF LargeTomb <= s THEN -1 ELSE LargeTomb
    BY <2>1, <2>2, LargeAdmitEffect
  <2>5. LargeTomb' = -1
    BY <2>1, <2>2, <2>3, <2>4, LargeLedgerType, TransferAssumption
  <2>6. /\ stage' \in [LargeThread -> Label] /\ stage'[t] = "verify"
        /\ \A u \in LargeThread : u # t => stage'[u] = stage[u]
    BY <1>2, <1>6, Moved
  <2>7. /\ stamp' \in [LargeThread -> Large!Stamp]
        /\ \A u \in LargeThread : u # t => stamp'[u] = stamp[u]
    BY <1>6, <2>1 DEF TransferType, s
  <2>8. TransferType' /\ ReportedAreOver' /\ HashIsKnown'
    BY <1>1, <1>6, <2>4, <2>6, <2>7 DEF TransferType, ReportedAreOver, HashIsKnown
  <2>9. ASSUME ~crossed' PROVE Undisturbed'
    <3>1. Whole' /\ \A u \in LargeThread \ failed' : u \in reported' => u \in settled'
      BY <1>1, <1>3, <1>6, <2>9 DEF Undisturbed, Whole
    <3>2. t \notin failed' => hash'[t] = t
      BY <1>1, <1>3, <2>9
    <3> QED BY <1>1, <1>2, <1>3, <1>6, <2>5, <2>9, <3>1, <3>2, GoesOn
  <2> QED BY <2>4, <2>8, <2>9
<1> QED BY <1>4, <1>5, <1>6 DEF Large!TakeAssembly

(* commit_large_file compares the hash of the staging file.                 *)
LEMMA VerifyStep ==
    ASSUME TransferInv, NEW t \in LargeThread, Large!VerifyHash(t)
    PROVE  TransferInv'
<1> USE DEF TransferInv
<1>1. /\ stage[t] = "verify" /\ stage[t] # "idle"
      /\ UNCHANGED <<large, asm, dst, stamp, hash, reported, settled, failed, crossed>>
  BY DEF Large!VerifyHash
<1>2. {"idle", "rename"} \subseteq Label
  BY DEF Label
<1>3. LargeTomb' = LargeTomb /\ LargeAlive' = LargeAlive
  BY <1>1 DEF LargeTomb, LargeAlive
<1>4. ASSUME ~crossed'
      PROVE  /\ Undisturbed /\ stage \in [LargeThread -> Label] /\ LargeTomb' = -1
             /\ t \notin failed => hash[t] = t
             /\ Whole' /\ \A u \in LargeThread \ failed' : u \in reported' => u \in settled'
  <2>1. Undisturbed
    BY <1>1, <1>4
  <2> QED BY <1>1, <1>3, <2>1 DEF TransferType, Undisturbed, AssemblyIsOwn, CommitIsGuarded, Whole
<1>5. CASE Large!Goto(t, "rename") /\ (\A i \in Large!Chunk : tmp[i] = hash[t]) /\ tmp' = tmp
  <2>1. /\ stage' \in [LargeThread -> Label] /\ stage'[t] = "rename"
        /\ \A u \in LargeThread : u # t => stage'[u] = stage[u]
    BY <1>2, <1>5, Moved
  <2>2. TransferType' /\ LargeTombIsNewer' /\ ReportedAreOver' /\ HashIsKnown'
    BY <1>1, <1>3, <1>5, <2>1
    DEF TransferType, LargeTombIsNewer, ReportedAreOver, HashIsKnown
  <2>3. ASSUME ~crossed' PROVE Undisturbed'
    <3>1. (t \notin failed' => hash'[t] = t) /\ \A i \in Large!Chunk : tmp'[i] = hash'[t]
      BY <1>1, <1>4, <1>5, <2>3
    <3> QED BY <1>1, <1>2, <1>4, <1>5, <2>3, <3>1, GoesOn
  <2> QED BY <2>2, <2>3
<1>6. CASE Large!Goto(t, "idle") /\ tmp' = Large!Absent
  <2>1. /\ stage' \in [LargeThread -> Label] /\ stage'[t] = "idle"
        /\ \A u \in LargeThread : u # t => stage'[u] = stage[u]
    BY <1>2, <1>6, Moved
  <2>2. TransferType' /\ LargeTombIsNewer' /\ ReportedAreOver' /\ HashIsKnown'
    BY <1>1, <1>3, <1>6, <2>1
    DEF TransferType, LargeTombIsNewer, ReportedAreOver, HashIsKnown, Large!Content
  <2>3. ASSUME ~crossed' PROVE Undisturbed'
    BY <1>1, <1>2, <1>4, <1>6, <2>3, GoesOn
  <2> QED BY <2>2, <2>3
<1> QED BY <1>5, <1>6 DEF Large!VerifyHash

(* commit_large_file puts the staging file in place.                        *)
LEMMA RenameStep ==
    ASSUME TransferInv, NEW t \in LargeThread, Large!RenameStaging(t)
    PROVE  TransferInv'
<1> USE DEF TransferInv
<1>1. /\ stage[t] = "rename" /\ stage[t] # "idle" /\ Large!Goto(t, "idle") /\ "idle" \in Label
      /\ UNCHANGED <<large, asm, stamp, hash, failed, crossed>>
  BY DEF Large!RenameStaging, Label
<1>2. /\ stage' \in [LargeThread -> Label] /\ stage'[t] = "idle"
      /\ \A u \in LargeThread : u # t => stage'[u] = stage[u]
  BY <1>1, Moved
<1>3. LargeTomb' = LargeTomb /\ LargeAlive' = LargeAlive
  BY <1>1 DEF LargeTomb, LargeAlive
<1>4. ASSUME ~crossed'
      PROVE  /\ Undisturbed /\ stage \in [LargeThread -> Label] /\ LargeTomb' = -1
             /\ t \notin failed => hash[t] = t
             /\ hash[t] \in LargeThread /\ \A i \in Large!Chunk : tmp[i] = hash[t]
  <2>1. Undisturbed
    BY <1>1, <1>4
  <2> QED BY <1>1, <1>3, <2>1 DEF TransferType, Undisturbed, AssemblyIsOwn, CommitIsGuarded, HashIsKnown
<1>5. CASE UNCHANGED <<tmp, dst, reported, settled>>
  <2>1. TransferType' /\ LargeTombIsNewer' /\ ReportedAreOver' /\ HashIsKnown'
    BY <1>1, <1>2, <1>3, <1>5
    DEF TransferType, LargeTombIsNewer, ReportedAreOver, HashIsKnown
  <2>2. ASSUME ~crossed' PROVE Undisturbed'
    <3>1. Whole' /\ \A u \in LargeThread \ failed' : u \in reported' => u \in settled'
      BY <1>1, <1>4, <1>5, <2>2 DEF Undisturbed, Whole
    <3> QED BY <1>1, <1>4, <2>2, <3>1, GoesOn
  <2> QED BY <2>1, <2>2
<1>6. CASE /\ dst' = tmp /\ tmp' = Large!Absent /\ reported' = reported \cup {t}
           /\ settled' = settled \cup {hash[t]}
  <2>1. TransferType' /\ LargeTombIsNewer' /\ ReportedAreOver' /\ HashIsKnown'
    BY <1>1, <1>2, <1>3, <1>6
    DEF TransferType, LargeTombIsNewer, ReportedAreOver, HashIsKnown, Large!Content
  <2>2. ASSUME ~crossed' PROVE Undisturbed'
    <3>1. Whole' /\ \A u \in LargeThread \ failed' : u \in reported' => u \in settled'
      BY <1>1, <1>4, <1>6, <2>2 DEF Undisturbed, Whole
    <3> QED BY <1>1, <1>4, <2>2, <3>1, GoesOn
  <2> QED BY <2>1, <2>2
<1> QED BY <1>5, <1>6 DEF Large!RenameStaging

(* A stream breaks off.                                                     *)
LEMMA BreakStep ==
    ASSUME TransferInv, NEW t \in LargeThread, Large!BreakOff(t)
    PROVE  TransferInv'
<1> USE DEF TransferInv
<1>1. /\ stage[t] # "idle" /\ Large!Goto(t, "idle") /\ "idle" \in Label
      /\ UNCHANGED <<large, asm, tmp, dst, stamp, hash, reported, settled, failed, crossed>>
  BY DEF Large!BreakOff, Label
<1>2. /\ stage' \in [LargeThread -> Label] /\ stage'[t] = "idle"
      /\ \A u \in LargeThread : u # t => stage'[u] = stage[u]
  BY <1>1, Moved
<1>3. LargeTomb' = LargeTomb /\ LargeAlive' = LargeAlive
  BY <1>1 DEF LargeTomb, LargeAlive
<1>4. TransferType' /\ LargeTombIsNewer' /\ ReportedAreOver' /\ HashIsKnown'
  BY <1>1, <1>2, <1>3 DEF TransferType, LargeTombIsNewer, ReportedAreOver, HashIsKnown
<1>5. ASSUME ~crossed' PROVE Undisturbed'
  <2>1. Undisturbed /\ stage \in [LargeThread -> Label]
    BY <1>1, <1>5 DEF TransferType
  <2>2. Whole' /\ (dst' # Large!Absent => LargeTomb' = -1) /\ \A u \in LargeThread \ failed' : u \in reported' => u \in settled'
    BY <1>1, <1>3, <2>1 DEF Undisturbed, Whole
  <2> QED BY <1>1, <2>1, <2>2, GoesOn
<1> QED BY <1>4, <1>5

(* clear_in_progress, when nobody is at the path.                           *)
LEMMA ClearStep ==
    ASSUME TransferInv, Large!ClearInProgress
    PROVE  TransferInv'
<1> USE DEF TransferInv
<1>1. /\ \A t \in LargeThread : stage[t] = "idle"
      /\ asm' = Large!None /\ tmp' = Large!Absent
      /\ UNCHANGED <<large, dst, stage, stamp, hash, reported, settled, failed, crossed>>
  BY DEF Large!ClearInProgress
<1>2. LargeTomb' = LargeTomb /\ LargeAlive' = LargeAlive
  BY <1>1 DEF LargeTomb, LargeAlive
<1>3. TransferType' /\ LargeTombIsNewer' /\ ReportedAreOver' /\ HashIsKnown'
  BY <1>1, <1>2 DEF TransferType, LargeTombIsNewer, ReportedAreOver, HashIsKnown, Large!Content
<1>4. ~crossed' => Undisturbed'
  BY <1>1, <1>2 DEF Undisturbed, OneAtPath, AssemblyIsOwn, CommitIsGuarded, Whole
<1> QED BY <1>3, <1>4

(* apply_deletes: the file goes, and a tombstone stays only when it is      *)
(* newer than what was alive.                                               *)
LEMMA DeleteStep ==
    ASSUME TransferInv, NEW t \in LargeThread, NEW s \in 1..LargeStamp, Large!Delete(t, s)
    PROVE  TransferInv'
<1> USE DEF TransferInv
<1>1. /\ stage[t] \in {"idle", "stream", "retransmit"} /\ dst' = Large!Absent
      /\ ~(LargeAlive > 0 /\ LargeAlive >= s) /\ large' = Large!L!record(large, Large!File, s)
      /\ UNCHANGED <<asm, tmp, stage, stamp, hash, reported, settled, failed>>
  BY DEF Large!Delete, LargeAlive
<1>2. s \in Large!Stamp /\ s \in Nat /\ s > 0 /\ large \in Large!L!Ledger
  BY TransferAssumption DEF Large!Stamp, TransferType
<1>3. /\ large' \in Large!L!Ledger /\ LargeAlive' = LargeAlive
      /\ LargeTomb' = IF (LargeAlive > 0 /\ s <= LargeAlive) \/ LargeTomb >= s THEN LargeTomb ELSE s
  BY <1>1, <1>2, LargeRecordEffect
<1>4. LargeTombIsNewer'
  BY <1>1, <1>2, <1>3, LargeLedgerType DEF LargeTombIsNewer
<1>5. TransferType' /\ ReportedAreOver' /\ HashIsKnown'
  BY <1>1, <1>3 DEF TransferType, ReportedAreOver, HashIsKnown, Large!Content
<1>6. ASSUME ~crossed' PROVE Undisturbed'
  <2>1. Undisturbed /\ \A u \in LargeThread : u # t => stage[u] = "idle"
    BY <1>6 DEF Large!Delete, Large!Crossing
  <2>2. \A u \in LargeThread : stage'[u] \notin {"verify", "rename"}
    BY <1>1, <2>1
  <2> QED BY <1>1, <2>1, <2>2
          DEF Undisturbed, OneAtPath, AssemblyIsOwn, CommitIsGuarded, Whole
<1> QED BY <1>4, <1>5, <1>6

(* Steps that touch neither the transfers nor the files.                    *)
LEMMA StillStep ==
    ASSUME TransferInv,
           UNCHANGED <<large, asm, tmp, dst, stage, stamp, hash, reported, settled, failed, crossed>>
    PROVE  TransferInv'
<1>1. LargeTomb' = LargeTomb /\ LargeAlive' = LargeAlive
  BY DEF LargeTomb, LargeAlive
<1> QED BY <1>1
    DEF TransferInv, TransferType, LargeTombIsNewer, ReportedAreOver, HashIsKnown, Undisturbed,
        OneAtPath, AssemblyIsOwn, CommitIsGuarded, Whole

(* Every step of the specification.                                         *)
LEMMA TransferStep ==
    ASSUME TransferInv, [Large!Next]_(Large!vars)
    PROVE  TransferInv'
<1>1. ASSUME Large!Unsuppress \/ UNCHANGED Large!vars PROVE TransferInv'
  BY <1>1, StillStep DEF Large!Unsuppress, Large!vars
<1>2. ASSUME NEW t \in LargeThread, Large!Step(t) PROVE TransferInv'
  BY <1>2, OpenStep, InsertStep, ChunkStep, EndStep, TakeStep, VerifyStep, RenameStep DEF Large!Step
<1> QED BY <1>1, <1>2, BeginStep, FailStep, DeleteStep, BreakStep, ClearStep DEF Large!Next

(* It holds in the beginning ...                                            *)
LEMMA TransferInit ==
    ASSUME Large!Init
    PROVE  TransferInv
<1>1. LargeTomb = -1 /\ LargeAlive = 0
  BY DEF Large!Init, Large!L!EmptyLedger, Large!L!NoStamp, LargeTomb, LargeAlive, Large!Path
<1>2. large \in Large!L!Ledger
  BY DEF Large!Init, Large!L!EmptyLedger, Large!L!Ledger
<1>3. TransferType
  BY <1>2, TransferAssumption DEF Large!Init, TransferType, Large!Content, Label, Large!Stamp
<1>4. LargeTombIsNewer /\ ReportedAreOver /\ HashIsKnown /\ Undisturbed
  BY <1>1 DEF Large!Init, LargeTombIsNewer, ReportedAreOver, HashIsKnown, Undisturbed,
              OneAtPath, AssemblyIsOwn, CommitIsGuarded, Whole
<1> QED BY <1>3, <1>4 DEF TransferInv

(* ... and so always.                                                       *)
LEMMA TransferInvariance == Large!Spec => []TransferInv
<1>1. Large!Init => TransferInv
  BY TransferInit
<1>2. TransferInv /\ [Large!Next]_(Large!vars) => TransferInv'
  BY TransferStep
<1> QED BY <1>1, <1>2, PTL DEF Large!Spec

-----------------------------------------------------------------------------
(* The theorems.                                                            *)

(* commit_large_file: as long as no two threads meet at a path, the file    *)
(* put in place is one peer's transfer, whole, whatever chunks were         *)
(* skipped, sent again or left over, and however often streams broke off.   *)
THEOREM CommitsAreWhole == Large!Spec => []CommittedIsWhole
<1>1. TransferInv => CommittedIsWhole
  BY DEF TransferInv, Undisturbed, Whole, CommittedIsWhole, Large!CommittedIsWhole
<1> QED BY <1>1, TransferInvariance, PTL

(* finish_large_file: a transfer reported as committed is in place or was   *)
(* vetoed; a peer that has the path to itself gets the answer for an        *)
(* unknown path only when its LargeFileStart failed.                        *)
THEOREM ReportsAreTrue == Large!Spec => []ReportedIsSettled
<1>1. TransferInv => ReportedIsSettled
  BY DEF TransferInv, Undisturbed, ReportedIsSettled, Large!ReportedIsSettled
<1> QED BY <1>1, TransferInvariance, PTL

(* The guard of begin_large_file_with_action, asked again at commit, is     *)
(* enough: a file in place is never covered by a tombstone, although        *)
(* deletes come between any two frames.                                     *)
THEOREM DeletedStaysDeleted == Large!Spec => []NeverResurrected
<1>1. TransferInv => NeverResurrected
  BY DEF TransferInv, Undisturbed, NeverResurrected, Large!NeverResurrected, LargeTomb, Large!L!NoStamp
<1> QED BY <1>1, TransferInvariance, PTL

-----------------------------------------------------------------------------
(* LocalChanges: the inductive invariant.                                   *)

Stone == Nat \cup {-1}
LocalLedger == [entries : [LocalFile -> Stone], alive : [LocalFile -> Nat]]
LocalEvent == [op : {"WriteComplete", "Deleted", "Renamed"}, path : LocalFile, to : LocalFile]

LocalType ==
    /\ files \in [LocalFile -> [v : Nat, m : Nat]]
    /\ events \in Seq(LocalEvent)
    /\ pending \in [ready : SUBSET LocalFile, deletes : SUBSET LocalFile,
                    renames : Seq(LocalFile \X LocalFile), live : [LocalFile -> Nat]]
    /\ phase \in {"loop", "files"}
    /\ peer \in [LocalFile -> Nat]
    /\ tombs \in LocalLedger /\ pledger \in LocalLedger
    /\ clock \in Nat /\ clock > 0 /\ told \in Nat
    /\ \A f \in LocalFile : files[f].v = 0 => files[f] = Local!NoFile

(* The files an event is about.                                             *)
About(e) == {e.path, e.to}

(* Event i is the last one about f.                                         *)
LastAbout(f, i) ==
    f \in About(events[i]) /\ \A j \in 1..Len(events) : j > i => f \notin About(events[j])

(* Every change of f since the last rescan was seen and collected.          *)
UpToDate(f) == f \notin missed /\ \A i \in 1..Len(events) : f \notin About(events[i])

(* The disk is as the event says.                                           *)
TrueOf(f, e) ==
    /\ e.op = "WriteComplete" => files[f].v # 0
    /\ e.op = "Deleted" => files[f].v = 0
    /\ e.op = "Renamed" => files[f].v = IF f = e.to THEN peer[e.path] ELSE 0

(* No rename that is to be sent has to do with f.                           *)
NotRenamed(f) ==
    \A i \in 1..Len(pending.renames) : pending.renames[i][1] # f /\ pending.renames[i][2] # f

(* Nothing is to be sent about f.                                           *)
Idle(f) == f \notin pending.ready /\ f \notin pending.deletes /\ NotRenamed(f)

(* Only a rename has two files.                                             *)
EventsShaped == \A i \in 1..Len(events) : events[i].op # "Renamed" <=> events[i].path = events[i].to

(* The last event about a file tells what became of it.                     *)
EventsTrue ==
    \A f \in LocalFile : \A i \in 1..Len(events) :
        f \notin missed /\ LastAbout(f, i) => TrueOf(f, events[i])

(* A rename was made of files the peer had and nothing else was under way   *)
(* for.                                                                     *)
RenamesAhead ==
    \A i \in 1..Len(events) : events[i].op = "Renamed" =>
        /\ peer[events[i].path] # 0
        /\ \A f \in About(events[i]) :
              Idle(f) /\ \A j \in 1..Len(events) : j < i => f \notin About(events[j])

(* Renames to be sent have no file in common; the peer has their sources.   *)
RenamesApart ==
    /\ \A i \in 1..Len(pending.renames) :
          pending.renames[i][1] # pending.renames[i][2] /\ peer[pending.renames[i][1]] # 0
    /\ \A i, j \in 1..Len(pending.renames) : i # j =>
          /\ pending.renames[i][1] # pending.renames[j][1]
          /\ pending.renames[i][1] # pending.renames[j][2]
          /\ pending.renames[i][2] # pending.renames[j][1]
          /\ pending.renames[i][2] # pending.renames[j][2]
    /\ phase = "files" => pending.renames = <<>>

(* What is to be sent about f makes the peer's file the server's.           *)
Follows(f) ==
    /\ f \in pending.ready => files[f].v # 0
    /\ f \in pending.deletes => files[f].v = 0
    /\ f \notin pending.ready /\ f \notin pending.deletes =>
         /\ NotRenamed(f) => peer[f] = files[f].v
         /\ \A i \in 1..Len(pending.renames) :
               /\ pending.renames[i][1] = f => files[f].v = 0
               /\ pending.renames[i][2] = f => files[f].v = peer[pending.renames[i][1]]

(* No stamp is newer than the clock; the peer knows no delete the server    *)
(* does not know or has not outlived, and a delete to come is newer than    *)
(* what it knows.                                                           *)
StampsOf(f) ==
    /\ files[f].m <= clock /\ tombs.alive[f] <= clock /\ pending.live[f] <= clock
    /\ pledger.entries[f] < clock /\ pledger.alive[f] <= clock
    /\ phase = "loop" \/ f \in pending.deletes => pledger.alive[f] < clock
    /\ pledger.entries[f] <= tombs.entries[f] \/ pledger.entries[f] <= tombs.alive[f]

LocalGood ==
    /\ LocalType /\ EventsShaped /\ EventsTrue /\ RenamesAhead /\ RenamesApart
    /\ pending.ready \cap pending.deletes = {}
    /\ \A f \in LocalFile : StampsOf(f)
    /\ \A f \in LocalFile : UpToDate(f) => Follows(f)

LocalInv == excuse = {} => LocalGood

-----------------------------------------------------------------------------
(* The ledger's operators: a path has no directory above it.                *)

(* The tombstone that covers a file is its own, unless it was outlived.     *)
LEMMA LocalCovering ==
    ASSUME NEW l \in LocalLedger, NEW f \in LocalFile
    PROVE  Local!L!covering_tombstone(l, f) =
             IF l.entries[f] # -1 /\ ~(l.alive[f] > 0 /\ l.entries[f] <= l.alive[f])
             THEN l.entries[f] ELSE -1
<1> DEFINE an == [x \in LocalFile |-> <<x>>]
           a == Local!L!Applicable(l, f)
<1>1. an[f] = <<f>> /\ DOMAIN an[f] = {1} /\ an[f][1] = f
  OBVIOUS
<1>2. a = {i \in DOMAIN an[f] : LET d == l.entries[an[f][i]]
                                IN  d # -1 /\ ~(l.alive[f] > 0 /\ d <= l.alive[f])}
  BY DEF Local!L!Applicable, Local!L!NoStamp
<1>3. Local!L!covering_tombstone(l, f) =
        IF a = {} THEN -1 ELSE l.entries[an[f][CHOOSE i \in a : \A j \in a : i <= j]]
  BY DEF Local!L!covering_tombstone, Local!L!NoStamp
<1> HIDE DEF an, a
<1>4. CASE l.entries[f] # -1 /\ ~(l.alive[f] > 0 /\ l.entries[f] <= l.alive[f])
  <2>1. a = {1}
    BY <1>1, <1>2, <1>4
  <2>2. (CHOOSE i \in {1} : \A j \in {1} : i <= j) = 1
    OBVIOUS
  <2> QED BY <1>1, <1>3, <1>4, <2>1, <2>2
<1>5. CASE ~(l.entries[f] # -1 /\ ~(l.alive[f] > 0 /\ l.entries[f] <= l.alive[f]))
  <2>1. a = {}
    BY <1>1, <1>2, <1>5
  <2> QED BY <1>3, <1>5, <2>1
<1> QED BY <1>4, <1>5

(* admit_record makes a file's tombstone no newer and its live record the   *)
(* action's or the file's stamp, or leaves it.                              *)
LEMMA LocalAdmit ==
    ASSUME NEW l \in LocalLedger, NEW f \in LocalFile, NEW a \in Stone, NEW m \in Nat,
           NEW k, k = Local!L!admit_record(l, f, a, m)
    PROVE  /\ k \in LocalLedger
           /\ \A g \in LocalFile : g # f => k.entries[g] = l.entries[g] /\ k.alive[g] = l.alive[g]
           /\ \A g \in LocalFile : k.entries[g] <= l.entries[g]
           /\ k.alive[f] = l.alive[f] \/ k.alive[f] = a \/ k.alive[f] = m
<1>1. ASSUME NEW b \in Nat, k = Local!L!record_alive(l, f, b)
      PROVE  /\ k \in LocalLedger
             /\ \A g \in LocalFile : g # f => k.entries[g] = l.entries[g] /\ k.alive[g] = l.alive[g]
             /\ \A g \in LocalFile : k.entries[g] <= l.entries[g]
             /\ k.alive[f] = l.alive[f] \/ k.alive[f] = b
  <2>1. CASE b = 0
    BY <1>1, <2>1 DEF Local!L!record_alive, LocalLedger, Stone
  <2>2. CASE b # 0
    <3>1. k = [entries |-> [l.entries EXCEPT ![f] = IF @ <= b THEN -1 ELSE @],
               alive   |-> [l.alive EXCEPT ![f] = IF @ >= b THEN @ ELSE b]]
      BY <1>1, <2>2 DEF Local!L!record_alive, Local!L!NoStamp, Local!L!MaxOf
    <3>2. l.entries \in [LocalFile -> Stone] /\ l.alive \in [LocalFile -> Nat]
      BY DEF LocalLedger
    <3>3. k.entries \in [LocalFile -> Stone] /\ k.alive \in [LocalFile -> Nat]
      BY <3>1, <3>2 DEF Stone
    <3>4. k \in LocalLedger
      BY <3>1, <3>3 DEF LocalLedger
    <3> QED BY <3>1, <3>2, <3>4 DEF Stone
  <2> QED BY <2>1, <2>2
<1>2. ASSUME k = l
      PROVE  /\ k \in LocalLedger
             /\ \A g \in LocalFile : g # f => k.entries[g] = l.entries[g] /\ k.alive[g] = l.alive[g]
             /\ \A g \in LocalFile : k.entries[g] <= l.entries[g]
             /\ k.alive[f] = l.alive[f]
  BY <1>2 DEF LocalLedger, Stone
<1>3. CASE a # -1
  <2>1. a \in Nat /\ (k = Local!L!record_alive(l, f, a) \/ k = l)
    BY <1>3 DEF Local!L!admit_record, Local!L!NoStamp, Stone
  <2> QED BY <1>1, <1>2, <2>1
<1>4. CASE a = -1
  <2>1. k = Local!L!record_alive(l, f, m) \/ k = l
    BY <1>4 DEF Local!L!admit_record, Local!L!NoStamp
  <2> QED BY <1>1, <1>2, <2>1
<1> QED BY <1>3, <1>4

(* merge_alive, path by path.                                               *)
LEMMA LocalMergeAlive ==
    ASSUME NEW l \in LocalLedger, NEW r \in [LocalFile -> Nat],
           NEW k, k = Local!L!merge_alive(l, r)
    PROVE  /\ k \in LocalLedger
           /\ \A f \in LocalFile :
                /\ k.alive[f] = (IF l.alive[f] >= r[f] THEN l.alive[f] ELSE r[f])
                /\ k.entries[f] = l.entries[f] \/ l.entries[f] <= r[f]
<1>1. k = [entries |-> [p \in LocalFile |-> IF r[p] > 0 /\ l.entries[p] <= r[p] THEN -1 ELSE l.entries[p]],
           alive   |-> [p \in LocalFile |-> IF l.alive[p] >= r[p] THEN l.alive[p] ELSE r[p]]]
  BY DEF Local!L!merge_alive, Local!L!NoStamp, Local!L!MaxOf
<1>2. l.entries \in [LocalFile -> Stone] /\ l.alive \in [LocalFile -> Nat]
  BY DEF LocalLedger
<1>3. k.entries \in [LocalFile -> Stone] /\ k.alive \in [LocalFile -> Nat]
  BY <1>1, <1>2 DEF Stone
<1>4. k \in LocalLedger
  BY <1>1, <1>3 DEF LocalLedger
<1> QED BY <1>1, <1>2, <1>4

(* merge_remote of the tombstones of some files, of one stamp.              *)
LEMMA LocalMergeRemote ==
    ASSUME NEW l \in LocalLedger, NEW fs0 \in SUBSET LocalFile, NEW d \in Nat,
           NEW r, r = [f \in LocalFile |-> IF f \in fs0 THEN d ELSE -1],
           NEW k, k = Local!L!merge_remote(l, r)
    PROVE  /\ k \in LocalLedger /\ k.alive = l.alive
           /\ \A f \in LocalFile :
                k.entries[f] = IF f \in fs0 /\ ~(l.alive[f] > 0 /\ d <= l.alive[f]) /\ l.entries[f] < d
                               THEN d ELSE l.entries[f]
<1> DEFINE e == [p \in LocalFile |->
                   IF r[p] = -1 \/ (l.alive[p] > 0 /\ r[p] <= l.alive[p]) \/ l.entries[p] >= r[p]
                   THEN l.entries[p] ELSE r[p]]
<1>1. k = [l EXCEPT !.entries = e]
  BY DEF Local!L!merge_remote, Local!L!is_superseded, Local!L!NoStamp
<1>2. l.entries \in [LocalFile -> Stone] /\ l.alive \in [LocalFile -> Nat]
  BY DEF LocalLedger
<1>3. /\ e \in [LocalFile -> Stone]
      /\ \A f \in LocalFile : e[f] = IF f \in fs0 /\ ~(l.alive[f] > 0 /\ d <= l.alive[f]) /\ l.entries[f] < d
                                     THEN d ELSE l.entries[f]
  BY <1>2 DEF Stone
<1> HIDE DEF e
<1>4. k \in LocalLedger /\ k.entries = e /\ k.alive = l.alive
  BY <1>1, <1>3 DEF LocalLedger
<1> QED BY <1>3, <1>4

-----------------------------------------------------------------------------
(* Every step keeps the invariant.                                          *)

(* The event a user's operation would raise, and what it leaves alone.      *)
LEMMA UserStep ==
    ASSUME LocalGood, NEW e \in LocalEvent, Local!Op(e, About(e)),
           e.op # "Renamed" <=> e.path = e.to,
           files' \in [LocalFile -> [v : Nat, m : Nat]],
           \A f \in LocalFile : files'[f].v = 0 => files'[f] = Local!NoFile,
           \A f \in LocalFile : files'[f].m <= clock + 1,
           \A f \in LocalFile : f \notin About(e) => files'[f] = files[f],
           \A f \in About(e) : /\ e.op = "WriteComplete" => files'[f].v # 0
                               /\ e.op = "Deleted" => files'[f].v = 0
                               /\ e.op = "Renamed" => files'[f].v = IF f = e.to THEN peer[e.path] ELSE 0,
           e.op = "Renamed" =>
             /\ peer[e.path] # 0
             /\ \A f \in About(e) : Idle(f) /\ \A j \in 1..Len(events) : f \notin About(events[j])
    PROVE  LocalGood'
<1> USE DEF LocalGood
<1>0. /\ told' = told + 1 /\ clock' = clock + 1
      /\ UNCHANGED <<tombs, pending, phase, peer, pledger>>
      /\ \/ events' = Append(events, e) /\ missed' = missed
         \/ events' = events /\ missed' = missed \cup About(e)
  BY DEF Local!Op, Local!ThreadSame
<1>1. e.path \in LocalFile /\ e.to \in LocalFile /\ events \in Seq(LocalEvent) /\ clock \in Nat /\ told \in Nat
  BY DEF LocalEvent, LocalType
<1>2. /\ events' \in Seq(LocalEvent)
      /\ \A i \in 1..Len(events) : i \in 1..Len(events)' /\ events'[i] = events[i]
      /\ \A i \in 1..Len(events)' : i \in 1..Len(events) \/ (i = Len(events) + 1 /\ events'[i] = e /\ events' = Append(events, e))
      /\ Len(events) \in Nat
  <2>1. CASE events' = events
    BY <1>1, <2>1
  <2>2. CASE events' = Append(events, e)
    <3>1. /\ events' \in Seq(LocalEvent) /\ Len(events) \in Nat /\ Len(events)' = Len(events) + 1
          /\ events'[Len(events) + 1] = e
          /\ \A i \in 1..Len(events) : events'[i] = events[i]
      BY <1>1, <2>2
    <3> QED BY <2>2, <3>1
  <2> QED BY <1>0, <2>1, <2>2
<1>3. LocalType'
  <2>1. clock' \in Nat /\ clock' > 0 /\ told' \in Nat
    BY <1>0, <1>1
  <2>2. /\ pending' = pending /\ phase' = phase /\ peer' = peer /\ tombs' = tombs /\ pledger' = pledger
    BY <1>0
  <2> QED BY <1>2, <2>1, <2>2 DEF LocalType, Local!NoFile
<1>4. EventsShaped'
  BY <1>2 DEF EventsShaped
<1>5. \A f \in LocalFile : Idle(f)' <=> Idle(f)
  BY <1>0 DEF Idle, NotRenamed
<1>6. EventsTrue'
  <2> SUFFICES ASSUME NEW f \in LocalFile, NEW i \in 1..Len(events)', f \notin missed', LastAbout(f, i)'
               PROVE  TrueOf(f, events[i])'
    BY DEF EventsTrue
  <2>1. CASE i \in 1..Len(events)
    <3>1. events'[i] = events[i] /\ LastAbout(f, i) /\ f \notin missed
      BY <1>0, <1>2, <2>1 DEF LastAbout
    <3>2. TrueOf(f, events[i])
      BY <2>1, <3>1 DEF EventsTrue
    <3>3. f \notin About(e)
      <4>1. CASE events' = Append(events, e)
        <5>1. Len(events) + 1 \in 1..Len(events)' /\ events'[Len(events) + 1] = e /\ Len(events) + 1 > i
          BY <1>1, <1>2, <2>1, <4>1
        <5> QED BY <5>1 DEF LastAbout
      <4>2. CASE missed' = missed \cup About(e)
        BY <4>2
      <4> QED BY <1>0, <4>1, <4>2
    <3> QED BY <1>0, <3>1, <3>2, <3>3 DEF TrueOf
  <2>2. CASE i = Len(events) + 1 /\ events'[i] = e
    <3>1. f \in About(e)
      BY <2>2 DEF LastAbout
    <3> QED BY <1>0, <2>2, <3>1 DEF TrueOf
  <2> QED BY <1>2, <2>1, <2>2
<1>7. RenamesAhead'
  <2> SUFFICES ASSUME NEW i \in 1..Len(events)', events'[i].op = "Renamed"
               PROVE  /\ peer'[events'[i].path] # 0
                      /\ \A f \in About(events'[i]) :
                            Idle(f)' /\ \A j \in 1..Len(events)' : j < i => f \notin About(events'[j])
    BY DEF RenamesAhead, About
  <2>1. CASE i \in 1..Len(events)
    <3>1. events'[i] = events[i] /\ events[i] \in LocalEvent
      BY <1>1, <1>2, <2>1
    <3>2. \A j \in 1..Len(events)' : j < i => j \in 1..Len(events) /\ events'[j] = events[j]
      BY <1>2, <2>1
    <3>3. About(events[i]) \subseteq LocalFile
      BY <3>1 DEF About, LocalEvent
    <3> QED BY <1>0, <1>5, <2>1, <3>1, <3>2, <3>3 DEF RenamesAhead
  <2>2. CASE i = Len(events) + 1 /\ events'[i] = e
    <3>1. \A j \in 1..Len(events)' : j < i => j \in 1..Len(events) /\ events'[j] = events[j]
      BY <1>2, <2>2
    <3>2. About(e) \subseteq LocalFile
      BY <1>1 DEF About
    <3> QED BY <1>0, <1>5, <2>2, <3>1, <3>2
  <2> QED BY <1>2, <2>1, <2>2
<1>8. RenamesApart' /\ (pending.ready \cap pending.deletes = {})'
  BY <1>0 DEF RenamesApart
<1>9. ASSUME NEW f \in LocalFile PROVE StampsOf(f)'
  <2>1. StampsOf(f) /\ files'[f].m <= clock + 1
    OBVIOUS
  <2>2. /\ tombs.alive[f] \in Nat /\ pending.live[f] \in Nat /\ pledger.alive[f] \in Nat
        /\ pledger.entries[f] \in Int
    BY DEF LocalType, LocalLedger, Stone
  <2> QED BY <1>0, <1>1, <2>1, <2>2 DEF StampsOf
<1>10. ASSUME NEW f \in LocalFile, UpToDate(f)' PROVE Follows(f)'
  <2>1. f \notin About(e) /\ UpToDate(f)
    <3>1. UpToDate(f)
      BY <1>0, <1>2, <1>10 DEF UpToDate
    <3>2. CASE events' = Append(events, e)
      <4>1. Len(events) + 1 \in 1..Len(events)' /\ events'[Len(events) + 1] = e
        BY <1>1, <1>2, <3>2
      <4> QED BY <1>10, <3>1, <4>1 DEF UpToDate
    <3>3. CASE missed' = missed \cup About(e)
      BY <1>10, <3>1, <3>3 DEF UpToDate
    <3> QED BY <1>0, <3>2, <3>3
  <2>2. Follows(f) /\ files'[f] = files[f]
    BY <2>1
  <2> QED BY <1>0, <2>2 DEF Follows, NotRenamed
<1> QED BY <1>3, <1>4, <1>6, <1>7, <1>8, <1>9, <1>10

(* A user writes a file.                                                    *)
LEMMA LocalWriteStep ==
    ASSUME LocalGood, NEW f \in LocalFile, Local!Write(f)
    PROVE  LocalGood'
<1> DEFINE e == [op |-> "WriteComplete", path |-> f, to |-> f]
<1>0. files \in [LocalFile -> [v : Nat, m : Nat]] /\ told \in Nat /\ clock \in Nat
  BY DEF LocalGood, LocalType
<1>1. e \in LocalEvent /\ e.op = "WriteComplete" /\ e.path = f /\ e.to = f /\ About(e) = {f}
  BY DEF LocalEvent, About
<1>2. Local!Op(e, About(e)) /\ files' = [files EXCEPT ![f] = [v |-> told + 2, m |-> clock + 1]]
  BY <1>1 DEF Local!Write
<1>3. /\ files' \in [LocalFile -> [v : Nat, m : Nat]]
      /\ files'[f].v = told + 2 /\ files'[f].v # 0 /\ files'[f].m = clock + 1
      /\ \A g \in LocalFile : g # f => files'[g] = files[g]
  BY <1>0, <1>2
<1>4. \A g \in LocalFile : (files'[g].v = 0 => files'[g] = Local!NoFile) /\ files'[g].m <= clock + 1
  <2> TAKE g \in LocalFile
  <2>1. (files[g].v = 0 => files[g] = Local!NoFile) /\ files[g].m <= clock /\ files[g].m \in Nat
    BY <1>0 DEF LocalGood, LocalType, StampsOf
  <2> QED BY <1>0, <1>3, <2>1
<1> HIDE DEF e
<1> QED BY <1>1, <1>2, <1>3, <1>4, UserStep

(* A user deletes a file.                                                   *)
LEMMA LocalUnlinkStep ==
    ASSUME LocalGood, NEW f \in LocalFile, Local!Unlink(f)
    PROVE  LocalGood'
<1> DEFINE e == [op |-> "Deleted", path |-> f, to |-> f]
<1>0. files \in [LocalFile -> [v : Nat, m : Nat]] /\ clock \in Nat
  BY DEF LocalGood, LocalType
<1>1. e \in LocalEvent /\ e.op = "Deleted" /\ e.path = f /\ e.to = f /\ About(e) = {f}
  BY DEF LocalEvent, About
<1>2. Local!Op(e, About(e)) /\ files' = [files EXCEPT ![f] = Local!NoFile]
  BY <1>1 DEF Local!Unlink
<1>3. /\ files' \in [LocalFile -> [v : Nat, m : Nat]]
      /\ files'[f].v = 0 /\ files'[f] = Local!NoFile /\ files'[f].m = 0
      /\ \A g \in LocalFile : g # f => files'[g] = files[g]
  BY <1>0, <1>2 DEF Local!NoFile
<1>4. \A g \in LocalFile : (files'[g].v = 0 => files'[g] = Local!NoFile) /\ files'[g].m <= clock + 1
  <2> TAKE g \in LocalFile
  <2>1. (files[g].v = 0 => files[g] = Local!NoFile) /\ files[g].m <= clock /\ files[g].m \in Nat
    BY <1>0 DEF LocalGood, LocalType, StampsOf
  <2> QED BY <1>0, <1>3, <2>1
<1> HIDE DEF e
<1> QED BY <1>1, <1>2, <1>3, <1>4, UserStep

(* A user moves a file; neither name has a change under way.                *)
LEMMA LocalMoveStep ==
    ASSUME LocalGood, NEW f \in LocalFile, NEW g \in LocalFile, Local!Move(f, g), excuse' = {}
    PROVE  LocalGood'
<1> DEFINE e == [op |-> "Renamed", path |-> f, to |-> g]
<1>0. /\ files \in [LocalFile -> [v : Nat, m : Nat]] /\ clock \in Nat
      /\ pending.renames \in Seq(LocalFile \X LocalFile) /\ events \in Seq(LocalEvent)
  BY DEF LocalGood, LocalType
<1>1. e \in LocalEvent /\ e.op = "Renamed" /\ e.path = f /\ e.to = g /\ About(e) = {f, g}
  BY DEF LocalEvent, About
<1>2. /\ Local!Op(e, About(e)) /\ files' = [files EXCEPT ![g] = files[f], ![f] = Local!NoFile]
      /\ f # g /\ files[f] # Local!NoFile /\ {f, g} \cap Local!UnderWay = {}
  BY <1>1 DEF Local!Move
<1>3. /\ files' \in [LocalFile -> [v : Nat, m : Nat]]
      /\ files'[f].v = 0 /\ files'[f] = Local!NoFile /\ files'[f].m = 0 /\ files'[g] = files[f]
      /\ \A h \in LocalFile : h # f /\ h # g => files'[h] = files[h]
  BY <1>0, <1>2 DEF Local!NoFile
<1>4. \A h \in LocalFile : (files'[h].v = 0 => files'[h] = Local!NoFile) /\ files'[h].m <= clock + 1
  <2> TAKE h \in LocalFile
  <2>1. \A x \in {f, h} : (files[x].v = 0 => files[x] = Local!NoFile) /\ files[x].m <= clock /\ files[x].m \in Nat
    BY <1>0 DEF LocalGood, LocalType, StampsOf
  <2>2. files'[h] = files[f] \/ files'[h] = files[h] \/ (files'[h] = Local!NoFile /\ files'[h].m = 0)
    BY <1>3
  <2>3. CASE files'[h] = files[f]
    BY <1>0, <2>1, <2>3
  <2>4. CASE files'[h] = files[h]
    BY <1>0, <2>1, <2>4
  <2>5. CASE files'[h] = Local!NoFile /\ files'[h].m = 0
    BY <1>0, <2>5
  <2> QED BY <2>2, <2>3, <2>4, <2>5
<1>5. ASSUME NEW h \in {f, g}
      PROVE  Idle(h) /\ peer[h] = files[h].v /\ \A j \in 1..Len(events) : h \notin About(events[j])
  <2>1. h \notin Local!UnderWay /\ h \in LocalFile
    BY <1>2
  <2>2. h \notin pending.ready /\ h \notin pending.deletes /\ peer[h] = files[h].v
    BY <2>1 DEF Local!UnderWay
  <2>3. ASSUME NEW j \in 1..Len(events) PROVE h \notin About(events[j])
    <3>1. j \in DOMAIN events
      BY <1>0
    <3> QED BY <2>1, <3>1 DEF Local!UnderWay, About
  <2>4. ASSUME NEW j \in 1..Len(pending.renames) PROVE pending.renames[j][1] # h /\ pending.renames[j][2] # h
    <3>1. j \in DOMAIN pending.renames
      BY <1>0
    <3> DEFINE pairs == {{pending.renames[i][1], pending.renames[i][2]} : i \in DOMAIN pending.renames}
    <3>2. h \notin UNION pairs
      BY <2>1 DEF Local!UnderWay
    <3>3. {pending.renames[j][1], pending.renames[j][2]} \in pairs
      BY <3>1
    <3> HIDE DEF pairs
    <3> QED BY <3>2, <3>3
  <2> QED BY <2>2, <2>3, <2>4 DEF Idle, NotRenamed
<1>6. files[f].v # 0
  BY <1>2 DEF LocalGood, LocalType
<1>7. files'[g].v = peer[f] /\ peer[f] # 0
  BY <1>3, <1>5, <1>6
<1> HIDE DEF e
<1>8. /\ \A h \in LocalFile : h \notin About(e) => files'[h] = files[h]
      /\ \A h \in About(e) : files'[h].v = IF h = e.to THEN peer[e.path] ELSE 0
      /\ \A h \in About(e) : Idle(h) /\ \A j \in 1..Len(events) : h \notin About(events[j])
      /\ peer[e.path] # 0
  BY <1>1, <1>2, <1>3, <1>5, <1>7
<1> QED BY <1>1, <1>2, <1>3, <1>4, <1>8, UserStep

(* The queue without its first event: what is said of the others still is,  *)
(* and of a file the first one is not about.                                *)
LEMMA QueueShift ==
    ASSUME LocalGood, events # <<>>, events' = Tail(events), UNCHANGED <<missed, peer, files>>
    PROVE  /\ events' \in Seq(LocalEvent) /\ EventsShaped' /\ EventsTrue'
           /\ 1 \in 1..Len(events) /\ events[1] \in LocalEvent
           /\ \A i \in 1..Len(events)' : i + 1 \in 1..Len(events) /\ events'[i] = events[i + 1]
           /\ \A f \in LocalFile : UpToDate(f)' =>
                 \/ f \notin About(events[1]) /\ UpToDate(f)
                 \/ f \in About(events[1]) /\ TrueOf(f, events[1])
<1> USE DEF LocalGood
<1>1. events \in Seq(LocalEvent)
  BY DEF LocalType
<1>2. /\ events' \in Seq(LocalEvent) /\ Len(events) \in Nat /\ Len(events) > 0
      /\ Len(events)' = Len(events) - 1
      /\ \A i \in 1..(Len(events) - 1) : events'[i] = events[i + 1]
  BY <1>1
<1>3. /\ 1 \in 1..Len(events) /\ events[1] \in LocalEvent
      /\ \A i \in 1..Len(events)' : i + 1 \in 1..Len(events) /\ events'[i] = events[i + 1]
      /\ \A i \in 1..Len(events) : i = 1 \/ (i - 1 \in 1..Len(events)' /\ events'[i - 1] = events[i])
  BY <1>1, <1>2
<1>4. EventsShaped'
  BY <1>3 DEF EventsShaped
<1>5. EventsTrue'
  <2> SUFFICES ASSUME NEW f \in LocalFile, NEW i \in 1..Len(events)', f \notin missed', LastAbout(f, i)'
               PROVE  TrueOf(f, events[i])'
    BY DEF EventsTrue
  <2>1. LastAbout(f, i + 1)
    <3>1. f \in About(events[i + 1])
      BY <1>3 DEF LastAbout
    <3>2. ASSUME NEW j \in 1..Len(events), j > i + 1 PROVE f \notin About(events[j])
      <4>1. j - 1 \in 1..Len(events)' /\ events'[j - 1] = events[j] /\ j - 1 > i
        BY <1>3, <3>2
      <4> QED BY <4>1 DEF LastAbout
    <3> QED BY <3>1, <3>2 DEF LastAbout
  <2>2. TrueOf(f, events[i + 1])
    BY <1>3, <2>1 DEF EventsTrue
  <2> QED BY <1>3, <2>2 DEF TrueOf
<1>6. ASSUME NEW f \in LocalFile, UpToDate(f)'
      PROVE  \/ f \notin About(events[1]) /\ UpToDate(f)
             \/ f \in About(events[1]) /\ TrueOf(f, events[1])
  <2>1. f \notin missed /\ \A j \in 1..Len(events) : j > 1 => f \notin About(events[j])
    <3>1. f \notin missed
      BY <1>6 DEF UpToDate
    <3>2. ASSUME NEW j \in 1..Len(events), j > 1 PROVE f \notin About(events[j])
      <4>1. j - 1 \in 1..Len(events)' /\ events'[j - 1] = events[j]
        BY <1>3, <3>2
      <4> QED BY <1>6, <4>1 DEF UpToDate
    <3> QED BY <3>1, <3>2
  <2>2. CASE f \in About(events[1])
    BY <1>3, <2>1, <2>2 DEF LastAbout, EventsTrue
  <2>3. CASE f \notin About(events[1])
    BY <1>2, <2>1, <2>3 DEF UpToDate
  <2> QED BY <2>2, <2>3
<1> QED BY <1>2, <1>3, <1>4, <1>5, <1>6

(* collect_event.                                                           *)
LEMMA LocalCollectStep ==
    ASSUME LocalGood, Local!Collect
    PROVE  LocalGood'
<1> USE DEF LocalGood
<1> DEFINE e == events[1]
<1>0. /\ phase = "loop" /\ events # <<>> /\ events' = Tail(events)
      /\ pending' = Local!Collected(pending, Head(events), clock)
      /\ UNCHANGED <<files, told, tombs, phase, peer, pledger, clock, missed>>
  BY DEF Local!Collect, Local!UserSame
<1>1. /\ events' \in Seq(LocalEvent) /\ EventsShaped' /\ EventsTrue'
      /\ 1 \in 1..Len(events) /\ e \in LocalEvent
      /\ \A i \in 1..Len(events)' : i + 1 \in 1..Len(events) /\ events'[i] = events[i + 1]
      /\ \A f \in LocalFile : UpToDate(f)' =>
            \/ f \notin About(e) /\ UpToDate(f)
            \/ f \in About(e) /\ TrueOf(f, e)
  BY <1>0, QueueShift
<1>2. Head(events) = e /\ e.path \in LocalFile /\ e.to \in LocalFile
      /\ e.op \in {"WriteComplete", "Deleted", "Renamed"} /\ (e.op # "Renamed" <=> e.path = e.to)
  <2>1. events \in Seq(LocalEvent)
    BY DEF LocalType
  <2>2. Head(events) = e
    BY <1>0, <2>1 DEF e
  <2>3. e.op # "Renamed" <=> e.path = e.to
    BY <1>1 DEF EventsShaped, e
  <2> QED BY <1>1, <2>2, <2>3 DEF LocalEvent
<1>3. /\ pending \in [ready : SUBSET LocalFile, deletes : SUBSET LocalFile,
                      renames : Seq(LocalFile \X LocalFile), live : [LocalFile -> Nat]]
      /\ clock \in Nat
  BY DEF LocalType
<1> HIDE DEF e
<1>p. PICK rd, dl, rn, lv :
        /\ rd = pending.ready /\ dl = pending.deletes /\ rn = pending.renames /\ lv = pending.live
        /\ rd \in SUBSET LocalFile /\ dl \in SUBSET LocalFile
        /\ rn \in Seq(LocalFile \X LocalFile) /\ lv \in [LocalFile -> Nat]
  BY <1>3
<1>c. pending' = [ready |-> pending'.ready, deletes |-> pending'.deletes,
                  renames |-> pending'.renames, live |-> pending'.live]
      /\ IF e.op = "WriteComplete"
         THEN /\ pending'.ready = rd \cup {e.path} /\ pending'.deletes = dl \ {e.path}
              /\ pending'.renames = rn /\ pending'.live = [lv EXCEPT ![e.path] = clock]
         ELSE IF e.op = "Deleted"
         THEN /\ pending'.ready = rd \ {e.path} /\ pending'.deletes = dl \cup {e.path}
              /\ pending'.renames = rn /\ pending'.live = lv
         ELSE /\ pending'.ready = rd \ {e.path, e.to} /\ pending'.deletes = dl \ {e.path}
              /\ pending'.renames = Append(rn, <<e.path, e.to>>) /\ pending'.live = lv
  <2>1. CASE e.op = "WriteComplete"
    BY <1>0, <1>2, <1>3, <1>p, <2>1 DEF Local!Collected
  <2>2. CASE e.op = "Deleted"
    BY <1>0, <1>2, <1>3, <1>p, <2>2 DEF Local!Collected
  <2>3. CASE e.op = "Renamed"
    BY <1>0, <1>2, <1>3, <1>p, <2>3 DEF Local!Collected
  <2> QED BY <1>2, <2>1, <2>2, <2>3
<1>r. e.op = "Renamed" => /\ peer[e.path] # 0 /\ Idle(e.path) /\ Idle(e.to)
  BY <1>1 DEF RenamesAhead, About, e
<1>n. /\ e.op # "Renamed" => pending'.renames = rn
      /\ e.op = "Renamed" => /\ Len(pending'.renames) = Len(rn) + 1
                             /\ \A i \in 1..Len(rn) : pending'.renames[i] = rn[i]
                             /\ pending'.renames[Len(rn) + 1][1] = e.path
                             /\ pending'.renames[Len(rn) + 1][2] = e.to
      /\ pending'.renames \in Seq(LocalFile \X LocalFile) /\ Len(rn) \in Nat
  <2>1. CASE e.op # "Renamed"
    BY <1>2, <1>c, <1>p, <2>1
  <2>2. CASE e.op = "Renamed"
    <3>1. <<e.path, e.to>> \in LocalFile \X LocalFile
      BY <1>2
    <3>2. pending'.renames = Append(rn, <<e.path, e.to>>)
      BY <1>c, <2>2
    <3>3. pending'.renames[Len(rn) + 1] = <<e.path, e.to>>
      BY <1>p, <3>1, <3>2
    <3> QED BY <1>p, <2>2, <3>1, <3>2, <3>3
  <2> QED BY <2>1, <2>2
<1>4. pending'.ready \subseteq LocalFile /\ pending'.deletes \subseteq LocalFile /\ pending'.live \in [LocalFile -> Nat]
  BY <1>2, <1>3, <1>c, <1>p
<1>5. LocalType'
  <2>1. pending' \in [ready : SUBSET LocalFile, deletes : SUBSET LocalFile,
                      renames : Seq(LocalFile \X LocalFile), live : [LocalFile -> Nat]]
    BY <1>4, <1>c, <1>n
  <2> QED BY <1>0, <1>1, <2>1 DEF LocalType
<1>6. ASSUME NEW f \in LocalFile, f \notin About(e)
      PROVE  /\ f \in pending'.ready <=> f \in pending.ready
             /\ f \in pending'.deletes <=> f \in pending.deletes
             /\ NotRenamed(f)' <=> NotRenamed(f)
             /\ Idle(f)' <=> Idle(f)
  <2>1. f # e.path /\ f # e.to
    BY <1>6 DEF About
  <2>2. /\ f \in pending'.ready <=> f \in pending.ready
        /\ f \in pending'.deletes <=> f \in pending.deletes
    BY <1>2, <1>c, <1>p, <2>1
  <2>3. NotRenamed(f)' <=> NotRenamed(f)
    <3>1. CASE e.op # "Renamed"
      BY <1>n, <1>p, <3>1 DEF NotRenamed
    <3>2. CASE e.op = "Renamed"
      <4>1. \A i \in 1..Len(pending'.renames) : i \in 1..Len(rn) \/ i = Len(rn) + 1
        BY <1>n, <3>2
      <4>2. \A i \in 1..Len(rn) : i \in 1..Len(pending'.renames) /\ pending'.renames[i] = rn[i]
        BY <1>n, <3>2
      <4> QED BY <1>n, <1>p, <2>1, <3>2, <4>1, <4>2 DEF NotRenamed
    <3> QED BY <3>1, <3>2
  <2> QED BY <2>2, <2>3 DEF Idle
<1>7. RenamesAhead'
  <2> SUFFICES ASSUME NEW i \in 1..Len(events)', events'[i].op = "Renamed"
               PROVE  /\ peer'[events'[i].path] # 0
                      /\ \A f \in About(events'[i]) :
                            Idle(f)' /\ \A j \in 1..Len(events)' : j < i => f \notin About(events'[j])
    BY DEF RenamesAhead, About
  <2>1. /\ i + 1 \in 1..Len(events) /\ events'[i] = events[i + 1] /\ 1 < i + 1
        /\ i \in Nat
    BY <1>1
  <2>2. /\ peer[events[i + 1].path] # 0
        /\ \A f \in About(events[i + 1]) :
              Idle(f) /\ \A j \in 1..Len(events) : j < i + 1 => f \notin About(events[j])
    BY <2>1 DEF RenamesAhead
  <2>3. ASSUME NEW f \in About(events'[i])
        PROVE  Idle(f)' /\ \A j \in 1..Len(events)' : j < i => f \notin About(events'[j])
    <3>1. f \in LocalFile /\ f \notin About(e)
      <4>1. events[i + 1] \in LocalEvent /\ f \in About(events[i + 1])
        BY <2>1, <2>3 DEF LocalType
      <4>2. f \in LocalFile
        BY <4>1 DEF LocalEvent, About
      <4>3. f \notin About(events[1])
        BY <1>1, <2>1, <2>2, <4>1
      <4> QED BY <4>2, <4>3 DEF e
    <3>2. ASSUME NEW j \in 1..Len(events)', j < i PROVE f \notin About(events'[j])
      BY <1>1, <2>1, <2>2, <2>3, <3>2
    <3> QED BY <1>6, <2>1, <2>2, <2>3, <3>1, <3>2
  <2> QED BY <1>0, <2>1, <2>2, <2>3
<1>8. RenamesApart'
  <2>1. CASE e.op # "Renamed"
    BY <1>0, <1>n, <1>p, <2>1 DEF RenamesApart
  <2>2. CASE e.op = "Renamed"
    <3>1. \A i \in 1..Len(pending'.renames) : i \in 1..Len(rn) \/ i = Len(rn) + 1
      BY <1>n, <2>2
    <3>2. /\ \A i \in 1..Len(rn) : /\ pending'.renames[i] = rn[i]
                                   /\ rn[i][1] # e.path /\ rn[i][2] # e.path /\ rn[i][1] # e.to /\ rn[i][2] # e.to
                                   /\ rn[i][1] # rn[i][2] /\ peer[rn[i][1]] # 0
          /\ \A i, j \in 1..Len(rn) : i # j => /\ rn[i][1] # rn[j][1] /\ rn[i][1] # rn[j][2]
                                               /\ rn[i][2] # rn[j][1] /\ rn[i][2] # rn[j][2]
      <4>1. \A i \in 1..Len(rn) : rn[i][1] # e.path /\ rn[i][2] # e.path /\ rn[i][1] # e.to /\ rn[i][2] # e.to
        BY <1>p, <1>r, <2>2 DEF Idle, NotRenamed
      <4>2. /\ \A i \in 1..Len(rn) : rn[i][1] # rn[i][2] /\ peer[rn[i][1]] # 0
            /\ \A i, j \in 1..Len(rn) : i # j => /\ rn[i][1] # rn[j][1] /\ rn[i][1] # rn[j][2]
                                                 /\ rn[i][2] # rn[j][1] /\ rn[i][2] # rn[j][2]
        BY <1>p DEF RenamesApart
      <4>3. \A i \in 1..Len(rn) : pending'.renames[i] = rn[i]
        BY <1>n, <2>2
      <4> QED BY <4>1, <4>2, <4>3
    <3>3. e.path # e.to /\ peer[e.path] # 0
      BY <1>2, <1>r, <2>2
    <3>4. ASSUME NEW i \in 1..Len(pending'.renames)
          PROVE  pending'.renames[i][1] # pending'.renames[i][2] /\ peer'[pending'.renames[i][1]] # 0
      BY <1>0, <1>n, <2>2, <3>1, <3>2, <3>3
    <3>5. ASSUME NEW i \in 1..Len(pending'.renames), NEW j \in 1..Len(pending'.renames), i # j
          PROVE  /\ pending'.renames[i][1] # pending'.renames[j][1]
                 /\ pending'.renames[i][1] # pending'.renames[j][2]
                 /\ pending'.renames[i][2] # pending'.renames[j][1]
                 /\ pending'.renames[i][2] # pending'.renames[j][2]
      <4>1. CASE i \in 1..Len(rn) /\ j \in 1..Len(rn)
        BY <3>2, <3>5, <4>1
      <4>2. CASE i \in 1..Len(rn) /\ j = Len(rn) + 1
        BY <1>n, <2>2, <3>2, <4>2
      <4>3. CASE i = Len(rn) + 1 /\ j \in 1..Len(rn)
        BY <1>n, <2>2, <3>2, <4>3
      <4> QED BY <3>1, <3>5, <4>1, <4>2, <4>3
    <3> QED BY <1>0, <3>4, <3>5 DEF RenamesApart
  <2> QED BY <2>1, <2>2
<1>9. (pending.ready \cap pending.deletes = {})'
  BY <1>2, <1>c, <1>p
<1>10. ASSUME NEW f \in LocalFile PROVE StampsOf(f)'
  <2>1. StampsOf(f)
    OBVIOUS
  <2>2. pending'.live[f] <= clock
    <3>1. lv[f] <= clock /\ lv \in [LocalFile -> Nat]
      BY <1>p, <2>1 DEF StampsOf
    <3>2. CASE e.op = "WriteComplete"
      <4>1. pending'.live = [lv EXCEPT ![e.path] = clock]
        BY <1>c, <3>2
      <4> QED BY <1>3, <3>1, <4>1
    <3>3. CASE e.op # "WriteComplete"
      <4>1. pending'.live = lv
        BY <1>c, <3>3
      <4> QED BY <3>1, <4>1
    <3> QED BY <3>2, <3>3
  <2> QED BY <1>0, <2>1, <2>2 DEF StampsOf
<1>11. ASSUME NEW f \in LocalFile, UpToDate(f)' PROVE Follows(f)'
  <2>1. CASE f \notin About(e) /\ UpToDate(f)
    <3>1. Follows(f)
      BY <2>1
    <3>2. CASE e.op # "Renamed"
      BY <1>0, <1>6, <1>n, <1>p, <2>1, <3>1, <3>2 DEF Follows
    <3>3. CASE e.op = "Renamed"
      <4>1. \A i \in 1..Len(pending'.renames) : i \in 1..Len(rn) \/ i = Len(rn) + 1
        BY <1>n, <3>3
      <4>2. f # e.path /\ f # e.to
        BY <2>1 DEF About
      <4>3. ASSUME NEW i \in 1..Len(pending'.renames), f \notin pending'.ready, f \notin pending'.deletes
            PROVE  /\ pending'.renames[i][1] = f => files'[f].v = 0
                   /\ pending'.renames[i][2] = f => files'[f].v = peer'[pending'.renames[i][1]]
        <5>1. CASE i \in 1..Len(rn)
          <6>1. pending'.renames[i] = rn[i] /\ f \notin pending.ready /\ f \notin pending.deletes
            BY <1>6, <1>n, <2>1, <3>3, <4>3, <5>1
          <6>2. /\ rn[i][1] = f => files[f].v = 0
                /\ rn[i][2] = f => files[f].v = peer[rn[i][1]]
            BY <1>p, <3>1, <5>1, <6>1 DEF Follows
          <6> QED BY <1>0, <6>1, <6>2
        <5>2. CASE i = Len(rn) + 1
          BY <1>n, <3>3, <4>2, <5>2
        <5> QED BY <4>1, <5>1, <5>2
      <4>4. /\ f \in pending'.ready => files'[f].v # 0
            /\ f \in pending'.deletes => files'[f].v = 0
            /\ f \notin pending'.ready /\ f \notin pending'.deletes /\ NotRenamed(f)' => peer'[f] = files'[f].v
        BY <1>0, <1>6, <2>1, <3>1 DEF Follows
      <4> QED BY <4>3, <4>4 DEF Follows
    <3> QED BY <3>2, <3>3
  <2>2. CASE f \in About(e) /\ TrueOf(f, e)
    <3>1. CASE e.op # "Renamed"
      <4>1. f = e.path
        BY <1>2, <2>2, <3>1 DEF About
      <4> QED BY <1>0, <1>2, <1>c, <2>2, <3>1, <4>1 DEF Follows, TrueOf
    <3>2. CASE e.op = "Renamed"
      <4>1. \A i \in 1..Len(pending'.renames) : i \in 1..Len(rn) \/ i = Len(rn) + 1
        BY <1>n, <3>2
      <4>2. f = e.path \/ f = e.to
        BY <2>2 DEF About
      <4>3. /\ f \notin rd /\ f \notin dl
            /\ \A i \in 1..Len(rn) : rn[i][1] # f /\ rn[i][2] # f
        BY <1>p, <1>r, <3>2, <4>2 DEF Idle, NotRenamed
      <4>4. f \notin pending'.ready /\ f \notin pending'.deletes
        BY <1>c, <3>2, <4>3
      <4>5. ~NotRenamed(f)'
        <5>1. Len(rn) + 1 \in 1..Len(pending'.renames)
          BY <1>n, <3>2
        <5> QED BY <1>n, <3>2, <4>2, <5>1 DEF NotRenamed
      <4>6. files[f].v = IF f = e.to THEN peer[e.path] ELSE 0
        BY <2>2, <3>2 DEF TrueOf
      <4>7. ASSUME NEW i \in 1..Len(pending'.renames)
            PROVE  /\ pending'.renames[i][1] = f => files'[f].v = 0
                   /\ pending'.renames[i][2] = f => files'[f].v = peer'[pending'.renames[i][1]]
        BY <1>0, <1>2, <1>n, <3>2, <4>1, <4>2, <4>3, <4>6
      <4> QED BY <4>4, <4>5, <4>7 DEF Follows
    <3> QED BY <3>1, <3>2
  <2> QED BY <1>1, <1>11, <2>1, <2>2
<1> QED BY <1>1, <1>5, <1>7, <1>8, <1>9, <1>10, <1>11

(* periodic_rescan: it finds every change that was missed, and no event     *)
(* contradicts it.                                                          *)
LEMMA LocalRescanStep ==
    ASSUME LocalGood, Local!Rescan, excuse' = {}
    PROVE  LocalGood'
<1> USE DEF LocalGood
<1> DEFINE changed == {f \in LocalFile : files[f].v \notin {0, listed[f]}}
           deleted == {f \in LocalFile : files[f].v = 0 /\ listed[f] # 0}
<1>0. /\ phase = "loop" /\ missed' = {}
      /\ pending' = [pending EXCEPT !.ready = (@ \cup changed) \ deleted,
                                    !.deletes = (@ \ changed) \cup deleted]
      /\ UNCHANGED <<files, told, tombs, events, phase, peer, pledger, clock>>
  BY DEF Local!Rescan, Local!UserSame
<1>1. /\ \A f \in missed : f \in changed \cup deleted
      /\ \A k \in DOMAIN events : events[k].op # "Renamed" /\ events[k].path \notin missed
  BY DEF Local!Rescan
<1>2. /\ \A f \in changed : f \in LocalFile /\ files[f].v # 0
      /\ \A f \in deleted : f \in LocalFile /\ files[f].v = 0
  OBVIOUS
<1> HIDE DEF changed, deleted
<1>3. /\ pending \in [ready : SUBSET LocalFile, deletes : SUBSET LocalFile,
                      renames : Seq(LocalFile \X LocalFile), live : [LocalFile -> Nat]]
      /\ events \in Seq(LocalEvent)
  BY DEF LocalType
<1>4. /\ pending'.ready = (pending.ready \cup changed) \ deleted
      /\ pending'.deletes = (pending.deletes \ changed) \cup deleted
      /\ pending'.renames = pending.renames /\ pending'.live = pending.live
      /\ pending' \in [ready : SUBSET LocalFile, deletes : SUBSET LocalFile,
                       renames : Seq(LocalFile \X LocalFile), live : [LocalFile -> Nat]]
  BY <1>0, <1>2, <1>3
<1>5. \A i \in 1..Len(events) : events[i].op # "Renamed" /\ events[i].path \notin missed /\ events[i].path = events[i].to
  <2>1. DOMAIN events = 1..Len(events)
    BY <1>3
  <2> QED BY <1>1, <2>1 DEF EventsShaped
<1>6. LocalType' /\ EventsShaped' /\ RenamesAhead' /\ RenamesApart'
  <2>1. LocalType'
    BY <1>0, <1>4 DEF LocalType
  <2>2. EventsShaped' /\ RenamesAhead'
    BY <1>0, <1>5 DEF EventsShaped, RenamesAhead
  <2>3. RenamesApart'
    BY <1>0, <1>4 DEF RenamesApart
  <2> QED BY <2>1, <2>2, <2>3
<1>7. EventsTrue'
  <2> SUFFICES ASSUME NEW f \in LocalFile, NEW i \in 1..Len(events), LastAbout(f, i)
               PROVE  TrueOf(f, events[i])
    BY <1>0 DEF EventsTrue, LastAbout, TrueOf
  <2>1. f \notin missed
    BY <1>5 DEF LastAbout, About
  <2> QED BY <2>1 DEF EventsTrue
<1>8. (pending.ready \cap pending.deletes = {})'
  <2>1. pending.ready \cap pending.deletes = {}
    OBVIOUS
  <2>2. changed \cap deleted = {}
    BY <1>2
  <2> QED BY <1>4, <2>1, <2>2
<1>9. \A f \in LocalFile : StampsOf(f)'
  BY <1>0, <1>4 DEF StampsOf
<1>10. ASSUME NEW f \in LocalFile, UpToDate(f)' PROVE Follows(f)'
  <2>1. NotRenamed(f)' <=> NotRenamed(f)
    BY <1>4 DEF NotRenamed
  <2>2. CASE f \in missed
    <3>1. (f \in changed /\ f \notin deleted) \/ (f \in deleted /\ f \notin changed)
      BY <1>1, <1>2, <2>2
    <3> QED BY <1>0, <1>2, <1>4, <3>1 DEF Follows
  <2>3. CASE f \notin missed
    <3>1. Follows(f)
      BY <1>0, <1>10, <2>3 DEF UpToDate
    <3>2. /\ f \in pending'.ready => files'[f].v # 0
          /\ f \in pending'.deletes => files'[f].v = 0
      BY <1>0, <1>2, <1>4, <3>1 DEF Follows
    <3>3. CASE f \notin pending'.ready /\ f \notin pending'.deletes
      <4>1. f \notin pending.ready /\ f \notin pending.deletes
        BY <1>2, <1>4, <3>1, <3>3 DEF Follows
      <4> QED BY <1>0, <1>4, <2>1, <3>1, <3>2, <4>1 DEF Follows
    <3>4. CASE ~(f \notin pending'.ready /\ f \notin pending'.deletes)
      BY <3>2, <3>4 DEF Follows
    <3> QED BY <3>3, <3>4
  <2> QED BY <2>2, <2>3
<1> QED BY <1>6, <1>7, <1>8, <1>9, <1>10

(* A scan elsewhere changes the manifest alone.                             *)
LEMMA LocalScanStep ==
    ASSUME LocalGood, Local!ScanElsewhere
    PROVE  LocalGood'
<1>1. UNCHANGED <<files, told, tombs, events, pending, phase, peer, pledger, clock, missed>>
  BY DEF Local!ScanElsewhere, Local!UserSame
<1>2. LocalType'
  BY <1>1 DEF LocalGood, LocalType
<1>3. EventsShaped' /\ EventsTrue'
  BY <1>1 DEF LocalGood, EventsShaped, EventsTrue, LastAbout, TrueOf
<1>4. RenamesAhead' /\ RenamesApart' /\ (pending.ready \cap pending.deletes = {})'
  BY <1>1 DEF LocalGood, RenamesAhead, Idle, NotRenamed, RenamesApart
<1>5. \A f \in LocalFile : StampsOf(f)'
  BY <1>1 DEF LocalGood, StampsOf
<1>6. \A f \in LocalFile : UpToDate(f)' => Follows(f)'
  BY <1>1 DEF LocalGood, UpToDate, Follows, NotRenamed
<1> QED BY <1>2, <1>3, <1>4, <1>5, <1>6 DEF LocalGood

(* A step of the flush leaves the files alone that a queued rename is       *)
(* about: what is said of the queue still is.                               *)
LEMMA QueueKept ==
    ASSUME LocalGood, UNCHANGED <<files, events, missed>>,
           \A f \in LocalFile : Idle(f) => Idle(f)' /\ peer'[f] = peer[f]
    PROVE  EventsShaped' /\ EventsTrue' /\ RenamesAhead'
<1> USE DEF LocalGood
<1>1. \A i \in 1..Len(events) : events[i] \in LocalEvent
  BY DEF LocalType
<1>2. \A i \in 1..Len(events) : events[i].op = "Renamed" =>
        peer'[events[i].path] = peer[events[i].path] /\ \A f \in About(events[i]) : Idle(f)'
  BY <1>1 DEF RenamesAhead, About, LocalEvent
<1>3. EventsShaped'
  BY DEF EventsShaped
<1>4. EventsTrue'
  <2> SUFFICES ASSUME NEW f \in LocalFile, NEW i \in 1..Len(events), f \notin missed, LastAbout(f, i)
               PROVE  TrueOf(f, events[i])'
    BY DEF EventsTrue, LastAbout
  <2>1. TrueOf(f, events[i])
    BY DEF EventsTrue
  <2> QED BY <1>2, <2>1 DEF TrueOf
<1>5. RenamesAhead'
  BY <1>2 DEF RenamesAhead, About
<1> QED BY <1>3, <1>4, <1>5

(* broadcast_paths: a file the server's ledger does not veto, the peer's    *)
(* does not veto either.                                                    *)
LEMMA LocalSendStep ==
    ASSUME LocalGood, NEW f \in LocalFile, Local!SendFile(f), excuse' = {}
    PROVE  LocalGood'
<1> USE DEF LocalGood
<1> DEFINE w == Local!wire_action_stamp(f)
<1>0. /\ phase = "files" /\ f \in pending.ready /\ phase' = phase /\ clock' = clock /\ told' = told
      /\ pending' = [pending EXCEPT !.ready = @ \ {f}]
      /\ UNCHANGED <<files, tombs, events, missed>>
      /\ ~Local!L!veto_for(tombs, f, w, files[f].m)
      /\ files[f] = Local!NoFile => peer' = peer /\ pledger' = pledger
      /\ files[f] # Local!NoFile =>
            Local!Becomes(Local!apply_file(Local!Peer, f, files[f].v, w, files[f].m))
  BY DEF Local!SendFile, Local!UserSame, Local!Becomes, Local!Peer
<1>1. /\ pending \in [ready : SUBSET LocalFile, deletes : SUBSET LocalFile,
                      renames : Seq(LocalFile \X LocalFile), live : [LocalFile -> Nat]]
      /\ clock \in Nat /\ tombs \in LocalLedger /\ pledger \in LocalLedger /\ peer \in [LocalFile -> Nat]
      /\ files[f].m \in Nat /\ files[f].v \in Nat
      /\ tombs.alive[f] \in Nat /\ pledger.alive[f] \in Nat /\ tombs.entries[f] \in Stone /\ pledger.entries[f] \in Stone
  BY DEF LocalType, LocalLedger
<1>2. w \in Stone /\ w = (IF tombs.alive[f] = 0 THEN -1
                          ELSE IF tombs.alive[f] >= files[f].m THEN tombs.alive[f] ELSE files[f].m)
  BY <1>1 DEF Local!wire_action_stamp, Local!L!NoStamp, Local!L!MaxOf, Stone
<1> HIDE DEF w
<1>3. /\ pending'.ready = pending.ready \ {f} /\ pending'.deletes = pending.deletes
      /\ pending'.renames = pending.renames /\ pending'.live = pending.live
      /\ pending' \in [ready : SUBSET LocalFile, deletes : SUBSET LocalFile,
                       renames : Seq(LocalFile \X LocalFile), live : [LocalFile -> Nat]]
      /\ pending.renames = <<>>
  BY <1>0, <1>1 DEF RenamesApart
<1>4. ~Local!L!veto_for(pledger, f, w, files[f].m)
  <2> DEFINE c == IF w = -1 THEN files[f].m ELSE w
  <2>1. c \in Nat /\ c >= tombs.alive[f]
    BY <1>1, <1>2 DEF Stone
  <2>2. /\ Local!L!veto_for(tombs, f, w, files[f].m) <=> Local!L!covering_tombstone(tombs, f) > c
        /\ Local!L!veto_for(pledger, f, w, files[f].m) <=> Local!L!covering_tombstone(pledger, f) > c
    BY DEF Local!L!veto_for, Local!L!Comparand, Local!L!NoStamp
  <2>3. pledger.entries[f] <= tombs.entries[f] \/ pledger.entries[f] <= tombs.alive[f]
    BY DEF StampsOf
  <2> HIDE DEF c
  <2>4. /\ Local!L!covering_tombstone(tombs, f) =
              IF tombs.entries[f] # -1 /\ ~(tombs.alive[f] > 0 /\ tombs.entries[f] <= tombs.alive[f])
              THEN tombs.entries[f] ELSE -1
        /\ Local!L!covering_tombstone(pledger, f) =
              IF pledger.entries[f] # -1 /\ ~(pledger.alive[f] > 0 /\ pledger.entries[f] <= pledger.alive[f])
              THEN pledger.entries[f] ELSE -1
    BY <1>1, LocalCovering
  <2>5. ~(Local!L!covering_tombstone(tombs, f) > c)
    BY <1>0, <2>2
  <2>6. /\ pledger.entries[f] \in Int /\ tombs.entries[f] \in Int /\ tombs.entries[f] >= -1 /\ pledger.entries[f] >= -1
        /\ tombs.alive[f] \in Nat /\ pledger.alive[f] \in Nat
    BY <1>1 DEF Stone
  <2>7. ~(pledger.entries[f] > c)
    BY ONLY <2>1, <2>3, <2>4, <2>5, <2>6
  <2> QED BY ONLY <2>1, <2>2, <2>4, <2>6, <2>7
<1>5. files[f] # Local!NoFile =>
        /\ peer' = [peer EXCEPT ![f] = files[f].v]
        /\ pledger' = Local!L!admit_record(pledger, f, w, files[f].m)
  BY <1>0, <1>4 DEF Local!apply_file, Local!Becomes, Local!Peer
<1>6. /\ peer' \in [LocalFile -> Nat]
      /\ \A g \in LocalFile : g # f => peer'[g] = peer[g]
      /\ files[f] # Local!NoFile => peer'[f] = files[f].v
  BY <1>0, <1>1, <1>5
<1>7. /\ pledger' \in LocalLedger
      /\ \A g \in LocalFile : g # f => pledger'.entries[g] = pledger.entries[g] /\ pledger'.alive[g] = pledger.alive[g]
      /\ \A g \in LocalFile : pledger'.entries[g] <= pledger.entries[g]
      /\ pledger'.alive[f] = pledger.alive[f] \/ pledger'.alive[f] = w \/ pledger'.alive[f] = files[f].m
  <2>1. CASE files[f] = Local!NoFile
    <3>1. pledger' = pledger /\ \A g \in LocalFile : pledger.entries[g] \in Int
      BY <1>0, <1>1, <2>1 DEF LocalLedger, Stone
    <3> QED BY ONLY <1>1, <3>1
  <2>2. CASE files[f] # Local!NoFile
    <3>1. PICK m0 \in Nat : m0 = files[f].m
      BY <1>1
    <3>2. pledger' = Local!L!admit_record(pledger, f, w, m0)
      BY <1>5, <2>2, <3>1
    <3>3. pledger \in LocalLedger /\ f \in LocalFile /\ w \in Stone
      BY <1>1, <1>2
    <3>4. /\ pledger' \in LocalLedger
          /\ \A g \in LocalFile : g # f => pledger'.entries[g] = pledger.entries[g] /\ pledger'.alive[g] = pledger.alive[g]
          /\ \A g \in LocalFile : pledger'.entries[g] <= pledger.entries[g]
          /\ pledger'.alive[f] = pledger.alive[f] \/ pledger'.alive[f] = w \/ pledger'.alive[f] = m0
      BY ONLY <3>1, <3>2, <3>3, LocalAdmit
    <3> QED BY <3>1, <3>4
  <2> QED BY <2>1, <2>2
<1>8. LocalType'
  BY <1>0, <1>3, <1>6, <1>7 DEF LocalType
<1>9. \A g \in LocalFile : Idle(g) => Idle(g)' /\ peer'[g] = peer[g]
  BY <1>0, <1>3, <1>6 DEF Idle, NotRenamed
<1>10. EventsShaped' /\ EventsTrue' /\ RenamesAhead'
  BY <1>0, <1>9, QueueKept
<1>11. RenamesApart' /\ (pending.ready \cap pending.deletes = {})'
  <2>1. pending.ready \cap pending.deletes = {}
    OBVIOUS
  <2>2. Len(pending'.renames) = 0
    BY <1>3
  <2> QED BY <1>3, <2>1, <2>2 DEF RenamesApart
<1>12. ASSUME NEW g \in LocalFile PROVE StampsOf(g)'
  <2>1. StampsOf(g) /\ StampsOf(f) /\ f \notin pending.deletes
    BY <1>0
  <2>2. /\ pledger'.entries[g] \in Int /\ pledger.entries[g] \in Int /\ tombs.entries[g] \in Int /\ tombs.alive[g] \in Nat
    BY <1>1, <1>7 DEF LocalLedger, Stone
  <2>3. pledger'.entries[g] <= pledger.entries[g]
    BY <1>7
  <2>4. pledger'.alive[g] <= clock
    <3>1. pledger.alive[g] <= clock /\ pledger.alive[f] <= clock /\ files[f].m <= clock /\ tombs.alive[f] <= clock
      BY <2>1 DEF StampsOf
    <3>2. w <= clock
      BY <1>1, <1>2, <3>1
    <3> QED BY <1>7, <3>1, <3>2
  <2>5. g \in pending'.deletes => pledger'.alive[g] < clock
    BY <1>0, <1>3, <1>7, <2>1 DEF StampsOf
  <2>6. /\ pledger'.entries[g] < clock
        /\ pledger'.entries[g] <= tombs.entries[g] \/ pledger'.entries[g] <= tombs.alive[g]
    BY <1>1, <2>1, <2>2, <2>3 DEF StampsOf
  <2> QED BY <1>0, <1>3, <2>1, <2>4, <2>5, <2>6 DEF StampsOf
<1>13. ASSUME NEW g \in LocalFile, UpToDate(g)' PROVE Follows(g)'
  <2>1. Follows(g)
    BY <1>0, <1>13 DEF UpToDate
  <2>2. Len(pending'.renames) = 0 /\ Len(pending.renames) = 0
    BY <1>3
  <2>3. CASE g # f
    BY <1>0, <1>3, <1>6, <2>1, <2>2, <2>3 DEF Follows, NotRenamed
  <2>4. CASE g = f
    <3>1. files[f].v # 0 /\ files[f] # Local!NoFile
      BY <1>0, <2>1, <2>4 DEF Follows, Local!NoFile
    <3> QED BY <1>0, <1>3, <1>6, <2>2, <2>4, <3>1 DEF Follows
  <2> QED BY <2>3, <2>4
<1> QED BY <1>8, <1>10, <1>11, <1>12, <1>13

(* take_deletes_with_engine: no live record of the peer is as new.          *)
LEMMA LocalDeletesStep ==
    ASSUME LocalGood, Local!FlushDeletes
    PROVE  LocalGood'
<1> USE DEF LocalGood
<1> DEFINE gone0 == pending.deletes
           stones == [f \in LocalFile |-> IF f \in gone0 THEN clock ELSE -1]
<1>0. /\ phase = "files" /\ pending.ready = {} /\ phase' = "loop" /\ clock' = clock + 1 /\ told' = told
      /\ pending' = [pending EXCEPT !.deletes = {}]
      /\ tombs' = Local!L!merge_remote(tombs, stones)
      /\ UNCHANGED <<files, events, missed>>
      /\ pledger' = Local!L!merge_remote(pledger, stones)
      /\ peer' = [f \in LocalFile |-> IF f \in gone0 /\ ~Local!L!is_superseded(pledger, f, clock) THEN 0 ELSE peer[f]]
  BY DEF Local!FlushDeletes, Local!UserSame, Local!Becomes, Local!Peer, Local!apply_deletes, Local!L!NoStamp
<1>1. /\ pending \in [ready : SUBSET LocalFile, deletes : SUBSET LocalFile,
                      renames : Seq(LocalFile \X LocalFile), live : [LocalFile -> Nat]]
      /\ clock \in Nat /\ tombs \in LocalLedger /\ pledger \in LocalLedger /\ peer \in [LocalFile -> Nat]
  BY DEF LocalType
<1>2. /\ pending'.ready = {} /\ pending'.deletes = {} /\ Len(pending'.renames) = 0 /\ Len(pending.renames) = 0
      /\ pending'.live = pending.live
      /\ pending' \in [ready : SUBSET LocalFile, deletes : SUBSET LocalFile,
                       renames : Seq(LocalFile \X LocalFile), live : [LocalFile -> Nat]]
  BY <1>0, <1>1 DEF RenamesApart
<1>3. /\ tombs' \in LocalLedger /\ tombs'.alive = tombs.alive
      /\ pledger' \in LocalLedger /\ pledger'.alive = pledger.alive
      /\ \A f \in LocalFile :
           /\ tombs'.entries[f] = IF f \in gone0 /\ ~(tombs.alive[f] > 0 /\ clock <= tombs.alive[f]) /\ tombs.entries[f] < clock
                                  THEN clock ELSE tombs.entries[f]
           /\ pledger'.entries[f] = IF f \in gone0 /\ ~(pledger.alive[f] > 0 /\ clock <= pledger.alive[f]) /\ pledger.entries[f] < clock
                                    THEN clock ELSE pledger.entries[f]
  <2>1. gone0 \in SUBSET LocalFile
    BY <1>1
  <2>2. PICK g0, r : g0 = gone0 /\ r = stones
    OBVIOUS
  <2>3. /\ g0 \in SUBSET LocalFile /\ clock \in Nat /\ r = [f \in LocalFile |-> IF f \in g0 THEN clock ELSE -1]
        /\ tombs' = Local!L!merge_remote(tombs, r) /\ pledger' = Local!L!merge_remote(pledger, r)
        /\ tombs \in LocalLedger /\ pledger \in LocalLedger
    BY <1>0, <1>1, <2>1, <2>2
  <2> HIDE DEF gone0, stones
  <2>4. /\ tombs' \in LocalLedger /\ tombs'.alive = tombs.alive
        /\ \A f \in LocalFile :
             tombs'.entries[f] = IF f \in g0 /\ ~(tombs.alive[f] > 0 /\ clock <= tombs.alive[f]) /\ tombs.entries[f] < clock
                                 THEN clock ELSE tombs.entries[f]
    BY ONLY <2>3, LocalMergeRemote
  <2>5. /\ pledger' \in LocalLedger /\ pledger'.alive = pledger.alive
        /\ \A f \in LocalFile :
             pledger'.entries[f] = IF f \in g0 /\ ~(pledger.alive[f] > 0 /\ clock <= pledger.alive[f]) /\ pledger.entries[f] < clock
                                   THEN clock ELSE pledger.entries[f]
    BY ONLY <2>3, LocalMergeRemote
  <2> QED BY <2>2, <2>4, <2>5
<1>4. \A f \in LocalFile : peer'[f] = IF f \in gone0 THEN 0 ELSE peer[f]
  <2> TAKE f \in LocalFile
  <2>1. f \in gone0 => ~Local!L!is_superseded(pledger, f, clock)
    <3>1. StampsOf(f) /\ pledger.alive[f] \in Nat
      BY <1>1 DEF LocalLedger
    <3> QED BY <1>1, <3>1 DEF StampsOf, Local!L!is_superseded
  <2> QED BY <1>0, <2>1
<1>5. LocalType'
  <2>1. peer' \in [LocalFile -> Nat]
    BY <1>0, <1>1
  <2>2. clock' \in Nat /\ clock' > 0
    BY <1>0, <1>1
  <2> HIDE DEF gone0, stones
  <2> QED BY <1>0, <1>2, <1>3, <2>1, <2>2 DEF LocalType
<1>6. \A g \in LocalFile : Idle(g) => Idle(g)' /\ peer'[g] = peer[g]
  BY <1>2, <1>4 DEF Idle, NotRenamed
<1>7. EventsShaped' /\ EventsTrue' /\ RenamesAhead'
  BY <1>0, <1>6, QueueKept
<1>8. RenamesApart' /\ (pending.ready \cap pending.deletes = {})'
  BY <1>0, <1>2 DEF RenamesApart
<1>9. ASSUME NEW f \in LocalFile PROVE StampsOf(f)'
  <2>1. StampsOf(f)
    OBVIOUS
  <2>2. /\ pledger.entries[f] \in Int /\ tombs.entries[f] \in Int /\ tombs.alive[f] \in Nat /\ pledger.alive[f] \in Nat
        /\ files[f].m \in Nat /\ pending.live[f] \in Nat
    BY <1>1 DEF LocalLedger, Stone, LocalType
  <2>a. /\ tombs'.alive[f] = tombs.alive[f]
        /\ tombs'.entries[f] = IF f \in gone0 /\ ~(tombs.alive[f] > 0 /\ clock <= tombs.alive[f]) /\ tombs.entries[f] < clock
                               THEN clock ELSE tombs.entries[f]
        /\ pledger'.entries[f] = IF f \in gone0 /\ ~(pledger.alive[f] > 0 /\ clock <= pledger.alive[f]) /\ pledger.entries[f] < clock
                                 THEN clock ELSE pledger.entries[f]
    BY <1>3
  <2>b. /\ pledger.entries[f] < clock
        /\ pledger.entries[f] <= tombs.entries[f] \/ pledger.entries[f] <= tombs.alive[f]
        /\ f \in gone0 => pledger.alive[f] < clock
    BY <2>1 DEF StampsOf
  <2> HIDE DEF gone0
  <2>3. pledger'.entries[f] < clock + 1
    BY ONLY <1>1, <2>2, <2>a, <2>b
  <2>4. pledger'.entries[f] <= tombs'.entries[f] \/ pledger'.entries[f] <= tombs'.alive[f]
    BY ONLY <1>1, <2>2, <2>a, <2>b
  <2> QED BY <1>0, <1>1, <1>2, <1>3, <2>1, <2>2, <2>3, <2>4 DEF StampsOf
<1>10. ASSUME NEW f \in LocalFile, UpToDate(f)' PROVE Follows(f)'
  <2>1. Follows(f)
    BY <1>0, <1>10 DEF UpToDate
  <2>2. peer'[f] = files[f].v
    BY <1>0, <1>2, <1>4, <2>1 DEF Follows, NotRenamed
  <2> QED BY <1>0, <1>2, <2>2 DEF Follows
<1> QED BY <1>5, <1>7, <1>8, <1>9, <1>10

-----------------------------------------------------------------------------
(* Renames one after the other at the peer.                                 *)

(* The order of the numbers, as a set of pairs.                             *)
Less == {ss \in Nat \X Nat : ss[1] < ss[2]}

(* A set that holds 0 and with a number the next holds every number.        *)
LEMMA EveryNumber ==
    ASSUME NEW S, 0 \in S, \A n \in Nat : n \in S => n + 1 \in S
    PROVE  Nat \subseteq S
<1> DEFINE T == Nat \ S
<1>0. IsWellFoundedOn(Less, Nat)
  BY NatLessThanWellFounded DEF OpToRel, Less
<1>1. SUFFICES ASSUME T # {} PROVE FALSE
  BY <1>1
<1>2. PICK x \in T : \A y \in T : ~(<<y, x>> \in Less)
  <2>1. T \subseteq Nat
    OBVIOUS
  <2> QED BY <1>0, <1>1, <2>1, WFMin
<1>3. x \in Nat /\ x # 0 /\ x - 1 \in Nat /\ x - 1 \notin T
  <2>1. x \in Nat /\ x # 0 /\ x - 1 \in Nat /\ x - 1 < x
    OBVIOUS
  <2>2. <<x - 1, x>> \in Less
    BY <2>1 DEF Less
  <2> QED BY <1>2, <2>1, <2>2
<1>4. x - 1 \in S /\ x = (x - 1) + 1
  BY <1>3
<1> QED BY <1>2, <1>3, <1>4

(* What the peer has: its files and its ledger.                             *)
PeerState == [disk : [LocalFile -> Nat], ledger : LocalLedger]

(* g[i] is what the peer has after i of the renames.                        *)
RenameRun(g, r, rs, d, n) ==
    g = [i \in 0..n |-> IF i = 0 THEN r ELSE Local!apply_rename_at(g[i - 1], rs[i][1], rs[i][2], d)]

(* There is such a run for any renames.                                     *)
LEMMA RenameRunExists ==
    ASSUME NEW r, NEW rs, NEW d, NEW n \in Nat
    PROVE  \E g : RenameRun(g, r, rs, d, n)
<1> DEFINE S == {k \in Nat : \E g : RenameRun(g, r, rs, d, k)}
<1>1. 0 \in S
  <2> DEFINE g == [i \in 0..0 |-> r]
  <2>1. g = [i \in 0..0 |-> IF i = 0 THEN r ELSE Local!apply_rename_at(g[i - 1], rs[i][1], rs[i][2], d)]
    OBVIOUS
  <2>2. RenameRun(g, r, rs, d, 0)
    BY <2>1 DEF RenameRun
  <2> QED BY <2>2
<1>2. ASSUME NEW k \in Nat, k \in S PROVE k + 1 \in S
  <2>1. PICK g : RenameRun(g, r, rs, d, k)
    BY <1>2
  <2> DEFINE F(x, i) == Local!apply_rename_at(x, rs[i][1], rs[i][2], d)
             h == [i \in 0..(k + 1) |-> IF i = k + 1 THEN F(g[k], k + 1) ELSE g[i]]
  <2>2. \A i \in 0..k : g[i] = IF i = 0 THEN r ELSE F(g[i - 1], i)
    BY <2>1 DEF RenameRun
  <2> HIDE DEF F
  <2>3. ASSUME NEW i \in 0..(k + 1)
        PROVE  h[i] = IF i = 0 THEN r ELSE F(h[i - 1], i)
    <3>1. CASE i = k + 1
      BY <3>1
    <3>2. CASE i # k + 1
      <4>1. i \in 0..k /\ h[i] = g[i] /\ (i # 0 => i - 1 \in 0..k /\ i - 1 # k + 1 /\ h[i - 1] = g[i - 1])
        BY <3>2
      <4> QED BY <2>2, <4>1
    <3> QED BY <3>1, <3>2
  <2>4. h = [i \in 0..(k + 1) |-> h[i]]
    OBVIOUS
  <2> HIDE DEF h
  <2>5. h = [i \in 0..(k + 1) |-> IF i = 0 THEN r ELSE F(h[i - 1], i)]
    BY <2>3, <2>4
  <2>6. RenameRun(h, r, rs, d, k + 1)
    BY <2>5 DEF RenameRun, F
  <2> QED BY <2>6
<1> HIDE DEF S
<1>3. n \in S
  BY <1>1, <1>2, EveryNumber
<1> QED BY <1>3 DEF S

(* One rename, of a file the peer has and to where nothing newer was        *)
(* deleted.                                                                 *)
LEMMA OneRename ==
    ASSUME NEW r \in PeerState, NEW x \in LocalFile, NEW y \in LocalFile, x # y, NEW d \in Nat,
           r.ledger.entries[y] < d, r.disk[x] # 0,
           NEW k, k = Local!apply_rename_at(r, x, y, d)
    PROVE  /\ k \in PeerState
           /\ k.disk[y] = r.disk[x] /\ k.disk[x] = 0
           /\ \A f \in LocalFile : f # x /\ f # y => k.disk[f] = r.disk[f]
           /\ \A f \in LocalFile : f # y => k.ledger.alive[f] = r.ledger.alive[f]
           /\ \A f \in LocalFile : k.ledger.entries[f] <= r.ledger.entries[f]
           /\ k.ledger.alive[y] = r.ledger.alive[y] \/ k.ledger.alive[y] = d \/ k.ledger.alive[y] = 0
<1>1. PICK l, q : l = r.ledger /\ q = r.disk /\ l \in LocalLedger /\ q \in [LocalFile -> Nat]
  BY DEF PeerState
<1>2. l.entries[y] \in Int /\ l.alive[y] \in Nat
  BY <1>1 DEF LocalLedger, Stone
<1>3. ~Local!L!veto_for(l, y, d, 0)
  <2>1. Local!L!covering_tombstone(l, y) =
          IF l.entries[y] # -1 /\ ~(l.alive[y] > 0 /\ l.entries[y] <= l.alive[y]) THEN l.entries[y] ELSE -1
    BY <1>1, LocalCovering
  <2>2. d # -1 /\ l.entries[y] < d
    BY <1>1
  <2> QED BY <1>2, <2>1, <2>2 DEF Local!L!veto_for, Local!L!Comparand, Local!L!NoStamp
<1>4. PICK z : z = Local!L!admit_record(l, y, d, 0)
  OBVIOUS
<1>5. /\ z \in LocalLedger
      /\ \A g \in LocalFile : g # y => z.entries[g] = l.entries[g] /\ z.alive[g] = l.alive[g]
      /\ \A g \in LocalFile : z.entries[g] <= l.entries[g]
      /\ z.alive[y] = l.alive[y] \/ z.alive[y] = d \/ z.alive[y] = 0
  <2>1. d \in Stone
    BY DEF Stone
  <2>2. PICK m \in Nat : m = 0
    OBVIOUS
  <2>3. z = Local!L!admit_record(l, y, d, m) /\ y \in LocalFile /\ l \in LocalLedger /\ m \in Nat
    BY <1>1, <1>4, <2>2
  <2>4. /\ z \in LocalLedger
        /\ \A g \in LocalFile : g # y => z.entries[g] = l.entries[g] /\ z.alive[g] = l.alive[g]
        /\ \A g \in LocalFile : z.entries[g] <= l.entries[g]
        /\ z.alive[y] = l.alive[y] \/ z.alive[y] = d \/ z.alive[y] = m
    BY ONLY <2>1, <2>3, LocalAdmit
  <2> QED BY <2>2, <2>4
<1>6. k = [disk |-> [q EXCEPT ![y] = q[x], ![x] = 0], ledger |-> z]
  BY <1>1, <1>3, <1>4 DEF Local!apply_rename_at
<1>7. k.ledger = z /\ k.disk = [q EXCEPT ![y] = q[x], ![x] = 0]
  BY <1>6
<1>8. k \in PeerState
  BY <1>1, <1>5, <1>6 DEF PeerState
<1> QED BY <1>1, <1>5, <1>7, <1>8

(* The first n of the renames, made on r, give x.                           *)
RenamedTo(x, r, rs, d, n) ==
    /\ x \in PeerState
    /\ \A f \in LocalFile : (\A i \in 1..n : rs[i][1] # f /\ rs[i][2] # f) => x.disk[f] = r.disk[f]
    /\ \A i \in 1..n : x.disk[rs[i][1]] = 0 /\ x.disk[rs[i][2]] = r.disk[rs[i][1]]
    /\ \A f \in LocalFile : (\A i \in 1..n : rs[i][2] # f) => x.ledger.alive[f] = r.ledger.alive[f]
    /\ \A f \in LocalFile : x.ledger.entries[f] <= r.ledger.entries[f] /\ x.ledger.alive[f] <= d

(* Renames that have no file in common.                                     *)
LEMMA RenamesEffect ==
    ASSUME NEW r \in PeerState, NEW rs \in Seq(LocalFile \X LocalFile), NEW d \in Nat,
           \A f \in LocalFile : r.ledger.entries[f] < d /\ r.ledger.alive[f] <= d,
           \A i \in 1..Len(rs) : rs[i][1] # rs[i][2] /\ r.disk[rs[i][1]] # 0,
           \A i, j \in 1..Len(rs) : i # j => /\ rs[i][1] # rs[j][1] /\ rs[i][1] # rs[j][2]
                                             /\ rs[i][2] # rs[j][1] /\ rs[i][2] # rs[j][2]
    PROVE  RenamedTo(Local!ApplyRenames(r, rs, d), r, rs, d, Len(rs))
<1> DEFINE N == Len(rs)
           g == CHOOSE h : h = [i \in 0..N |-> IF i = 0 THEN r ELSE Local!apply_rename_at(h[i - 1], rs[i][1], rs[i][2], d)]
<1>1. N \in Nat /\ \A i \in 1..N : rs[i][1] \in LocalFile /\ rs[i][2] \in LocalFile
  <2>1. N \in Nat /\ \A i \in 1..N : rs[i] \in LocalFile \X LocalFile
    OBVIOUS
  <2> QED BY <2>1
<1>2. Local!ApplyRenames(r, rs, d) = g[N]
  BY DEF Local!ApplyRenames
<1>3. g = [i \in 0..N |-> IF i = 0 THEN r ELSE Local!apply_rename_at(g[i - 1], rs[i][1], rs[i][2], d)]
  <2>1. PICK h : RenameRun(h, r, rs, d, N)
    BY <1>1, RenameRunExists
  <2>2. h = [i \in 0..N |-> IF i = 0 THEN r ELSE Local!apply_rename_at(h[i - 1], rs[i][1], rs[i][2], d)]
    BY <2>1 DEF RenameRun
  <2> QED BY <2>2
<1> HIDE DEF g
<1>4. /\ g[0] = r
      /\ \A i \in 1..N : g[i] = Local!apply_rename_at(g[i - 1], rs[i][1], rs[i][2], d)
  BY <1>1, <1>3
<1> HIDE DEF N
<1> DEFINE S == {n \in Nat : n <= N => RenamedTo(g[n], r, rs, d, n)}
<1>5. 0 \in S
  <2>1. \A f \in LocalFile : r.ledger.entries[f] \in Int
    BY DEF PeerState, LocalLedger, Stone
  <2>2. RenamedTo(r, r, rs, d, 0)
    BY <2>1 DEF RenamedTo
  <2> QED BY <1>4, <2>2
<1>6. ASSUME NEW n \in Nat, n \in S PROVE n + 1 \in S
  <2> SUFFICES ASSUME n + 1 <= N PROVE RenamedTo(g[n + 1], r, rs, d, n + 1)
    OBVIOUS
  <2>1. PICK a, b, x, y : a = g[n] /\ b = g[n + 1] /\ x = rs[n + 1][1] /\ y = rs[n + 1][2]
    OBVIOUS
  <2>2. /\ RenamedTo(a, r, rs, d, n) /\ n \in 0..N /\ n + 1 \in 1..N
        /\ b = Local!apply_rename_at(a, x, y, d) /\ x \in LocalFile /\ y \in LocalFile
    <3>1. n <= N /\ n \in 0..N /\ n + 1 \in 1..N /\ (n + 1) - 1 = n
      BY <1>1
    <3> QED BY <1>1, <1>4, <1>6, <2>1, <3>1
  <2>3. /\ x # y /\ r.disk[x] # 0
        /\ \A i \in 1..n : rs[i][1] # x /\ rs[i][2] # x /\ rs[i][1] # y /\ rs[i][2] # y
    <3>1. \A i \in 1..n : i \in 1..N /\ i # n + 1
      BY <1>1
    <3> QED BY <2>1, <2>2, <3>1 DEF N
  <2>4. /\ a \in PeerState /\ a.disk[x] = r.disk[x] /\ a.ledger.entries[y] <= r.ledger.entries[y]
        /\ a.ledger.entries[y] \in Int /\ r.ledger.entries[y] \in Int /\ a.ledger.entries[y] < d
    <3>1. a \in PeerState /\ a.disk[x] = r.disk[x] /\ a.ledger.entries[y] <= r.ledger.entries[y]
      BY <2>2, <2>3 DEF RenamedTo
    <3>2. a.ledger.entries[y] \in Int /\ r.ledger.entries[y] \in Int
      BY <2>2, <3>1 DEF PeerState, LocalLedger, Stone
    <3>3. r.ledger.entries[y] < d
      BY <2>2
    <3> QED BY <3>1, <3>2, <3>3
  <2>5. /\ b \in PeerState
        /\ b.disk[y] = a.disk[x] /\ b.disk[x] = 0
        /\ \A f \in LocalFile : f # x /\ f # y => b.disk[f] = a.disk[f]
        /\ \A f \in LocalFile : f # y => b.ledger.alive[f] = a.ledger.alive[f]
        /\ \A f \in LocalFile : b.ledger.entries[f] <= a.ledger.entries[f]
        /\ b.ledger.alive[y] = a.ledger.alive[y] \/ b.ledger.alive[y] = d \/ b.ledger.alive[y] = 0
    <3>1. a.disk[x] # 0
      BY <2>3, <2>4
    <3> QED BY ONLY <2>2, <2>3, <2>4, <3>1, d \in Nat, OneRename
  <2>6. \A i \in 1..(n + 1) : i \in 1..n \/ i = n + 1
    OBVIOUS
  <2>7. \A i \in 1..n : i \in 1..(n + 1) /\ i \in 1..N
    BY <1>1
  <2>8. n + 1 \in 1..(n + 1)
    OBVIOUS
  <2>9. ASSUME NEW f \in LocalFile, \A i \in 1..(n + 1) : rs[i][1] # f /\ rs[i][2] # f
        PROVE  b.disk[f] = r.disk[f]
    BY <2>1, <2>2, <2>5, <2>7, <2>8, <2>9 DEF RenamedTo
  <2>10. ASSUME NEW i \in 1..(n + 1)
         PROVE  b.disk[rs[i][1]] = 0 /\ b.disk[rs[i][2]] = r.disk[rs[i][1]]
    <3>1. CASE i \in 1..n
      <4>1. a.disk[rs[i][1]] = 0 /\ a.disk[rs[i][2]] = r.disk[rs[i][1]]
        BY <2>2, <3>1 DEF RenamedTo
      <4>2. rs[i][1] \in LocalFile /\ rs[i][2] \in LocalFile
        BY <1>1, <2>7, <3>1
      <4> QED BY <2>3, <2>5, <3>1, <4>1, <4>2
    <3>2. CASE i = n + 1
      BY <2>1, <2>4, <2>5, <3>2
    <3> QED BY <2>6, <3>1, <3>2
  <2>11. ASSUME NEW f \in LocalFile, \A i \in 1..(n + 1) : rs[i][2] # f
         PROVE  b.ledger.alive[f] = r.ledger.alive[f]
    BY <2>1, <2>2, <2>5, <2>7, <2>8, <2>11 DEF RenamedTo
  <2>12. ASSUME NEW f \in LocalFile
         PROVE  b.ledger.entries[f] <= r.ledger.entries[f] /\ b.ledger.alive[f] <= d
    <3>1. a.ledger.entries[f] <= r.ledger.entries[f] /\ a.ledger.alive[f] <= d
      BY <2>2 DEF RenamedTo
    <3>2. /\ a.ledger.entries[f] \in Int /\ r.ledger.entries[f] \in Int /\ b.ledger.entries[f] \in Int
          /\ a.ledger.alive[f] \in Nat
      <4>1. a.ledger \in LocalLedger /\ b.ledger \in LocalLedger /\ r.ledger \in LocalLedger
        BY <2>4, <2>5 DEF PeerState
      <4>2. \A l \in LocalLedger : l.entries[f] \in Int /\ l.alive[f] \in Nat
        BY DEF LocalLedger, Stone
      <4> QED BY <4>1, <4>2
    <3> QED BY <2>5, <3>1, <3>2
  <2>13. RenamedTo(b, r, rs, d, n + 1)
    BY <2>5, <2>9, <2>10, <2>11, <2>12 DEF RenamedTo
  <2> QED BY <2>1, <2>13
<1> HIDE DEF S
<1>7. N \in S
  BY <1>1, <1>5, <1>6, EveryNumber
<1>8. RenamedTo(g[N], r, rs, d, N)
  BY <1>1, <1>7 DEF S
<1> QED BY <1>2, <1>8 DEF N

(* flush_local_changes, the renames: each finds its source and is not       *)
(* vetoed.                                                                  *)
LEMMA LocalRenamesStep ==
    ASSUME LocalGood, Local!FlushRenames, excuse' = {}
    PROVE  LocalGood'
<1> USE DEF LocalGood
<1> DEFINE live0 == [f \in LocalFile |-> IF f \in Local!Targets THEN clock ELSE pending.live[f]]
<1>0. /\ phase = "loop" /\ phase' = "files" /\ clock' = clock /\ told' = told
      /\ tombs' = Local!L!merge_alive(tombs, live0)
      /\ Local!Becomes(Local!ApplyRenames(Local!Peer, pending.renames, clock))
      /\ pending' = [pending EXCEPT !.renames = <<>>, !.live = Local!Nothing.live]
      /\ UNCHANGED <<files, events, missed>>
      /\ Local!Targets \cap pending.deletes = {}
  BY DEF Local!FlushRenames, Local!UserSame
<1>1. /\ pending \in [ready : SUBSET LocalFile, deletes : SUBSET LocalFile,
                      renames : Seq(LocalFile \X LocalFile), live : [LocalFile -> Nat]]
      /\ clock \in Nat /\ tombs \in LocalLedger /\ pledger \in LocalLedger /\ peer \in [LocalFile -> Nat]
  BY DEF LocalType
<1>2. PICK rs : rs = pending.renames /\ rs \in Seq(LocalFile \X LocalFile)
  BY <1>1
<1>3. /\ pending'.ready = pending.ready /\ pending'.deletes = pending.deletes
      /\ Len(pending'.renames) = 0 /\ pending'.renames = <<>>
      /\ \A f \in LocalFile : pending'.live[f] = 0
      /\ pending' \in [ready : SUBSET LocalFile, deletes : SUBSET LocalFile,
                       renames : Seq(LocalFile \X LocalFile), live : [LocalFile -> Nat]]
  <2>1. Local!Nothing.live = [f \in LocalFile |-> 0]
    BY DEF Local!Nothing
  <2>0. <<>> \in Seq(LocalFile \X LocalFile) /\ Len(<<>>) = 0
    OBVIOUS
  <2>2. PICK no : no = <<>> /\ no \in Seq(LocalFile \X LocalFile) /\ Len(no) = 0
    BY <2>0, Zenon
  <2>3. pending' = [pending EXCEPT !.renames = no, !.live = [f \in LocalFile |-> 0]]
    BY <1>0, <2>1, <2>2
  <2>4. /\ pending'.ready = pending.ready /\ pending'.deletes = pending.deletes
        /\ pending'.renames = no /\ pending'.live = [f \in LocalFile |-> 0]
        /\ pending' \in [ready : SUBSET LocalFile, deletes : SUBSET LocalFile,
                         renames : Seq(LocalFile \X LocalFile), live : [LocalFile -> Nat]]
    BY <1>1, <2>2, <2>3
  <2> QED BY <2>2, <2>4
<1>4. /\ tombs' \in LocalLedger
      /\ \A f \in LocalFile :
           /\ live0[f] \in Nat /\ live0[f] <= clock
           /\ tombs'.alive[f] = (IF tombs.alive[f] >= live0[f] THEN tombs.alive[f] ELSE live0[f])
           /\ tombs'.entries[f] = tombs.entries[f] \/ tombs.entries[f] <= live0[f]
  <2>1. live0 \in [LocalFile -> Nat] /\ \A f \in LocalFile : live0[f] \in Nat /\ live0[f] <= clock
    BY <1>1 DEF StampsOf
  <2> HIDE DEF live0
  <2> QED BY <1>0, <1>1, <2>1, LocalMergeAlive
<1> HIDE DEF live0
<1>a. Local!Peer \in PeerState /\ Local!Peer.disk = peer /\ Local!Peer.ledger = pledger
  BY <1>1 DEF Local!Peer, PeerState
<1>5. PICK r : r = Local!Peer /\ r \in PeerState /\ r.disk = peer /\ r.ledger = pledger
  BY <1>a, Zenon
<1>6. PICK x : /\ x = Local!ApplyRenames(r, rs, clock) /\ peer' = x.disk /\ pledger' = x.ledger
               /\ RenamedTo(x, r, rs, clock, Len(rs))
  <2>1. \A f \in LocalFile : r.ledger.entries[f] < clock /\ r.ledger.alive[f] <= clock
    BY <1>5 DEF StampsOf
  <2>2. /\ \A i \in 1..Len(rs) : rs[i][1] # rs[i][2] /\ r.disk[rs[i][1]] # 0
        /\ \A i, j \in 1..Len(rs) : i # j => /\ rs[i][1] # rs[j][1] /\ rs[i][1] # rs[j][2]
                                            /\ rs[i][2] # rs[j][1] /\ rs[i][2] # rs[j][2]
    BY <1>2, <1>5 DEF RenamesApart
  <2>3. RenamedTo(Local!ApplyRenames(r, rs, clock), r, rs, clock, Len(rs))
    BY ONLY <1>1, <1>2, <1>5, <2>1, <2>2, RenamesEffect
  <2> QED BY <1>0, <1>2, <1>5, <2>3 DEF Local!Becomes
<1>7. /\ peer' \in [LocalFile -> Nat] /\ pledger' \in LocalLedger
      /\ \A f \in LocalFile : NotRenamed(f) => peer'[f] = peer[f]
      /\ \A i \in 1..Len(rs) : peer'[rs[i][1]] = 0 /\ peer'[rs[i][2]] = peer[rs[i][1]]
      /\ \A f \in LocalFile : (\A i \in 1..Len(rs) : rs[i][2] # f) => pledger'.alive[f] = pledger.alive[f]
      /\ \A f \in LocalFile : pledger'.entries[f] <= pledger.entries[f] /\ pledger'.alive[f] <= clock
  BY <1>2, <1>5, <1>6 DEF RenamedTo, PeerState, NotRenamed
<1>8. LocalType'
  BY <1>0, <1>3, <1>4, <1>7 DEF LocalType
<1>9. \A f \in LocalFile : Idle(f) => Idle(f)' /\ peer'[f] = peer[f]
  BY <1>3, <1>7 DEF Idle, NotRenamed
<1>10. EventsShaped' /\ EventsTrue' /\ RenamesAhead'
  BY <1>0, <1>9, QueueKept
<1>11. RenamesApart' /\ (pending.ready \cap pending.deletes = {})'
  BY <1>3 DEF RenamesApart
<1>12. ASSUME NEW f \in LocalFile PROVE StampsOf(f)'
  <2>1. StampsOf(f)
    OBVIOUS
  <2>2. /\ pledger.entries[f] \in Int /\ tombs.entries[f] \in Int /\ tombs.alive[f] \in Nat
        /\ pledger'.entries[f] \in Int /\ tombs'.entries[f] \in Int /\ tombs'.alive[f] \in Nat
    <3>1. \A l \in LocalLedger : l.entries[f] \in Int /\ l.alive[f] \in Nat
      BY DEF LocalLedger, Stone
    <3> QED BY <1>1, <1>4, <1>7, <3>1
  <2>3. PICK v \in Nat : /\ v \in Nat /\ v = live0[f] /\ v <= clock
                         /\ tombs'.alive[f] = (IF tombs.alive[f] >= v THEN tombs.alive[f] ELSE v)
                         /\ tombs'.entries[f] = tombs.entries[f] \/ tombs.entries[f] <= v
    BY <1>4
  <2>4. pledger'.entries[f] <= pledger.entries[f] /\ pledger'.alive[f] <= clock
    BY <1>7
  <2>5. /\ pledger.entries[f] < clock /\ tombs.alive[f] <= clock /\ files[f].m <= clock
        /\ pledger.entries[f] <= tombs.entries[f] \/ pledger.entries[f] <= tombs.alive[f]
        /\ pledger.alive[f] < clock
    BY <1>0, <2>1 DEF StampsOf
  <2>6. /\ pledger'.entries[f] < clock /\ tombs'.alive[f] <= clock
        /\ pledger'.entries[f] <= tombs'.entries[f] \/ pledger'.entries[f] <= tombs'.alive[f]
    <3>0. clock \in Nat
      BY <1>1
    <3>1. pledger'.entries[f] < clock
      BY ONLY <2>2, <2>4, <2>5, <3>0
    <3>2. tombs'.alive[f] <= clock /\ tombs'.alive[f] >= tombs.alive[f] /\ tombs'.alive[f] >= v
      BY ONLY <2>2, <2>3, <2>5, <3>0
    <3>3. CASE pledger.entries[f] <= tombs.alive[f]
      BY ONLY <2>2, <2>4, <3>1, <3>2, <3>3
    <3>4. CASE pledger.entries[f] <= tombs.entries[f] /\ tombs.entries[f] <= v
      BY ONLY <2>2, <2>3, <2>4, <3>1, <3>2, <3>4
    <3>5. CASE pledger.entries[f] <= tombs.entries[f] /\ tombs'.entries[f] = tombs.entries[f]
      BY ONLY <2>2, <2>4, <3>1, <3>2, <3>5
    <3> QED BY <2>3, <2>5, <3>3, <3>4, <3>5
  <2>7. f \in pending.deletes => pledger'.alive[f] < clock
    <3>1. f \in pending.deletes => \A i \in 1..Len(rs) : rs[i][2] # f
      <4>1. DOMAIN pending.renames = 1..Len(rs)
        BY <1>2
      <4>2. \A i \in 1..Len(rs) : rs[i][2] \in Local!Targets
        BY <1>2, <4>1 DEF Local!Targets
      <4> QED BY <1>0, <4>2
    <3> QED BY <1>7, <2>5, <3>1
  <2>8. pending'.live[f] = 0 /\ 0 <= clock
    BY <1>1, <1>3
  <2> QED BY <1>0, <1>3, <2>4, <2>5, <2>6, <2>7, <2>8 DEF StampsOf
<1>13. ASSUME NEW f \in LocalFile, UpToDate(f)' PROVE Follows(f)'
  <2>1. Follows(f)
    BY <1>0, <1>13 DEF UpToDate
  <2>2. /\ f \in pending'.ready => files'[f].v # 0
        /\ f \in pending'.deletes => files'[f].v = 0
    BY <1>0, <1>3, <2>1 DEF Follows
  <2>3. ASSUME f \notin pending.ready, f \notin pending.deletes PROVE peer'[f] = files[f].v
    <3>1. CASE NotRenamed(f)
      BY <1>7, <2>1, <2>3, <3>1 DEF Follows
    <3>2. CASE ~NotRenamed(f)
      <4>1. PICK i \in 1..Len(rs) : rs[i][1] = f \/ rs[i][2] = f
        BY <1>2, <3>2 DEF NotRenamed
      <4>2. /\ rs[i][1] = f => files[f].v = 0
            /\ rs[i][2] = f => files[f].v = peer[rs[i][1]]
        BY <1>2, <2>1, <2>3 DEF Follows
      <4> QED BY <1>7, <4>1, <4>2
    <3> QED BY <3>1, <3>2
  <2> QED BY <1>0, <1>3, <2>2, <2>3 DEF Follows
<1> QED BY <1>8, <1>10, <1>11, <1>12, <1>13

(* At the start the peer has the server's files and nothing is under way.   *)
LEMMA LocalInitHolds == Local!Init => LocalInv
<1> SUFFICES ASSUME Local!Init PROVE LocalGood
  BY DEF LocalInv
<1>1. /\ files = [f \in LocalFile |-> IF f \in Seeded THEN [v |-> 1, m |-> 1] ELSE [v |-> 0, m |-> 0]]
      /\ peer = [f \in LocalFile |-> files[f].v] /\ tombs = pledger
      /\ events = <<>> /\ phase = "loop" /\ clock = 1 /\ told = 0
      /\ pending = [ready |-> {}, deletes |-> {}, renames |-> <<>>, live |-> [f \in LocalFile |-> 0]]
      /\ pledger = [entries |-> [f \in LocalFile |-> -1], alive |-> [f \in LocalFile |-> 0]]
  BY DEF Local!Init, Local!Contents, Local!NoFile, Local!Nothing, Local!L!EmptyLedger, Local!L!NoStamp
<1>2. files \in [LocalFile -> [v : Nat, m : Nat]] /\ \A f \in LocalFile : files[f].v \in {0, 1} /\ files[f].m <= 1
  BY <1>1
<1>3. \A f \in LocalFile : files[f].v = 0 => files[f] = Local!NoFile
  BY <1>1 DEF Local!NoFile
<1>4. pledger \in LocalLedger /\ \A f \in LocalFile : pledger.entries[f] = -1 /\ pledger.alive[f] = 0
  BY <1>1 DEF LocalLedger, Stone
<1>5. /\ pending.ready = {} /\ pending.deletes = {} /\ pending.renames = <<>>
      /\ \A f \in LocalFile : pending.live[f] = 0
      /\ pending \in [ready : SUBSET LocalFile, deletes : SUBSET LocalFile,
                      renames : Seq(LocalFile \X LocalFile), live : [LocalFile -> Nat]]
  <2>0. <<>> \in Seq(LocalFile \X LocalFile)
    OBVIOUS
  <2>1. PICK no : no = <<>> /\ no \in Seq(LocalFile \X LocalFile)
    BY <2>0, Zenon
  <2>2. pending = [ready |-> {}, deletes |-> {}, renames |-> no, live |-> [f \in LocalFile |-> 0]]
    BY <1>1, <2>1
  <2> QED BY <2>1, <2>2
<1>6. Len(events) = 0 /\ Len(pending.renames) = 0 /\ events \in Seq(LocalEvent)
  BY <1>1, <1>5
<1>7. LocalType
  <2>1. peer \in [LocalFile -> Nat]
    BY <1>1, <1>2
  <2> QED BY <1>1, <1>2, <1>3, <1>4, <1>5, <1>6, <2>1 DEF LocalType
<1>8. EventsShaped /\ EventsTrue /\ RenamesAhead /\ RenamesApart
  BY <1>1, <1>5, <1>6 DEF EventsShaped, EventsTrue, RenamesAhead, RenamesApart
<1>9. \A f \in LocalFile : StampsOf(f)
  BY <1>1, <1>2, <1>4, <1>5 DEF StampsOf
<1>10. \A f \in LocalFile : Follows(f)
  BY <1>1, <1>5, <1>6 DEF Follows
<1> QED BY <1>5, <1>7, <1>8, <1>9, <1>10 DEF LocalGood

(* Every step keeps it; an excuse, once there, stays.                       *)
LEMMA LocalNextKeeps == LocalInv /\ [Local!Next]_(Local!vars) => LocalInv'
<1> SUFFICES ASSUME LocalInv, [Local!Next]_(Local!vars), excuse' = {} PROVE LocalGood'
  BY DEF LocalInv
<1>1. CASE UNCHANGED Local!vars
  <2>1. UNCHANGED <<files, told, tombs, events, pending, phase, peer, pledger, clock, missed, excuse>>
    BY <1>1 DEF Local!vars
  <2>2. LocalGood
    BY <2>1 DEF LocalInv
  <2>3. LocalType'
    BY <2>1, <2>2 DEF LocalGood, LocalType
  <2>4. EventsShaped' /\ EventsTrue'
    BY <2>1, <2>2 DEF LocalGood, EventsShaped, EventsTrue, LastAbout, TrueOf
  <2>5. RenamesAhead' /\ RenamesApart' /\ (pending.ready \cap pending.deletes = {})'
    <3>1. \A f : Idle(f)' <=> Idle(f)
      BY <2>1 DEF Idle, NotRenamed
    <3>2. RenamesAhead'
      BY <2>1, <2>2, <3>1 DEF LocalGood, RenamesAhead, About
    <3> QED BY <2>1, <2>2, <3>2 DEF LocalGood, RenamesApart
  <2>6. \A f \in LocalFile : StampsOf(f)'
    BY <2>1, <2>2 DEF LocalGood, StampsOf
  <2>7. \A f \in LocalFile : UpToDate(f)' => Follows(f)'
    BY <2>1, <2>2 DEF LocalGood, UpToDate, Follows, NotRenamed
  <2> QED BY <2>3, <2>4, <2>5, <2>6, <2>7 DEF LocalGood
<1>2. CASE Local!Next
  <2>1. ASSUME NEW f \in LocalFile, Local!Write(f) PROVE LocalGood'
    <3>1. excuse = {}
      BY <2>1 DEF Local!Write
    <3> QED BY <2>1, <3>1, LocalWriteStep DEF LocalInv
  <2>2. ASSUME NEW f \in LocalFile, Local!Unlink(f) PROVE LocalGood'
    <3>1. excuse = {}
      BY <2>2 DEF Local!Unlink
    <3> QED BY <2>2, <3>1, LocalUnlinkStep DEF LocalInv
  <2>3. ASSUME NEW f \in LocalFile, Local!SendFile(f) PROVE LocalGood'
    <3>1. excuse = {}
      BY <2>3 DEF Local!SendFile
    <3> QED BY <2>3, <3>1, LocalSendStep DEF LocalInv
  <2>4. ASSUME NEW f \in LocalFile, NEW g \in LocalFile, Local!Move(f, g) PROVE LocalGood'
    <3>1. excuse = {}
      BY <2>4 DEF Local!Move
    <3> QED BY <2>4, <3>1, LocalMoveStep DEF LocalInv
  <2>5. ASSUME Local!Collect PROVE LocalGood'
    <3>1. excuse = {}
      BY <2>5 DEF Local!Collect
    <3> QED BY <2>5, <3>1, LocalCollectStep DEF LocalInv
  <2>6. ASSUME Local!Rescan PROVE LocalGood'
    <3>1. excuse = {}
      BY <2>6 DEF Local!Rescan
    <3> QED BY <2>6, <3>1, LocalRescanStep DEF LocalInv
  <2>7. ASSUME Local!ScanElsewhere PROVE LocalGood'
    <3>1. excuse = {}
      BY <2>7 DEF Local!ScanElsewhere
    <3> QED BY <2>7, <3>1, LocalScanStep DEF LocalInv
  <2>8. ASSUME Local!FlushRenames PROVE LocalGood'
    <3>1. excuse = {}
      BY <2>8 DEF Local!FlushRenames
    <3> QED BY <2>8, <3>1, LocalRenamesStep DEF LocalInv
  <2>9. ASSUME Local!FlushDeletes PROVE LocalGood'
    <3>1. excuse = {}
      BY <2>9 DEF Local!FlushDeletes
    <3> QED BY <2>9, <3>1, LocalDeletesStep DEF LocalInv
  <2> QED BY <1>2, <2>1, <2>2, <2>3, <2>4, <2>5, <2>6, <2>7, <2>8, <2>9 DEF Local!Next
<1> QED BY <1>1, <1>2

(* local_change_broadcaster: for any files, any operations, missed changes  *)
(* and scans, once the events are read and the changes flushed, and while   *)
(* no change was missed since the rescan, a connected peer has exactly the  *)
(* server's files, unless one of the five excuses holds.                    *)
THEOREM PeerMirrors == Local!Spec => []MirrorFollows
<1>1. LocalInv => MirrorFollows
  <2> SUFFICES ASSUME LocalGood, events = <<>>, pending = Local!Nothing, phase = "loop", missed = {}
               PROVE  peer = Local!Contents(files)
    BY DEF LocalInv, MirrorFollows, Local!MirrorFollows
  <2>1. pending.ready = {} /\ pending.deletes = {} /\ pending.renames = <<>>
    BY DEF Local!Nothing
  <2>2. Len(events) = 0 /\ Len(pending.renames) = 0
    BY <2>1
  <2>3. \A f \in LocalFile : peer[f] = files[f].v
    BY <2>1, <2>2 DEF LocalGood, UpToDate, Follows, NotRenamed
  <2>4. peer \in [LocalFile -> Nat]
    BY DEF LocalGood, LocalType
  <2> QED BY <2>3, <2>4 DEF Local!Contents
<1> QED BY <1>1, LocalInitHolds, LocalNextKeeps, PTL DEF Local!Spec
=============================================================================
