-------------------------- MODULE PersistenceProofs --------------------------
(***************************************************************************)
(* Proofs about LedgerStore, for any set of threads and any bounds; about  *)
(* the delivery of the journal (JournalDrain, instantiated as Delivery in  *)
(* MCPersistence), for any tree, any renames and any bounds; and about the *)
(* journal's file (ActionJournal, instantiated as Journal), for any paths, *)
(* any length, any compaction threshold and any crashes.                   *)
(***************************************************************************)
EXTENDS MCPersistence, WellFoundedInduction, FiniteSetTheorems, SequenceTheorems, TLAPS

-----------------------------------------------------------------------------
(* The inductive invariants.                                                *)

(* While no two saves have overlapped there is one saver; it writes the     *)
(* temporary file, and when it is about to rename, that file is the ledger. *)
OneSaver ==
    ~overlapped =>
        /\ \A t, u \in Thread : Saving(t) /\ Saving(u) => t = u
        /\ \A t \in Thread : pc[t] = "write" => handle[t] = "tmp"
        /\ \A t \in Thread : pc[t] = "rename" => tmp = Complete(mem)

(* What a saver would rename is the ledger; or some thread is going to      *)
(* write it into the file that is renamed, or will save once more.          *)
TmpIsComing ==
    (\E t \in Thread : Saving(t)) =>
        \/ tmp \in {Absent, Complete(mem)}
        \/ \E t \in Thread : pc[t] = "write" /\ handle[t] = "tmp"
        \/ dirty
        \/ \E t \in Thread : pc[t] = "open"

(* The file holds the ledger, or some thread is on its way to save it.      *)
SaveIsComing ==
    \/ dirty
    \/ \E t \in Thread : pc[t] \in {"mark", "open"}
    \/ load(dest) = mem
    \/ \E t \in Thread : pc[t] = "write" /\ handle[t] \in {"tmp", "dest"}
    \/ tmp = Complete(mem) /\ \E t \in Thread : pc[t] = "rename"

SInv == TypeOK /\ OneSaver /\ TmpIsComing /\ SaveIsComing

-----------------------------------------------------------------------------
(* What load gives, and that the three kinds of file are told apart.        *)

LEMMA FileKinds ==
    /\ Absent \in File /\ Torn \in File /\ load(Absent) = {} /\ load(Torn) = {}
    /\ \A c \in SUBSET Change :
          Complete(c) \in File /\ Complete(c) # Absent /\ load(Complete(c)) = c
    /\ \A f \in File : load(f) \in SUBSET Change
<1>1. Absent \in File /\ Torn \in File
  BY DEF File
<1>2. load(Absent) = {} /\ load(Torn) = {}
  BY DEF Absent, Torn, load
<1>3. ASSUME NEW c \in SUBSET Change
      PROVE  Complete(c) \in File /\ Complete(c) # Absent /\ load(Complete(c)) = c
  <2>1. Complete(c) \in File
    BY DEF File
  <2>2. Complete(c) # Absent
    BY DEF Complete, Absent
  <2>3. load(Complete(c)) = c
    BY DEF Complete, load
  <2> QED BY <2>1, <2>2, <2>3
<1>4. ASSUME NEW f \in File PROVE load(f) \in SUBSET Change
  <2>1. CASE f \in {Absent, Torn}
    BY <1>2, <2>1
  <2>2. ASSUME NEW c \in SUBSET Change, f = Complete(c) PROVE load(f) \in SUBSET Change
    BY <1>3, <2>2
  <2> QED BY <2>1, <2>2 DEF File
<1> QED BY <1>1, <1>2, <1>3, <1>4

-----------------------------------------------------------------------------
(* Every step keeps the types.                                              *)

LEMMA TypeStep == TypeOK /\ [Next]_vars => TypeOK'
<1> SUFFICES ASSUME TypeOK, [Next]_vars PROVE TypeOK'
  OBVIOUS
<1> USE StoreAssumption, FileKinds
<1>1. ASSUME NEW t \in Thread, Mutate(t) PROVE TypeOK'
  <2>1. next \in Change
    BY <1>1 DEF Mutate, TypeOK, Change
  <2> QED BY <1>1, <2>1 DEF Mutate, TypeOK, Change
<1>2. ASSUME NEW t \in Thread, MarkDirty(t) PROVE TypeOK'
  BY <1>2 DEF MarkDirty, TypeOK
<1>3. ASSUME NEW t \in Thread, SwapDirty(t) PROVE TypeOK'
  BY <1>3 DEF SwapDirty, Return, TypeOK
<1>4. ASSUME NEW t \in Thread, OpenTmp(t) PROVE TypeOK'
  BY <1>4 DEF OpenTmp, TypeOK
<1>5. ASSUME NEW t \in Thread, WriteTmp(t) PROVE TypeOK'
  BY <1>5 DEF WriteTmp, TypeOK
<1>6. ASSUME NEW t \in Thread, RenameTmp(t) PROVE TypeOK'
  BY <1>6 DEF RenameTmp, Moved, TypeOK
<1>7. ASSUME NEW t \in Thread, SaveFails(t) PROVE TypeOK'
  BY <1>7 DEF SaveFails, Return, TypeOK
<1>8. CASE Crash
  <2>1. load(dest) \in SUBSET Change
    BY DEF TypeOK
  <2>2. mem' \subseteq Change
    BY <1>8, <2>1 DEF Crash
  <2>3. faults' \in 0..MaxFault
    BY <1>8 DEF Crash, TypeOK
  <2>4. /\ pc' \in [Thread -> {"idle", "mark", "flush", "open", "write", "rename"}]
        /\ mine' \in [Thread -> SUBSET Change]
        /\ handle' \in [Thread -> {"none", "tmp", "dest", "unlinked"}]
        /\ dirty' \in BOOLEAN
    BY <1>8 DEF Crash
  <2> QED BY <1>8, <2>2, <2>3, <2>4 DEF Crash, TypeOK
<1>9. CASE UNCHANGED vars
  BY <1>9 DEF vars, TypeOK
<1> QED BY <1>1, <1>2, <1>3, <1>4, <1>5, <1>6, <1>7, <1>8, <1>9 DEF Next

-----------------------------------------------------------------------------
(* Every step keeps the rest.                                               *)

LEMMA OneSaverStep == TypeOK /\ OneSaver /\ [Next]_vars => OneSaver'
<1> SUFFICES ASSUME TypeOK, OneSaver, [Next]_vars PROVE OneSaver'
  OBVIOUS
<1> USE DEF OneSaver, Saving
<1>1. ASSUME NEW t \in Thread, Mutate(t) PROVE OneSaver'
  BY <1>1 DEF Mutate, TypeOK
<1>2. ASSUME NEW t \in Thread, MarkDirty(t) PROVE OneSaver'
  BY <1>2 DEF MarkDirty, TypeOK
<1>3. ASSUME NEW t \in Thread, SwapDirty(t) PROVE OneSaver'
  BY <1>3 DEF SwapDirty, Return, TypeOK
<1>4. ASSUME NEW t \in Thread, OpenTmp(t) PROVE OneSaver'
  BY <1>4 DEF OpenTmp, TypeOK
<1>5. ASSUME NEW t \in Thread, WriteTmp(t) PROVE OneSaver'
  BY <1>5 DEF WriteTmp, TypeOK
<1>6. ASSUME NEW t \in Thread, RenameTmp(t) PROVE OneSaver'
  BY <1>6 DEF RenameTmp, Moved, TypeOK
<1>7. ASSUME NEW t \in Thread, SaveFails(t) PROVE OneSaver'
  BY <1>7 DEF SaveFails, Return, TypeOK
<1>8. CASE Crash
  BY <1>8 DEF Crash, TypeOK
<1>9. CASE UNCHANGED vars
  BY <1>9 DEF vars
<1> QED BY <1>1, <1>2, <1>3, <1>4, <1>5, <1>6, <1>7, <1>8, <1>9 DEF Next

LEMMA TmpIsComingStep == TypeOK /\ TmpIsComing /\ [Next]_vars => TmpIsComing'
<1> SUFFICES ASSUME TypeOK, TmpIsComing, [Next]_vars PROVE TmpIsComing'
  OBVIOUS
<1> USE DEF TmpIsComing, Saving
<1>1. ASSUME NEW t \in Thread, Mutate(t) PROVE TmpIsComing'
  BY <1>1 DEF Mutate, TypeOK
<1>2. ASSUME NEW t \in Thread, MarkDirty(t) PROVE TmpIsComing'
  BY <1>2 DEF MarkDirty, TypeOK
<1>3. ASSUME NEW t \in Thread, SwapDirty(t) PROVE TmpIsComing'
  BY <1>3 DEF SwapDirty, Return, TypeOK
<1>4. ASSUME NEW t \in Thread, OpenTmp(t) PROVE TmpIsComing'
  BY <1>4 DEF OpenTmp, TypeOK
<1>5. ASSUME NEW t \in Thread, WriteTmp(t) PROVE TmpIsComing'
  BY <1>5 DEF WriteTmp, TypeOK
<1>6. ASSUME NEW t \in Thread, RenameTmp(t) PROVE TmpIsComing'
  BY <1>6 DEF RenameTmp, Moved, TypeOK
<1>7. ASSUME NEW t \in Thread, SaveFails(t) PROVE TmpIsComing'
  BY <1>7 DEF SaveFails, Return, TypeOK
<1>8. CASE Crash
  BY <1>8 DEF Crash, TypeOK
<1>9. CASE UNCHANGED vars
  BY <1>9 DEF vars
<1> QED BY <1>1, <1>2, <1>3, <1>4, <1>5, <1>6, <1>7, <1>8, <1>9 DEF Next

LEMMA SaveIsComingStep ==
    TypeOK /\ TmpIsComing /\ SaveIsComing /\ [Next]_vars => SaveIsComing'
<1> SUFFICES ASSUME TypeOK, TmpIsComing, SaveIsComing, [Next]_vars PROVE SaveIsComing'
  OBVIOUS
<1> USE DEF SaveIsComing
<1>1. ASSUME NEW t \in Thread, Mutate(t) PROVE SaveIsComing'
  BY <1>1 DEF Mutate, TypeOK
<1>2. ASSUME NEW t \in Thread, MarkDirty(t) PROVE SaveIsComing'
  BY <1>2 DEF MarkDirty, TypeOK
<1>3. ASSUME NEW t \in Thread, SwapDirty(t) PROVE SaveIsComing'
  BY <1>3 DEF SwapDirty, Return, TypeOK
<1>4. ASSUME NEW t \in Thread, OpenTmp(t) PROVE SaveIsComing'
  BY <1>4 DEF OpenTmp, TypeOK
<1>5. ASSUME NEW t \in Thread, WriteTmp(t) PROVE SaveIsComing'
  BY <1>5, FileKinds DEF WriteTmp, TypeOK
<1>6. ASSUME NEW t \in Thread, RenameTmp(t) PROVE SaveIsComing'
  <2>1. CASE tmp = Absent
    BY <1>6, <2>1 DEF RenameTmp
  <2>2. CASE tmp = Complete(mem)
    BY <1>6, <2>2, FileKinds DEF RenameTmp, TypeOK
  <2>3. CASE tmp \notin {Absent, Complete(mem)}
    <3>1. CASE dirty \/ \E u \in Thread : pc[u] = "open"
      BY <1>6, <2>3, <3>1 DEF RenameTmp, TypeOK
    <3>2. ASSUME NEW u \in Thread, pc[u] = "write", handle[u] = "tmp" PROVE SaveIsComing'
      BY <1>6, <2>3, <3>2 DEF RenameTmp, Moved, TypeOK
    <3> QED BY <1>6, <2>3, <3>1, <3>2 DEF TmpIsComing, Saving, RenameTmp
  <2> QED BY <2>1, <2>2, <2>3
<1>7. ASSUME NEW t \in Thread, SaveFails(t) PROVE SaveIsComing'
  BY <1>7 DEF SaveFails
<1>8. CASE Crash
  BY <1>8 DEF Crash
<1>9. CASE UNCHANGED vars
  BY <1>9 DEF vars
<1> QED BY <1>1, <1>2, <1>3, <1>4, <1>5, <1>6, <1>7, <1>8, <1>9 DEF Next

LEMMA Invariance == Spec => []SInv
<1>1. Init => SInv
  <2> SUFFICES ASSUME Init PROVE SInv
    OBVIOUS
  <2>1. TypeOK
    <3>1. next \in 1..(MaxChange + 1) /\ faults \in 0..MaxFault
      BY StoreAssumption DEF Init
    <3>2. /\ pc \in [Thread -> {"idle", "mark", "flush", "open", "write", "rename"}]
          /\ mine \in [Thread -> SUBSET Change]
          /\ handle \in [Thread -> {"none", "tmp", "dest", "unlinked"}]
      BY DEF Init
    <3>3. mem \subseteq Change /\ flushed \subseteq Change
      BY DEF Init
    <3>4. dirty \in BOOLEAN /\ overlapped \in BOOLEAN /\ dest \in File /\ tmp \in File
      BY FileKinds DEF Init
    <3> QED BY <3>1, <3>2, <3>3, <3>4 DEF TypeOK
  <2>2. OneSaver /\ TmpIsComing
    BY DEF Init, OneSaver, TmpIsComing, Saving
  <2>3. SaveIsComing
    BY FileKinds DEF Init, SaveIsComing
  <2> QED BY <2>1, <2>2, <2>3 DEF SInv
<1>2. SInv /\ [Next]_vars => SInv'
  BY TypeStep, OneSaverStep, TmpIsComingStep, SaveIsComingStep DEF SInv
<1> QED BY <1>1, <1>2, PTL DEF Spec

-----------------------------------------------------------------------------
(* The theorems.                                                            *)

(* The ledger, the dirty flag, the threads and the two files of             *)
(* flush_ledger and save_atomic keep their types.                           *)
THEOREM TypeCorrect == Spec => []TypeOK
BY Invariance, PTL DEF SInv

(* Whatever saves of however many threads overlap, fail or die: once every  *)
(* thread is out of flush_ledger and the flag is clear, the file is the     *)
(* ledger.                                                                  *)
THEOREM NothingStranded == Spec => []CleanMeansSaved
<1>1. SInv => CleanMeansSaved
  BY DEF SInv, SaveIsComing, CleanMeansSaved
<1> QED BY <1>1, Invariance, PTL

(* save_atomic implements the atomic file: as long as no two saves have     *)
(* overlapped, each step of a save, a failure or a crash is a step of       *)
(* AtomicFile, or changes nothing of it.                                    *)
THEOREM SavesAreAtomic == Spec => StoreIsAtomic
<1>1. Init => Atomic!Init
  BY FileKinds DEF Init, Atomic!Init
<1>2. SInv /\ [Next]_vars => [Atomic!Next]_(Atomic!vars)
  <2> SUFFICES ASSUME SInv, [Next]_vars, ~overlapped, ~overlapped',
                      ~UNCHANGED <<mem, load(dest), overlapped>>
               PROVE  Atomic!Change \/ Atomic!Save \/ Atomic!Restart
    BY DEF Atomic!Next, Atomic!vars
  <2>0. TypeOK /\ OneSaver
    BY DEF SInv
  <2>1. ASSUME NEW t \in Thread, Mutate(t) PROVE Atomic!Change
    BY <2>1 DEF Mutate, Atomic!Change
  <2>2. ASSUME NEW t \in Thread, MarkDirty(t) PROVE FALSE
    BY <2>2 DEF MarkDirty
  <2>3. ASSUME NEW t \in Thread, SwapDirty(t) PROVE FALSE
    BY <2>3 DEF SwapDirty
  <2>4. ASSUME NEW t \in Thread, OpenTmp(t) PROVE FALSE
    BY <2>0, <2>4 DEF OpenTmp, TypeOK
  <2>5. ASSUME NEW t \in Thread, WriteTmp(t) PROVE FALSE
    BY <2>0, <2>5 DEF WriteTmp, OneSaver
  <2>6. ASSUME NEW t \in Thread, RenameTmp(t) PROVE Atomic!Save
    <3>1. tmp = Complete(mem) /\ tmp # Absent /\ load(tmp) = mem
      BY <2>0, <2>6, FileKinds DEF RenameTmp, OneSaver, TypeOK
    <3> QED BY <2>6, <3>1 DEF RenameTmp, Atomic!Save
  <2>7. ASSUME NEW t \in Thread, SaveFails(t) PROVE FALSE
    BY <2>7 DEF SaveFails
  <2>8. CASE Crash
    BY <2>8 DEF Crash, Atomic!Restart
  <2>9. CASE UNCHANGED vars
    BY <2>9 DEF vars
  <2> QED BY <2>1, <2>2, <2>3, <2>4, <2>5, <2>6, <2>7, <2>8, <2>9 DEF Next
<1> QED BY <1>1, <1>2, Invariance, PTL DEF Spec, StoreIsAtomic, Atomic!Spec

-----------------------------------------------------------------------------
(* The delivery of the journal.  What is acknowledged depends on numbers    *)
(* only: those of the entries, of the frames under way, and the bounds the  *)
(* client and the server keep.                                              *)

Ops == {"upsert", "delete", "rename"}
Numbers(es) == {e.seq : e \in es}
Carried(q) == {q[i].seq : i \in {j \in 1..Len(q) : q[j].op # "end"}}
IsSeq(q) == \E S : q \in Seq(S)

(* Entries under numbers the journal has given, n being the next.           *)
Issued(es, n) == \A e \in es : e.seq \in Nat /\ 0 < e.seq /\ e.seq < n /\ e.op \in Ops

JournalOK(s) ==
    /\ DOMAIN s = {"entries", "by_path", "by_to", "acked", "next_seq"}
    /\ s.acked \in Nat /\ s.next_seq \in Nat /\ s.next_seq > 0
    /\ Issued(s.entries, s.next_seq)

DType ==
    /\ JournalOK(journal)
    /\ IsSeq(events) /\ \A i \in 1..Len(events) : events[i].op \in Ops
    /\ DOMAIN drain = {"pc", "pending", "wires", "upto", "stop"}
    /\ drain.pc \in {"idle", "decide", "send", "await"}
    /\ Issued(drain.pending, journal.next_seq)
    /\ IsSeq(drain.wires) /\ \A i \in 1..Len(drain.wires) : drain.wires[i].op \in Ops
    /\ drain.upto \in Nat /\ drain.upto < journal.next_seq
    /\ IsSeq(net)
    /\ DOMAIN srv = {"last_acked", "failed"}
    /\ srv.last_acked \in Nat /\ srv.last_acked < journal.next_seq
    /\ srv.failed \in BOOLEAN

(* Where a chunk is, by the phase of the pass: its end is the last frame,   *)
(* and there is one acknowledgement, sent when the end was read.            *)
Phases ==
    /\ drain.pc # "idle" => up
    /\ drain.pc = "idle" => drain.upto = 0 /\ drain.pending = {}
    /\ drain.pc \in {"idle", "decide"} => net = <<>>
    /\ drain.pc \in {"send", "await"} => drain.upto > 0
    /\ drain.pc # "await" => acks = <<>>
    /\ drain.pc = "await" => drain.wires = <<>> /\ (net = <<>> <=> acks # <<>>)
    /\ acks # <<>> => acks = <<srv.last_acked>>
    /\ \A i \in 1..Len(net) : net[i].op = "end" <=> drain.pc = "await" /\ i = Len(net)
    /\ drain.pc = "await" /\ net # <<>> => net[Len(net)].seq = drain.upto

(* The pass goes up: what is pending lies beyond what was decided, and no   *)
(* entry of the journal below it was passed over.                           *)
GoesUp ==
    /\ \A e \in drain.pending :
          /\ e.seq >= drain.upto
          /\ drain.pc = "decide" => e.seq >= srv.last_acked
          /\ \A n \in Numbers(journal.entries) :
                n < e.seq => n <= drain.upto \/ n \in Numbers(drain.pending)
    /\ drain.pc # "idle" /\ drain.upto > 0 => srv.last_acked <= drain.upto

(* What is owed of the chunk is under way, or the chunk is known to have    *)
(* failed, or its end was read.                                             *)
Covered ==
    \A n \in Numbers(journal.entries) :
        n \in owed /\ n <= drain.upto =>
            n \in Carried(drain.wires) \/ n \in Carried(net) \/ srv.failed \/ acks # <<>>

(* Nothing the server has acknowledged to this session is owed, and but for *)
(* an acknowledgement under way it is gone from the journal.                *)
AckIsTrue ==
    up => \A n \in Numbers(journal.entries) :
              n > srv.last_acked \/ (acks # <<>> /\ n \notin owed)

DInv == DType /\ Phases /\ GoesUp /\ Covered /\ AckIsTrue

-----------------------------------------------------------------------------
(* What recording an action does to the numbers in the journal: t may have  *)
(* lost entries of s, and what it has beyond them is numbered from s on.    *)
Grows(s, t) ==
    /\ JournalOK(t)
    /\ t.acked = s.acked
    /\ s.next_seq <= t.next_seq
    /\ \A e \in t.entries : e.seq \in Numbers(s.entries) \/ e.seq >= s.next_seq

LEMMA RemoveKeeps ==
    ASSUME NEW s, NEW es, JournalOK(s)
    PROVE  /\ Grows(s, Delivery!remove(s, es))
           /\ Delivery!remove(s, es).next_seq = s.next_seq
           /\ Delivery!remove(s, es).entries \subseteq s.entries
<1> DEFINE r == Delivery!remove(s, es)
<1>1. /\ DOMAIN r = DOMAIN s /\ r.entries = s.entries \ es
      /\ r.acked = s.acked /\ r.next_seq = s.next_seq
  BY DEF Delivery!remove, JournalOK
<1> HIDE DEF r
<1>2. Grows(s, r) /\ r.next_seq = s.next_seq /\ r.entries \subseteq s.entries
  BY <1>1 DEF Grows, JournalOK, Issued, Numbers
<1> QED BY <1>2 DEF r

LEMMA InsertKeeps ==
    ASSUME NEW s, NEW e, JournalOK(s), e.op \in Ops, e.seq \in Nat, e.seq >= s.next_seq
    PROVE  Grows(s, Delivery!insert(s, e))
<1> DEFINE r == Delivery!insert(s, e)
<1>1. /\ DOMAIN r = DOMAIN s /\ r.entries = {f \in s.entries : f.seq # e.seq} \cup {e}
      /\ r.acked = s.acked /\ r.next_seq = IF e.seq + 1 > s.next_seq THEN e.seq + 1 ELSE s.next_seq
  BY DEF Delivery!insert, JournalOK
<1> HIDE DEF r
<1>2. r.next_seq \in Nat /\ r.next_seq > e.seq /\ r.next_seq >= s.next_seq /\ e.seq > 0
  BY <1>1 DEF JournalOK
<1>3. \A f \in r.entries : f \in s.entries \/ f = e
  BY <1>1
<1>4. Issued(r.entries, r.next_seq)
  BY <1>2, <1>3 DEF JournalOK, Issued
<1>5. \A f \in r.entries : f.seq \in Numbers(s.entries) \/ f.seq >= s.next_seq
  BY <1>3 DEF Numbers
<1>6. Grows(s, r)
  BY <1>1, <1>2, <1>4, <1>5 DEF Grows, JournalOK
<1> QED BY <1>6 DEF r

LEMMA InsertAllKeeps ==
    ASSUME NEW s, NEW es, JournalOK(s), Issued(es, s.next_seq)
    PROVE  /\ JournalOK(Delivery!InsertAll(s, es))
           /\ Delivery!InsertAll(s, es).acked = s.acked
           /\ Delivery!InsertAll(s, es).next_seq = s.next_seq
           /\ Delivery!InsertAll(s, es).entries \subseteq s.entries \cup es
<1> DEFINE r == Delivery!InsertAll(s, es)
<1>1. /\ DOMAIN r = DOMAIN s
      /\ r.entries = {f \in s.entries : \A e \in es : f.seq # e.seq} \cup es
      /\ r.acked = s.acked /\ r.next_seq = s.next_seq
  BY DEF Delivery!InsertAll, JournalOK
<1> HIDE DEF r
<1>2. /\ JournalOK(r) /\ r.acked = s.acked /\ r.next_seq = s.next_seq
      /\ r.entries \subseteq s.entries \cup es
  BY <1>1 DEF JournalOK, Issued
<1> QED BY <1>2 DEF r

(* A cut entry keeps its number.                                            *)
LEMMA CutKeeps ==
    ASSUME NEW v, NEW p, NEW c \in Delivery!Cut(v, p), v.op \in Ops
    PROVE  c.seq = v.seq /\ c.op \in Ops
BY DEF Delivery!Cut, Delivery!Entry, Ops

LEMMA GrowsOn ==
    ASSUME NEW s, NEW r, NEW t, JournalOK(s), Grows(s, r), Grows(r, t)
    PROVE  Grows(s, t)
<1>1. s.next_seq \in Nat /\ r.next_seq \in Nat /\ t.next_seq \in Nat
  BY DEF Grows, JournalOK
<1>2. ASSUME NEW e \in t.entries
      PROVE  e.seq \in Numbers(s.entries) \/ e.seq >= s.next_seq
  <2>1. CASE e.seq >= r.next_seq
    BY <1>1, <2>1 DEF Grows, JournalOK, Issued
  <2>2. CASE e.seq \in Numbers(r.entries)
    BY <2>2 DEF Grows, Numbers
  <2> QED BY <2>1, <2>2 DEF Grows
<1> QED BY <1>1, <1>2 DEF Grows

LEMMA ApplyKeeps ==
    ASSUME NEW s, NEW e, JournalOK(s), e.op \in Ops, e.seq = s.next_seq
    PROVE  Grows(s, Delivery!apply(s, e))
<1> e.seq \in Nat
  BY DEF JournalOK
<1>1. CASE e.op = "upsert"
  <2> DEFINE d == {f \in Delivery!At(s, Delivery!exact(s.by_path, e.path)) : f.op # "rename"}
             r == Delivery!remove(s, d)
  <2>1. Delivery!apply(s, e) = Delivery!insert(r, e)
    BY <1>1 DEF Delivery!apply, Delivery!ApplyUpsert
  <2> HIDE DEF d
  <2>2. Grows(s, r) /\ r.next_seq = s.next_seq
    BY RemoveKeeps
  <2> HIDE DEF r
  <2>3. Grows(r, Delivery!insert(r, e))
    BY <2>2, InsertKeeps DEF Grows, JournalOK
  <2> QED BY <2>1, <2>2, <2>3, GrowsOn
<1>2. CASE e.op = "delete"
  <2> DEFINE victims == Delivery!At(s, Delivery!under(s.by_path, e.path) \cup Delivery!under(s.by_to, e.path))
             es == UNION {Delivery!Cut(v, e.path) : v \in victims}
             r == Delivery!remove(s, victims)
             q == Delivery!InsertAll(r, es)
  <2>1. Delivery!apply(s, e) = Delivery!insert(q, e)
    BY <1>2 DEF Delivery!apply, Delivery!ApplyDelete
  <2>2. victims \subseteq s.entries
    BY DEF Delivery!At
  <2> HIDE DEF victims
  <2>3. \A c \in es : c.op \in Ops /\ \E v \in s.entries : c.seq = v.seq
    BY <2>2, CutKeeps DEF JournalOK, Issued
  <2> HIDE DEF es
  <2>4. Grows(s, r) /\ r.next_seq = s.next_seq /\ r.entries \subseteq s.entries
    BY RemoveKeeps
  <2> HIDE DEF r
  <2>5. Issued(es, r.next_seq)
    BY <2>3, <2>4 DEF JournalOK, Issued
  <2>6. /\ JournalOK(q) /\ q.acked = r.acked /\ q.next_seq = r.next_seq
        /\ q.entries \subseteq r.entries \cup es
    BY <2>4, <2>5, InsertAllKeeps DEF Grows
  <2> HIDE DEF q
  <2>7. \A f \in q.entries : f.seq \in Numbers(s.entries)
    BY <2>3, <2>4, <2>6 DEF Numbers
  <2>8. Grows(s, q)
    BY <2>4, <2>6, <2>7 DEF Grows, JournalOK
  <2>9. Grows(q, Delivery!insert(q, e))
    BY <2>4, <2>6, InsertKeeps DEF JournalOK
  <2> QED BY <2>1, <2>8, <2>9, GrowsOn
<1>3. CASE e.op = "rename"
  <2> DEFINE d == {f \in Delivery!At(s, Delivery!exact(s.by_path, e.path)) : f.op = "upsert"}
             r == Delivery!remove(s, d)
             c == {f \in Delivery!At(r, Delivery!exact(r.by_path, e.to)) : f.op # "rename"}
             q == Delivery!remove(r, c)
  <2>1. Delivery!apply(s, e) = Delivery!insert(q, e)
    BY <1>3 DEF Delivery!apply, Delivery!ApplyRename
  <2> HIDE DEF d, c
  <2>2. Grows(s, r) /\ r.next_seq = s.next_seq
    BY RemoveKeeps
  <2> HIDE DEF r
  <2>3. Grows(r, q) /\ q.next_seq = r.next_seq
    BY <2>2, RemoveKeeps DEF Grows
  <2> HIDE DEF q
  <2>4. Grows(q, Delivery!insert(q, e))
    BY <2>2, <2>3, InsertKeeps DEF Grows, JournalOK
  <2>5. Grows(s, q)
    BY <2>2, <2>3, GrowsOn
  <2> QED BY <2>1, <2>4, <2>5, GrowsOn
<1> QED BY <1>1, <1>2, <1>3 DEF Ops

LEMMA AppendKeeps ==
    ASSUME NEW s, NEW op \in Ops, NEW p, NEW at, JournalOK(s)
    PROVE  Grows(s, Delivery!append(s, op, p, at))
<1> DEFINE e == Delivery!Entry(s.next_seq, op, p, Delivery!NoPath, at)
<1>1. e.seq = s.next_seq /\ e.op = op
  BY DEF Delivery!Entry
<1>2. Delivery!append(s, op, p, at) = Delivery!apply(s, e)
  BY DEF Delivery!append
<1> HIDE DEF e
<1> QED BY <1>1, <1>2, ApplyKeeps

LEMMA RenameKeeps ==
    ASSUME NEW s, NEW from, NEW to, NEW at, JournalOK(s)
    PROVE  Grows(s, Delivery!rename(s, from, to, at))
<1> DEFINE e == Delivery!Entry(s.next_seq, "rename", from, to, at)
           r == Delivery!apply(s, e)
<1>1. e.seq = s.next_seq /\ e.op \in Ops
  BY DEF Delivery!Entry, Ops
<1>2. Delivery!rename(s, from, to, at) = r \/
      Delivery!rename(s, from, to, at) = Delivery!append(r, "upsert", to, at)
  BY DEF Delivery!rename
<1> HIDE DEF e
<1>3. Grows(s, r)
  BY <1>1, ApplyKeeps
<1> HIDE DEF r
<1>4. Grows(r, Delivery!append(r, "upsert", to, at))
  BY <1>3, AppendKeeps DEF Grows, Ops
<1> QED BY <1>2, <1>3, <1>4, GrowsOn

-----------------------------------------------------------------------------
(* Sequences of frames.                                                     *)

LEMMA TailFacts ==
    ASSUME NEW q, IsSeq(q), q # <<>>
    PROVE  /\ Len(q) \in Nat /\ Len(q) > 0 /\ Head(q) = q[1]
           /\ IsSeq(Tail(q)) /\ Len(Tail(q)) = Len(q) - 1
           /\ \A i \in 1..(Len(q) - 1) : Tail(q)[i] = q[i + 1]
           /\ \A n \in Carried(q) :
                 (n = Head(q).seq /\ Head(q).op # "end") \/ n \in Carried(Tail(q))
<1> PICK S : q \in Seq(S)
  BY DEF IsSeq
<1>1. Len(q) \in Nat /\ Len(q) > 0 /\ Head(q) = q[1]
  OBVIOUS
<1>2. Tail(q) \in Seq(S) /\ Len(Tail(q)) = Len(q) - 1
  OBVIOUS
<1>3. \A i \in 1..(Len(q) - 1) : Tail(q)[i] = q[i + 1]
  OBVIOUS
<1>4. ASSUME NEW n \in Carried(q), ~(n = Head(q).seq /\ Head(q).op # "end")
      PROVE  n \in Carried(Tail(q))
  <2>1. PICK i \in 1..Len(q) : n = q[i].seq /\ q[i].op # "end"
    BY DEF Carried
  <2>2. i # 1
    BY <1>1, <1>4, <2>1
  <2>3. i - 1 \in 1..(Len(q) - 1) /\ (i - 1) + 1 = i
    BY <1>1, <2>2
  <2>4. Tail(q)[i - 1] = q[i]
    BY <1>3, <2>3
  <2> QED BY <1>2, <2>1, <2>3, <2>4 DEF Carried
<1> QED BY <1>1, <1>2, <1>3, <1>4 DEF IsSeq

LEMMA NoLength == ASSUME NEW q, IsSeq(q), Len(q) = 0 PROVE q = <<>>
<1> PICK S : q \in Seq(S)
  BY DEF IsSeq
<1> QED OBVIOUS

LEMMA AppendFacts ==
    ASSUME NEW q, NEW x, IsSeq(q)
    PROVE  /\ Len(q) \in Nat
           /\ IsSeq(Append(q, x)) /\ Append(q, x) # <<>> /\ Len(Append(q, x)) = Len(q) + 1
           /\ \A i \in 1..Len(q) : Append(q, x)[i] = q[i]
           /\ Append(q, x)[Len(q) + 1] = x
           /\ \A n : n \in Carried(q) \/ (n = x.seq /\ x.op # "end") => n \in Carried(Append(q, x))
<1> PICK S : q \in Seq(S)
  BY DEF IsSeq
<1> DEFINE T == S \cup {x}
<1> q \in Seq(T) /\ x \in T
  OBVIOUS
<1> HIDE DEF T
<1>1. Len(q) \in Nat /\ Append(q, x) \in Seq(T) /\ Len(Append(q, x)) = Len(q) + 1
  OBVIOUS
<1>2. \A i \in 1..Len(q) : Append(q, x)[i] = q[i]
  OBVIOUS
<1>3. Append(q, x)[Len(q) + 1] = x
  OBVIOUS
<1>4. ASSUME NEW n, n \in Carried(q) \/ (n = x.seq /\ x.op # "end")
      PROVE  n \in Carried(Append(q, x))
  <2>1. CASE n \in Carried(q)
    BY <1>1, <1>2, <2>1 DEF Carried
  <2>2. CASE n = x.seq /\ x.op # "end"
    BY <1>1, <1>3, <2>2 DEF Carried
  <2> QED BY <1>4, <2>1, <2>2
<1>5. Append(q, x) # <<>>
  BY <1>1
<1> QED BY <1>1, <1>2, <1>3, <1>4, <1>5 DEF IsSeq

-----------------------------------------------------------------------------
(* Every step keeps the invariant.                                          *)

(* A user's action only queues an event.                                    *)
LEMMA StepUser ==
    ASSUME DInv, NEW t, NEW e, e.op \in Ops, Delivery!Act(t, e)
    PROVE  DInv'
<1>1. /\ events' = Append(events, e)
      /\ UNCHANGED <<journal, drain, up, net, acks, srv, owed>>
  BY DEF Delivery!Act, Delivery!server
<1>2. IsSeq(events') /\ \A i \in 1..Len(events') : events'[i].op \in Ops
  <2>1. IsSeq(events) /\ \A i \in 1..Len(events) : events[i].op \in Ops
    BY DEF DInv, DType
  <2>2. /\ Len(events) \in Nat /\ IsSeq(Append(events, e))
        /\ Len(Append(events, e)) = Len(events) + 1
        /\ \A i \in 1..Len(events) : Append(events, e)[i] = events[i]
        /\ Append(events, e)[Len(events) + 1] = e
    BY <2>1, AppendFacts
  <2> QED BY <1>1, <2>1, <2>2
<1>3. DType'
  BY <1>1, <1>2 DEF DInv, DType
<1> QED BY <1>1, <1>3 DEF DInv, Phases, GoesUp, Covered, AckIsTrue

(* Capture numbers an entry beyond the pass.                                *)
LEMMA StepCapture ==
    ASSUME DInv, Delivery!Capture
    PROVE  DInv'
<1>1. /\ events # <<>> /\ events' = Tail(events)
      /\ UNCHANGED <<drain, up, net, acks, srv, owed>>
      /\ \/ journal' = Delivery!rename(journal, Head(events).path, Head(events).to, now + 1)
         \/ journal' = Delivery!append(journal, Head(events).op, Head(events).path, now + 1)
  BY DEF Delivery!Capture, Delivery!server, Delivery!history
<1>2. IsSeq(events) /\ \A i \in 1..Len(events) : events[i].op \in Ops
  BY DEF DInv, DType
<1>3. /\ Len(events) \in Nat /\ Len(events) > 0 /\ Head(events) = events[1]
      /\ IsSeq(Tail(events)) /\ Len(Tail(events)) = Len(events) - 1
      /\ \A i \in 1..(Len(events) - 1) : Tail(events)[i] = events[i + 1]
  BY <1>1, <1>2, TailFacts
<1>4. Head(events).op \in Ops
  BY <1>2, <1>3
<1>5. JournalOK(journal)
  BY DEF DInv, DType
<1>6. Grows(journal, journal')
  BY <1>1, <1>4, <1>5, AppendKeeps, RenameKeeps
<1>7. IsSeq(events') /\ \A i \in 1..Len(events') : events'[i].op \in Ops
  <2>1. \A i \in 1..(Len(events) - 1) : i + 1 \in 1..Len(events)
    BY <1>3
  <2> QED BY <1>1, <1>2, <1>3, <2>1
<1>8. /\ JournalOK(journal') /\ journal.next_seq \in Nat /\ journal'.next_seq \in Nat
      /\ journal.next_seq <= journal'.next_seq
  BY <1>5, <1>6 DEF Grows, JournalOK
<1>9. \A n \in Numbers(journal'.entries) :
         n \in Nat /\ (n \in Numbers(journal.entries) \/ n >= journal.next_seq)
  BY <1>6 DEF Grows, JournalOK, Issued, Numbers
<1>10. DType'
  <2>1. Issued(drain.pending, journal'.next_seq)
    BY <1>8 DEF DInv, DType, Issued
  <2>2. drain.upto < journal'.next_seq /\ srv.last_acked < journal'.next_seq
    BY <1>8 DEF DInv, DType
  <2> QED BY <1>1, <1>7, <1>8, <2>1, <2>2 DEF DInv, DType
<1>11. Phases'
  BY <1>1 DEF DInv, Phases
<1>12. GoesUp'
  <2>1. ASSUME NEW e \in drain.pending, NEW n \in Numbers(journal'.entries), n < e.seq
        PROVE  n \in Numbers(journal.entries)
    BY <1>8, <1>9, <2>1 DEF DInv, DType, Issued
  <2> QED BY <1>1, <2>1 DEF DInv, GoesUp
<1>13. Covered'
  <2>1. ASSUME NEW n \in Numbers(journal'.entries), n <= drain.upto
        PROVE  n \in Numbers(journal.entries)
    BY <1>8, <1>9, <2>1 DEF DInv, DType
  <2> QED BY <1>1, <2>1 DEF DInv, Covered
<1>14. AckIsTrue'
  <2>1. ASSUME NEW n \in Numbers(journal'.entries), n \notin Numbers(journal.entries)
        PROVE  n > srv.last_acked
    BY <1>8, <1>9, <2>1 DEF DInv, DType
  <2> QED BY <1>1, <2>1 DEF DInv, AckIsTrue
<1> QED BY <1>10, <1>11, <1>12, <1>13, <1>14 DEF DInv

(* A new session has acknowledged nothing.                                  *)
LEMMA StepConnect ==
    ASSUME DInv, Delivery!Connect
    PROVE  DInv'
<1>1. /\ ~up /\ up' /\ srv' = [last_acked |-> 0, failed |-> FALSE]
      /\ UNCHANGED <<journal, events, drain, net, acks, owed>>
  BY DEF Delivery!Connect, Delivery!history
<1>2. drain.pc = "idle" /\ drain.upto = 0 /\ drain.pending = {} /\ acks = <<>> /\ net = <<>>
  BY <1>1 DEF DInv, DType, Phases
<1>3. DOMAIN srv' = {"last_acked", "failed"} /\ srv'.last_acked = 0 /\ srv'.failed = FALSE
  BY <1>1
<1>4. \A n \in Numbers(journal.entries) : n \in Nat /\ n > 0
  BY DEF DInv, DType, JournalOK, Issued, Numbers
<1>5. DType'
  BY <1>1, <1>3 DEF DInv, DType, JournalOK
<1>6. Phases'
  BY <1>1, <1>2 DEF DInv, Phases
<1>7. GoesUp' /\ Covered' /\ AckIsTrue'
  BY <1>1, <1>2, <1>3, <1>4 DEF GoesUp, Covered, AckIsTrue
<1> QED BY <1>5, <1>6, <1>7 DEF DInv

LEMMA IdleFacts ==
    /\ DOMAIN Delivery!Idle = {"pc", "pending", "wires", "upto", "stop"}
    /\ Delivery!Idle.pc = "idle" /\ Delivery!Idle.pending = {}
    /\ Delivery!Idle.wires = <<>> /\ Delivery!Idle.upto = 0
BY DEF Delivery!Idle

LEMMA EmptyCarries == IsSeq(<<>>) /\ Len(<<>>) = 0 /\ Carried(<<>>) = {}
<1>1. <<>> \in Seq({}) /\ Len(<<>>) = 0
  OBVIOUS
<1> QED BY <1>1 DEF IsSeq, Carried

(* The numbers in the journal.                                              *)
LEMMA NumbersFacts ==
    ASSUME DInv
    PROVE  \A n \in Numbers(journal.entries) : n \in Nat /\ n > 0 /\ n < journal.next_seq
BY DEF DInv, DType, JournalOK, Issued, Numbers

(* The connection is lost.                                                  *)
LEMMA StepDisconnect ==
    ASSUME DInv, Delivery!Disconnect
    PROVE  DInv'
<1>1. /\ ~up' /\ net' = <<>> /\ acks' = <<>> /\ drain' = Delivery!Idle
      /\ UNCHANGED <<journal, events, srv, owed>>
  BY DEF Delivery!Disconnect, Delivery!client, Delivery!server, Delivery!history
<1>2. /\ DOMAIN drain' = {"pc", "pending", "wires", "upto", "stop"}
      /\ drain'.pc = "idle" /\ drain'.pending = {} /\ drain'.wires = <<>> /\ drain'.upto = 0
  BY <1>1, IdleFacts
<1>3. IsSeq(<<>>) /\ Len(<<>>) = 0
  BY EmptyCarries
<1>4. \A n \in Numbers(journal.entries) : n \in Nat /\ n > 0
  BY NumbersFacts
<1>5. DType'
  BY <1>1, <1>2, <1>3 DEF DInv, DType, Issued, JournalOK
<1>6. Phases'
  BY <1>1, <1>2, <1>3 DEF Phases
<1>7. GoesUp' /\ Covered' /\ AckIsTrue'
  BY <1>1, <1>2, <1>4 DEF GoesUp, Covered, AckIsTrue
<1> QED BY <1>5, <1>6, <1>7 DEF DInv

(* A pass starts from all that is pending.                                  *)
LEMMA StepStartPass ==
    ASSUME DInv, Delivery!StartPass
    PROVE  DInv'
<1>1. /\ up /\ drain.pc = "idle"
      /\ drain' = [Delivery!Idle EXCEPT !.pc = "decide", !.pending = journal.entries]
      /\ UNCHANGED <<journal, events, up, net, acks, srv, owed>>
  BY DEF Delivery!StartPass, Delivery!client, Delivery!server, Delivery!history
<1>2. /\ DOMAIN drain' = {"pc", "pending", "wires", "upto", "stop"}
      /\ drain'.pc = "decide" /\ drain'.pending = journal.entries
      /\ drain'.wires = <<>> /\ drain'.upto = 0
  BY <1>1, IdleFacts
<1>3. acks = <<>> /\ net = <<>>
  BY <1>1 DEF DInv, Phases
<1>4. \A n \in Numbers(journal.entries) : n \in Nat /\ n > 0
  BY NumbersFacts
<1>5. DType'
  <2>1. \A i \in 1..Len(<<>>) : <<>>[i].op \in Ops
    BY EmptyCarries
  <2> QED BY <1>1, <1>2, <2>1, EmptyCarries DEF DInv, DType, JournalOK
<1>6. Phases'
  BY <1>1, <1>2, <1>3, EmptyCarries DEF DInv, Phases
<1>7. GoesUp'
  <2>1. ASSUME NEW e \in journal.entries
        PROVE  e.seq \in Nat /\ e.seq >= 0 /\ e.seq >= srv.last_acked
    <3>1. e.seq \in Numbers(journal.entries)
      BY DEF Numbers
    <3> QED BY <1>1, <1>3, <1>4, <3>1 DEF DInv, AckIsTrue, DType
  <2> QED BY <1>1, <1>2, <2>1 DEF GoesUp
<1>8. Covered' /\ AckIsTrue'
  BY <1>1, <1>2, <1>4 DEF DInv, Covered, AckIsTrue
<1> QED BY <1>5, <1>6, <1>7, <1>8 DEF DInv

(* What is sent for an entry carries its number.                            *)
LEMMA DecideSends ==
    ASSUME NEW e, e.op \in Ops
    PROVE  \/ Delivery!decide(e).send = <<>>
           \/ \E w : Delivery!decide(e).send = <<w>> /\ w.seq = e.seq /\ w.op \in Ops
<1> DEFINE Good(r) == r.send = <<>> \/ \E w : r.send = <<w>> /\ w.seq = e.seq /\ w.op \in Ops
<1>1. \A d, l : Good(Delivery!Settled(d, l))
  BY DEF Delivery!Settled
<1>2. \A d, l : Good(Delivery!Send(d, l, e))
  BY DEF Delivery!Send
<1>3. \A d, l : Good(Delivery!Send(d, l, Delivery!Entry(e.seq, "delete", e.path, Delivery!NoPath, e.at)))
  BY DEF Delivery!Send, Delivery!Entry, Ops
<1> HIDE DEF Good
<1>4. Good(Delivery!DecideUpsert(e))
  BY <1>1, <1>2 DEF Delivery!DecideUpsert
<1>5. Good(Delivery!DecideRename(e))
  BY <1>1, <1>2, <1>3 DEF Delivery!DecideRename
<1>6. Good(Delivery!DecideDelete(e))
  BY <1>1, <1>2 DEF Delivery!DecideDelete
<1>7. Good(Delivery!decide(e))
  BY <1>4, <1>5, <1>6 DEF Delivery!decide
<1> QED BY <1>7 DEF Good

(* The least entry pending is decided.                                      *)
LEMMA StepDecide ==
    ASSUME DInv, Delivery!DecideEntry
    PROVE  DInv'
<1>1. PICK e \in drain.pending :
        /\ \A f \in drain.pending : e.seq <= f.seq
        /\ drain' = [drain EXCEPT !.pending = @ \ {e}, !.wires = @ \o Delivery!decide(e).send,
                                  !.upto = e.seq]
        /\ owed' = IF Delivery!decide(e).send = <<>> THEN owed \ {e.seq} ELSE owed \cup {e.seq}
  BY DEF Delivery!DecideEntry, Delivery!Pending
<1>2. drain.pc = "decide" /\ UNCHANGED <<journal, events, up, net, acks, srv>>
  BY DEF Delivery!DecideEntry, Delivery!server
<1>3. up /\ net = <<>> /\ acks = <<>>
  BY <1>2 DEF DInv, Phases
<1>4. e.seq \in Nat /\ e.seq > 0 /\ e.seq < journal.next_seq /\ e.op \in Ops
  BY DEF DInv, DType, Issued
<1> DEFINE sent == Delivery!decide(e).send
<1>5. sent = <<>> \/ \E w : sent = <<w>> /\ w.seq = e.seq /\ w.op \in Ops
  BY <1>4, DecideSends
<1>6. /\ DOMAIN drain' = {"pc", "pending", "wires", "upto", "stop"}
      /\ drain'.pc = "decide" /\ drain'.pending = drain.pending \ {e}
      /\ drain'.wires = drain.wires \o sent /\ drain'.upto = e.seq
  BY <1>1, <1>2 DEF DInv, DType
<1>7. owed' = IF sent = <<>> THEN owed \ {e.seq} ELSE owed \cup {e.seq}
  BY <1>1
<1> HIDE DEF sent
<1>8. IsSeq(drain.wires) /\ \A i \in 1..Len(drain.wires) : drain.wires[i].op \in Ops
  BY DEF DInv, DType
<1>9. /\ IsSeq(drain'.wires)
      /\ \A i \in 1..Len(drain'.wires) : drain'.wires[i].op \in Ops
      /\ \A n \in Carried(drain.wires) : n \in Carried(drain'.wires)
      /\ e.seq \in owed' => e.seq \in Carried(drain'.wires)
  <2>1. CASE sent = <<>>
    <3>1. drain'.wires = drain.wires
      BY <1>6, <1>8, <2>1 DEF IsSeq
    <3> QED BY <1>7, <1>8, <2>1, <3>1
  <2>2. ASSUME NEW w, sent = <<w>>, w.seq = e.seq, w.op \in Ops
        PROVE  /\ IsSeq(drain'.wires)
               /\ \A i \in 1..Len(drain'.wires) : drain'.wires[i].op \in Ops
               /\ \A n \in Carried(drain.wires) : n \in Carried(drain'.wires)
               /\ e.seq \in Carried(drain'.wires)
    <3>1. drain'.wires = Append(drain.wires, w)
      <4>1. PICK S : drain.wires \in Seq(S)
        BY <1>8 DEF IsSeq
      <4>2. drain.wires \in Seq(S \cup {w}) /\ <<w>> \in Seq(S \cup {w})
        BY <4>1
      <4>3. drain.wires \o <<w>> = Append(drain.wires, w)
        BY <4>2
      <4> QED BY <1>6, <2>2, <4>3
    <3>2. /\ Len(drain.wires) \in Nat
          /\ IsSeq(Append(drain.wires, w))
          /\ Len(Append(drain.wires, w)) = Len(drain.wires) + 1
          /\ \A i \in 1..Len(drain.wires) : Append(drain.wires, w)[i] = drain.wires[i]
          /\ Append(drain.wires, w)[Len(drain.wires) + 1] = w
          /\ \A n : n \in Carried(drain.wires) \/ (n = w.seq /\ w.op # "end") =>
                     n \in Carried(Append(drain.wires, w))
      BY <1>8, AppendFacts
    <3>3. w.op # "end"
      BY <2>2 DEF Ops
    <3> QED BY <1>8, <2>2, <3>1, <3>2, <3>3
  <2> QED BY <1>5, <2>1, <2>2
<1>10. DType'
  BY <1>2, <1>4, <1>6, <1>9 DEF DInv, DType, Issued
<1>11. Phases'
  BY <1>2, <1>3, <1>6 DEF DInv, Phases
<1>12. GoesUp'
  <2>1. \A f \in drain.pending : f.seq \in Nat /\ f.seq >= e.seq /\ f.seq >= srv.last_acked
    BY <1>1, <1>2, <1>4 DEF DInv, DType, Issued, GoesUp
  <2>2. ASSUME NEW f \in drain.pending, NEW n \in Numbers(journal.entries), n < f.seq
        PROVE  n <= e.seq \/ n \in Numbers(drain.pending \ {e})
    <3>1. CASE n <= drain.upto
      BY <1>4, <3>1, NumbersFacts DEF DInv, DType, GoesUp
    <3>2. CASE n \in Numbers(drain.pending)
      BY <1>4, <3>2 DEF Numbers
    <3> QED BY <2>2, <3>1, <3>2 DEF DInv, GoesUp
  <2> QED BY <1>2, <1>4, <1>6, <2>1, <2>2 DEF GoesUp
<1>13. Covered'
  <2>1. ASSUME NEW n \in Numbers(journal.entries), n \in owed', n <= e.seq
        PROVE  n \in Carried(drain'.wires) \/ srv.failed
    <3>1. CASE n = e.seq
      BY <1>9, <2>1, <3>1
    <3>2. CASE n # e.seq
      <4>1. n < e.seq /\ n \in owed
        BY <1>4, <1>7, <2>1, <3>2, NumbersFacts
      <4>2. n \notin Numbers(drain.pending)
        BY <1>1, <1>4, <4>1, NumbersFacts DEF Numbers, DInv, DType, Issued
      <4>3. n <= drain.upto
        BY <4>1, <4>2 DEF DInv, GoesUp
      <4>4. n \in Carried(drain.wires) \/ srv.failed
        BY <1>3, <4>1, <4>3, EmptyCarries DEF DInv, Covered
      <4> QED BY <1>9, <4>4
    <3> QED BY <3>1, <3>2
  <2> QED BY <1>2, <1>6, <2>1 DEF Covered
<1>14. AckIsTrue'
  BY <1>2, <1>3 DEF DInv, AckIsTrue
<1> QED BY <1>10, <1>11, <1>12, <1>13, <1>14 DEF DInv

(* The chunk is closed, because it is full or because a file is unstable.   *)
LEMMA StepClose ==
    ASSUME DInv, Delivery!CloseChunk \/ Delivery!StopUnstable
    PROVE  DInv'
<1>1. /\ drain.pc = "decide"
      /\ UNCHANGED <<journal, events, up, net, acks, srv, owed>>
      /\ \/ drain.upto > 0 /\ drain' = [drain EXCEPT !.pc = "send"]
         \/ drain.upto > 0 /\ drain' = [drain EXCEPT !.pc = "send", !.stop = TRUE]
         \/ drain' = Delivery!Idle
  BY DEF Delivery!CloseChunk, Delivery!StopUnstable, Delivery!client, Delivery!server,
         Delivery!history
<1>2. up /\ net = <<>> /\ acks = <<>> /\ Len(net) = 0
  BY <1>1, EmptyCarries DEF DInv, Phases
<1>3. CASE drain' = Delivery!Idle
  <2>1. /\ DOMAIN drain' = {"pc", "pending", "wires", "upto", "stop"}
        /\ drain'.pc = "idle" /\ drain'.pending = {} /\ drain'.wires = <<>> /\ drain'.upto = 0
    BY <1>3, IdleFacts
  <2>2. DType'
    BY <1>1, <2>1, EmptyCarries DEF DInv, DType, Issued, JournalOK
  <2>3. Phases'
    BY <1>1, <1>2, <2>1 DEF Phases
  <2>4. GoesUp' /\ Covered' /\ AckIsTrue'
    BY <1>1, <2>1, NumbersFacts DEF DInv, GoesUp, Covered, AckIsTrue
  <2> QED BY <2>2, <2>3, <2>4 DEF DInv
<1>4. CASE drain' # Delivery!Idle
  <2>1. /\ drain.upto > 0
        /\ DOMAIN drain' = {"pc", "pending", "wires", "upto", "stop"}
        /\ drain'.pc = "send" /\ drain'.pending = drain.pending
        /\ drain'.wires = drain.wires /\ drain'.upto = drain.upto
    BY <1>1, <1>4 DEF DInv, DType
  <2>2. DType'
    BY <1>1, <2>1 DEF DInv, DType
  <2>3. Phases'
    BY <1>1, <1>2, <2>1 DEF Phases
  <2>4. GoesUp' /\ Covered' /\ AckIsTrue'
    BY <1>1, <2>1 DEF DInv, GoesUp, Covered, AckIsTrue
  <2> QED BY <2>2, <2>3, <2>4 DEF DInv
<1> QED BY <1>3, <1>4

(* A frame leaves the chunk for the network, or its file is gone.           *)
LEMMA StepSendWire ==
    ASSUME DInv, Delivery!SendWire
    PROVE  DInv'
<1> DEFINE w == Head(drain.wires)
           x == Delivery!Frame(w.op, w.seq, w.path, w.to, w.at,
                  IF w.op = "upsert" /\ w.path \in Leaf THEN disk[w.path] ELSE 0)
<1>1. /\ drain.pc = "send" /\ drain.wires # <<>>
      /\ drain' = [drain EXCEPT !.wires = Tail(@)]
      /\ UNCHANGED <<journal, events, up, acks, srv>>
      /\ \/ net' = net /\ owed' = owed \ {w.seq}
         \/ net' = Append(net, x) /\ owed' = owed
  BY DEF Delivery!SendWire, Delivery!client, Delivery!server
<1>2. IsSeq(drain.wires) /\ \A i \in 1..Len(drain.wires) : drain.wires[i].op \in Ops
  BY DEF DInv, DType
<1>3. /\ Len(drain.wires) \in Nat /\ Len(drain.wires) > 0 /\ w = drain.wires[1]
      /\ IsSeq(Tail(drain.wires)) /\ Len(Tail(drain.wires)) = Len(drain.wires) - 1
      /\ \A i \in 1..(Len(drain.wires) - 1) : Tail(drain.wires)[i] = drain.wires[i + 1]
      /\ \A n \in Carried(drain.wires) :
           (n = w.seq /\ w.op # "end") \/ n \in Carried(Tail(drain.wires))
  BY <1>1, <1>2, TailFacts
<1>4. x.seq = w.seq /\ x.op = w.op
  BY DEF Delivery!Frame
<1>5. x.op # "end"
  BY <1>2, <1>3, <1>4 DEF Ops
<1> HIDE DEF w, x
<1>6. /\ DOMAIN drain' = {"pc", "pending", "wires", "upto", "stop"}
      /\ drain'.pc = "send" /\ drain'.pending = drain.pending
      /\ drain'.wires = Tail(drain.wires) /\ drain'.upto = drain.upto
  BY <1>1 DEF DInv, DType
<1>7. \A i \in 1..Len(drain'.wires) : drain'.wires[i].op \in Ops
  <2>1. \A i \in 1..(Len(drain.wires) - 1) : i + 1 \in 1..Len(drain.wires)
    BY <1>3
  <2> QED BY <1>2, <1>3, <1>6, <2>1
<1>8. IsSeq(net) /\ \A i \in 1..Len(net) : net[i].op # "end"
  BY <1>1 DEF DInv, DType, Phases
<1>9. /\ Len(net) \in Nat /\ IsSeq(Append(net, x)) /\ Len(Append(net, x)) = Len(net) + 1
      /\ \A i \in 1..Len(net) : Append(net, x)[i] = net[i]
      /\ Append(net, x)[Len(net) + 1] = x
      /\ \A n : n \in Carried(net) \/ (n = x.seq /\ x.op # "end") => n \in Carried(Append(net, x))
  BY <1>8, AppendFacts
<1>10. IsSeq(net') /\ \A i \in 1..Len(net') : net'[i].op # "end"
  <2>1. CASE net' = net
    BY <1>8, <2>1
  <2>2. CASE net' = Append(net, x)
    <3>1. \A i \in 1..(Len(net) + 1) : i \in 1..Len(net) \/ i = Len(net) + 1
      BY <1>9
    <3>2. \A i \in 1..Len(Append(net, x)) : Append(net, x)[i].op # "end"
      BY <1>5, <1>8, <1>9, <3>1
    <3> QED BY <1>9, <2>2, <3>2
  <2> QED BY <1>1, <2>1, <2>2
<1>11. DType'
  BY <1>1, <1>3, <1>6, <1>7, <1>10 DEF DInv, DType
<1>12. Phases'
  BY <1>1, <1>6, <1>10 DEF DInv, Phases
<1>13. GoesUp'
  BY <1>1, <1>6 DEF DInv, GoesUp
<1>14. Covered'
  <2>1. ASSUME NEW n \in Numbers(journal.entries), n \in owed', n <= drain.upto
        PROVE  n \in Carried(drain'.wires) \/ n \in Carried(net') \/ srv.failed \/ acks # <<>>
    <3>1. n \in owed
      BY <1>1, <2>1
    <3>2. n \in Carried(drain.wires) \/ n \in Carried(net) \/ srv.failed \/ acks # <<>>
      BY <2>1, <3>1 DEF DInv, Covered
    <3>3. CASE n \in Carried(net)
      BY <1>1, <1>9, <3>3
    <3>4. CASE n \in Carried(drain.wires)
      BY <1>1, <1>3, <1>4, <1>5, <1>6, <1>9, <2>1, <3>4
    <3> QED BY <3>2, <3>3, <3>4
  <2> QED BY <1>1, <1>6, <2>1 DEF Covered
<1>15. AckIsTrue'
  BY <1>1 DEF DInv, AckIsTrue
<1> QED BY <1>11, <1>12, <1>13, <1>14, <1>15 DEF DInv

(* The end of the chunk follows its last frame.                             *)
LEMMA StepBatchEnd ==
    ASSUME DInv, Delivery!SendBatchEnd
    PROVE  DInv'
<1> DEFINE x == Delivery!Frame("end", drain.upto, Delivery!NoPath, Delivery!NoPath, 0, 0)
<1>1. /\ drain.pc = "send" /\ drain.wires = <<>> /\ net' = Append(net, x)
      /\ drain' = [drain EXCEPT !.pc = "await"]
      /\ UNCHANGED <<journal, events, up, acks, srv, owed>>
  BY DEF Delivery!SendBatchEnd, Delivery!client, Delivery!server, Delivery!history
<1>2. x.seq = drain.upto /\ x.op = "end"
  BY DEF Delivery!Frame
<1> HIDE DEF x
<1>3. /\ DOMAIN drain' = {"pc", "pending", "wires", "upto", "stop"}
      /\ drain'.pc = "await" /\ drain'.pending = drain.pending
      /\ drain'.wires = drain.wires /\ drain'.upto = drain.upto
  BY <1>1 DEF DInv, DType
<1>4. IsSeq(net) /\ \A i \in 1..Len(net) : net[i].op # "end"
  BY <1>1 DEF DInv, DType, Phases
<1>5. /\ Len(net) \in Nat /\ IsSeq(net') /\ Len(net') = Len(net) + 1 /\ net' # <<>>
      /\ \A i \in 1..Len(net) : net'[i] = net[i]
      /\ net'[Len(net) + 1] = x
      /\ \A n \in Carried(net) : n \in Carried(net')
  BY <1>1, <1>4, AppendFacts
<1>6. \A i \in 1..Len(net') : net'[i].op = "end" <=> i = Len(net')
  BY <1>2, <1>4, <1>5
<1>7. DType'
  BY <1>1, <1>3, <1>5 DEF DInv, DType
<1>8. Phases'
  BY <1>1, <1>2, <1>3, <1>5, <1>6 DEF DInv, Phases
<1>9. GoesUp'
  BY <1>1, <1>3 DEF DInv, GoesUp
<1>10. Covered' /\ AckIsTrue'
  BY <1>1, <1>3, <1>5 DEF DInv, Covered, AckIsTrue
<1> QED BY <1>7, <1>8, <1>9, <1>10 DEF DInv

(* What a read takes from the network.                                      *)
LEMMA NetRead ==
    ASSUME DInv, net # <<>>
    PROVE  /\ drain.pc \in {"send", "await"} /\ acks = <<>> /\ up
           /\ IsSeq(Tail(net))
           /\ \A n \in Carried(net) :
                 (n = Head(net).seq /\ Head(net).op # "end") \/ n \in Carried(Tail(net))
           /\ Head(net).op = "end" =>
                 drain.pc = "await" /\ Tail(net) = <<>> /\ Head(net).seq = drain.upto
           /\ Head(net).op # "end" =>
                 /\ \A i \in 1..Len(Tail(net)) :
                      Tail(net)[i].op = "end" <=> drain.pc = "await" /\ i = Len(Tail(net))
                 /\ drain.pc = "await" =>
                      Tail(net) # <<>> /\ Tail(net)[Len(Tail(net))].seq = drain.upto
<1>1. drain.pc \in {"send", "await"} /\ acks = <<>> /\ up
  BY DEF DInv, DType, Phases
<1>2. IsSeq(net)
  BY DEF DInv, DType
<1>3. /\ Len(net) \in Nat /\ Len(net) > 0 /\ Head(net) = net[1]
      /\ IsSeq(Tail(net)) /\ Len(Tail(net)) = Len(net) - 1
      /\ \A i \in 1..(Len(net) - 1) : Tail(net)[i] = net[i + 1]
      /\ \A n \in Carried(net) :
           (n = Head(net).seq /\ Head(net).op # "end") \/ n \in Carried(Tail(net))
  BY <1>2, TailFacts
<1>4. \A i \in 1..Len(net) : net[i].op = "end" <=> drain.pc = "await" /\ i = Len(net)
  BY DEF DInv, Phases
<1>5. drain.pc = "await" => net[Len(net)].seq = drain.upto
  BY DEF DInv, Phases
<1>6. ASSUME Head(net).op = "end"
      PROVE  drain.pc = "await" /\ Tail(net) = <<>> /\ Head(net).seq = drain.upto
  <2>1. drain.pc = "await" /\ Len(net) = 1
    <3>1. 1 \in 1..Len(net)
      BY <1>3
    <3>2. net[1].op = "end"
      BY <1>3, <1>6
    <3> QED BY <1>4, <3>1, <3>2
  <2>2. Len(Tail(net)) = 0
    BY <1>3, <2>1
  <2>3. Tail(net) = <<>>
    BY <1>3, <2>2, NoLength
  <2> QED BY <1>3, <1>5, <2>1, <2>3
<1>7. ASSUME Head(net).op # "end"
      PROVE  /\ \A i \in 1..Len(Tail(net)) :
                   Tail(net)[i].op = "end" <=> drain.pc = "await" /\ i = Len(Tail(net))
             /\ drain.pc = "await" =>
                   Tail(net) # <<>> /\ Tail(net)[Len(Tail(net))].seq = drain.upto
  <2>1. ASSUME NEW i \in 1..Len(Tail(net))
        PROVE  Tail(net)[i].op = "end" <=> drain.pc = "await" /\ i = Len(Tail(net))
    <3>1. i + 1 \in 1..Len(net) /\ Tail(net)[i] = net[i + 1]
      BY <1>3
    <3>2. net[i + 1].op = "end" <=> drain.pc = "await" /\ i + 1 = Len(net)
      BY <1>4, <3>1
    <3>3. i + 1 = Len(net) <=> i = Len(Tail(net))
      BY <1>3
    <3> QED BY <3>1, <3>2, <3>3
  <2>2. ASSUME drain.pc = "await"
        PROVE  Tail(net) # <<>> /\ Tail(net)[Len(Tail(net))].seq = drain.upto
    <3>1. Len(net) # 1
      <4>1. 1 \in 1..Len(net) /\ net[1].op # "end"
        BY <1>3, <1>7
      <4> QED BY <1>4, <2>2, <4>1
    <3>2. Len(net) - 1 \in 1..(Len(net) - 1) /\ (Len(net) - 1) + 1 = Len(net)
      BY <1>3, <3>1
    <3>3. Tail(net)[Len(net) - 1] = net[Len(net)]
      BY <1>3, <3>2
    <3>4. Tail(net) # <<>>
      <4>1. Len(Tail(net)) # 0
        BY <1>3, <3>2
      <4> QED BY <4>1, EmptyCarries
    <3> QED BY <1>3, <1>5, <2>2, <3>3, <3>4
  <2> QED BY <2>1, <2>2
<1> QED BY <1>1, <1>3, <1>6, <1>7

(* The server applies a frame, or fails to and remembers it.                *)
LEMMA StepServerApply ==
    ASSUME DInv, Delivery!ServerApply \/ Delivery!ServerApplyFails
    PROVE  DInv'
<1>1. /\ net # <<>> /\ Head(net).op # "end" /\ net' = Tail(net)
      /\ UNCHANGED <<journal, events, drain, up, acks>>
      /\ \/ srv' = srv /\ owed' = owed \ {Head(net).seq}
         \/ srv' = [srv EXCEPT !.failed = TRUE] /\ owed' = owed
  BY DEF Delivery!ServerApply, Delivery!ServerApplyFails, Delivery!client, Delivery!history
<1>2. /\ DOMAIN srv' = {"last_acked", "failed"} /\ srv'.last_acked = srv.last_acked
      /\ srv'.failed \in BOOLEAN
      /\ \/ srv'.failed = srv.failed /\ owed' = owed \ {Head(net).seq}
         \/ srv'.failed /\ owed' = owed
  BY <1>1 DEF DInv, DType
<1>3. /\ drain.pc \in {"send", "await"} /\ acks = <<>> /\ IsSeq(net')
      /\ \A n \in Carried(net) : n = Head(net).seq \/ n \in Carried(net')
      /\ \A i \in 1..Len(net') : net'[i].op = "end" <=> drain.pc = "await" /\ i = Len(net')
      /\ drain.pc = "await" => net' # <<>> /\ net'[Len(net')].seq = drain.upto
  BY <1>1, NetRead
<1>4. DType'
  BY <1>1, <1>2, <1>3 DEF DInv, DType
<1>5. Phases'
  BY <1>1, <1>3 DEF DInv, Phases
<1>6. GoesUp'
  BY <1>1, <1>2 DEF DInv, GoesUp
<1>7. Covered'
  BY <1>1, <1>2, <1>3 DEF DInv, Covered
<1>8. AckIsTrue'
  BY <1>1, <1>2 DEF DInv, AckIsTrue
<1> QED BY <1>4, <1>5, <1>6, <1>7, <1>8 DEF DInv

(* The end of a chunk is read: it is acknowledged if nothing failed.        *)
LEMMA StepServerAck ==
    ASSUME DInv, Delivery!ServerAck
    PROVE  DInv'
<1> DEFINE top == IF srv.failed THEN srv.last_acked
                  ELSE Delivery!MaxOfTwo(Head(net).seq, srv.last_acked)
<1>1. /\ net # <<>> /\ Head(net).op = "end" /\ net' = Tail(net)
      /\ acks' = Append(acks, top) /\ srv' = [last_acked |-> top, failed |-> FALSE]
      /\ UNCHANGED <<journal, events, drain, up, owed>>
  BY DEF Delivery!ServerAck, Delivery!client, Delivery!history
<1>2. /\ drain.pc = "await" /\ net' = <<>> /\ acks = <<>> /\ up
      /\ Head(net).seq = drain.upto
      /\ \A n \in Carried(net) : n \in Carried(<<>>)
  BY <1>1, NetRead
<1>3. /\ srv.last_acked \in Nat /\ drain.upto \in Nat /\ drain.upto > 0
      /\ srv.last_acked <= drain.upto /\ drain.wires = <<>>
      /\ drain.upto < journal.next_seq /\ srv.last_acked < journal.next_seq
  BY <1>2 DEF DInv, DType, Phases, GoesUp
<1>4. top \in Nat /\ top <= drain.upto /\ top < journal.next_seq
      /\ (top = srv.last_acked \/ (~srv.failed /\ top = drain.upto))
  BY <1>2, <1>3 DEF Delivery!MaxOfTwo
<1> HIDE DEF top
<1>5. acks' = <<top>> /\ acks' # <<>>
  BY <1>1, <1>2
<1>6. DOMAIN srv' = {"last_acked", "failed"} /\ srv'.last_acked = top /\ srv'.failed = FALSE
  BY <1>1
<1>7. DType'
  BY <1>1, <1>2, <1>4, <1>6, EmptyCarries DEF DInv, DType
<1>8. Phases'
  BY <1>1, <1>2, <1>5, <1>6, EmptyCarries DEF DInv, Phases
<1>9. GoesUp'
  BY <1>1, <1>2, <1>4, <1>6 DEF DInv, GoesUp
<1>10. Covered'
  BY <1>5 DEF Covered
<1>11. AckIsTrue'
  <2>1. ASSUME NEW n \in Numbers(journal.entries), ~(n > top), n \in owed
        PROVE  FALSE
    <3>1. n \in Nat
      BY NumbersFacts
    <3>2. n > srv.last_acked
      BY <1>2, <2>1 DEF DInv, AckIsTrue
    <3>3. ~srv.failed /\ top = drain.upto /\ n <= drain.upto
      BY <1>3, <1>4, <2>1, <3>1, <3>2
    <3>4. n \in Carried(net)
      BY <1>2, <1>3, <2>1, <3>3, EmptyCarries DEF DInv, Covered
    <3> QED BY <1>2, <3>4, EmptyCarries
  <2> QED BY <1>1, <1>5, <1>6, <2>1 DEF AckIsTrue
<1> QED BY <1>7, <1>8, <1>9, <1>10, <1>11 DEF DInv

LEMMA AckKeeps ==
    ASSUME NEW s, NEW n \in Nat, JournalOK(s), n < s.next_seq
    PROVE  /\ JournalOK(Delivery!ack_local(s, n))
           /\ Delivery!ack_local(s, n).next_seq = s.next_seq
           /\ Delivery!ack_local(s, n).entries = {e \in s.entries : e.seq > n}
           /\ Delivery!ack_local(s, n).acked \in {n, s.acked}
<1> DEFINE es == {e \in s.entries : e.seq <= n}
           q == Delivery!remove(s, es)
           a == Delivery!ack_local(s, n)
<1>1. DOMAIN q = DOMAIN s /\ q.entries = s.entries \ es /\ q.acked = s.acked /\ q.next_seq = s.next_seq
  BY DEF Delivery!remove, JournalOK
<1>2. a = [q EXCEPT !.acked = IF n > @ THEN n ELSE @, !.next_seq = IF n + 1 > @ THEN n + 1 ELSE @]
  BY DEF Delivery!ack_local
<1> HIDE DEF q, a
<1>3. /\ DOMAIN a = DOMAIN s /\ a.entries = s.entries \ es
      /\ a.acked = IF n > s.acked THEN n ELSE s.acked
      /\ a.next_seq = IF n + 1 > s.next_seq THEN n + 1 ELSE s.next_seq
  BY <1>1, <1>2 DEF JournalOK
<1>4. a.next_seq = s.next_seq
  BY <1>3 DEF JournalOK
<1>5. a.entries = {e \in s.entries : e.seq > n}
  <2>1. \A e \in s.entries : e.seq \in Nat
    BY DEF JournalOK, Issued
  <2> QED BY <1>3, <2>1
<1>6. JournalOK(a) /\ a.acked \in {n, s.acked}
  BY <1>3, <1>4, <1>5 DEF JournalOK, Issued
<1> QED BY <1>4, <1>5, <1>6 DEF a

(* An acknowledgement is read: the journal forgets what it covers, which is *)
(* all the server has acknowledged.                                         *)
LEMMA AckRead ==
    ASSUME DInv, Delivery!RecvAck
    PROVE  /\ drain.pc = "await" /\ up /\ acks # <<>>
           /\ acks' = <<>> /\ net = <<>>
           /\ srv.last_acked \in Nat /\ srv.last_acked <= drain.upto
           /\ journal' = Delivery!ack_local(journal, srv.last_acked)
           /\ \/ drain' = Delivery!Idle
              \/ /\ srv.last_acked = drain.upto
                 /\ drain' = [Delivery!Idle EXCEPT !.pc = "decide", !.pending = drain.pending]
           /\ UNCHANGED <<events, up, net, srv, owed>>
<1>1. drain.pc = "await" /\ acks # <<>> /\ acks' = Tail(acks)
  BY DEF Delivery!RecvAck
<1>2. /\ up /\ acks = <<srv.last_acked>> /\ net = <<>> /\ drain.upto \in Nat
      /\ srv.last_acked \in Nat /\ srv.last_acked <= drain.upto
  BY <1>1 DEF DInv, DType, Phases, GoesUp
<1>3. Head(acks) = srv.last_acked /\ Tail(acks) = <<>>
  BY <1>2
<1> DEFINE acked == IF Head(acks) < drain.upto THEN Head(acks) ELSE drain.upto
<1>4. acked = srv.last_acked /\ (~(acked < drain.upto) => srv.last_acked = drain.upto)
  BY <1>2, <1>3
<1>5. /\ journal' = Delivery!ack_local(journal, acked)
      /\ drain' = IF acked < drain.upto \/ drain.stop \/ drain.pending = {} THEN Delivery!Idle
                  ELSE [Delivery!Idle EXCEPT !.pc = "decide", !.pending = drain.pending]
      /\ UNCHANGED <<events, up, net, srv, owed>>
  BY DEF Delivery!RecvAck, Delivery!server, Delivery!history
<1> HIDE DEF acked
<1> QED BY <1>1, <1>2, <1>3, <1>4, <1>5

LEMMA StepRecvAck ==
    ASSUME DInv, Delivery!RecvAck
    PROVE  DInv'
<1>1. /\ drain.pc = "await" /\ up /\ acks' = <<>> /\ net = <<>>
      /\ srv.last_acked \in Nat /\ srv.last_acked <= drain.upto
      /\ journal' = Delivery!ack_local(journal, srv.last_acked)
      /\ UNCHANGED <<events, up, net, srv, owed>>
  BY AckRead
<1>2. \/ drain' = Delivery!Idle
      \/ /\ srv.last_acked = drain.upto
         /\ drain' = [Delivery!Idle EXCEPT !.pc = "decide", !.pending = drain.pending]
  BY AckRead
<1>3. JournalOK(journal) /\ srv.last_acked < journal.next_seq
  BY DEF DInv, DType
<1>4. /\ JournalOK(journal') /\ journal'.next_seq = journal.next_seq
      /\ journal'.entries = {e \in journal.entries : e.seq > srv.last_acked}
  BY <1>1, <1>3, AckKeeps
<1>5. \A n \in Numbers(journal'.entries) :
         n \in Numbers(journal.entries) /\ n \in Nat /\ n > 0 /\ n > srv.last_acked
  BY <1>4, NumbersFacts DEF Numbers
<1>6. /\ DOMAIN drain' = {"pc", "pending", "wires", "upto", "stop"}
      /\ drain'.wires = <<>> /\ drain'.upto = 0
      /\ \/ drain'.pc = "idle" /\ drain'.pending = {}
         \/ drain'.pc = "decide" /\ drain'.pending = drain.pending /\ srv.last_acked = drain.upto
  BY <1>2, IdleFacts
<1>7. DType'
  <2>1. Issued(drain'.pending, journal.next_seq)
    BY <1>6 DEF DInv, DType, Issued
  <2>2. \A i \in 1..Len(<<>>) : <<>>[i].op \in Ops
    BY EmptyCarries
  <2>3. 0 < journal.next_seq
    BY <1>3 DEF JournalOK
  <2> QED BY <1>1, <1>4, <1>6, <2>1, <2>2, <2>3, EmptyCarries DEF DInv, DType
<1>8. Phases'
  BY <1>1, <1>6, EmptyCarries DEF Phases
<1>9. GoesUp'
  <2>1. CASE drain'.pending = {} /\ drain'.pc = "idle"
    BY <1>6, <2>1 DEF GoesUp
  <2>2. CASE drain'.pc = "decide" /\ drain'.pending = drain.pending /\ srv.last_acked = drain.upto
    <3>1. \A e \in drain.pending : e.seq \in Nat /\ e.seq >= 0 /\ e.seq >= srv.last_acked
      BY <2>2 DEF DInv, DType, Issued, GoesUp
    <3>2. ASSUME NEW e \in drain.pending, NEW n \in Numbers(journal'.entries), n < e.seq
          PROVE  n \in Numbers(drain.pending)
      <4>1. n \in Numbers(journal.entries) /\ ~(n <= drain.upto)
        BY <1>1, <1>5, <2>2
      <4> QED BY <3>2, <4>1 DEF DInv, GoesUp
    <3> QED BY <1>1, <1>6, <2>2, <3>1, <3>2 DEF GoesUp
  <2> QED BY <1>6, <2>1, <2>2
<1>10. Covered' /\ AckIsTrue'
  BY <1>1, <1>5, <1>6 DEF Covered, AckIsTrue
<1> QED BY <1>7, <1>8, <1>9, <1>10 DEF DInv

-----------------------------------------------------------------------------
(* The three facts of the invariant.                                        *)

LEMMA DInit == Delivery!Init => DInv
<1> SUFFICES ASSUME Delivery!Init PROVE DInv
  OBVIOUS
<1>1. /\ events = <<>> /\ drain = Delivery!Idle /\ ~up /\ net = <<>> /\ acks = <<>>
      /\ srv = [last_acked |-> 0, failed |-> FALSE] /\ journal = Delivery!EmptyState
  BY DEF Delivery!Init
<1>2. /\ DOMAIN drain = {"pc", "pending", "wires", "upto", "stop"}
      /\ drain.pc = "idle" /\ drain.pending = {} /\ drain.wires = <<>> /\ drain.upto = 0
  BY <1>1, IdleFacts
<1>3. JournalOK(journal) /\ journal.entries = {} /\ journal.next_seq = 1
  BY <1>1 DEF Delivery!EmptyState, JournalOK, Issued
<1>4. DOMAIN srv = {"last_acked", "failed"} /\ srv.last_acked = 0 /\ srv.failed = FALSE
  BY <1>1
<1>5. DType
  BY <1>1, <1>2, <1>3, <1>4, EmptyCarries DEF DType, Issued
<1>6. Phases
  BY <1>1, <1>2, EmptyCarries DEF Phases
<1>7. GoesUp /\ Covered /\ AckIsTrue
  BY <1>1, <1>2, <1>3 DEF GoesUp, Covered, AckIsTrue, Numbers
<1> QED BY <1>5, <1>6, <1>7 DEF DInv

(* The handler of a lost connection touches nothing of this one.            *)
LEMMA LateKeeps ==
    ASSUME Delivery!Late
    PROVE  UNCHANGED <<disk, events, now, journal, tombs, drain, up, net, acks, srv, ops, owed>>
BY DEF Delivery!Late, Delivery!LateApply, Delivery!client

LEMMA DNext == DInv /\ [Delivery!Next]_Delivery!vars => DInv'
<1> SUFFICES ASSUME DInv, [Delivery!Next]_Delivery!vars PROVE DInv'
  OBVIOUS
<1>1. CASE Delivery!User
  <2>1. ASSUME NEW p \in Leaf, Delivery!UserWrite(p) PROVE DInv'
    BY <2>1, StepUser DEF Delivery!UserWrite, Ops
  <2>2. ASSUME NEW p \in Path, Delivery!UserDelete(p) PROVE DInv'
    BY <2>2, StepUser DEF Delivery!UserDelete, Ops
  <2>3. ASSUME NEW m \in Moves, Delivery!UserRename(m[1], m[2]) PROVE DInv'
    BY <2>3, StepUser DEF Delivery!UserRename, Ops
  <2> QED BY <1>1, <2>1, <2>2, <2>3 DEF Delivery!User
<1>2. CASE Delivery!Drain
  BY <1>2, StepCapture, StepConnect, StepStartPass, StepDecide, StepClose, StepSendWire,
     StepBatchEnd, StepRecvAck, StepServerApply, StepServerAck DEF Delivery!Drain
<1>3. CASE Delivery!Fault
  BY <1>3, StepDisconnect, StepClose, StepServerApply DEF Delivery!Fault
<1>4. CASE Delivery!Late \/ UNCHANGED Delivery!vars
  <2>1. UNCHANGED <<journal, events, drain, up, net, acks, srv, owed>>
    BY <1>4, LateKeeps DEF Delivery!vars, Delivery!client, Delivery!server, Delivery!history
  <2> QED BY <2>1 DEF DInv, DType, Phases, GoesUp, Covered, AckIsTrue
<1> QED BY <1>1, <1>2, <1>3, <1>4 DEF Delivery!Next

(* Only reading an acknowledgement raises the journal's mark.               *)
LEMMA MarkMoves ==
    ASSUME DInv, Delivery!Next, journal'.acked > journal.acked
    PROVE  Delivery!RecvAck
<1>1. JournalOK(journal)
  BY DEF DInv, DType
<1>2. journal' # journal
  BY <1>1 DEF JournalOK
<1>3. CASE Delivery!Capture
  <2>1. /\ events # <<>>
        /\ \/ journal' = Delivery!rename(journal, Head(events).path, Head(events).to, now + 1)
           \/ journal' = Delivery!append(journal, Head(events).op, Head(events).path, now + 1)
    BY <1>3 DEF Delivery!Capture
  <2>2. IsSeq(events) /\ \A i \in 1..Len(events) : events[i].op \in Ops
    BY DEF DInv, DType
  <2>3. Len(events) \in Nat /\ Len(events) > 0 /\ Head(events) = events[1]
    BY <2>1, <2>2, TailFacts
  <2>4. Head(events).op \in Ops
    BY <2>2, <2>3
  <2>5. Grows(journal, journal')
    BY <1>1, <2>1, <2>4, AppendKeeps, RenameKeeps
  <2> QED BY <1>1, <2>5 DEF Grows, JournalOK
<1>4. CASE Delivery!User
  BY <1>2, <1>4 DEF Delivery!User, Delivery!UserWrite, Delivery!UserDelete, Delivery!UserRename,
                    Delivery!Act
<1>5. CASE Delivery!Fault
  BY <1>2, <1>5 DEF Delivery!Fault, Delivery!Disconnect, Delivery!StopUnstable,
                    Delivery!ServerApplyFails, Delivery!client
<1>6. CASE Delivery!Drain /\ ~Delivery!RecvAck /\ ~Delivery!Capture
  BY <1>2, <1>6 DEF Delivery!Drain, Delivery!Connect, Delivery!StartPass, Delivery!DecideEntry,
                    Delivery!CloseChunk, Delivery!SendWire, Delivery!SendBatchEnd,
                    Delivery!ServerApply, Delivery!ServerAck, Delivery!client
<1>7. CASE Delivery!Late
  BY <1>2, <1>7, LateKeeps
<1> QED BY <1>3, <1>4, <1>5, <1>6, <1>7 DEF Delivery!Next

(* An acknowledgement removes an entry from the journal only when the       *)
(* server has applied what was sent for it, or nothing had to be sent       *)
(* (drain_action_journal and recv_action_drain, server.rs:788): for any     *)
(* tree, any number of user actions and faults, and any cuts into chunks.   *)
THEOREM AcksAreEarned == Delivery!Spec => AckedWereApplied
<1> DEFINE Step == journal'.acked > journal.acked =>
                      \A e \in journal.entries : e.seq <= journal'.acked => e.seq \notin owed
<1>1. DInv /\ [Delivery!Next]_Delivery!vars => [Step]_Delivery!vars
  <2> SUFFICES ASSUME DInv, Delivery!Next, journal'.acked > journal.acked,
                      NEW e \in journal.entries, e.seq <= journal'.acked
               PROVE  e.seq \notin owed
    OBVIOUS
  <2>1. Delivery!RecvAck
    BY MarkMoves
  <2>2. /\ up /\ srv.last_acked \in Nat
        /\ journal' = Delivery!ack_local(journal, srv.last_acked)
    BY <2>1, AckRead
  <2>3. JournalOK(journal) /\ srv.last_acked < journal.next_seq
    BY DEF DInv, DType
  <2>4. journal'.acked \in {srv.last_acked, journal.acked}
    BY <2>2, <2>3, AckKeeps
  <2>5. journal'.acked = srv.last_acked
    BY <2>3, <2>4 DEF JournalOK
  <2>6. e.seq \in Numbers(journal.entries) /\ e.seq \in Nat
    BY NumbersFacts DEF Numbers
  <2> QED BY <2>2, <2>5, <2>6 DEF DInv, AckIsTrue
<1> QED BY <1>1, DInit, DNext, PTL DEF Delivery!Spec, AckedWereApplied, Delivery!AckedWereApplied

-----------------------------------------------------------------------------
(* Induction on a number, for a set of numbers.                             *)

(* The order of the numbers, as a set of pairs.                             *)
Less == {ss \in Nat \X Nat : ss[1] < ss[2]}

(* Every set of numbers has a least one.                                    *)
LEMMA LessFounded == IsWellFoundedOn(Less, Nat)
BY NatLessThanWellFounded DEF OpToRel, Less

(* A set that holds 0 and with a number the next holds every number.        *)
LEMMA EveryNumber ==
    ASSUME NEW S, 0 \in S, \A n \in Nat : n \in S => n + 1 \in S
    PROVE  Nat \subseteq S
<1> DEFINE T == Nat \ S
<1>1. SUFFICES ASSUME T # {} PROVE FALSE
  BY <1>1
<1>2. PICK x \in T : \A y \in T : ~(<<y, x>> \in Less)
  <2>1. T \subseteq Nat
    OBVIOUS
  <2> QED BY <1>1, <2>1, LessFounded, WFMin
<1>3. x \in Nat /\ x # 0 /\ x - 1 \in Nat /\ x - 1 \notin T
  <2>1. x \in Nat /\ x # 0 /\ x - 1 \in Nat /\ x - 1 < x
    OBVIOUS
  <2>2. <<x - 1, x>> \in Less
    BY <2>1 DEF Less
  <2> QED BY <1>2, <2>1, <2>2
<1>4. x - 1 \in S /\ x = (x - 1) + 1
  BY <1>3
<1> QED BY <1>2, <1>3, <1>4

-----------------------------------------------------------------------------
(* Reading lines one after the other.                                       *)

(* g[i] is the state after i of the lines.                                  *)
Run(g, s, l, n) ==
    g = [i \in 0..n |-> IF i = 0 THEN s ELSE Journal!apply_line(g[i - 1], l[i])]

(* There is a run over any lines.                                           *)
LEMMA RunExists ==
    ASSUME NEW s, NEW l, NEW n \in Nat
    PROVE  \E g : Run(g, s, l, n)
<1> DEFINE S == {k \in Nat : \E g : Run(g, s, l, k)}
<1>1. 0 \in S
  <2> DEFINE g == [i \in 0..0 |-> s]
  <2>1. g = [i \in 0..0 |-> IF i = 0 THEN s ELSE Journal!apply_line(g[i - 1], l[i])]
    OBVIOUS
  <2>2. Run(g, s, l, 0)
    BY <2>1 DEF Run
  <2> QED BY <2>2
<1>2. ASSUME NEW k \in Nat, k \in S PROVE k + 1 \in S
  <2>1. PICK g : Run(g, s, l, k)
    BY <1>2
  <2> DEFINE h == [i \in 0..(k + 1) |-> IF i = k + 1 THEN Journal!apply_line(g[k], l[k + 1]) ELSE g[i]]
  <2>2. \A i \in 0..k : g[i] = IF i = 0 THEN s ELSE Journal!apply_line(g[i - 1], l[i])
    BY <2>1 DEF Run
  <2>3. ASSUME NEW i \in 0..(k + 1)
        PROVE  h[i] = IF i = 0 THEN s ELSE Journal!apply_line(h[i - 1], l[i])
    <3>1. CASE i = k + 1
      BY <3>1
    <3>2. CASE i # k + 1
      <4>1. i \in 0..k /\ h[i] = g[i] /\ (i # 0 => i - 1 \in 0..k /\ i - 1 # k + 1 /\ h[i - 1] = g[i - 1])
        BY <3>2
      <4> QED BY <2>2, <4>1
    <3> QED BY <3>1, <3>2
  <2>4. h = [i \in 0..(k + 1) |-> h[i]]
    OBVIOUS
  <2> HIDE DEF h
  <2>5. Run(h, s, l, k + 1)
    BY <2>3, <2>4 DEF Run
  <2> QED BY <2>5
<1> HIDE DEF S
<1>3. n \in S
  BY <1>1, <1>2, EveryNumber
<1> QED BY <1>3 DEF S

(* Two runs over lines that begin alike are alike as far as both go.        *)
LEMMA RunUnique ==
    ASSUME NEW s, NEW l, NEW m, NEW n \in Nat, NEW k \in Nat, k <= n,
           NEW g, Run(g, s, l, k), NEW h, Run(h, s, m, n), \A i \in 1..k : l[i] = m[i]
    PROVE  \A i \in 0..k : g[i] = h[i]
<1> DEFINE S == {i \in Nat : i <= k => g[i] = h[i]}
<1>0. /\ \A i \in 0..k : g[i] = IF i = 0 THEN s ELSE Journal!apply_line(g[i - 1], l[i])
      /\ \A i \in 0..n : h[i] = IF i = 0 THEN s ELSE Journal!apply_line(h[i - 1], m[i])
  BY DEF Run
<1>1. 0 \in S
  BY <1>0
<1>2. ASSUME NEW i \in Nat, i \in S PROVE i + 1 \in S
  <2>1. CASE i + 1 <= k
    <3>1. g[i] = h[i] /\ l[i + 1] = m[i + 1] /\ i + 1 \in 0..k /\ i + 1 \in 0..n /\ i + 1 # 0 /\ (i + 1) - 1 = i
      BY <1>2, <2>1
    <3> QED BY <1>0, <3>1
  <2>2. CASE ~(i + 1 <= k)
    BY <2>2
  <2> QED BY <2>1, <2>2
<1> HIDE DEF S
<1>3. \A i \in 0..k : i \in S
  BY <1>1, <1>2, EveryNumber
<1> QED BY <1>3 DEF S

(* ApplyLines is the last state of the run.                                 *)
LEMMA AppliedByRun ==
    ASSUME NEW s, NEW l, Len(l) \in Nat, NEW g, Run(g, s, l, Len(l))
    PROVE  Journal!ApplyLines(s, l) = g[Len(l)]
<1> DEFINE n == Len(l)
           h == CHOOSE h : h = [i \in 0..n |-> IF i = 0 THEN s ELSE Journal!apply_line(h[i - 1], l[i])]
<1>1. Journal!ApplyLines(s, l) = h[n]
  BY DEF Journal!ApplyLines
<1>2. g = [i \in 0..n |-> IF i = 0 THEN s ELSE Journal!apply_line(g[i - 1], l[i])]
  BY DEF Run
<1>3. h = [i \in 0..n |-> IF i = 0 THEN s ELSE Journal!apply_line(h[i - 1], l[i])]
  BY <1>2
<1>4. Run(h, s, l, n)
  BY <1>3 DEF Run
<1> HIDE DEF h
<1>5. n \in 0..n /\ n <= n
  OBVIOUS
<1>6. \A i \in 1..n : l[i] = l[i]
  OBVIOUS
<1>7. h[n] = g[n]
  BY <1>4, <1>5, <1>6, RunUnique
<1> QED BY <1>1, <1>7

(* No line, no change.                                                      *)
LEMMA ApplyNone ==
    ASSUME NEW s
    PROVE  Journal!ApplyLines(s, <<>>) = s
<1>1. PICK g : Run(g, s, <<>>, 0)
  BY RunExists
<1>2. g[0] = s
  BY <1>1 DEF Run
<1> QED BY <1>1, <1>2, AppliedByRun

(* One line more.                                                           *)
LEMMA ApplyOneMore ==
    ASSUME NEW X, NEW s, NEW l \in Seq(X), NEW x \in X
    PROVE  Journal!ApplyLines(s, Append(l, x)) = Journal!apply_line(Journal!ApplyLines(s, l), x)
<1> DEFINE n == Len(l)
           m == Append(l, x)
           k == n + 1
<1>0. n \in Nat /\ k \in Nat /\ n <= k
  OBVIOUS
<1>1. n \in Nat /\ m \in Seq(X) /\ Len(m) = n + 1 /\ m[n + 1] = x /\ \A i \in 1..n : l[i] = m[i]
  OBVIOUS
<1>2. PICK g : Run(g, s, l, n)
  BY <1>1, RunExists
<1> HIDE DEF m, n, k
<1>3. PICK h : Run(h, s, m, k)
  BY <1>0, RunExists
<1>4. \A i \in 0..n : g[i] = h[i]
  <2>1. \A i \in 1..n : l[i] = m[i]
    BY <1>1
  <2> QED BY <1>0, <1>2, <1>3, <2>1, RunUnique
<1>5. h[n + 1] = Journal!apply_line(h[n], x)
  <2>1. h[n + 1] = IF n + 1 = 0 THEN s ELSE Journal!apply_line(h[(n + 1) - 1], m[n + 1])
    <3>1. \A i \in 0..k : h[i] = IF i = 0 THEN s ELSE Journal!apply_line(h[i - 1], m[i])
      BY <1>3 DEF Run
    <3>2. n + 1 \in 0..k
      BY <1>0 DEF k
    <3> QED BY <3>1, <3>2
  <2>2. n + 1 # 0 /\ (n + 1) - 1 = n
    BY <1>0
  <2> QED BY <1>1, <2>1, <2>2
<1>6. Journal!ApplyLines(s, m) = h[n + 1]
  <2>1. Len(m) = k /\ k = n + 1
    BY <1>1 DEF k
  <2> QED BY <1>0, <1>3, <2>1, AppliedByRun
<1>7. Journal!ApplyLines(s, l) = g[n]
  BY <1>1, <1>2, AppliedByRun DEF n
<1> QED BY <1>1, <1>4, <1>5, <1>6, <1>7 DEF m

-----------------------------------------------------------------------------
(* The state of the journal.                                                *)

(* An entry under any number; stamps play no part.                          *)
EntryT == [seq : Nat \ {0}, op : {"upsert", "delete", "rename"}, path : Touched,
           to : Touched \cup {Journal!NoPath}, at : {0}]

(* A rename has a target.                                                   *)
Valid(e) == e \in EntryT /\ (e.op = "rename" => e.to \in Touched)

(* A journal in memory.                                                     *)
StateT == [entries : SUBSET EntryT, by_path : SUBSET (Touched \X Nat),
           by_to : SUBSET (Touched \X Nat), acked : Nat, next_seq : Nat]

(* One entry for a number, and the indices are those of the entries.        *)
Consistent(s) ==
    /\ s \in StateT
    /\ \A e \in s.entries : Valid(e)
    /\ \A e, f \in s.entries : e.seq = f.seq => e = f
    /\ \A p \in Touched, k \in Nat :
          /\ <<p, k>> \in s.by_path <=> \E e \in s.entries : e.path = p /\ e.seq = k
          /\ <<p, k>> \in s.by_to <=> \E e \in s.entries : e.op = "rename" /\ e.to = p /\ e.seq = k

(* All numbers are between what is acknowledged and the next one, and the   *)
(* newest is pending or acknowledged.                                       *)
Numbered(s) ==
    /\ s.acked < s.next_seq
    /\ \A e \in s.entries : s.acked < e.seq /\ e.seq < s.next_seq
    /\ s.next_seq = s.acked + 1 \/ \E e \in s.entries : e.seq + 1 = s.next_seq

(* What holds of every journal a process has in memory or reads back.       *)
Good(s) == Consistent(s) /\ Numbered(s)

(* The fields of an entry.                                                  *)
LEMMA EntryFacts ==
    ASSUME NEW e, Valid(e)
    PROVE  /\ e \in EntryT /\ e.seq \in Nat /\ e.seq > 0 /\ e.path \in Touched
           /\ e.op \in {"upsert", "delete", "rename"} /\ (e.op = "rename" => e.to \in Touched)
BY DEF Valid, EntryT

(* The fields of a state.                                                   *)
LEMMA StateFacts ==
    ASSUME NEW s, Consistent(s)
    PROVE  /\ s \in StateT /\ s.entries \subseteq EntryT /\ s.acked \in Nat /\ s.next_seq \in Nat
           /\ s.by_path \subseteq Touched \X Nat /\ s.by_to \subseteq Touched \X Nat
           /\ \A e \in s.entries : Valid(e)
           /\ \A e, f \in s.entries : e.seq = f.seq => e = f
BY DEF Consistent, StateT

(* What the indices find.                                                   *)
LEMMA FoundExact ==
    ASSUME NEW s, Consistent(s), NEW p \in Touched
    PROVE  Journal!At(s, Journal!exact(s.by_path, p)) = {e \in s.entries : e.path = p}
<1>1. ASSUME NEW e \in s.entries
      PROVE  e.seq \in Journal!exact(s.by_path, p) <=> e.path = p
  <2>0. Valid(e) /\ e.seq \in Nat /\ e.path \in Touched
    BY StateFacts, EntryFacts
  <2>1. e.seq \in Journal!exact(s.by_path, p) <=> <<p, e.seq>> \in s.by_path
    <3>1. s.by_path \subseteq Touched \X Nat
      BY StateFacts
    <3> QED BY <3>1, <2>0 DEF Journal!exact
  <2>2. <<p, e.seq>> \in s.by_path <=> \E f \in s.entries : f.path = p /\ f.seq = e.seq
    BY <2>0 DEF Consistent
  <2> QED BY <2>1, <2>2, StateFacts
<1> QED BY <1>1 DEF Journal!At

(* What the index finds below a path.                                       *)
LEMMA UnderMeans ==
    ASSUME NEW ix, ix \subseteq Touched \X Nat, NEW p, NEW k
    PROVE  k \in Journal!under(ix, p) <=> \E q \in Touched : <<q, k>> \in ix /\ Journal!starts_with(q, p)
<1>1. ASSUME k \in Journal!under(ix, p)
      PROVE  \E q \in Touched : <<q, k>> \in ix /\ Journal!starts_with(q, p)
  <2>1. PICK i \in ix : Journal!starts_with(i[1], p) /\ i[2] = k
    BY <1>1 DEF Journal!under
  <2>2. i = <<i[1], i[2]>> /\ i[1] \in Touched
    BY <2>1
  <2> QED BY <2>1, <2>2
<1>2. ASSUME NEW q \in Touched, <<q, k>> \in ix, Journal!starts_with(q, p)
      PROVE  k \in Journal!under(ix, p)
  <2>1. <<q, k>> \in {j \in ix : Journal!starts_with(j[1], p)} /\ <<q, k>>[2] = k
    BY <1>2
  <2> QED BY <2>1 DEF Journal!under
<1> QED BY <1>1, <1>2

(* The entries with an end below a path are those the indices find.         *)
LEMMA FoundUnder ==
    ASSUME NEW s, Consistent(s), NEW p \in Touched
    PROVE  Journal!At(s, Journal!under(s.by_path, p) \cup Journal!under(s.by_to, p))
             = {e \in s.entries : \/ Journal!starts_with(e.path, p)
                                  \/ e.op = "rename" /\ Journal!starts_with(e.to, p)}
<1>0. s.by_path \subseteq Touched \X Nat /\ s.by_to \subseteq Touched \X Nat
  BY StateFacts
<1>1. ASSUME NEW e \in s.entries
      PROVE  e.seq \in Journal!under(s.by_path, p) <=> Journal!starts_with(e.path, p)
  <2>0. Valid(e) /\ e.seq \in Nat /\ e.path \in Touched
    BY StateFacts, EntryFacts
  <2>1. e.seq \in Journal!under(s.by_path, p)
          <=> \E q \in Touched : <<q, e.seq>> \in s.by_path /\ Journal!starts_with(q, p)
    BY <1>0, UnderMeans
  <2>2. \A q \in Touched : <<q, e.seq>> \in s.by_path <=> \E f \in s.entries : f.path = q /\ f.seq = e.seq
    BY <2>0 DEF Consistent
  <2> QED BY <2>0, <2>1, <2>2, StateFacts
<1>2. ASSUME NEW e \in s.entries
      PROVE  e.seq \in Journal!under(s.by_to, p) <=> (e.op = "rename" /\ Journal!starts_with(e.to, p))
  <2>0. Valid(e) /\ e.seq \in Nat /\ (e.op = "rename" => e.to \in Touched)
    BY StateFacts, EntryFacts
  <2>1. e.seq \in Journal!under(s.by_to, p)
          <=> \E q \in Touched : <<q, e.seq>> \in s.by_to /\ Journal!starts_with(q, p)
    BY <1>0, UnderMeans
  <2>2. \A q \in Touched : <<q, e.seq>> \in s.by_to
                              <=> \E f \in s.entries : f.op = "rename" /\ f.to = q /\ f.seq = e.seq
    BY <2>0 DEF Consistent
  <2>3. \A f \in s.entries : f.seq = e.seq <=> f = e
    BY StateFacts
  <2>4. \A q \in Touched : <<q, e.seq>> \in s.by_to <=> e.op = "rename" /\ e.to = q
    BY <2>2, <2>3
  <2> QED BY <2>0, <2>1, <2>4
<1> QED BY <1>1, <1>2 DEF Journal!At

(* remove and insert keep the state consistent.                             *)
LEMMA Removed ==
    ASSUME NEW s, Consistent(s), NEW es, es \subseteq s.entries
    PROVE  LET r == Journal!remove(s, es)
           IN  /\ Consistent(r) /\ r.entries = s.entries \ es
               /\ r.acked = s.acked /\ r.next_seq = s.next_seq
<1> DEFINE r == Journal!remove(s, es)
<1>0. /\ s \in StateT /\ s.entries \subseteq EntryT /\ \A e \in s.entries : Valid(e) /\ e.seq \in Nat
      /\ \A e, f \in s.entries : e.seq = f.seq => e = f
  BY StateFacts, EntryFacts
<1>1. /\ r.entries = s.entries \ es /\ r.acked = s.acked /\ r.next_seq = s.next_seq
      /\ r.by_path = s.by_path \ {<<e.path, e.seq>> : e \in es}
      /\ r.by_to = s.by_to \ {<<e.to, e.seq>> : e \in {f \in es : f.op = "rename"}}
      /\ r \in StateT
  BY <1>0 DEF Journal!remove, StateT
<1> HIDE DEF r
<1>2. ASSUME NEW p \in Touched, NEW k \in Nat
      PROVE  <<p, k>> \in r.by_path <=> \E e \in r.entries : e.path = p /\ e.seq = k
  <2>1. <<p, k>> \in s.by_path <=> \E e \in s.entries : e.path = p /\ e.seq = k
    BY DEF Consistent
  <2>2. <<p, k>> \in r.by_path <=> <<p, k>> \in s.by_path /\ ~\E e \in es : e.path = p /\ e.seq = k
    BY <1>1
  <2> QED BY <1>0, <1>1, <2>1, <2>2
<1>3. ASSUME NEW p \in Touched, NEW k \in Nat
      PROVE  <<p, k>> \in r.by_to <=> \E e \in r.entries : e.op = "rename" /\ e.to = p /\ e.seq = k
  <2>1. <<p, k>> \in s.by_to <=> \E e \in s.entries : e.op = "rename" /\ e.to = p /\ e.seq = k
    BY DEF Consistent
  <2>2. <<p, k>> \in r.by_to <=> /\ <<p, k>> \in s.by_to
                                 /\ ~\E e \in es : e.op = "rename" /\ e.to = p /\ e.seq = k
    BY <1>1
  <2> QED BY <1>0, <1>1, <2>1, <2>2
<1>4. Consistent(r)
  BY <1>0, <1>1, <1>2, <1>3 DEF Consistent
<1> QED BY <1>1, <1>4 DEF r

(* Entries put in under numbers no other entry has.                         *)
LEMMA AllInserted ==
    ASSUME NEW s, Consistent(s), NEW es, \A e \in es : Valid(e),
           \A e, f \in es : e.seq = f.seq => e = f,
           \A e \in es, f \in s.entries : e.seq # f.seq
    PROVE  LET r == Journal!InsertAll(s, es)
           IN  /\ Consistent(r) /\ r.entries = s.entries \cup es
               /\ r.acked = s.acked /\ r.next_seq = s.next_seq
<1> DEFINE r == Journal!InsertAll(s, es)
<1>0. /\ s \in StateT /\ s.entries \subseteq EntryT /\ \A e \in s.entries : Valid(e)
      /\ \A e \in s.entries \cup es : e.seq \in Nat /\ e.path \in Touched /\ e \in EntryT
                                        /\ (e.op = "rename" => e.to \in Touched)
      /\ \A e, f \in s.entries : e.seq = f.seq => e = f
  BY StateFacts, EntryFacts
<1>1. /\ r.entries = s.entries \cup es /\ r.acked = s.acked /\ r.next_seq = s.next_seq
      /\ r.by_path = s.by_path \cup {<<e.path, e.seq>> : e \in es}
      /\ r.by_to = s.by_to \cup {<<e.to, e.seq>> : e \in {f \in es : f.op = "rename"}}
  <2>1. {f \in s.entries : \A e \in es : f.seq # e.seq} = s.entries
    OBVIOUS
  <2> QED BY <1>0, <2>1 DEF Journal!InsertAll, StateT
<1>2. r \in StateT
  <2>1. r = [s EXCEPT !.entries = r.entries, !.by_path = r.by_path, !.by_to = r.by_to]
    BY <1>0 DEF Journal!InsertAll, StateT
  <2>2. {<<e.path, e.seq>> : e \in es} \subseteq Touched \X Nat
    BY <1>0
  <2>3. {<<e.to, e.seq>> : e \in {f \in es : f.op = "rename"}} \subseteq Touched \X Nat
    BY <1>0
  <2>4. s.by_path \subseteq Touched \X Nat /\ s.by_to \subseteq Touched \X Nat
    BY StateFacts
  <2> HIDE DEF r
  <2>5. r.by_path \subseteq Touched \X Nat /\ r.by_to \subseteq Touched \X Nat /\ r.entries \subseteq EntryT
    BY <1>0, <1>1, <2>2, <2>3, <2>4
  <2> QED BY <1>0, <2>1, <2>5 DEF StateT
<1> HIDE DEF r
<1>3. ASSUME NEW p \in Touched, NEW k \in Nat
      PROVE  <<p, k>> \in r.by_path <=> \E e \in r.entries : e.path = p /\ e.seq = k
  <2>1. <<p, k>> \in s.by_path <=> \E e \in s.entries : e.path = p /\ e.seq = k
    BY DEF Consistent
  <2>2. <<p, k>> \in r.by_path <=> <<p, k>> \in s.by_path \/ \E e \in es : e.path = p /\ e.seq = k
    BY <1>1
  <2> QED BY <1>0, <1>1, <2>1, <2>2
<1>4. ASSUME NEW p \in Touched, NEW k \in Nat
      PROVE  <<p, k>> \in r.by_to <=> \E e \in r.entries : e.op = "rename" /\ e.to = p /\ e.seq = k
  <2>1. <<p, k>> \in s.by_to <=> \E e \in s.entries : e.op = "rename" /\ e.to = p /\ e.seq = k
    BY DEF Consistent
  <2>2. <<p, k>> \in r.by_to <=> \/ <<p, k>> \in s.by_to
                                 \/ \E e \in es : e.op = "rename" /\ e.to = p /\ e.seq = k
    BY <1>1
  <2> QED BY <1>0, <1>1, <2>1, <2>2
<1>5. Consistent(r)
  BY <1>0, <1>1, <1>2, <1>3, <1>4 DEF Consistent
<1> QED BY <1>1, <1>5 DEF r

(* An entry put in under a number that was not given yet.                   *)
LEMMA Inserted ==
    ASSUME NEW s, Consistent(s), NEW e, Valid(e), e.seq >= s.next_seq,
           \A f \in s.entries : f.seq < s.next_seq
    PROVE  LET r == Journal!insert(s, e)
           IN  /\ Consistent(r) /\ r.entries = s.entries \cup {e}
               /\ r.acked = s.acked /\ r.next_seq = e.seq + 1
<1> DEFINE r == Journal!insert(s, e)
           q == Journal!InsertAll(s, {e})
<1>0. /\ s \in StateT /\ s.next_seq \in Nat /\ e.seq \in Nat
      /\ \A f \in s.entries : f.seq \in Nat /\ f.seq # e.seq
  BY StateFacts, EntryFacts
<1>1. Consistent(q) /\ q.entries = s.entries \cup {e} /\ q.acked = s.acked
  BY <1>0, AllInserted
<1>2. /\ r.entries = q.entries /\ r.acked = q.acked /\ r.next_seq = e.seq + 1
      /\ r.by_path = q.by_path /\ r.by_to = q.by_to
  <2>1. /\ r.entries = {f \in s.entries : f.seq # e.seq} \cup {e}
        /\ q.entries = {f \in s.entries : \A g \in {e} : f.seq # g.seq} \cup {e}
        /\ r.acked = s.acked /\ q.acked = s.acked
        /\ r.next_seq = IF e.seq + 1 > s.next_seq THEN e.seq + 1 ELSE s.next_seq
        /\ r.by_path = s.by_path \cup {<<e.path, e.seq>>}
        /\ q.by_path = s.by_path \cup {<<g.path, g.seq>> : g \in {e}}
        /\ r.by_to = IF e.op = "rename" THEN s.by_to \cup {<<e.to, e.seq>>} ELSE s.by_to
        /\ q.by_to = s.by_to \cup {<<g.to, g.seq>> : g \in {f \in {e} : f.op = "rename"}}
    BY <1>0 DEF Journal!insert, Journal!InsertAll, StateT
  <2>2. {<<g.to, g.seq>> : g \in {f \in {e} : f.op = "rename"}}
           = IF e.op = "rename" THEN {<<e.to, e.seq>>} ELSE {}
    OBVIOUS
  <2>3. {<<g.path, g.seq>> : g \in {e}} = {<<e.path, e.seq>>}
    OBVIOUS
  <2>4. {f \in s.entries : f.seq # e.seq} = {f \in s.entries : \A g \in {e} : f.seq # g.seq}
    OBVIOUS
  <2>5. e.seq + 1 > s.next_seq
    BY <1>0
  <2> HIDE DEF r, q
  <2> QED BY <2>1, <2>2, <2>3, <2>4, <2>5
<1>3. r \in StateT
  <2>1. r = [s EXCEPT !.entries = r.entries, !.by_path = r.by_path, !.by_to = r.by_to,
                      !.next_seq = r.next_seq]
    BY <1>0 DEF Journal!insert, StateT
  <2>2. q \in StateT
    BY <1>1, StateFacts
  <2> HIDE DEF r, q
  <2> QED BY <1>0, <1>2, <2>1, <2>2 DEF StateT
<1> HIDE DEF r, q
<1>4. Consistent(r)
  BY <1>1, <1>2, <1>3 DEF Consistent
<1> QED BY <1>1, <1>2, <1>4 DEF r

-----------------------------------------------------------------------------
(* What is pending at a path, and the coalescing rules.                     *)

(* starts_with, component by component.                                     *)
LEMMA StartsWith ==
    ASSUME NEW p \in Touched, NEW q \in Touched
    PROVE  Journal!starts_with(p, q) <=> Len(q) <= Len(p) /\ \A i \in 1..Len(q) : q[i] = p[i]
<1>0. p \in Seq(STRING) /\ q \in Seq(STRING) /\ Len(p) \in Nat /\ Len(q) \in Nat
  BY TouchedAssumption
<1>1. ASSUME Len(q) <= Len(p)
      PROVE  SubSeq(q, 1, Len(q)) = SubSeq(p, 1, Len(q)) <=> \A i \in 1..Len(q) : q[i] = p[i]
  <2> DEFINE a == SubSeq(q, 1, Len(q))
             b == SubSeq(p, 1, Len(q))
  <2>1. /\ a \in Seq(STRING) /\ Len(a) = Len(q) /\ \A i \in 1..Len(q) : a[i] = q[i]
        /\ b \in Seq(STRING) /\ Len(b) = Len(q) /\ \A i \in 1..Len(q) : b[i] = p[i]
    BY <1>0, <1>1
  <2> HIDE DEF a, b
  <2>2. a = b <=> \A i \in 1..Len(q) : a[i] = b[i]
    BY <1>0, <2>1, SeqEqual
  <2> QED BY <2>1, <2>2 DEF a, b
<1> QED BY <1>1 DEF Journal!starts_with, Journal!IsPrefix

(* A path is below itself,                                                  *)
LEMMA StartsWithItself ==
    ASSUME NEW p \in Touched
    PROVE  Journal!starts_with(p, p)
<1>1. Len(p) \in Nat
  BY TouchedAssumption
<1> QED BY <1>1, StartsWith

(* and below whatever is above a path it is below.                          *)
LEMMA StartsWithAbove ==
    ASSUME NEW p \in Touched, NEW q \in Touched, NEW r \in Touched,
           Journal!starts_with(p, q), Journal!starts_with(q, r)
    PROVE  Journal!starts_with(p, r)
<1>1. Len(p) \in Nat /\ Len(q) \in Nat /\ Len(r) \in Nat
  BY TouchedAssumption
<1>2. /\ Len(q) <= Len(p) /\ \A i \in 1..Len(q) : q[i] = p[i]
      /\ Len(r) <= Len(q) /\ \A i \in 1..Len(r) : r[i] = q[i]
  BY StartsWith
<1>3. Len(r) <= Len(p) /\ \A i \in 1..Len(r) : r[i] = p[i]
  BY <1>1, <1>2
<1> QED BY <1>3, StartsWith

(* Entry f says that something is to be delivered at p.                     *)
Covers(f, p) ==
    \/ Journal!starts_with(p, f.path)
    \/ f.op = "rename" /\ Journal!starts_with(p, f.to)

(* ... and is as new as k, so that no acknowledgement below k removes it.   *)
CoveredIn(s, p, k) == \E f \in s.entries : f.seq >= k /\ Covers(f, p)

(* An entry after e was applied to s: e, one of s, or an end of a rename.   *)
From(s, e, g) ==
    \/ g = e \/ g \in s.entries
    \/ g.op # "rename" /\ \E v \in s.entries :
          v.op = "rename" /\ g.seq = v.seq /\ (g.path = v.path \/ g.path = v.to)

(* The entry e, with a new number, was applied to s.                        *)
Took(s, e, r) ==
    /\ Good(r) /\ r.acked = s.acked /\ r.next_seq = e.seq + 1 /\ e \in r.entries
    /\ \A p \in Touched, k \in Nat : CoveredIn(s, p, k) => CoveredIn(r, p, k)
    /\ \A g \in r.entries : From(s, e, g)

(* An entry that was given the next number or a later one.                  *)
Fresh(s, e) == Good(s) /\ Valid(e) /\ e.seq >= s.next_seq

(* Its number is above those pending.                                       *)
LEMMA FreshFacts ==
    ASSUME NEW s, NEW e, Fresh(s, e)
    PROVE  /\ Consistent(s) /\ s.acked \in Nat /\ s.next_seq \in Nat /\ e.seq \in Nat
           /\ s.acked < s.next_seq /\ s.next_seq <= e.seq
           /\ \A f \in s.entries : f.seq \in Nat /\ f.seq < s.next_seq /\ s.acked < f.seq /\ f.seq < e.seq
BY StateFacts, EntryFacts DEF Fresh, Good, Numbered

(* The newest entry numbers the state.                                      *)
LEMMA NewestNumbers ==
    ASSUME NEW s, NEW e, Fresh(s, e), NEW r, Consistent(r), r.acked = s.acked,
           r.next_seq = e.seq + 1, e \in r.entries, \A g \in r.entries : From(s, e, g)
    PROVE  Good(r)
<1>1. \A g \in r.entries : g.seq = e.seq \/ \E v \in s.entries : g.seq = v.seq
  BY DEF From
<1> QED BY <1>1, FreshFacts DEF Good, Numbered

(* An upsert takes the place of pending upserts and deletes of its path.    *)
LEMMA UpsertApplied ==
    ASSUME NEW s, NEW e, Fresh(s, e), e.op = "upsert"
    PROVE  Took(s, e, Journal!apply(s, e))
<1> DEFINE es == {f \in s.entries : f.path = e.path /\ f.op # "rename"}
           q == Journal!remove(s, es)
           r == Journal!insert(q, e)
<1>0. /\ Consistent(s) /\ Valid(e) /\ e.path \in Touched /\ e.seq \in Nat
      /\ \A f \in s.entries : f.seq \in Nat /\ f.seq < s.next_seq /\ f.seq < e.seq
      /\ s.next_seq <= e.seq
  BY FreshFacts, EntryFacts DEF Fresh
<1>1. {f \in Journal!At(s, Journal!exact(s.by_path, e.path)) : f.op # "rename"} = es
  BY <1>0, FoundExact
<1>2. Journal!apply(s, e) = r
  BY <1>1 DEF Journal!apply, Journal!ApplyUpsert
<1>3. es \subseteq s.entries
  OBVIOUS
<1>4. Consistent(q) /\ q.entries = s.entries \ es /\ q.acked = s.acked /\ q.next_seq = s.next_seq
  BY <1>0, <1>3, Removed
<1> HIDE DEF q
<1>5. Consistent(r) /\ r.entries = q.entries \cup {e} /\ r.acked = q.acked /\ r.next_seq = e.seq + 1
  BY <1>0, <1>4, Inserted
<1> HIDE DEF r
<1>6. \A g \in r.entries : From(s, e, g)
  BY <1>4, <1>5 DEF From
<1>7. Good(r)
  BY <1>4, <1>5, <1>6, NewestNumbers
<1>8. ASSUME NEW p \in Touched, NEW k \in Nat, CoveredIn(s, p, k) PROVE CoveredIn(r, p, k)
  <2>1. PICK f \in s.entries : f.seq >= k /\ Covers(f, p)
    BY <1>8 DEF CoveredIn
  <2>2. CASE f \in es
    BY <1>0, <1>5, <2>1, <2>2 DEF CoveredIn, Covers
  <2>3. CASE f \notin es
    BY <1>4, <1>5, <2>1, <2>3 DEF CoveredIn
  <2> QED BY <2>2, <2>3
<1> QED BY <1>2, <1>4, <1>5, <1>6, <1>7, <1>8 DEF Took

(* A rename takes the place of what was pending at its ends, but renames.   *)
LEMMA RenameApplied ==
    ASSUME NEW s, NEW e, Fresh(s, e), e.op = "rename"
    PROVE  Took(s, e, Journal!apply(s, e))
<1> DEFINE es == {f \in s.entries : f.path = e.path /\ f.op = "upsert"}
           q == Journal!remove(s, es)
           fs == {f \in q.entries : f.path = e.to /\ f.op # "rename"}
           t == Journal!remove(q, fs)
           r == Journal!insert(t, e)
<1>0. /\ Consistent(s) /\ Valid(e) /\ e.path \in Touched /\ e.to \in Touched /\ e.seq \in Nat
      /\ \A f \in s.entries : f.seq \in Nat /\ f.seq < s.next_seq /\ f.seq < e.seq
      /\ s.next_seq <= e.seq
  BY FreshFacts, EntryFacts DEF Fresh
<1>1. {f \in Journal!At(s, Journal!exact(s.by_path, e.path)) : f.op = "upsert"} = es
  BY <1>0, FoundExact
<1>2. es \subseteq s.entries
  OBVIOUS
<1>3. Consistent(q) /\ q.entries = s.entries \ es /\ q.acked = s.acked /\ q.next_seq = s.next_seq
  BY <1>0, <1>2, Removed
<1>4. {f \in Journal!At(q, Journal!exact(q.by_path, e.to)) : f.op # "rename"} = fs
  <2> HIDE DEF q
  <2> QED BY <1>0, <1>3, FoundExact
<1>5. Journal!apply(s, e) = r
  BY <1>1, <1>4 DEF Journal!apply, Journal!ApplyRename
<1> HIDE DEF q
<1>6. Consistent(t) /\ t.entries = q.entries \ fs /\ t.acked = q.acked /\ t.next_seq = q.next_seq
  <2>1. fs \subseteq q.entries
    OBVIOUS
  <2> HIDE DEF fs
  <2> QED BY <1>3, <2>1, Removed
<1> HIDE DEF t
<1>7. Consistent(r) /\ r.entries = t.entries \cup {e} /\ r.acked = t.acked /\ r.next_seq = e.seq + 1
  <2>1. e.seq >= t.next_seq /\ \A f \in t.entries : f.seq < t.next_seq
    BY <1>0, <1>3, <1>6
  <2> QED BY <1>0, <1>6, <2>1, Inserted
<1> HIDE DEF r
<1>8. \A g \in r.entries : From(s, e, g)
  BY <1>3, <1>6, <1>7 DEF From
<1>9. Good(r)
  BY <1>3, <1>6, <1>7, <1>8, NewestNumbers
<1>10. ASSUME NEW p \in Touched, NEW k \in Nat, CoveredIn(s, p, k) PROVE CoveredIn(r, p, k)
  <2>1. PICK f \in s.entries : f.seq >= k /\ Covers(f, p)
    BY <1>10 DEF CoveredIn
  <2>2. CASE f \in es \/ f \in fs
    <3>1. Covers(e, p)
      BY <2>1, <2>2 DEF Covers
    <3> QED BY <1>0, <1>7, <2>1, <3>1 DEF CoveredIn
  <2>3. CASE f \notin es /\ f \notin fs
    BY <1>3, <1>6, <1>7, <2>1, <2>3 DEF CoveredIn
  <2> QED BY <2>2, <2>3
<1> QED BY <1>3, <1>5, <1>6, <1>7, <1>8, <1>9, <1>10 DEF Took

(* What is left of the pending renames with an end below a deleted path.    *)
Cuts(vs, p) == UNION {Journal!Cut(v, p) : v \in vs}

(* An end that is not below the deleted path keeps an entry of its own.     *)
LEMMA CutMeans ==
    ASSUME NEW v, Valid(v), NEW p \in Touched
    PROVE  /\ v.op = "rename" /\ Journal!starts_with(v.path, p) /\ ~Journal!starts_with(v.to, p) =>
                \E g \in Journal!Cut(v, p) : g.seq = v.seq /\ g.path = v.to
           /\ v.op = "rename" /\ ~Journal!starts_with(v.path, p) /\ Journal!starts_with(v.to, p) =>
                \E g \in Journal!Cut(v, p) : g.seq = v.seq /\ g.path = v.path
           /\ \A g, h \in Journal!Cut(v, p) : g = h
           /\ Journal!starts_with(v.path, p) \/ (v.op = "rename" /\ Journal!starts_with(v.to, p)) =>
                \A g \in Journal!Cut(v, p) :
                   /\ Valid(g) /\ g.seq = v.seq /\ g.op # "rename"
                   /\ v.op = "rename" /\ (g.path = v.path \/ g.path = v.to)
<1>0. /\ v \in EntryT /\ v.seq \in Nat \ {0} /\ v.path \in Touched /\ v.at = 0
      /\ (v.op = "rename" => v.to \in Touched)
  BY DEF Valid, EntryT
<1>1. CASE v.op # "rename" \/ (Journal!starts_with(v.path, p) /\ Journal!starts_with(v.to, p))
  <2>1. Journal!Cut(v, p) = {}
    BY <1>1 DEF Journal!Cut
  <2> QED BY <1>1, <2>1
<1>2. CASE v.op = "rename" /\ Journal!starts_with(v.path, p) /\ ~Journal!starts_with(v.to, p)
  <2> DEFINE g == Journal!Entry(v.seq, "upsert", v.to, Journal!NoPath, v.at)
  <2>1. Journal!Cut(v, p) = {g}
    BY <1>2 DEF Journal!Cut
  <2>2. g.seq = v.seq /\ g.path = v.to /\ g.op = "upsert" /\ g \in EntryT
    BY <1>0, <1>2 DEF Journal!Entry, EntryT
  <2> HIDE DEF g
  <2>3. Valid(g)
    BY <2>2 DEF Valid
  <2> QED BY <1>2, <2>1, <2>2, <2>3
<1>3. CASE v.op = "rename" /\ ~Journal!starts_with(v.path, p) /\ Journal!starts_with(v.to, p)
  <2> DEFINE g == Journal!Entry(v.seq, "delete", v.path, Journal!NoPath, v.at)
  <2>1. Journal!Cut(v, p) = {g}
    BY <1>3 DEF Journal!Cut
  <2>2. g.seq = v.seq /\ g.path = v.path /\ g.op = "delete" /\ g \in EntryT
    BY <1>0, <1>3 DEF Journal!Entry, EntryT
  <2> HIDE DEF g
  <2>3. Valid(g)
    BY <2>2 DEF Valid
  <2> QED BY <1>3, <2>1, <2>2, <2>3
<1>4. CASE v.op = "rename" /\ ~Journal!starts_with(v.path, p) /\ ~Journal!starts_with(v.to, p)
  <2>1. Journal!Cut(v, p) = {v}
    BY <1>4 DEF Journal!Cut
  <2> QED BY <1>4, <2>1
<1> QED BY <1>1, <1>2, <1>3, <1>4

(* A delete takes the place of what was pending below its path.             *)
LEMMA DeleteApplied ==
    ASSUME NEW s, NEW e, Fresh(s, e), e.op = "delete"
    PROVE  Took(s, e, Journal!apply(s, e))
<1> DEFINE vs == {f \in s.entries : \/ Journal!starts_with(f.path, e.path)
                                    \/ f.op = "rename" /\ Journal!starts_with(f.to, e.path)}
           q == Journal!remove(s, vs)
           cs == Cuts(vs, e.path)
           t == Journal!InsertAll(q, cs)
           r == Journal!insert(t, e)
<1>0. /\ Consistent(s) /\ Valid(e) /\ e.path \in Touched /\ e.seq \in Nat
      /\ \A f \in s.entries : /\ f.seq \in Nat /\ f.seq < s.next_seq /\ f.seq < e.seq
                              /\ Valid(f) /\ f.path \in Touched /\ (f.op = "rename" => f.to \in Touched)
      /\ s.next_seq <= e.seq
      /\ \A f, g \in s.entries : f.seq = g.seq => f = g
  BY FreshFacts, EntryFacts, StateFacts DEF Fresh
<1>1. Journal!At(s, Journal!under(s.by_path, e.path) \cup Journal!under(s.by_to, e.path)) = vs
  BY <1>0, FoundUnder
<1>2. Journal!apply(s, e) = r
  BY <1>1 DEF Journal!apply, Journal!ApplyDelete, Cuts
<1>3. Consistent(q) /\ q.entries = s.entries \ vs /\ q.acked = s.acked /\ q.next_seq = s.next_seq
  <2>1. vs \subseteq s.entries
    OBVIOUS
  <2> HIDE DEF vs
  <2> QED BY <1>0, <2>1, Removed
<1> HIDE DEF q
<1>4. \A g \in cs : \E v \in vs : g \in Journal!Cut(v, e.path)
  BY DEF Cuts
<1>5. \A v \in vs : \A g \in Journal!Cut(v, e.path) :
         /\ g \in cs /\ Valid(g) /\ g.seq = v.seq /\ g.op # "rename"
         /\ v.op = "rename" /\ (g.path = v.path \/ g.path = v.to)
  BY <1>0, CutMeans DEF Cuts
<1>6. \A v \in vs : \A g, h \in Journal!Cut(v, e.path) : g = h
  BY <1>0, CutMeans
<1> HIDE DEF cs
<1>7. /\ \A g \in cs : Valid(g)
      /\ \A g, h \in cs : g.seq = h.seq => g = h
      /\ \A g \in cs, f \in q.entries : g.seq # f.seq
  <2>1. \A g \in cs : Valid(g)
    BY <1>4, <1>5
  <2>2. ASSUME NEW g \in cs, NEW h \in cs, g.seq = h.seq PROVE g = h
    <3>1. PICK v \in vs : g \in Journal!Cut(v, e.path)
      BY <1>4
    <3>2. PICK w \in vs : h \in Journal!Cut(w, e.path)
      BY <1>4
    <3>3. v = w
      BY <1>0, <1>5, <2>2, <3>1, <3>2
    <3> QED BY <1>6, <3>1, <3>2, <3>3
  <2>3. ASSUME NEW g \in cs, NEW f \in q.entries, g.seq = f.seq PROVE FALSE
    <3>1. PICK v \in vs : g \in Journal!Cut(v, e.path)
      BY <1>4
    <3> QED BY <1>0, <1>3, <1>5, <2>3, <3>1
  <2> QED BY <2>1, <2>2, <2>3
<1>8. Consistent(t) /\ t.entries = q.entries \cup cs /\ t.acked = q.acked /\ t.next_seq = q.next_seq
  BY <1>3, <1>7, AllInserted
<1> HIDE DEF t
<1>9. \A f \in t.entries : \E v \in s.entries : f.seq = v.seq
  BY <1>3, <1>4, <1>5, <1>8
<1>10. Consistent(r) /\ r.entries = t.entries \cup {e} /\ r.acked = t.acked /\ r.next_seq = e.seq + 1
  <2>1. e.seq >= t.next_seq /\ \A f \in t.entries : f.seq < t.next_seq
    BY <1>0, <1>3, <1>8, <1>9
  <2> QED BY <1>0, <1>8, <2>1, Inserted
<1> HIDE DEF r
<1>11. \A g \in r.entries : From(s, e, g)
  BY <1>3, <1>4, <1>5, <1>8, <1>10 DEF From
<1>12. Good(r)
  BY <1>3, <1>8, <1>10, <1>11, NewestNumbers
<1>13. ASSUME NEW p \in Touched, NEW k \in Nat, CoveredIn(s, p, k) PROVE CoveredIn(r, p, k)
  <2>1. PICK f \in s.entries : f.seq >= k /\ Covers(f, p)
    BY <1>13 DEF CoveredIn
  <2>2. CASE f \notin vs
    BY <1>3, <1>8, <1>10, <2>1, <2>2 DEF CoveredIn
  <2>3. CASE f \in vs /\ Covers(e, p)
    BY <1>0, <1>10, <2>1, <2>3 DEF CoveredIn
  <2>4. CASE f \in vs /\ ~Covers(e, p)
    <3>1. ~Journal!starts_with(p, e.path)
      BY <2>4 DEF Covers
    <3>2. CASE Journal!starts_with(p, f.path)
      <4>1. ~Journal!starts_with(f.path, e.path)
        BY <1>0, <3>1, <3>2, StartsWithAbove
      <4>2. f.op = "rename" /\ Journal!starts_with(f.to, e.path)
        BY <2>4, <4>1
      <4>3. PICK g \in Journal!Cut(f, e.path) : g.seq = f.seq /\ g.path = f.path
        BY <1>0, <4>1, <4>2, CutMeans
      <4>4. g \in r.entries
        BY <1>5, <1>8, <1>10, <2>4, <4>3
      <4> QED BY <2>1, <3>2, <4>3, <4>4 DEF CoveredIn, Covers
    <3>3. CASE ~Journal!starts_with(p, f.path)
      <4>1. f.op = "rename" /\ Journal!starts_with(p, f.to)
        BY <2>1, <3>3 DEF Covers
      <4>2. ~Journal!starts_with(f.to, e.path)
        BY <1>0, <3>1, <4>1, StartsWithAbove
      <4>3. Journal!starts_with(f.path, e.path)
        BY <2>4, <4>2
      <4>4. PICK g \in Journal!Cut(f, e.path) : g.seq = f.seq /\ g.path = f.to
        BY <1>0, <4>1, <4>2, <4>3, CutMeans
      <4>5. g \in r.entries
        BY <1>5, <1>8, <1>10, <2>4, <4>4
      <4> QED BY <2>1, <4>1, <4>4, <4>5 DEF CoveredIn, Covers
    <3> QED BY <3>2, <3>3
  <2> QED BY <2>2, <2>3, <2>4
<1> QED BY <1>2, <1>3, <1>8, <1>10, <1>11, <1>12, <1>13 DEF Took

(* Any entry.                                                               *)
LEMMA EntryApplied ==
    ASSUME NEW s, NEW e, Fresh(s, e)
    PROVE  Took(s, e, Journal!apply_line(s, e))
<1>1. e.op \in {"upsert", "delete", "rename"}
  BY EntryFacts DEF Fresh
<1>2. Journal!apply_line(s, e) = Journal!apply(s, e)
  BY <1>1 DEF Journal!apply_line
<1> QED BY <1>1, <1>2, UpsertApplied, DeleteApplied, RenameApplied

(* An acknowledgement removes the prefix and leaves the next number.        *)
LEMMA AckApplied ==
    ASSUME NEW s, Good(s), NEW n \in Nat, n < s.next_seq
    PROVE  LET r == Journal!ack_local(s, n)
           IN  /\ Good(r) /\ r.acked = (IF n > s.acked THEN n ELSE s.acked) /\ r.next_seq = s.next_seq
               /\ r.entries = {e \in s.entries : e.seq > n}
               /\ n <= s.acked => r.entries = s.entries
<1> DEFINE es == {e \in s.entries : e.seq <= n}
           q == Journal!remove(s, es)
           r == Journal!ack_local(s, n)
<1>0. /\ Consistent(s) /\ s.acked \in Nat /\ s.next_seq \in Nat /\ s.acked < s.next_seq
      /\ \A e \in s.entries : e.seq \in Nat /\ s.acked < e.seq /\ e.seq < s.next_seq
      /\ s.next_seq = s.acked + 1 \/ \E e \in s.entries : e.seq + 1 = s.next_seq
  BY StateFacts, EntryFacts DEF Good, Numbered
<1>1. Consistent(q) /\ q.entries = s.entries \ es /\ q.acked = s.acked /\ q.next_seq = s.next_seq
  <2>1. es \subseteq s.entries
    OBVIOUS
  <2> HIDE DEF es
  <2> QED BY <1>0, <2>1, Removed
<1>2. q \in StateT /\ q.acked \in Nat /\ q.next_seq \in Nat
  BY <1>1, StateFacts
<1>3. r = [q EXCEPT !.acked = IF n > @ THEN n ELSE @, !.next_seq = IF n + 1 > @ THEN n + 1 ELSE @]
  BY DEF Journal!ack_local
<1> HIDE DEF q, r
<1>4. /\ r.entries = q.entries /\ r.by_path = q.by_path /\ r.by_to = q.by_to
      /\ r.acked = (IF n > s.acked THEN n ELSE s.acked) /\ r.next_seq = s.next_seq /\ r \in StateT
  <2>1. /\ r.entries = q.entries /\ r.by_path = q.by_path /\ r.by_to = q.by_to
        /\ r.acked = (IF n > q.acked THEN n ELSE q.acked)
        /\ r.next_seq = (IF n + 1 > q.next_seq THEN n + 1 ELSE q.next_seq)
    BY <1>2, <1>3 DEF StateT
  <2>2. r.acked = (IF n > s.acked THEN n ELSE s.acked) /\ r.next_seq = s.next_seq
    BY <1>0, <1>1, <2>1
  <2>3. r.acked \in Nat /\ r.next_seq \in Nat
    BY <1>0, <2>2
  <2>4. r = [q EXCEPT !.acked = r.acked, !.next_seq = r.next_seq]
    BY <1>3, <1>2 DEF StateT
  <2>5. r \in StateT
    BY <1>2, <2>3, <2>4 DEF StateT
  <2> QED BY <2>1, <2>2, <2>5
<1>5. Consistent(r)
  BY <1>1, <1>4 DEF Consistent
<1>6. r.entries = {e \in s.entries : e.seq > n}
  BY <1>0, <1>1, <1>4
<1>7. n <= s.acked => r.entries = s.entries
  BY <1>0, <1>6
<1>8. Numbered(r)
  <2>1. r.acked < r.next_seq /\ r.acked \in Nat
    BY <1>0, <1>4
  <2>2. \A e \in r.entries : r.acked < e.seq /\ e.seq < r.next_seq
    BY <1>0, <1>4, <1>6
  <2>3. r.next_seq = r.acked + 1 \/ \E e \in r.entries : e.seq + 1 = r.next_seq
    <3>1. CASE s.next_seq = s.acked + 1
      BY <1>0, <1>4, <3>1
    <3>2. CASE \E e \in s.entries : e.seq + 1 = s.next_seq
      <4>1. PICK e \in s.entries : e.seq + 1 = s.next_seq
        BY <3>2
      <4>2. CASE e.seq > n
        BY <1>4, <1>6, <4>1, <4>2
      <4>3. CASE ~(e.seq > n)
        BY <1>0, <1>4, <4>1, <4>3
      <4> QED BY <4>2, <4>3
    <3> QED BY <1>0, <3>1, <3>2
  <2> QED BY <2>1, <2>2, <2>3 DEF Numbered
<1> QED BY <1>4, <1>5, <1>6, <1>7, <1>8 DEF Good, r

-----------------------------------------------------------------------------
(* What a restart would read.                                               *)

(* Everything pending in s is covered in r, both ends of a rename.          *)
Remembers(r, s) ==
    \A e \in s.entries :
        CoveredIn(r, e.path, e.seq) /\ (e.op = "rename" => CoveredIn(r, e.to, e.seq))

(* r may stand for s after a restart.                                       *)
Matches(r, s) ==
    Good(r) /\ Good(s) /\ r.acked = s.acked /\ r.next_seq = s.next_seq /\ Remembers(r, s)

(* A state may stand for itself.                                            *)
LEMMA MatchesItself ==
    ASSUME NEW s, Good(s)
    PROVE  Matches(s, s)
<1>1. ASSUME NEW e \in s.entries
      PROVE  CoveredIn(s, e.path, e.seq) /\ (e.op = "rename" => CoveredIn(s, e.to, e.seq))
  <2>1. Valid(e) /\ e.seq \in Nat /\ e.path \in Touched /\ (e.op = "rename" => e.to \in Touched)
    BY StateFacts, EntryFacts DEF Good
  <2> QED BY <2>1, StartsWithItself DEF CoveredIn, Covers
<1> QED BY <1>1 DEF Matches, Remembers

(* An entry that was applied covers its path, and its target.               *)
LEMMA TookCovers ==
    ASSUME NEW s, NEW e, Fresh(s, e), NEW r, Took(s, e, r)
    PROVE  CoveredIn(r, e.path, e.seq) /\ (e.op = "rename" => CoveredIn(r, e.to, e.seq))
<1>1. e.seq \in Nat /\ e.path \in Touched /\ (e.op = "rename" => e.to \in Touched)
  BY EntryFacts DEF Fresh
<1> QED BY <1>1, StartsWithItself DEF Took, CoveredIn, Covers

(* The same line in the file and in memory.                                 *)
LEMMA EntryMatches ==
    ASSUME NEW r, NEW s, Matches(r, s), NEW e, Valid(e), e.seq = s.next_seq
    PROVE  LET x == Journal!apply_line(r, e)
               y == Journal!apply_line(s, e)
           IN  Matches(x, y) /\ y.next_seq = e.seq + 1
<1> DEFINE x == Journal!apply_line(r, e)
           y == Journal!apply_line(s, e)
<1>0. e.seq \in Nat /\ s.next_seq \in Nat /\ r.next_seq = s.next_seq
  BY EntryFacts, StateFacts DEF Matches, Good
<1>1. Fresh(r, e) /\ Fresh(s, e)
  BY <1>0 DEF Matches, Fresh
<1>2. Took(r, e, x) /\ Took(s, e, y)
  BY <1>1, EntryApplied
<1> HIDE DEF x, y
<1>3. ASSUME NEW g \in y.entries
      PROVE  CoveredIn(x, g.path, g.seq) /\ (g.op = "rename" => CoveredIn(x, g.to, g.seq))
  <2>0. Valid(g) /\ g.seq \in Nat /\ g.path \in Touched /\ (g.op = "rename" => g.to \in Touched)
    BY <1>2, StateFacts, EntryFacts DEF Took, Good
  <2>1. From(s, e, g)
    BY <1>2 DEF Took
  <2>2. CASE g = e
    BY <1>1, <1>2, <2>2, TookCovers
  <2>3. \A p \in Touched, k \in Nat : CoveredIn(r, p, k) => CoveredIn(x, p, k)
    BY <1>2 DEF Took
  <2>4. CASE g \in s.entries
    <3>1. CoveredIn(r, g.path, g.seq) /\ (g.op = "rename" => CoveredIn(r, g.to, g.seq))
      BY <2>4 DEF Matches, Remembers
    <3> QED BY <2>0, <2>3, <3>1
  <2>5. CASE g.op # "rename" /\ \E v \in s.entries :
                v.op = "rename" /\ g.seq = v.seq /\ (g.path = v.path \/ g.path = v.to)
    <3>1. PICK v \in s.entries : v.op = "rename" /\ g.seq = v.seq /\ (g.path = v.path \/ g.path = v.to)
      BY <2>5
    <3>2. CoveredIn(r, v.path, v.seq) /\ CoveredIn(r, v.to, v.seq)
      BY <3>1 DEF Matches, Remembers
    <3> QED BY <2>0, <2>3, <2>5, <3>1, <3>2
  <2> QED BY <2>1, <2>2, <2>4, <2>5 DEF From
<1>4. x.acked = y.acked /\ x.next_seq = y.next_seq /\ Good(x) /\ Good(y) /\ y.next_seq = e.seq + 1
  BY <1>2 DEF Took, Matches
<1> QED BY <1>3, <1>4 DEF Matches, Remembers, x, y

(* The same acknowledgement in the file and in memory.                      *)
LEMMA AckMatches ==
    ASSUME NEW r, NEW s, Matches(r, s), NEW n \in Nat, n < s.next_seq
    PROVE  Matches(Journal!ack_local(r, n), Journal!ack_local(s, n))
<1> DEFINE x == Journal!ack_local(r, n)
           y == Journal!ack_local(s, n)
<1>1. Good(r) /\ Good(s) /\ r.acked = s.acked /\ r.next_seq = s.next_seq
  BY DEF Matches
<1>2. /\ Good(x) /\ x.acked = (IF n > r.acked THEN n ELSE r.acked) /\ x.next_seq = r.next_seq
      /\ x.entries = {e \in r.entries : e.seq > n}
  BY <1>1, AckApplied
<1>3. /\ Good(y) /\ y.acked = (IF n > s.acked THEN n ELSE s.acked) /\ y.next_seq = s.next_seq
      /\ y.entries = {e \in s.entries : e.seq > n}
  BY <1>1, AckApplied
<1> HIDE DEF x, y
<1>4. ASSUME NEW g \in y.entries, NEW p, CoveredIn(r, p, g.seq) PROVE CoveredIn(x, p, g.seq)
  <2>1. PICK f \in r.entries : f.seq >= g.seq /\ Covers(f, p)
    BY <1>4 DEF CoveredIn
  <2>2. f.seq \in Nat /\ g.seq \in Nat /\ g.seq > n
    BY <1>1, <1>3, StateFacts, EntryFacts DEF Good
  <2>3. f \in x.entries
    BY <1>2, <2>1, <2>2
  <2> QED BY <2>1, <2>3 DEF CoveredIn
<1>5. Remembers(x, y)
  BY <1>3, <1>4 DEF Matches, Remembers
<1> QED BY <1>1, <1>2, <1>3, <1>5 DEF Matches, x, y

-----------------------------------------------------------------------------
(* The file after compaction.                                               *)

(* q lists the entries es in sequence order.                                *)
Ordered(q, es) ==
    /\ q \in Seq(es)
    /\ \A i, j \in 1..Len(q) : i < j => q[i].seq < q[j].seq
    /\ \A e \in es : \E i \in 1..Len(q) : q[i] = e

(* Entries with numbers below a number can be listed in order.          *)
LEMMA OrderExists ==
    ASSUME NEW es, es \subseteq EntryT, \A e, f \in es : e.seq = f.seq => e = f,
           NEW n \in Nat, \A e \in es : e.seq <= n
    PROVE  \E q : Ordered(q, es)
<1> DEFINE Bounded(k, fs) == (\A e, f \in fs : e.seq = f.seq => e = f) /\ (\A e \in fs : e.seq <= k)
           S == {k \in Nat : \A fs \in SUBSET EntryT : Bounded(k, fs) => \E q : Ordered(q, fs)}
<1>0. \A e \in EntryT : e.seq \in Nat /\ e.seq > 0
  BY DEF EntryT
<1>1. 0 \in S
  <2> SUFFICES ASSUME NEW fs \in SUBSET EntryT, Bounded(0, fs) PROVE \E q : Ordered(q, fs)
    OBVIOUS
  <2>1. fs = {}
    BY <1>0
  <2>2. Ordered(<<>>, {})
    BY DEF Ordered
  <2> QED BY <2>1, <2>2
<1>2. ASSUME NEW k \in Nat, k \in S PROVE k + 1 \in S
  <2> SUFFICES ASSUME NEW fs \in SUBSET EntryT, Bounded(k + 1, fs) PROVE \E q : Ordered(q, fs)
    OBVIOUS
  <2>1. CASE \A e \in fs : e.seq # k + 1
    <3>1. Bounded(k, fs)
      BY <1>0, <2>1
    <3> QED BY <1>2, <3>1
  <2>2. CASE \E e \in fs : e.seq = k + 1
    <3>1. PICK e \in fs : e.seq = k + 1
      BY <2>2
    <3> DEFINE gs == fs \ {e}
    <3>2. gs \in SUBSET EntryT /\ Bounded(k, gs)
      BY <1>0, <3>1
    <3>3. PICK q : Ordered(q, gs)
      BY <1>2, <3>2
    <3> DEFINE r == Append(q, e)
    <3>4. /\ q \in Seq(gs) /\ Len(q) \in Nat /\ \A i \in 1..Len(q) : q[i] \in gs
          /\ \A i, j \in 1..Len(q) : i < j => q[i].seq < q[j].seq
          /\ \A f \in gs : \E i \in 1..Len(q) : q[i] = f
      BY <3>3 DEF Ordered
    <3>5. /\ r \in Seq(fs) /\ Len(r) = Len(q) + 1 /\ r[Len(q) + 1] = e
          /\ \A i \in 1..Len(q) : r[i] = q[i]
      BY <3>4
    <3> HIDE DEF r
    <3>6. \A i \in 1..Len(q) : q[i].seq < k + 1
      BY <1>0, <3>2, <3>4
    <3>7. ASSUME NEW i \in 1..Len(r), NEW j \in 1..Len(r), i < j PROVE r[i].seq < r[j].seq
      <4>1. i \in 1..Len(q) /\ r[i] = q[i]
        BY <3>4, <3>5, <3>7
      <4>2. CASE j = Len(q) + 1
        BY <3>1, <3>5, <3>6, <4>1, <4>2
      <4>3. CASE j # Len(q) + 1
        <5>1. j \in 1..Len(q) /\ r[j] = q[j]
          BY <3>4, <3>5, <4>3
        <5> QED BY <3>4, <3>7, <4>1, <5>1
      <4> QED BY <4>2, <4>3
    <3>8. ASSUME NEW f \in fs PROVE \E i \in 1..Len(r) : r[i] = f
      <4>0. Len(q) + 1 \in 1..Len(r)
        BY <3>4, <3>5
      <4>1. CASE f = e
        BY <3>5, <4>0, <4>1
      <4>2. CASE f # e
        BY <3>4, <3>5, <4>2
      <4> QED BY <4>1, <4>2
    <3>9. Ordered(r, fs)
      BY <3>5, <3>7, <3>8 DEF Ordered
    <3> QED BY <3>9
  <2> QED BY <2>1, <2>2
<1> HIDE DEF S
<1>3. n \in S
  BY <1>1, <1>2, EveryNumber
<1>4. Bounded(n, es) /\ es \in SUBSET EntryT
  OBVIOUS
<1> QED BY <1>3, <1>4 DEF S

(* InOrder, the snapshot, does so.                                          *)
LEMMA SnapshotOrdered ==
    ASSUME NEW s, Good(s)
    PROVE  Ordered(Journal!InOrder(s.entries), s.entries)
<1> DEFINE es == s.entries
<1>0. /\ es \subseteq EntryT /\ s.next_seq \in Nat /\ \A e, f \in es : e.seq = f.seq => e = f
      /\ \A e \in es : e.seq \in Nat /\ e.seq <= s.next_seq
  BY StateFacts, EntryFacts DEF Good, Numbered
<1> HIDE DEF es
<1>1. PICK q : Ordered(q, es)
  BY <1>0, OrderExists
<1>2. /\ q \in Seq(es) /\ Len(q) \in Nat /\ q \in [1..Len(q) -> es] /\ DOMAIN q = 1..Len(q)
      /\ \A i, j \in 1..Len(q) : i < j => q[i].seq < q[j].seq
      /\ \A e \in es : \E i \in 1..Len(q) : q[i] = e
  BY <1>1 DEF Ordered
<1>3. Cardinality(es) = Len(q)
  <2>1. \A i, j \in 1..Len(q) : q[i] = q[j] => i = j
    <3> SUFFICES ASSUME NEW i \in 1..Len(q), NEW j \in 1..Len(q), q[i] = q[j], i # j PROVE FALSE
      OBVIOUS
    <3>1. q[i] \in es /\ q[i].seq \in Nat
      BY <1>0, <1>2
    <3>2. i < j \/ j < i
      BY <1>2
    <3> QED BY <1>2, <3>1, <3>2
  <2>2. q \in Bijection(1..Len(q), es)
    BY <1>2, <2>1 DEF Bijection, Injection, Surjection, IsInjective
  <2>3. ExistsBijection(1..Len(q), es)
    BY <2>2 DEF ExistsBijection
  <2> QED BY <1>2, <2>3, FS_CountingElements
<1> DEFINE Sorted(r) == /\ \A i, j \in DOMAIN r : i < j => r[i].seq < r[j].seq
                        /\ \A e \in es : \E i \in DOMAIN r : r[i] = e
           t == CHOOSE r \in [1..Cardinality(es) -> es] : Sorted(r)
<1>4. q \in [1..Cardinality(es) -> es] /\ Sorted(q)
  BY <1>2, <1>3
<1>5. Journal!InOrder(es) = t
  <2>1. Journal!Cardinality(es) = Cardinality(es)
    BY DEF Journal!Cardinality, Cardinality
  <2> QED BY <2>1 DEF Journal!InOrder
<1>6. t \in [1..Cardinality(es) -> es] /\ Sorted(t)
  BY <1>4
<1> HIDE DEF t
<1>7. t \in Seq(es) /\ Len(t) = Cardinality(es) /\ DOMAIN t = 1..Len(t)
  <2>1. Cardinality(es) \in Nat
    BY <1>2, <1>3
  <2> QED BY <1>6, <2>1, IsASeq
<1> QED BY <1>5, <1>6, <1>7 DEF Ordered, es

(* The lines of a file nothing has damaged.                                 *)
LineT == {e \in EntryT : e.op = "rename" => e.to \in Touched} \cup {Journal!AckLine(n) : n \in Nat}

(* The journal with nothing pending, as far as it is acknowledged.          *)
Cursor(a) == [entries |-> {}, by_path |-> {}, by_to |-> {}, acked |-> a, next_seq |-> a + 1]

(* A state is its fields.                                                   *)
LEMMA SameState ==
    ASSUME NEW x \in StateT, NEW y \in StateT,
           x.entries = y.entries, x.by_path = y.by_path, x.by_to = y.by_to,
           x.acked = y.acked, x.next_seq = y.next_seq
    PROVE  x = y
BY DEF StateT

(* The acknowledged marker, read first, gives it.                           *)
LEMMA CursorGood ==
    ASSUME NEW a \in Nat
    PROVE  /\ Good(Cursor(a)) /\ Cursor(a).acked = a /\ Cursor(a).next_seq = a + 1
           /\ Journal!EmptyState = Cursor(0)
           /\ Journal!apply_line(Journal!EmptyState, Journal!AckLine(a)) = Cursor(a)
<1> DEFINE c == Cursor(a)
           m == Journal!EmptyState
<1>1. /\ c.entries = {} /\ c.by_path = {} /\ c.by_to = {} /\ c.acked = a /\ c.next_seq = a + 1
      /\ c \in StateT
  BY DEF Cursor, StateT
<1>2. Good(c)
  <2> HIDE DEF c
  <2> QED BY <1>1 DEF Good, Consistent, Numbered
<1>3. m = Cursor(0)
  BY DEF Cursor, Journal!EmptyState
<1>4. /\ Journal!AckLine(a).op = "ack" /\ Journal!AckLine(a).seq = a
  BY DEF Journal!AckLine, Journal!Entry
<1>5. Journal!remove(m, {}) = m
  BY DEF Journal!EmptyState, Journal!remove
<1>6. {e \in m.entries : e.seq <= a} = {}
  BY DEF Journal!EmptyState
<1>7. Journal!ack_local(m, a) = [m EXCEPT !.acked = IF a > @ THEN a ELSE @,
                                          !.next_seq = IF a + 1 > @ THEN a + 1 ELSE @]
  BY <1>5, <1>6 DEF Journal!ack_local
<1>8. Journal!ack_local(m, a) = c
  <2>1. m.acked = 0 /\ m.next_seq = 1
    BY DEF Journal!EmptyState
  <2>3. [m EXCEPT !.acked = a, !.next_seq = a + 1] = c
    <3> DEFINE x == [m EXCEPT !.acked = a, !.next_seq = a + 1]
    <3>1. m \in StateT /\ m.entries = {} /\ m.by_path = {} /\ m.by_to = {}
      BY DEF Journal!EmptyState, StateT
    <3> HIDE DEF m, c
    <3> DEFINE n == a + 1
    <3>0. n \in Nat /\ x = [m EXCEPT !.acked = a, !.next_seq = n]
      OBVIOUS
    <3> HIDE DEF n, x
    <3>5. /\ x \in StateT /\ x.acked = a /\ x.next_seq = n
          /\ x.entries = m.entries /\ x.by_path = m.by_path /\ x.by_to = m.by_to
      <4>1. x.acked = a /\ x.next_seq = n
        BY <3>0, <3>1 DEF StateT
      <4>2. x.entries = m.entries /\ x.by_path = m.by_path /\ x.by_to = m.by_to
        BY <3>0, <3>1 DEF StateT
      <4>3. x \in StateT
        BY <3>0, <3>1 DEF StateT
      <4> QED BY <4>1, <4>2, <4>3
    <3>2. x \in StateT /\ x.acked = a /\ x.next_seq = a + 1
      BY <3>0, <3>5 DEF n
    <3>3. x.entries = {} /\ x.by_path = {} /\ x.by_to = {}
      BY <3>0, <3>1, <3>5
    <3> HIDE DEF x
    <3>4. x = c
      BY <1>1, <3>2, <3>3, SameState
    <3> QED BY <3>4 DEF x
  <2>2. (IF a > 0 THEN a ELSE 0) = a /\ (IF a + 1 > 1 THEN a + 1 ELSE 1) = a + 1
    OBVIOUS
  <2> HIDE DEF m, c
  <2> QED BY <1>7, <2>1, <2>2, <2>3
<1>9. Journal!apply_line(m, Journal!AckLine(a)) = c
  BY <1>4, <1>8 DEF Journal!apply_line
<1> QED BY <1>1, <1>2, <1>3, <1>9

(* Reading the entries in their order.                                      *)
LEMMA EntriesRead ==
    ASSUME NEW s, Good(s), NEW q, Ordered(q, s.entries), NEW h, h \in Seq(LineT),
           NEW g, Run(g, Journal!EmptyState, h \o q, Len(h) + Len(q)), g[Len(h)] = Cursor(s.acked)
    PROVE  LET r == g[Len(h) + Len(q)] IN Matches(r, s)
<1> DEFINE m == Len(h)
           n == Len(q)
           l == h \o q
           top(i) == IF i = 0 THEN s.acked + 1 ELSE q[i].seq + 1
           Fine(i) == /\ Good(g[m + i]) /\ g[m + i].acked = s.acked /\ g[m + i].next_seq = top(i)
                      /\ \A j \in 1..i : /\ CoveredIn(g[m + i], q[j].path, q[j].seq)
                                         /\ q[j].op = "rename" => CoveredIn(g[m + i], q[j].to, q[j].seq)
           S == {i \in Nat : i <= n => Fine(i)}
<1>0. /\ m \in Nat /\ n \in Nat /\ s.acked \in Nat /\ s.next_seq \in Nat /\ q \in Seq(s.entries)
      /\ \A i \in 1..n : q[i] \in s.entries
      /\ \A i, j \in 1..n : i < j => q[i].seq < q[j].seq
      /\ \A e \in s.entries : \E i \in 1..n : q[i] = e
  BY StateFacts DEF Good, Ordered
<1>1. \A e \in s.entries : /\ Valid(e) /\ e.seq \in Nat /\ e.path \in Touched /\ s.acked < e.seq
                           /\ e.seq < s.next_seq /\ (e.op = "rename" => e.to \in Touched)
  BY StateFacts, EntryFacts DEF Good, Numbered
<1>2. \A i \in 1..n : l[m + i] = q[i]
  <2> DEFINE X == LineT \cup s.entries
  <2>1. h \in Seq(X) /\ q \in Seq(X)
    BY <1>0
  <2> HIDE DEF X
  <2> QED BY <2>1, ConcatProperties
<1>3. \A i \in 1..n : g[m + i] = Journal!apply_line(g[m + (i - 1)], q[i])
  <2>1. \A i \in 0..(m + n) : g[i] = IF i = 0 THEN Journal!EmptyState ELSE Journal!apply_line(g[i - 1], l[i])
    BY DEF Run
  <2> HIDE DEF m, n, l
  <2> SUFFICES ASSUME NEW i \in 1..n PROVE g[m + i] = Journal!apply_line(g[m + (i - 1)], q[i])
    OBVIOUS
  <2>2. m + i \in 0..(m + n) /\ m + i # 0 /\ (m + i) - 1 = m + (i - 1)
    BY <1>0
  <2> QED BY <1>2, <2>1, <2>2
<1> HIDE DEF m, n, l
<1>4. 0 \in S
  <2>1. m + 0 = m
    BY <1>0
  <2>2. g[m + 0] = Cursor(s.acked)
    BY <2>1 DEF m
  <2>3. top(0) = s.acked + 1
    OBVIOUS
  <2>4. Good(g[m + 0]) /\ g[m + 0].acked = s.acked /\ g[m + 0].next_seq = top(0)
    <3> HIDE DEF top
    <3> QED BY <1>0, <2>2, <2>3, CursorGood
  <2>5. 1..0 = {}
    OBVIOUS
  <2>6. Fine(0)
    <3> HIDE DEF top
    <3> QED BY <2>4, <2>5
  <2> HIDE DEF Fine
  <2> QED BY <2>6
<1>5. ASSUME NEW i \in Nat, i \in S PROVE i + 1 \in S
  <2> SUFFICES ASSUME i + 1 <= n PROVE Fine(i + 1)
    OBVIOUS
  <2> DEFINE x == g[m + i]
             y == g[m + (i + 1)]
             e == q[i + 1]
  <2>0. n \in Nat
    BY <1>0
  <2>1. i + 1 \in 1..n /\ i <= n /\ (i + 1) - 1 = i /\ i + 1 # 0
    BY <2>0
  <2>2. Good(x) /\ x.acked = s.acked /\ x.next_seq = top(i)
    BY <1>5, <2>1
  <2>3. \A j \in 1..i : /\ CoveredIn(x, q[j].path, q[j].seq)
                        /\ q[j].op = "rename" => CoveredIn(x, q[j].to, q[j].seq)
    BY <1>5, <2>1
  <2>4. y = Journal!apply_line(x, e)
    BY <1>3, <2>1
  <2>5. Valid(e) /\ e.seq \in Nat /\ s.acked < e.seq
    BY <1>0, <1>1, <2>1
  <2>6. e.seq >= top(i)
    <3>1. CASE i = 0
      BY <1>0, <2>5, <3>1
    <3>2. CASE i # 0
      <4>1. i \in 1..n /\ i < i + 1
        BY <2>1, <3>2
      <4>2. q[i].seq < e.seq /\ q[i].seq \in Nat
        BY <1>0, <1>1, <2>1, <4>1
      <4> QED BY <2>5, <3>2, <4>2
    <3> QED BY <3>1, <3>2
  <2>7. top(i + 1) = e.seq + 1
    BY <2>1
  <2> HIDE DEF x, y, e, top
  <2>8. Fresh(x, e)
    BY <2>2, <2>5, <2>6 DEF Fresh
  <2>9. Took(x, e, y)
    BY <2>4, <2>8, EntryApplied
  <2>10. Good(y) /\ y.acked = s.acked /\ y.next_seq = top(i + 1)
    BY <2>2, <2>7, <2>9 DEF Took
  <2>11. ASSUME NEW j \in 1..(i + 1)
         PROVE  CoveredIn(y, q[j].path, q[j].seq) /\ (q[j].op = "rename" => CoveredIn(y, q[j].to, q[j].seq))
    <3>1. CASE j = i + 1
      <4>1. q[j] = e
        BY <3>1 DEF e
      <4>2. CoveredIn(y, e.path, e.seq) /\ (e.op = "rename" => CoveredIn(y, e.to, e.seq))
        BY <2>8, <2>9, TookCovers
      <4> QED BY <4>1, <4>2
    <3>2. CASE j # i + 1
      <4>1. j \in 1..i /\ j \in 1..n
        BY <1>0, <2>1, <3>2
      <4>2. q[j].path \in Touched /\ q[j].seq \in Nat /\ (q[j].op = "rename" => q[j].to \in Touched)
        BY <1>0, <1>1, <4>1
      <4>3. CoveredIn(x, q[j].path, q[j].seq) /\ (q[j].op = "rename" => CoveredIn(x, q[j].to, q[j].seq))
        BY <2>3, <4>1
      <4> QED BY <2>9, <4>2, <4>3 DEF Took
    <3> QED BY <3>1, <3>2
  <2> QED BY <2>10, <2>11 DEF y
<1> HIDE DEF S
<1>6. n \in S
  BY <1>0, <1>4, <1>5, EveryNumber
<1>7. Fine(n)
  BY <1>0, <1>6 DEF S
<1> DEFINE r == g[m + n]
<1>8. Good(r) /\ r.acked = s.acked
  BY <1>7
<1>9. r.next_seq = s.next_seq
  <2>1. r.next_seq = top(n)
    BY <1>7
  <2>2. s.next_seq = s.acked + 1 \/ \E e \in s.entries : e.seq + 1 = s.next_seq
    BY DEF Good, Numbered
  <2>3. CASE n = 0
    BY <1>0, <2>1, <2>2, <2>3
  <2>4. CASE n # 0
    <3>1. n \in 1..n /\ q[n] \in s.entries
      BY <1>0, <2>4
    <3>2. \A e \in s.entries : e.seq <= q[n].seq
      <4> SUFFICES ASSUME NEW e \in s.entries PROVE e.seq <= q[n].seq
        OBVIOUS
      <4>1. PICK i \in 1..n : q[i] = e
        BY <1>0
      <4>2. i < n \/ i = n
        BY <1>0
      <4>3. CASE i < n
        <5>1. q[i].seq < q[n].seq /\ e.seq \in Nat /\ q[n].seq \in Nat
          BY <1>0, <1>1, <3>1, <4>1, <4>3
        <5> QED BY <4>1, <5>1
      <4>4. CASE i = n
        <5>1. q[n].seq \in Nat /\ e = q[n]
          BY <1>1, <3>1, <4>1, <4>4
        <5> QED BY <5>1
      <4> QED BY <4>2, <4>3, <4>4
    <3>3. s.acked < q[n].seq /\ q[n].seq < s.next_seq /\ q[n].seq \in Nat
      BY <1>1, <3>1
    <3>4. PICK e \in s.entries : e.seq + 1 = s.next_seq
      BY <1>0, <2>2, <3>3
    <3>5. e.seq <= q[n].seq /\ e.seq \in Nat
      BY <1>1, <3>2
    <3>6. q[n].seq + 1 = s.next_seq
      <4>1. s.next_seq \in Nat
        BY <1>0
      <4> QED BY <3>3, <3>4, <3>5, <4>1
    <3> QED BY <2>1, <2>4, <3>6
  <2> QED BY <2>3, <2>4
<1>10. Remembers(r, s)
  <2> SUFFICES ASSUME NEW e \in s.entries
               PROVE  CoveredIn(r, e.path, e.seq) /\ (e.op = "rename" => CoveredIn(r, e.to, e.seq))
    BY DEF Remembers
  <2>1. PICK i \in 1..n : q[i] = e
    BY <1>0
  <2> QED BY <1>7, <2>1
<1> QED BY <1>8, <1>9, <1>10 DEF Matches, m, n

(* A compacted file stands for the state it was written from.               *)
LEMMA CompactedMatches ==
    ASSUME NEW s, Good(s)
    PROVE  LET l == Journal!write_compacted(s)
           IN  l \in Seq(LineT) /\ Matches(Journal!replay(l), s)
<1> DEFINE q == Journal!InOrder(s.entries)
           h == IF s.acked > 0 THEN <<Journal!AckLine(s.acked)>> ELSE <<>>
           l == h \o q
<1>0. s.acked \in Nat /\ s.entries \subseteq EntryT /\ \A e \in s.entries : Valid(e)
  BY StateFacts DEF Good
<1>1. Ordered(q, s.entries)
  BY SnapshotOrdered
<1>2. Journal!write_compacted(s) = l
  BY DEF Journal!write_compacted
<1> HIDE DEF q
<1>3. s.entries \subseteq LineT
  BY <1>0 DEF LineT, Valid
<1>4. q \in Seq(LineT) /\ Len(q) \in Nat
  <2>1. q \in Seq(s.entries)
    BY <1>1 DEF Ordered
  <2> QED BY <1>3, <2>1
<1>5. Journal!AckLine(s.acked) \in LineT
  BY <1>0 DEF LineT
<1>6. h \in Seq(LineT) /\ Len(h) \in Nat /\ (s.acked > 0 => Len(h) = 1 /\ h[1] = Journal!AckLine(s.acked))
      /\ (~(s.acked > 0) => Len(h) = 0)
  BY <1>5
<1> HIDE DEF h
<1>7. l \in Seq(LineT) /\ Len(l) = Len(h) + Len(q) /\ Len(l) \in Nat /\ \A i \in 1..Len(h) : l[i] = h[i]
  BY <1>4, <1>6
<1> HIDE DEF l
<1>8. PICK g : Run(g, Journal!EmptyState, l, Len(l))
  BY <1>7, RunExists
<1>9. Journal!replay(l) = g[Len(l)]
  BY <1>7, <1>8, AppliedByRun DEF Journal!replay
<1>10. g[Len(h)] = Cursor(s.acked)
  <2>1. \A i \in 0..Len(l) : g[i] = IF i = 0 THEN Journal!EmptyState ELSE Journal!apply_line(g[i - 1], l[i])
    BY <1>8 DEF Run
  <2>2. 0 \in 0..Len(l) /\ Len(h) \in 0..Len(l)
    BY <1>4, <1>6, <1>7
  <2>3. g[0] = Journal!EmptyState
    BY <2>1, <2>2
  <2>4. CASE s.acked > 0
    <3>1. Len(h) = 1 /\ l[1] = Journal!AckLine(s.acked) /\ 1 \in 0..Len(l) /\ 1 - 1 = 0
      BY <1>6, <1>7, <2>2, <2>4
    <3>2. g[1] = Journal!apply_line(g[0], l[1])
      BY <2>1, <3>1
    <3> QED BY <1>0, <2>3, <3>1, <3>2, CursorGood
  <2>5. CASE ~(s.acked > 0)
    <3>1. Len(h) = 0 /\ s.acked = 0
      BY <1>0, <1>6, <2>5
    <3> QED BY <2>3, <3>1, CursorGood
  <2> QED BY <2>4, <2>5
<1>11. Matches(g[Len(l)], s)
  BY <1>1, <1>6, <1>7, <1>8, <1>10, EntriesRead DEF l
<1> QED BY <1>2, <1>7, <1>9, <1>11

-----------------------------------------------------------------------------
(* The lines an operation appends.                                          *)

(* An acknowledgement that brings nothing new changes nothing.              *)
LEMMA AckOld ==
    ASSUME NEW s, Good(s), NEW n \in Nat, n <= s.acked
    PROVE  Journal!ack_local(s, n) = s
<1> DEFINE x == [s EXCEPT !.acked = IF n > @ THEN n ELSE @,
                          !.next_seq = IF n + 1 > @ THEN n + 1 ELSE @]
<1>0. /\ s \in StateT /\ s.acked \in Nat /\ s.next_seq \in Nat /\ s.acked < s.next_seq
      /\ \A e \in s.entries : e.seq \in Nat /\ s.acked < e.seq
  BY StateFacts, EntryFacts DEF Good, Numbered
<1>1. {e \in s.entries : e.seq <= n} = {}
  BY <1>0
<1>2. Journal!remove(s, {}) = s
  <2> DEFINE y == Journal!remove(s, {})
  <2>1. y = [s EXCEPT !.entries = @ \ {}, !.by_path = @ \ {}, !.by_to = @ \ {}]
    BY DEF Journal!remove
  <2> HIDE DEF y
  <2>2. y.entries = s.entries /\ y.by_path = s.by_path /\ y.by_to = s.by_to
    BY <1>0, <2>1 DEF StateT
  <2>3. y.acked = s.acked /\ y.next_seq = s.next_seq
    BY <1>0, <2>1 DEF StateT
  <2>4. y \in StateT
    BY <1>0, <2>1 DEF StateT
  <2>5. y = s
    BY <1>0, <2>2, <2>3, <2>4, SameState
  <2> QED BY <2>5 DEF y
<1>3. Journal!ack_local(s, n) = x
  BY <1>1, <1>2 DEF Journal!ack_local
<1>4. ~(n > s.acked) /\ ~(n + 1 > s.next_seq)
  BY <1>0
<1>5. x.entries = s.entries /\ x.by_path = s.by_path /\ x.by_to = s.by_to
  BY <1>0 DEF StateT
<1>6. x.acked = s.acked /\ x.next_seq = s.next_seq
  BY <1>0, <1>4 DEF StateT
<1>7. x \in StateT
  BY <1>0, <1>4 DEF StateT
<1> HIDE DEF x
<1> QED BY <1>0, <1>3, <1>5, <1>6, <1>7, SameState

(* Short sequences.                                                         *)
LEMMA Pairs ==
    ASSUME NEW x, NEW y
    PROVE  /\ <<x>> \in Seq({x, y}) /\ <<x, y>> \in Seq({x, y})
           /\ Append(<<>>, x) = <<x>> /\ Append(<<x>>, y) = <<x, y>>
           /\ <<x>> \o <<y>> = <<x, y>> /\ <<x>> \o <<>> = <<x>>
           /\ SubSeq(<<x>>, 1, 1) = <<x>>
           /\ SubSeq(<<x, y>>, 1, 1) = <<x>> /\ SubSeq(<<x, y>>, 1, 2) = <<x, y>>
<1> DEFINE X == {x, y}
           a == <<x>>
           b == <<x, y>>
<1>1. /\ a \in Seq(X) /\ Len(a) = 1 /\ a[1] = x /\ b \in Seq(X) /\ Len(b) = 2 /\ b[1] = x /\ b[2] = y
      /\ <<y>> \in Seq(X) /\ Len(<<y>>) = 1 /\ <<y>>[1] = y /\ <<>> \in Seq(X) /\ x \in X /\ y \in X
  OBVIOUS
<1>2. /\ SubSeq(a, 1, 1) \in Seq(X) /\ Len(SubSeq(a, 1, 1)) = 1 /\ SubSeq(a, 1, 1)[1] = x
  BY <1>1, SubSeqProperties
<1>3. /\ SubSeq(b, 1, 1) \in Seq(X) /\ Len(SubSeq(b, 1, 1)) = 1 /\ SubSeq(b, 1, 1)[1] = x
  BY <1>1, SubSeqProperties
<1>4. /\ SubSeq(b, 1, 2) \in Seq(X) /\ Len(SubSeq(b, 1, 2)) = 2
      /\ SubSeq(b, 1, 2)[1] = x /\ SubSeq(b, 1, 2)[2] = y
  BY <1>1, SubSeqProperties
<1>5. /\ a \o <<y>> \in Seq(X) /\ Len(a \o <<y>>) = 2 /\ (a \o <<y>>)[1] = x /\ (a \o <<y>>)[2] = y
  BY <1>1
<1>6. /\ Append(a, y) \in Seq(X) /\ Len(Append(a, y)) = 2 /\ Append(a, y)[1] = x /\ Append(a, y)[2] = y
  BY <1>1
<1>7. /\ a \o <<>> = a /\ Append(<<>>, x) = a
  BY <1>1
<1> HIDE DEF a, b, X
<1>8. \A q \in Seq(X) : /\ Len(q) = 1 /\ q[1] = x => q = a
                        /\ Len(q) = 2 /\ q[1] = x /\ q[2] = y => q = b
  BY <1>1, SeqEqual
<1>9. /\ SubSeq(a, 1, 1) = a /\ SubSeq(b, 1, 1) = a /\ SubSeq(b, 1, 2) = b
      /\ a \o <<y>> = b /\ Append(a, y) = b
  BY <1>2, <1>3, <1>4, <1>5, <1>6, <1>8
<1> QED BY <1>1, <1>7, <1>9 DEF a, b, X

(* The next line: an entry under the next number, or an acknowledgement of  *)
(* a number that was given.                                                 *)
NextLine(s, x) ==
    \/ Valid(x) /\ x.seq = s.next_seq
    \/ \E n \in Nat : n < s.next_seq /\ x = Journal!AckLine(n)

(* What one operation appends: a line, or the two of a rename.              *)
Operation(s, l) ==
    \/ \E x : l = <<x>> /\ NextLine(s, x)
    \/ \E x, y : l = <<x, y>> /\ Valid(x) /\ Valid(y) /\ x.seq = s.next_seq /\ y.seq = s.next_seq + 1

(* The file f with p appended is for the state that p makes of s what f was *)
(* for s.                                                                   *)
Follows(f, s, p) ==
    LET r == Journal!replay(f \o p)
        t == Journal!ApplyLines(s, p)
    IN  f \o p \in Seq(LineT) /\ Matches(r, t) /\ (Journal!replay(f) = s => r = t)

(* A line in the file and in memory.                                        *)
LEMMA LineFollows ==
    ASSUME NEW f \in Seq(LineT), NEW s, Matches(Journal!replay(f), s), NEW x, NextLine(s, x)
    PROVE  /\ x \in LineT /\ Append(f, x) \in Seq(LineT)
           /\ Matches(Journal!replay(Append(f, x)), Journal!apply_line(s, x))
           /\ Journal!replay(f) = s => Journal!replay(Append(f, x)) = Journal!apply_line(s, x)
           /\ Valid(x) => Journal!apply_line(s, x).next_seq = x.seq + 1
<1> DEFINE r == Journal!replay(f)
<1>1. x \in LineT
  BY DEF NextLine, LineT, Valid
<1>2. Append(f, x) \in Seq(LineT)
  BY <1>1
<1>3. Journal!replay(Append(f, x)) = Journal!apply_line(r, x)
  BY <1>1, ApplyOneMore DEF Journal!replay
<1>4. CASE Valid(x) /\ x.seq = s.next_seq
  <2>1. Matches(Journal!apply_line(r, x), Journal!apply_line(s, x))
        /\ Journal!apply_line(s, x).next_seq = x.seq + 1
    BY <1>4, EntryMatches
  <2> QED BY <1>1, <1>2, <1>3, <2>1
<1>5. CASE \E n \in Nat : n < s.next_seq /\ x = Journal!AckLine(n)
  <2>1. PICK n \in Nat : n < s.next_seq /\ x = Journal!AckLine(n)
    BY <1>5
  <2>2. x.op = "ack" /\ x.seq = n
    BY <2>1 DEF Journal!AckLine, Journal!Entry
  <2>3. \A q : Journal!apply_line(q, x) = Journal!ack_local(q, n)
    BY <2>2 DEF Journal!apply_line
  <2>4. Matches(Journal!ack_local(r, n), Journal!ack_local(s, n))
    BY <2>1, AckMatches
  <2>5. ~Valid(x)
    BY <2>2, EntryFacts
  <2> QED BY <1>1, <1>2, <1>3, <2>3, <2>4, <2>5
<1> QED BY <1>4, <1>5 DEF NextLine

(* One line is one application.                                             *)
LEMMA ApplyOne ==
    ASSUME NEW s, NEW x
    PROVE  Journal!ApplyLines(s, <<x>>) = Journal!apply_line(s, x)
<1> DEFINE l == <<>>
           X == {x}
<1>1. l \in Seq(X) /\ x \in X
  OBVIOUS
<1>2. Append(l, x) = <<x>>
  BY Pairs
<1>3. Journal!ApplyLines(s, l) = s
  BY ApplyNone
<1> HIDE DEF l, X
<1>4. Journal!ApplyLines(s, Append(l, x)) = Journal!apply_line(Journal!ApplyLines(s, l), x)
  BY <1>1, ApplyOneMore
<1> QED BY <1>2, <1>3, <1>4

(* However much of an operation is written, the file follows.               *)
LEMMA LinesFollow ==
    ASSUME NEW f \in Seq(LineT), NEW s, Matches(Journal!replay(f), s), NEW l, Operation(s, l),
           NEW k \in 0..Len(l)
    PROVE  Follows(f, s, SubSeq(l, 1, k))
<1>0. s.next_seq \in Nat
  BY StateFacts DEF Matches, Good
<1>1. Follows(f, s, <<>>)
  <2>1. f \o <<>> = f
    OBVIOUS
  <2> QED BY <2>1, ApplyNone DEF Follows
<1>2. ASSUME NEW x, NextLine(s, x) PROVE Follows(f, s, <<x>>)
  <2>1. x \in LineT
    BY <1>2, LineFollows
  <2>2. f \o <<x>> = Append(f, x)
    BY <2>1
  <2>3. Journal!ApplyLines(s, <<x>>) = Journal!apply_line(s, x)
    BY ApplyOne
  <2>4. /\ Append(f, x) \in Seq(LineT)
        /\ Matches(Journal!replay(Append(f, x)), Journal!apply_line(s, x))
        /\ Journal!replay(f) = s => Journal!replay(Append(f, x)) = Journal!apply_line(s, x)
    BY <1>2, LineFollows
  <2> QED BY <2>2, <2>3, <2>4 DEF Follows
<1>3. ASSUME NEW x, NEW y, Valid(x), Valid(y), x.seq = s.next_seq, y.seq = s.next_seq + 1
      PROVE  Follows(f, s, <<x, y>>)
  <2> DEFINE g == Append(f, x)
             t == Journal!apply_line(s, x)
  <2>1. NextLine(s, x)
    BY <1>3 DEF NextLine
  <2>2. x \in LineT /\ g \in Seq(LineT) /\ Matches(Journal!replay(g), t)
        /\ (Journal!replay(f) = s => Journal!replay(g) = t) /\ t.next_seq = x.seq + 1
    BY <1>3, <2>1, LineFollows
  <2> HIDE DEF t
  <2>3. NextLine(t, y)
    BY <1>3, <2>2 DEF NextLine
  <2> HIDE DEF g
  <2>4. y \in LineT /\ Append(g, y) \in Seq(LineT)
        /\ Matches(Journal!replay(Append(g, y)), Journal!apply_line(t, y))
        /\ (Journal!replay(g) = t => Journal!replay(Append(g, y)) = Journal!apply_line(t, y))
    BY <2>2, <2>3, LineFollows
  <2>5. f \o <<x, y>> = Append(g, y)
    BY <2>2, <2>4 DEF g
  <2>6. Journal!ApplyLines(s, <<x, y>>) = Journal!apply_line(t, y)
    <3> DEFINE p == <<x>>
    <3>1. p \in Seq(LineT)
      BY <2>2
    <3>2. Append(p, y) = <<x, y>>
      BY Pairs
    <3>3. Journal!ApplyLines(s, p) = t
      BY ApplyOne DEF t
    <3> HIDE DEF p
    <3>4. Journal!ApplyLines(s, Append(p, y)) = Journal!apply_line(Journal!ApplyLines(s, p), y)
      BY <2>4, <3>1, ApplyOneMore
    <3> QED BY <3>2, <3>3, <3>4
  <2> QED BY <2>2, <2>4, <2>5, <2>6 DEF Follows
<1>4. CASE \E x : l = <<x>> /\ NextLine(s, x)
  <2>1. PICK x : l = <<x>> /\ NextLine(s, x)
    BY <1>4
  <2>2. Len(l) = 1
    BY <2>1
  <2>3. CASE k = 0
    <3>1. SubSeq(l, 1, k) = <<>>
      BY <2>1, <2>3
    <3> QED BY <1>1, <3>1
  <2>4. CASE k = 1
    <3>1. SubSeq(l, 1, k) = <<x>>
      BY <2>1, <2>4, Pairs
    <3> QED BY <1>2, <2>1, <3>1
  <2> QED BY <2>2, <2>3, <2>4
<1>5. CASE \E x, y : l = <<x, y>> /\ Valid(x) /\ Valid(y) /\ x.seq = s.next_seq /\ y.seq = s.next_seq + 1
  <2>1. PICK x, y : l = <<x, y>> /\ Valid(x) /\ Valid(y) /\ x.seq = s.next_seq /\ y.seq = s.next_seq + 1
    BY <1>5
  <2>2. Len(l) = 2
    BY <2>1
  <2>3. CASE k = 0
    <3>1. SubSeq(l, 1, k) = <<>>
      BY <2>1, <2>3
    <3> QED BY <1>1, <3>1
  <2>4. CASE k = 1
    <3>1. SubSeq(l, 1, k) = <<x>>
      BY <2>1, <2>4, Pairs
    <3>2. NextLine(s, x)
      BY <2>1 DEF NextLine
    <3> QED BY <1>2, <3>1, <3>2
  <2>5. CASE k = 2
    <3>1. SubSeq(l, 1, k) = <<x, y>>
      BY <2>1, <2>5, Pairs
    <3> QED BY <1>3, <2>1, <3>1
  <2> QED BY <2>2, <2>3, <2>4, <2>5
<1> QED BY <1>4, <1>5 DEF Operation

(* The whole operation.                                                     *)
LEMMA OperationFollows ==
    ASSUME NEW f \in Seq(LineT), NEW s, Matches(Journal!replay(f), s), NEW l, Operation(s, l)
    PROVE  Follows(f, s, l) /\ l # <<>> /\ Len(l) \in Nat
<1>1. Len(l) \in Nat /\ l # <<>> /\ SubSeq(l, 1, Len(l)) = l
  <2>1. ASSUME NEW x, l = <<x>> PROVE Len(l) = 1 /\ SubSeq(l, 1, 1) = l
    BY <2>1, Pairs
  <2>2. ASSUME NEW x, NEW y, l = <<x, y>> PROVE Len(l) = 2 /\ SubSeq(l, 1, 2) = l
    BY <2>2, Pairs
  <2>3. (Len(l) = 1 /\ SubSeq(l, 1, 1) = l) \/ (Len(l) = 2 /\ SubSeq(l, 1, 2) = l)
    BY <2>1, <2>2 DEF Operation
  <2>4. Len(<<>>) = 0
    OBVIOUS
  <2>5. Len(l) \in Nat
    BY <2>3
  <2>6. l # <<>>
    <3> SUFFICES ASSUME l = <<>> PROVE FALSE
      OBVIOUS
    <3>1. Len(l) = 0
      BY <2>4
    <3> QED BY <2>3, <3>1
  <2>7. SubSeq(l, 1, Len(l)) = l
    BY <2>3, Zenon
  <2> QED BY <2>5, <2>6, <2>7
<1>2. Len(l) \in 0..Len(l)
  BY <1>1
<1> QED BY <1>1, <1>2, LinesFollow

(* What the operations append.                                              *)
LEMMA EntryValid ==
    ASSUME NEW n \in Nat, n > 0, NEW p \in Touched, NEW q \in Touched, NEW o \in {"upsert", "delete"}
    PROVE  /\ Valid(Journal!Entry(n, o, p, Journal!NoPath, 0))
           /\ Journal!Entry(n, o, p, Journal!NoPath, 0).seq = n
           /\ Valid(Journal!Entry(n, "rename", p, q, 0))
           /\ Journal!Entry(n, "rename", p, q, 0).seq = n
BY DEF Valid, EntryT, Journal!Entry

(* upsert, delete, rename and ack append such lines.                        *)
LEMMA Operations ==
    ASSUME Good(st), NEW p \in Touched, NEW q \in Touched
    PROVE  /\ Operation(st, Journal!UpsertLines(p)) /\ Operation(st, Journal!DeleteLines(p))
           /\ Operation(st, Journal!RenameLines(p, q))
           /\ \A n \in Nat : n < st.next_seq => Operation(st, <<Journal!AckLine(n)>>)
<1> DEFINE n == st.next_seq
           u == Journal!Entry(n, "upsert", p, Journal!NoPath, 0)
           d == Journal!Entry(n, "delete", p, Journal!NoPath, 0)
           x == Journal!Entry(n, "rename", p, q, 0)
           y == Journal!Entry(n + 1, "upsert", q, Journal!NoPath, 0)
<1>0. n \in Nat /\ n > 0 /\ n + 1 \in Nat /\ n + 1 > 0
  BY StateFacts DEF Good, Numbered
<1>1. /\ Valid(u) /\ u.seq = n /\ Valid(d) /\ d.seq = n /\ Valid(x) /\ x.seq = n
  BY <1>0, EntryValid
<1>2. Valid(y) /\ y.seq = n + 1
  BY <1>0, EntryValid
<1>3. Journal!UpsertLines(p) = <<u>> /\ Journal!DeleteLines(p) = <<d>>
  BY DEF Journal!UpsertLines, Journal!DeleteLines
<1>4. Journal!RenameLines(p, q) = <<x, y>> \/ Journal!RenameLines(p, q) = <<x>>
  <2>1. CASE Journal!HadUpsert(st, p)
    <3>1. Journal!RenameLines(p, q) = <<x>> \o <<y>>
      BY <2>1 DEF Journal!RenameLines
    <3> HIDE DEF x, y
    <3> QED BY <3>1, Pairs
  <2>2. CASE ~Journal!HadUpsert(st, p)
    <3>1. Journal!RenameLines(p, q) = <<x>> \o <<>>
      BY <2>2 DEF Journal!RenameLines
    <3> HIDE DEF x, y
    <3> QED BY <3>1, Pairs
  <2> QED BY <2>1, <2>2
<1> HIDE DEF u, d, x, y
<1> QED BY <1>1, <1>2, <1>3, <1>4 DEF Operation, NextLine

-----------------------------------------------------------------------------
(* The journal as it runs.                                                  *)

(* While no append, compaction or read has failed the file is whole and     *)
(* reads back as a state with the same numbering that remembers everything  *)
(* pending in memory; the very state in memory, until the file is first     *)
(* rewritten.                                                               *)
JInv ==
    /\ failed \in Nat
    /\ failed = 0 =>
         /\ ~tail /\ lines \in Seq(LineT)
         /\ Matches(Journal!replay(lines), st)
         /\ ~rewritten => Journal!replay(lines) = st

(* An empty file reads back as the empty journal.                           *)
LEMMA JInit == Journal!Init => JInv
<1> SUFFICES ASSUME Journal!Init PROVE JInv
  OBVIOUS
<1>1. st = Journal!EmptyState /\ lines = <<>> /\ tail = FALSE /\ failed = 0
  BY DEF Journal!Init
<1>2. Journal!replay(lines) = st
  BY <1>1, ApplyNone DEF Journal!replay
<1>3. Good(st)
  BY <1>1, CursorGood
<1>4. Matches(st, st)
  BY <1>3, MatchesItself
<1>5. lines \in Seq(LineT)
  BY <1>1
<1> QED BY <1>1, <1>2, <1>4, <1>5 DEF JInv

(* Without a partial line at its end the file just grows.                   *)
LEMMA WrittenIs ==
    ASSUME ~tail, lines \in Seq(LineT), NEW p, lines \o p \in Seq(LineT)
    PROVE  Journal!Written(p) = lines \o p
<1>1. CASE p = <<>>
  <2>1. lines \o p = lines
    BY <1>1
  <2>2. Journal!Written(p) = lines
    BY <1>1 DEF Journal!Written
  <2> QED BY <2>1, <2>2
<1>2. CASE p # <<>>
  BY <1>2 DEF Journal!Written
<1> QED BY <1>1, <1>2

(* An operation that is written and applied.                                *)
LEMMA CommitKeeps ==
    ASSUME JInv, NEW l, failed = 0 => Operation(st, l), Journal!Commit(l)
    PROVE  JInv'
<1> DEFINE s == Journal!ApplyLines(st, l)
           f == Journal!Written(l)
<1>0. PICK full : full = (counted + Len(l) >= CompactMin)
  OBVIOUS
<1>1. /\ st' = s /\ tail' = FALSE
      /\ \/ /\ lines' = (IF full THEN Journal!write_compacted(s) ELSE f)
            /\ rewritten' = (rewritten \/ full)
            /\ failed' = failed
         \/ failed' = failed + 1
  BY <1>0 DEF Journal!Commit
<1>9. CASE failed' = failed + 1
  <2>1. failed' \in Nat /\ failed' # 0
    BY <1>9 DEF JInv
  <2> QED BY <2>1 DEF JInv
<1>2. SUFFICES ASSUME failed = 0, failed' = failed,
                      lines' = (IF full THEN Journal!write_compacted(s) ELSE f),
                      rewritten' = (rewritten \/ full)
               PROVE  /\ ~tail' /\ lines' \in Seq(LineT) /\ Matches(Journal!replay(lines'), st')
                      /\ ~rewritten' => Journal!replay(lines') = st'
  BY <1>1, <1>2, <1>9 DEF JInv, Journal!replay, Journal!ApplyLines, Matches
<1>3. ~tail /\ lines \in Seq(LineT) /\ Matches(Journal!replay(lines), st)
      /\ (~rewritten => Journal!replay(lines) = st) /\ Operation(st, l)
  BY <1>2 DEF JInv
<1>4. Follows(lines, st, l)
  BY <1>3, OperationFollows
<1>5. /\ lines \o l \in Seq(LineT) /\ Matches(Journal!replay(lines \o l), s)
      /\ Journal!replay(lines) = st => Journal!replay(lines \o l) = s
  BY <1>4 DEF Follows
<1>6. f = lines \o l
  BY <1>3, <1>5, WrittenIs
<1> HIDE DEF s, f
<1>7. CASE full
  <2>1. Good(s)
    BY <1>5 DEF Matches
  <2>2. lines' = Journal!write_compacted(s) /\ rewritten' /\ ~tail'
    BY <1>1, <1>2, <1>7
  <2> QED BY <1>1, <2>1, <2>2, CompactedMatches
<1>8. CASE ~full
  <2>1. lines' = lines \o l /\ (rewritten' => rewritten) /\ (rewritten => rewritten') /\ ~tail'
    BY <1>1, <1>2, <1>6, <1>8
  <2> QED BY <1>1, <1>3, <1>5, <2>1
<1> QED BY <1>7, <1>8

(* The process dies while it appends, and the next one opens the file.      *)
LEMMA CrashKeeps ==
    ASSUME JInv, NEW l, failed = 0 => Operation(st, l), Journal!Crash(l)
    PROVE  JInv'
<1>1. PICK k \in 0..Len(l), torn \in BOOLEAN :
         Journal!open(Journal!Written(SubSeq(l, 1, k)), torn \/ (tail /\ k = 0))
  BY DEF Journal!Crash
<1> DEFINE f == Journal!Written(SubSeq(l, 1, k))
           s == Journal!replay(f)
           damaged == (torn \/ (tail /\ k = 0)) \/ \E i \in DOMAIN f : f[i].op = "damaged"
<1>2. \/ /\ st' = s /\ failed' = failed /\ tail' = FALSE
         /\ lines' = (IF damaged THEN Journal!write_compacted(s) ELSE f)
         /\ rewritten' = (rewritten \/ damaged)
      \/ failed' = failed + 1
  BY <1>1 DEF Journal!open
<1>0. CASE failed' = failed + 1
  <2>1. failed' \in Nat /\ failed' # 0
    BY <1>0 DEF JInv
  <2> QED BY <2>1 DEF JInv
<1>3. SUFFICES ASSUME failed = 0, st' = s, failed' = failed, tail' = FALSE,
                      lines' = (IF damaged THEN Journal!write_compacted(s) ELSE f),
                      rewritten' = (rewritten \/ damaged)
               PROVE  /\ ~tail' /\ lines' \in Seq(LineT) /\ Matches(Journal!replay(lines'), st')
                      /\ ~rewritten' => Journal!replay(lines') = st'
  BY <1>0, <1>2, <1>3 DEF JInv, Journal!replay, Journal!ApplyLines, Matches
<1>4. ~tail /\ lines \in Seq(LineT) /\ Matches(Journal!replay(lines), st) /\ Operation(st, l)
  BY <1>3 DEF JInv
<1>5. Follows(lines, st, SubSeq(l, 1, k))
  BY <1>4, LinesFollow
<1>6. /\ lines \o SubSeq(l, 1, k) \in Seq(LineT)
      /\ Good(Journal!replay(lines \o SubSeq(l, 1, k)))
  BY <1>5 DEF Follows, Matches
<1>7. f = lines \o SubSeq(l, 1, k)
  BY <1>4, <1>6, WrittenIs
<1>8. f \in Seq(LineT) /\ Good(s)
  BY <1>6, <1>7
<1> HIDE DEF s, f, damaged
<1>9. CASE damaged
  <2>1. lines' = Journal!write_compacted(s) /\ rewritten' /\ ~tail'
    BY <1>3, <1>9
  <2> QED BY <1>3, <1>8, <2>1, CompactedMatches
<1>10. CASE ~damaged
  <2>1. lines' = f /\ ~tail'
    BY <1>3, <1>10
  <2>2. Matches(s, s)
    BY <1>8, MatchesItself
  <2> QED BY <1>3, <1>8, <2>1, <2>2 DEF s
<1> QED BY <1>9, <1>10

(* Every step.                                                              *)
LEMMA JNext == JInv /\ [Journal!Next]_Journal!vars => JInv'
<1> SUFFICES ASSUME JInv, [Journal!Next]_Journal!vars PROVE JInv'
  OBVIOUS
<1>0. failed = 0 => Good(st) /\ st.next_seq \in Nat /\ st.acked \in Nat
  BY StateFacts DEF JInv, Matches, Good
<1>1. ASSUME NEW p \in Touched, Journal!Upsert(p) \/ Journal!Delete(p) PROVE JInv'
  <2>1. failed = 0 => Operation(st, Journal!UpsertLines(p)) /\ Operation(st, Journal!DeleteLines(p))
    BY <1>0, Operations
  <2>2. Journal!Commit(Journal!UpsertLines(p)) \/ Journal!Commit(Journal!DeleteLines(p))
    BY <1>1 DEF Journal!Upsert, Journal!Delete
  <2> QED BY <2>1, <2>2, CommitKeeps
<1>2. ASSUME NEW p \in Touched, NEW q \in Touched, Journal!Rename(p, q) PROVE JInv'
  <2>1. failed = 0 => Operation(st, Journal!RenameLines(p, q))
    BY <1>0, Operations
  <2>2. Journal!Commit(Journal!RenameLines(p, q))
    BY <1>2 DEF Journal!Rename
  <2> QED BY <2>1, <2>2, CommitKeeps
<1>3. ASSUME NEW n \in 0..MaxSeq, Journal!Ack(n) PROVE JInv'
  <2>0. n \in Nat /\ n < st.next_seq
    BY <1>3, TouchedAssumption DEF Journal!Ack
  <2>1. CASE n <= st.acked
    <3>1. /\ st' = Journal!ack_local(st, n) /\ lines' = lines /\ tail' = tail
          /\ failed' = failed /\ rewritten' = rewritten
      BY <1>3, <2>1 DEF Journal!Ack
    <3>2. failed = 0 => st' = st
      BY <1>0, <2>0, <2>1, <3>1, AckOld
    <3>3. CASE failed = 0
      BY <3>1, <3>2, <3>3 DEF JInv, Journal!replay, Journal!ApplyLines
    <3>4. CASE failed # 0
      BY <3>1, <3>4 DEF JInv
    <3> QED BY <3>3, <3>4
  <2>2. CASE ~(n <= st.acked)
    <3>1. Journal!Commit(<<Journal!AckLine(n)>>)
      BY <1>3, <2>2 DEF Journal!Ack
    <3>2. failed = 0 => Operation(st, <<Journal!AckLine(n)>>)
      <4>1. ASSUME failed = 0 PROVE Operation(st, <<Journal!AckLine(n)>>)
        BY <2>0 DEF Operation, NextLine
      <4> QED BY <4>1
    <3> QED BY <3>1, <3>2, CommitKeeps
  <2> QED BY <2>1, <2>2
<1>4. ASSUME NEW l \in Journal!Appending, Journal!Crash(l) PROVE JInv'
  <2>1. ASSUME failed = 0 PROVE Operation(st, l)
    <3>1. CASE \E p \in Touched : l = Journal!UpsertLines(p) \/ l = Journal!DeleteLines(p)
      BY <1>0, <2>1, <3>1, Operations
    <3>2. CASE \E p, q \in Touched : l = Journal!RenameLines(p, q)
      BY <1>0, <2>1, <3>2, Operations
    <3>3. CASE \E n \in (st.acked + 1)..(st.next_seq - 1) : l = <<Journal!AckLine(n)>>
      <4>1. PICK n \in (st.acked + 1)..(st.next_seq - 1) : l = <<Journal!AckLine(n)>>
        BY <3>3
      <4>2. n \in Nat /\ n < st.next_seq
        BY <1>0, <2>1
      <4> QED BY <4>1, <4>2 DEF Operation, NextLine
    <3> QED BY <1>4, <3>1, <3>2, <3>3 DEF Journal!Appending
  <2> QED BY <1>4, <2>1, CrashKeeps
<1>5. ASSUME NEW l \in Journal!Appending, Journal!FailedAppend(l) PROVE JInv'
  <2>1. failed' = failed + 1 /\ failed \in Nat
    BY <1>5 DEF Journal!FailedAppend, JInv
  <2>2. failed' \in Nat /\ failed' # 0
    BY <2>1
  <2> QED BY <2>2 DEF JInv
<1>6. CASE UNCHANGED Journal!vars
  <2>1. st' = st /\ lines' = lines /\ tail' = tail /\ failed' = failed /\ rewritten' = rewritten
    BY <1>6 DEF Journal!vars
  <2> QED BY <2>1 DEF JInv, Journal!replay, Journal!ApplyLines
<1> QED BY <1>1, <1>2, <1>3, <1>4, <1>5, <1>6 DEF Journal!Next

(* JInv holds at every step.                                                *)
LEMMA JInvariance == Journal!Spec => []JInv
BY JInit, JNext, PTL DEF Journal!Spec

(* action_journal.rs:8: until the file is first rewritten, reading it gives *)
(* exactly the pending entries, the acknowledged prefix and the next number *)
(* in memory, after any operations and crashes, if no append, compaction or *)
(* read of the file failed.                                                 *)
THEOREM ReplayIsExact == Journal!Spec => []ReplayReproduces
<1>1. JInv => ReplayReproduces
  BY DEF JInv, ReplayReproduces, Journal!ReplayReproduces
<1> QED BY <1>1, JInvariance, PTL

(* Across compaction, crashes and torn tails, a restart resumes at the same *)
(* number and above the same acknowledged prefix, if every start could read *)
(* the file and no append failed.                                           *)
THEOREM CursorIsKept == Journal!Spec => []CursorSurvives
<1>1. JInv => CursorSurvives
  <2> SUFFICES ASSUME JInv, failed = 0
               PROVE  LET r == Journal!replay(lines)
                      IN  /\ r.acked = st.acked /\ r.next_seq = st.next_seq
                          /\ \A e \in r.entries : e.seq > st.acked
    BY DEF CursorSurvives, Journal!CursorSurvives
  <2> DEFINE r == Journal!replay(lines)
  <2>1. Matches(r, st)
    BY DEF JInv
  <2> HIDE DEF r
  <2>2. r.acked = st.acked /\ r.next_seq = st.next_seq /\ Good(r)
    BY <2>1 DEF Matches
  <2>3. \A e \in r.entries : e.seq \in Nat /\ r.acked \in Nat /\ r.acked < e.seq
    BY <2>2, StateFacts, EntryFacts DEF Good, Numbered
  <2>4. \A e \in r.entries : e.seq > st.acked
    BY <2>2, <2>3
  <2> QED BY <2>2, <2>4 DEF r
<1> QED BY <1>1, JInvariance, PTL

(* Every path with an operation pending still has one after a restart that  *)
(* can read the file, as all did before it.                                 *)
THEOREM PathsAreKept == Journal!Spec => []NoPathForgotten
<1>1. JInv => NoPathForgotten
  <2> SUFFICES ASSUME JInv, failed = 0, NEW e \in st.entries
               PROVE  \E f \in Journal!replay(lines).entries :
                         \/ Journal!starts_with(e.path, f.path)
                         \/ f.op = "rename" /\ Journal!starts_with(e.path, f.to)
    BY DEF NoPathForgotten, Journal!NoPathForgotten
  <2>1. CoveredIn(Journal!replay(lines), e.path, e.seq)
    BY DEF JInv, Matches, Remembers
  <2> QED BY <2>1 DEF CoveredIn, Covers
<1> QED BY <1>1, JInvariance, PTL

-----------------------------------------------------------------------------
(* What is delivered, file by file.  For a file that no rename and no       *)
(* directory taken away as one has touched: the events, the entry, what the *)
(* pass has in hand and the two ledgers, and from them the file at the      *)
(* server.                                                                  *)

(* The files in a sequence.                                                 *)
Elems(q) == {q[i] : i \in 1..Len(q)}

(* Entry, event or frame x is an upsert or a delete of file l, or touches   *)
(* nothing at or above l.                                                   *)
Apart(x, l) ==
    /\ x.op \in Ops /\ x.path \in Path /\ (x.op = "rename" => x.to \in Path)
    /\ \/ x.path = l /\ x.op # "rename"
       \/ /\ ~Delivery!starts_with(l, x.path)
          /\ x.op = "rename" => ~Delivery!starts_with(l, x.to)

(* Nothing about l waits to be captured.                                    *)
Told(l) == \A x \in Elems(events) : x.path # l

(* The entries about l in a journal: one at most, under its own number, and *)
(* found by the index.                                                      *)
PendingAt(s, l) == {e \in s.entries : e.path = l}

Indexed(s, l) ==
    /\ \A e \in s.entries : Apart(e, l)
    /\ \A e, f \in s.entries : e.path = l /\ (f.seq = e.seq \/ f.path = l) => f = e
    /\ \A e \in s.entries : e.path = l =>
          /\ <<l, e.seq>> \in s.by_path
          /\ \A i \in s.by_path : i[2] = e.seq => i[1] = l
          /\ \A i \in s.by_to : i[2] # e.seq
    /\ \A i \in s.by_path \cup s.by_to : i[2] \in Nat /\ i[2] < s.next_seq

(* What was last seen of l is what is on disk.                              *)
Matching(x, l) == x.op = "upsert" <=> disk[l] # 0

EventsAt(l) ==
    /\ \A x \in Elems(events) : Apart(x, l)
    /\ \A i \in 1..Len(events) :
          events[i].path = l /\ (\A j \in 1..Len(events) : j > i => events[j].path # l)
            => Matching(events[i], l)

JournalAt(l) ==
    /\ Indexed(journal, l)
    /\ \A e \in PendingAt(journal, l) : e.at \in Nat /\ e.at <= now /\ (Told(l) => Matching(e, l))

(* What the pass has in hand: entries to decide, wires and frames.          *)
Flight == drain.pending \cup Elems(drain.wires) \cup {x \in Elems(net) : x.op # "end"}

Similar(x, e) == x.seq = e.seq /\ x.op = e.op /\ x.at = e.at

(* Entry e was captured after the pass began, which still has x.            *)
Outdates(e, x) ==
    /\ x.at < e.at /\ x.seq < e.seq /\ drain.upto < e.seq
    /\ \A p \in drain.pending : p.seq < e.seq

FlightAt(l) ==
    /\ \A x \in Flight : Apart(x, l) /\ x.seq \in Nat /\ x.seq < journal.next_seq
    /\ \A x \in Flight : x.path = l =>
          /\ x.at \in Nat /\ x.at <= now
          /\ \E e \in PendingAt(journal, l) : Similar(x, e) \/ Outdates(e, x)
    /\ \A x, y \in Flight : x.path = l /\ y.path = l => Similar(x, y)
    /\ \A x \in Flight, e \in PendingAt(journal, l) : x.seq = e.seq => x.path = l
    /\ \A x, y \in drain.pending : x.path = l /\ y.seq = x.seq => y = x
    /\ \A x \in drain.pending : x.path = l => x.seq > drain.upto

(* A ledger has no tombstone above l, and what it has of l is older than    *)
(* what is pending for it.                                                  *)
Shaped(g, l) ==
    /\ DOMAIN g = {"entries", "alive"} /\ DOMAIN g.entries = Path /\ DOMAIN g.alive = Path
    /\ \A p \in Path : Delivery!starts_with(l, p) /\ p # l => g.entries[p] = -1
    /\ g.entries[l] \in Int /\ g.alive[l] \in Nat

Older(g, l) ==
    /\ g.entries[l] <= now /\ g.alive[l] <= now
    /\ \A e \in PendingAt(journal, l) \cup Flight :
          e.path = l /\ e.op = "upsert" => g.entries[l] <= e.at
    /\ \A e \in PendingAt(journal, l) : e.op = "delete" => g.alive[l] < e.at

LedgersAt(l) == Shaped(tombs, l) /\ Shaped(theirs, l) /\ Older(tombs, l) /\ Older(theirs, l)

(* The server has l as it is on disk when nothing is pending for it, or the *)
(* pass has dealt with what is; a frame under way carries it as it is.      *)
ServedAt(l) ==
    Told(l) =>
      /\ PendingAt(journal, l) = {} => tree[l] = disk[l]
      /\ \A e \in PendingAt(journal, l) :
            /\ e.seq <= drain.upto /\ e.seq \notin owed => tree[l] = disk[l]
            /\ \A x \in Elems(net) : x.seq = e.seq /\ x.op = "upsert" => x.content = disk[l]

FileAt(l) == EventsAt(l) /\ JournalAt(l) /\ FlightAt(l) /\ LedgersAt(l) /\ ServedAt(l)

UType ==
    /\ now \in Nat /\ ops \in Nat
    /\ DOMAIN disk = Leaf /\ DOMAIN tree = Leaf
    /\ \A x \in Elems(net) : x.op \in Ops \cup {"end"}
    /\ DOMAIN old = 1..MaxLost
    /\ \A n \in 1..MaxLost : IsSeq(old[n]) /\ \A x \in Elems(old[n]) : x.op \in Ops \cup {"end"}

(* What is left of lost connections is about paths of the tree.             *)
Left ==
    ~(Leaf \subseteq moved) =>
        \A n \in 1..MaxLost : \A x \in Elems(old[n]) :
            x.op # "end" => x.path \in Path /\ (x.op = "rename" => x.to \in Path)

UInv == UType /\ Left /\ \A l \in Leaf \ moved : FileAt(l)

-----------------------------------------------------------------------------
(* Files and the paths above them.                                          *)

(* A file is below itself and no other.                                     *)
LEMMA LeafFacts ==
    ASSUME NEW l \in Leaf
    PROVE  /\ l \in Path /\ l \in Seq(STRING) /\ Len(l) \in Nat
           /\ Delivery!starts_with(l, l)
           /\ \A k \in Leaf : Delivery!starts_with(k, l) \/ Delivery!starts_with(l, k) => k = l
           /\ Delivery!Under(l) = {l}
<1>1. l \in Path /\ l \in Seq(STRING) /\ Len(l) \in Nat
  BY TreeAssumption
<1>2. Delivery!starts_with(l, l)
  BY <1>1 DEF Delivery!starts_with, Delivery!IsPrefix
<1>3. \A k \in Leaf : Delivery!starts_with(k, l) \/ Delivery!starts_with(l, k) => k = l
  BY TreeAssumption
<1> QED BY <1>1, <1>2, <1>3 DEF Delivery!Under

(* The walk from a file up.                                                 *)
LEMMA WalkFacts ==
    ASSUME NEW l \in Leaf, NEW i \in 1..Len(l)
    PROVE  LET a == Delivery!Ancestors[l]
           IN  /\ DOMAIN a = 1..Len(l) /\ a[i] \in Path
               /\ Delivery!starts_with(l, a[i])
               /\ a[i] = l <=> i = 1
<1>0. l \in Path /\ l \in Seq(STRING) /\ Len(l) \in Nat
  BY LeafFacts
<1> DEFINE n == Len(l) + 1 - i
           x == SubSeq(l, 1, n)
<1>1. n \in 1..Len(l) /\ (n = Len(l) <=> i = 1)
  BY <1>0
<1>2. DOMAIN Delivery!Ancestors[l] = 1..Len(l) /\ Delivery!Ancestors[l][i] = x
  BY <1>0 DEF Delivery!Ancestors
<1>3. x \in Path
  BY <1>0, <1>1, TreeAssumption
<1>4. x \in Seq(STRING) /\ Len(x) = n /\ \A j \in 1..n : x[j] = l[j]
  <2> HIDE DEF n
  <2> QED BY <1>0, <1>1
<1>5. SubSeq(x, 1, Len(x)) = SubSeq(l, 1, Len(x))
  <2>1. SubSeq(x, 1, n) = x
    <3> HIDE DEF x, n
    <3> QED BY <1>1, <1>4
  <2> QED BY <1>4, <2>1
<1>6. Delivery!starts_with(l, x)
  BY <1>0, <1>1, <1>4, <1>5 DEF Delivery!starts_with, Delivery!IsPrefix
<1>7. i = 1 => x = l
  BY <1>0, <1>1
<1>8. x = l => i = 1
  BY <1>0, <1>1, <1>4
<1> QED BY <1>2, <1>3, <1>6, <1>7, <1>8

(* Without a tombstone above it, a file is covered by its own, or by none.  *)
LEMMA CoveredHere ==
    ASSUME NEW l \in Leaf, NEW g, Shaped(g, l)
    PROVE  Delivery!L!covering_tombstone(g, l) \in {-1, g.entries[l]}
<1> DEFINE w == Delivery!Ancestors[l]
           a == Delivery!L!Applicable(g, l)
<1>1. \A i \in a : i \in DOMAIN w /\ g.entries[w[i]] # -1
  BY DEF Delivery!L!Applicable, Delivery!L!NoStamp
<1>2. \A i \in a : w[i] = l /\ i = 1
  <2>1. SUFFICES ASSUME NEW i \in a PROVE w[i] = l /\ i = 1
    OBVIOUS
  <2>2. DOMAIN w = 1..Len(l)
    <3>1. l \in Path /\ Len(l) \in Nat
      BY LeafFacts
    <3> QED BY <3>1 DEF Delivery!Ancestors
  <2>3. i \in 1..Len(l)
    BY <1>1, <2>2
  <2>4. w[i] \in Path /\ Delivery!starts_with(l, w[i]) /\ (w[i] = l <=> i = 1)
    BY <2>3, WalkFacts
  <2> QED BY <1>1, <2>4 DEF Shaped
<1>3. CASE a = {}
  BY <1>3 DEF Delivery!L!covering_tombstone, Delivery!L!NoStamp
<1>4. CASE a # {}
  <2>1. PICK k : k \in a
    BY <1>4
  <2>2. k = 1 /\ \A j \in a : k <= j
    BY <1>2, <2>1
  <2>3. (CHOOSE i \in a : \A j \in a : i <= j) \in a
    BY <2>1, <2>2
  <2> QED BY <1>2, <1>4, <2>3 DEF Delivery!L!covering_tombstone
<1> QED BY <1>3, <1>4

-----------------------------------------------------------------------------
(* What the operations of a ledger do at a file.                            *)

(* Ledger r is as g, at l.                                                  *)
Keeps(g, r, l) == Shaped(r, l) /\ r.entries[l] = g.entries[l] /\ r.alive[l] = g.alive[l]

(* A tombstone or a live record elsewhere.                                  *)
LEMMA RecordAway ==
    ASSUME NEW l \in Leaf, NEW g, Shaped(g, l), NEW p \in Path, ~Delivery!starts_with(l, p), NEW d
    PROVE  Keeps(g, Delivery!L!record(g, p, d), l)
<1>1. p # l /\ l \in Path
  BY LeafFacts
<1> DEFINE r == [g EXCEPT !.entries = [@ EXCEPT ![p] = d]]
<1>2. r.entries = [g.entries EXCEPT ![p] = d] /\ r.alive = g.alive /\ DOMAIN r = {"entries", "alive"}
  BY DEF Shaped
<1> HIDE DEF r
<1>3. DOMAIN r.entries = Path /\ \A q \in Path : q # p => r.entries[q] = g.entries[q]
  BY <1>2 DEF Shaped
<1>4. Keeps(g, r, l)
  BY <1>1, <1>2, <1>3 DEF Keeps, Shaped
<1>5. Keeps(g, g, l)
  BY DEF Keeps
<1> QED BY <1>4, <1>5 DEF r, Delivery!L!record

LEMMA AliveAway ==
    ASSUME NEW l \in Leaf, NEW g, Shaped(g, l), NEW p \in Path, ~Delivery!starts_with(l, p), NEW a
    PROVE  Keeps(g, Delivery!L!record_alive(g, p, a), l)
<1>1. p # l /\ l \in Path
  BY LeafFacts
<1> DEFINE x == IF g.entries[p] <= a THEN Delivery!L!NoStamp ELSE g.entries[p]
           y == Delivery!L!MaxOf(g.alive[p], a)
           r == [entries |-> [g.entries EXCEPT ![p] = x], alive |-> [g.alive EXCEPT ![p] = y]]
<1>2. Delivery!L!record_alive(g, p, a) = IF a = 0 THEN g ELSE r
  BY <1>1 DEF Delivery!L!record_alive, Shaped
<1> HIDE DEF x, y
<1>3. r.entries = [g.entries EXCEPT ![p] = x] /\ r.alive = [g.alive EXCEPT ![p] = y]
      /\ DOMAIN r = {"entries", "alive"}
  OBVIOUS
<1> HIDE DEF r
<1>4. /\ DOMAIN r.entries = Path /\ \A q \in Path : q # p => r.entries[q] = g.entries[q]
      /\ DOMAIN r.alive = Path /\ \A q \in Path : q # p => r.alive[q] = g.alive[q]
  BY <1>3 DEF Shaped
<1>5. Keeps(g, r, l)
  BY <1>1, <1>3, <1>4 DEF Keeps, Shaped
<1>6. Keeps(g, g, l)
  BY DEF Keeps
<1> QED BY <1>2, <1>5, <1>6

(* A tombstone or a live record of the file itself.                         *)
LEMMA RecordHere ==
    ASSUME NEW l \in Leaf, NEW g, Shaped(g, l), NEW d \in Int
    PROVE  LET r == Delivery!L!record(g, l, d)
           IN  Shaped(r, l) /\ r.alive[l] = g.alive[l] /\ r.entries[l] \in {g.entries[l], d}
<1>1. l \in Path
  BY LeafFacts
<1> DEFINE r == [g EXCEPT !.entries = [@ EXCEPT ![l] = d]]
<1>2. r.entries = [g.entries EXCEPT ![l] = d] /\ r.alive = g.alive /\ DOMAIN r = {"entries", "alive"}
  BY DEF Shaped
<1> HIDE DEF r
<1>3. /\ DOMAIN r.entries = Path /\ \A q \in Path : q # l => r.entries[q] = g.entries[q]
      /\ r.entries[l] = d
  BY <1>1, <1>2 DEF Shaped
<1>4. Shaped(r, l) /\ r.alive[l] = g.alive[l] /\ r.entries[l] = d
  BY <1>1, <1>2, <1>3 DEF Shaped
<1>5. Delivery!L!record(g, l, d) = g \/ Delivery!L!record(g, l, d) = r
  BY DEF r, Delivery!L!record
<1> QED BY <1>4, <1>5

LEMMA AliveHere ==
    ASSUME NEW l \in Leaf, NEW g, Shaped(g, l), NEW a \in Nat
    PROVE  LET r == Delivery!L!record_alive(g, l, a)
           IN  /\ Shaped(r, l) /\ r.alive[l] \in {g.alive[l], a} /\ r.entries[l] \in {g.entries[l], -1}
<1>1. l \in Path
  BY LeafFacts
<1> DEFINE x == IF g.entries[l] <= a THEN Delivery!L!NoStamp ELSE g.entries[l]
           y == Delivery!L!MaxOf(g.alive[l], a)
           r == [entries |-> [g.entries EXCEPT ![l] = x], alive |-> [g.alive EXCEPT ![l] = y]]
<1>2. Delivery!L!record_alive(g, l, a) = IF a = 0 THEN g ELSE r
  BY <1>1 DEF Delivery!L!record_alive, Shaped
<1>3. x \in {g.entries[l], -1} /\ y \in {g.alive[l], a} /\ x \in Int /\ y \in Nat
  BY DEF Shaped, Delivery!L!NoStamp, Delivery!L!MaxOf
<1> HIDE DEF x, y
<1>4. r.entries = [g.entries EXCEPT ![l] = x] /\ r.alive = [g.alive EXCEPT ![l] = y]
      /\ DOMAIN r = {"entries", "alive"}
  OBVIOUS
<1> HIDE DEF r
<1>5. /\ DOMAIN r.entries = Path /\ \A q \in Path : q # l => r.entries[q] = g.entries[q]
      /\ DOMAIN r.alive = Path /\ r.entries[l] = x /\ r.alive[l] = y
  BY <1>1, <1>4 DEF Shaped
<1>6. Shaped(r, l) /\ r.alive[l] = y /\ r.entries[l] = x
  BY <1>1, <1>3, <1>4, <1>5 DEF Shaped
<1> QED BY <1>2, <1>3, <1>6

(* Ledgers are exchanged.                                                   *)
LEMMA MergedHere ==
    ASSUME NEW l \in Leaf, NEW g, NEW h, Shaped(g, l), Shaped(h, l)
    PROVE  LET r == Delivery!L!merge_ledger(g, h)
           IN  /\ Shaped(r, l) /\ r.alive[l] \in {g.alive[l], h.alive[l]}
               /\ r.entries[l] \in {g.entries[l], h.entries[l], -1}
<1>1. l \in Path
  BY LeafFacts
<1> DEFINE q == Delivery!L!merge_alive(g, h.alive)
           r == Delivery!L!merge_remote(q, h.entries)
<1>2. /\ DOMAIN q = {"entries", "alive"} /\ DOMAIN q.entries = Path /\ DOMAIN q.alive = Path
      /\ \A p \in Path : q.entries[p] = g.entries[p] \/ q.entries[p] = -1
      /\ q.alive[l] = Delivery!L!MaxOf(g.alive[l], h.alive[l])
  BY <1>1 DEF Shaped, Delivery!L!merge_alive, Delivery!L!NoStamp
<1>3. q.alive[l] \in {g.alive[l], h.alive[l]}
  BY <1>2 DEF Delivery!L!MaxOf
<1> HIDE DEF q
<1> DEFINE f == [p \in Path |->
                   IF h.entries[p] = Delivery!L!NoStamp \/ Delivery!L!is_superseded(q, p, h.entries[p])
                        \/ q.entries[p] >= h.entries[p]
                   THEN q.entries[p] ELSE h.entries[p]]
<1>4. r = [q EXCEPT !.entries = f]
  BY DEF Delivery!L!merge_remote
<1>5. DOMAIN f = Path /\ \A p \in Path : f[p] = q.entries[p] \/ f[p] = h.entries[p]
  OBVIOUS
<1> HIDE DEF f, r
<1>6. DOMAIN r = {"entries", "alive"} /\ r.entries = f /\ r.alive = q.alive
  BY <1>2, <1>4
<1>7. ASSUME NEW p \in Path, Delivery!starts_with(l, p), p # l PROVE r.entries[p] = -1
  BY <1>2, <1>5, <1>6, <1>7 DEF Shaped
<1>8. r.entries[l] \in {g.entries[l], h.entries[l], -1}
  BY <1>1, <1>2, <1>5, <1>6
<1>9. r.entries[l] \in Int /\ r.alive[l] \in Nat
  BY <1>3, <1>6, <1>8 DEF Shaped
<1>10. Shaped(r, l)
  BY <1>2, <1>5, <1>6, <1>7, <1>9 DEF Shaped
<1>11. Delivery!L!merge_ledger(g, h) = r
  BY DEF r, q, Delivery!L!merge_ledger
<1> QED BY <1>3, <1>6, <1>8, <1>10, <1>11

-----------------------------------------------------------------------------
(* What applying an action, and deciding an entry, does to a file.          *)

(* A delete elsewhere,                                                      *)
LEMMA DeletedAway ==
    ASSUME NEW l \in Leaf, NEW t, NEW g, DOMAIN t = Leaf, Shaped(g, l), NEW p \in Path,
           ~Delivery!starts_with(l, p), NEW at
    PROVE  LET r == Delivery!apply_deletes(t, g, p, at)
           IN  DOMAIN r.tree = Leaf /\ r.tree[l] = t[l] /\ Keeps(g, r.ledger, l)
<1>1. l \notin Delivery!Under(p)
  BY DEF Delivery!Under
<1>2. Keeps(g, Delivery!L!record(g, p, at), l)
  BY RecordAway
<1> QED BY <1>1, <1>2 DEF Delivery!apply_deletes

(* and of the file itself.                                                  *)
LEMMA DeletedHere ==
    ASSUME NEW l \in Leaf, NEW t, NEW g, DOMAIN t = Leaf, Shaped(g, l), NEW at \in Nat
    PROVE  LET r == Delivery!apply_deletes(t, g, l, at)
           IN  /\ DOMAIN r.tree = Leaf /\ (g.alive[l] < at => r.tree[l] = 0)
               /\ Shaped(r.ledger, l) /\ r.ledger.alive[l] = g.alive[l]
               /\ r.ledger.entries[l] \in {g.entries[l], at}
<1>1. Delivery!Under(l) = {l}
  BY LeafFacts
<1> DEFINE d == Delivery!L!record(g, l, at)
<1>2. Shaped(d, l) /\ d.alive[l] = g.alive[l] /\ d.entries[l] \in {g.entries[l], at}
  BY RecordHere
<1> HIDE DEF d
<1>3. g.alive[l] < at => l \notin Delivery!Protected(g, l, at)
  BY DEF Delivery!Protected, Shaped
<1>4. /\ Delivery!apply_deletes(t, g, l, at).ledger = d
      /\ DOMAIN Delivery!apply_deletes(t, g, l, at).tree = Leaf
      /\ g.alive[l] < at => Delivery!apply_deletes(t, g, l, at).tree[l] = 0
  BY <1>1, <1>3 DEF d, Delivery!apply_deletes
<1> QED BY <1>2, <1>4

(* An action elsewhere,                                                     *)
LEMMA AppliedAway ==
    ASSUME NEW l \in Leaf, NEW t, NEW g, DOMAIN t = Leaf, Shaped(g, l),
           NEW m, Apart(m, l), m.path # l
    PROVE  LET r == Delivery!apply_action(t, g, m)
           IN  DOMAIN r.tree = Leaf /\ r.tree[l] = t[l] /\ Keeps(g, r.ledger, l)
<1>1. m.path \in Path /\ ~Delivery!starts_with(l, m.path) /\ m.op \in Ops
  BY DEF Apart
<1> DEFINE Fine(r) == DOMAIN r.tree = Leaf /\ r.tree[l] = t[l] /\ Keeps(g, r.ledger, l)
<1>2. Fine(Delivery!apply_deletes(t, g, m.path, m.at))
  BY <1>1, DeletedAway
<1>3. Keeps(g, g, l)
  BY DEF Keeps
<1>4. ASSUME NEW p \in Path, ~Delivery!starts_with(l, p)
      PROVE  Keeps(g, Delivery!L!admit_record(g, p, m.at, 0), l)
  BY <1>3, <1>4, AliveAway DEF Delivery!L!admit_record
<1>5. CASE m.op = "upsert"
  <2> DEFINE s == IF m.path \in Leaf THEN [t EXCEPT ![m.path] = m.content] ELSE t
  <2>1. DOMAIN s = Leaf /\ s[l] = t[l]
    OBVIOUS
  <2> HIDE DEF s
  <2>2. Delivery!apply_write(t, g, m) = [tree |-> t, ledger |-> g]
        \/ Delivery!apply_write(t, g, m) = [tree |-> s, ledger |-> Delivery!L!admit_record(g, m.path, m.at, 0)]
    BY DEF s, Delivery!apply_write
  <2>3. Fine(Delivery!apply_write(t, g, m))
    BY <1>1, <1>3, <1>4, <2>1, <2>2
  <2> QED BY <1>5, <2>3 DEF Delivery!apply_action
<1>6. CASE m.op = "rename"
  <2>1. m.to \in Path /\ ~Delivery!starts_with(l, m.to)
    BY <1>6 DEF Apart
  <2> DEFINE s == IF Delivery!exists(t, m.path) /\ ~Delivery!FsRenameFails(t, m.path, m.to)
                  THEN Delivery!FsRename(t, m.path, m.to) ELSE t
  <2>2. DOMAIN s = Leaf /\ s[l] = t[l]
    BY <1>1, <2>1 DEF Delivery!FsRename, Delivery!Under
  <2> HIDE DEF s
  <2>3. Delivery!apply_rename(t, g, m) = Delivery!apply_deletes(t, g, m.path, m.at)
        \/ Delivery!apply_rename(t, g, m) = [tree |-> s, ledger |-> Delivery!L!admit_record(g, m.to, m.at, 0)]
    BY DEF s, Delivery!apply_rename
  <2>4. Fine([tree |-> s, ledger |-> Delivery!L!admit_record(g, m.to, m.at, 0)])
    BY <1>4, <2>1, <2>2
  <2>5. Fine(Delivery!apply_rename(t, g, m))
    <3> HIDE DEF Fine
    <3> QED BY <1>2, <2>3, <2>4
  <2> QED BY <1>6, <2>5 DEF Delivery!apply_action
<1>7. CASE m.op = "delete"
  BY <1>2, <1>7 DEF Delivery!apply_action
<1> QED BY <1>1, <1>5, <1>6, <1>7 DEF Ops

(* and of the file itself: a write that no tombstone outdates is made.      *)
LEMMA AppliedHere ==
    ASSUME NEW l \in Leaf, NEW t, NEW g, DOMAIN t = Leaf, Shaped(g, l),
           NEW m, Apart(m, l), m.path = l, m.at \in Nat
    PROVE  LET r == Delivery!apply_action(t, g, m)
           IN  /\ DOMAIN r.tree = Leaf /\ Shaped(r.ledger, l)
               /\ m.op = "upsert" /\ g.entries[l] <= m.at =>
                     /\ r.tree[l] = m.content
                     /\ r.ledger.entries[l] \in {g.entries[l], -1} /\ r.ledger.alive[l] \in {g.alive[l], m.at}
               /\ m.op = "delete" =>
                     /\ g.alive[l] < m.at => r.tree[l] = 0
                     /\ r.ledger.entries[l] \in {g.entries[l], m.at} /\ r.ledger.alive[l] = g.alive[l]
<1>1. Delivery!starts_with(l, l)
  BY LeafFacts
<1>2. m.op = "upsert" \/ m.op = "delete"
  BY <1>1 DEF Apart, Ops
<1>3. CASE m.op = "upsert"
  <2> DEFINE a == Delivery!L!admit_record(g, l, m.at, 0)
             k == Delivery!L!record_alive(g, l, m.at)
  <2>1. Shaped(k, l) /\ k.alive[l] \in {g.alive[l], m.at} /\ k.entries[l] \in {g.entries[l], -1}
    BY AliveHere
  <2>2. a = g \/ a = k
    <3> HIDE DEF k
    <3>1. m.at # Delivery!L!NoStamp
      BY DEF Delivery!L!NoStamp
    <3> QED BY <3>1 DEF k, Delivery!L!admit_record
  <2> HIDE DEF a, k
  <2>3. Shaped(a, l) /\ a.alive[l] \in {g.alive[l], m.at} /\ a.entries[l] \in {g.entries[l], -1}
    BY <2>1, <2>2
  <2>4. g.entries[l] <= m.at => ~Delivery!L!veto_for(g, l, m.at, 0)
    <3>1. Delivery!L!covering_tombstone(g, l) \in {-1, g.entries[l]}
      BY CoveredHere
    <3>2. Delivery!L!Comparand(m.at, 0) = m.at
      BY DEF Delivery!L!Comparand, Delivery!L!NoStamp
    <3> QED BY <3>1, <3>2 DEF Delivery!L!veto_for, Shaped
  <2>5. /\ Delivery!L!veto_for(g, l, m.at, 0) => Delivery!apply_write(t, g, m) = [tree |-> t, ledger |-> g]
        /\ ~Delivery!L!veto_for(g, l, m.at, 0) =>
              Delivery!apply_write(t, g, m) = [tree |-> [t EXCEPT ![l] = m.content], ledger |-> a]
    BY DEF a, Delivery!apply_write
  <2>6. Delivery!apply_action(t, g, m) = Delivery!apply_write(t, g, m)
    BY <1>3 DEF Delivery!apply_action
  <2> QED BY <1>3, <2>3, <2>4, <2>5, <2>6
<1>4. CASE m.op = "delete"
  <2>1. Delivery!apply_action(t, g, m) = Delivery!apply_deletes(t, g, l, m.at)
    BY <1>4 DEF Delivery!apply_action
  <2> DEFINE r == Delivery!apply_deletes(t, g, l, m.at)
  <2>2. /\ DOMAIN r.tree = Leaf /\ (g.alive[l] < m.at => r.tree[l] = 0)
        /\ Shaped(r.ledger, l) /\ r.ledger.alive[l] = g.alive[l]
        /\ r.ledger.entries[l] \in {g.entries[l], m.at}
    BY DeletedHere
  <2> HIDE DEF r
  <2>3. Delivery!apply_action(t, g, m) = r
    BY <2>1 DEF r
  <2> QED BY <1>4, <2>2, <2>3
<1> QED BY <1>2, <1>3, <1>4

(* An entry about something else is decided,                                *)
LEMMA DecidedAway ==
    ASSUME NEW l \in Leaf, DOMAIN disk = Leaf, Shaped(tombs, l), NEW e, Apart(e, l), e.path # l
    PROVE  LET r == Delivery!decide(e)
           IN  /\ DOMAIN r.disk = Leaf /\ r.disk[l] = disk[l] /\ Keeps(tombs, r.ledger, l)
               /\ \/ r.send = <<>>
                  \/ \E w : r.send = <<w>> /\ w.seq = e.seq /\ Apart(w, l) /\ w.path # l
<1>1. e.path \in Path /\ ~Delivery!starts_with(l, e.path) /\ e.op \in Ops
  BY DEF Apart
<1> DEFINE Mild(d, g) == DOMAIN d = Leaf /\ d[l] = disk[l] /\ Keeps(tombs, g, l)
           Sends(s) == s = <<>> \/ \E w : s = <<w>> /\ w.seq = e.seq /\ Apart(w, l) /\ w.path # l
           Fine(r) == Mild(r.disk, r.ledger) /\ Sends(r.send)
<1>2. Keeps(tombs, tombs, l)
  BY DEF Keeps
<1>3. ASSUME NEW d, NEW g, Mild(d, g) PROVE Fine(Delivery!Settled(d, g))
  <2> DEFINE r == Delivery!Settled(d, g)
  <2>1. r.disk = d /\ r.ledger = g /\ r.send = <<>>
    BY DEF Delivery!Settled
  <2> HIDE DEF r, Mild
  <2>2. Mild(r.disk, r.ledger) /\ Sends(r.send)
    BY <1>3, <2>1
  <2> QED BY <2>2 DEF r
<1>4. ASSUME NEW d, NEW g, Mild(d, g), NEW w, w.seq = e.seq, Apart(w, l), w.path # l
      PROVE  Fine(Delivery!Send(d, g, w))
  <2> DEFINE r == Delivery!Send(d, g, w)
  <2>1. r.disk = d /\ r.ledger = g /\ r.send = <<w>>
    BY DEF Delivery!Send
  <2>2. Sends(<<w>>)
    BY <1>4
  <2> HIDE DEF r, Mild, Sends
  <2>3. Mild(r.disk, r.ledger) /\ Sends(r.send)
    BY <1>4, <2>1, <2>2
  <2> QED BY <2>3 DEF r
<1>5. ASSUME NEW p \in Path, ~Delivery!starts_with(l, p) PROVE Mild(disk, Delivery!stage_live_action(p, e.at))
  BY <1>2, <1>5, AliveAway DEF Delivery!stage_live_action
<1>6. ASSUME NEW d, NEW g, Mild(d, g), NEW p \in Path, ~Delivery!starts_with(l, p), NEW at
      PROVE  LET r == Delivery!apply_deletes(d, g, p, at) IN Mild(r.tree, r.ledger)
  <2> DEFINE r == Delivery!apply_deletes(d, g, p, at)
  <2>1. DOMAIN r.tree = Leaf /\ r.tree[l] = d[l] /\ Keeps(g, r.ledger, l)
    BY <1>6, DeletedAway DEF Keeps
  <2> HIDE DEF r
  <2>2. Mild(r.tree, r.ledger)
    BY <1>6, <2>1 DEF Keeps
  <2> QED BY <2>2 DEF r
<1>7. Mild(disk, tombs)
  BY <1>2
<1>8. CASE e.op = "upsert"
  <2> DEFINE c == Delivery!L!covering_tombstone(tombs, e.path)
             r == Delivery!apply_deletes(disk, tombs, e.path, c)
             s == Delivery!stage_live_action(e.path, e.at)
  <2>1. Mild(r.tree, r.ledger) /\ Mild(disk, s)
    BY <1>1, <1>5, <1>6, <1>7
  <2>2. \/ Delivery!DecideUpsert(e) = Delivery!Settled(disk, tombs)
        \/ Delivery!DecideUpsert(e) = Delivery!Settled(r.tree, r.ledger)
        \/ Delivery!DecideUpsert(e) = Delivery!Send(disk, s, e)
    BY DEF Delivery!DecideUpsert
  <2> HIDE DEF r, s, Mild, Fine
  <2>3. Fine(Delivery!DecideUpsert(e))
    BY <1>3, <1>4, <1>7, <2>1, <2>2
  <2>4. Delivery!decide(e) = Delivery!DecideUpsert(e)
    BY <1>8 DEF Delivery!decide
  <2>5. Fine(Delivery!decide(e))
    BY <2>3, <2>4
  <2> QED BY <2>5 DEF Fine, Mild
<1>9. CASE e.op = "rename"
  <2>0. e.to \in Path /\ ~Delivery!starts_with(l, e.to)
    BY <1>9 DEF Apart
  <2> DEFINE c == Delivery!L!covering_tombstone(tombs, e.to)
             r == Delivery!apply_deletes(disk, tombs, e.to, c)
             s == Delivery!apply_deletes(r.tree, r.ledger, e.path, e.at)
             g == Delivery!stage_live_action(e.to, e.at)
             w == Delivery!Entry(e.seq, "delete", e.path, Delivery!NoPath, e.at)
  <2>1. Mild(r.tree, r.ledger) /\ Mild(disk, g)
    BY <1>5, <1>6, <1>7, <2>0
  <2>2. \/ Delivery!DecideRename(e) = Delivery!Send(disk, g, e)
        \/ Delivery!DecideRename(e) = Delivery!Settled(r.tree, r.ledger)
        \/ Delivery!DecideRename(e) = Delivery!Send(s.tree, s.ledger, w)
    BY DEF Delivery!DecideRename
  <2> HIDE DEF r
  <2>3. Mild(s.tree, s.ledger)
    BY <1>1, <1>6, <2>1
  <2>4. w.seq = e.seq /\ Apart(w, l) /\ w.path # l
    BY <1>1 DEF Delivery!Entry, Apart, Ops
  <2> HIDE DEF s, g, w, Mild, Fine
  <2>5. Fine(Delivery!DecideRename(e))
    BY <1>3, <1>4, <2>1, <2>2, <2>3, <2>4
  <2>6. Delivery!decide(e) = Delivery!DecideRename(e)
    BY <1>9 DEF Delivery!decide
  <2>7. Fine(Delivery!decide(e))
    BY <2>5, <2>6
  <2> QED BY <2>7 DEF Fine, Mild
<1>10. CASE e.op = "delete"
  <2> DEFINE s == Delivery!L!record(tombs, e.path, e.at)
  <2>1. Mild(disk, s)
    BY <1>1, RecordAway
  <2>2. \/ Delivery!DecideDelete(e) = Delivery!Settled(disk, tombs)
        \/ Delivery!DecideDelete(e) = Delivery!Send(disk, s, e)
    BY DEF Delivery!DecideDelete
  <2> HIDE DEF s, Mild, Fine
  <2>3. Fine(Delivery!DecideDelete(e))
    BY <1>3, <1>4, <1>7, <2>1, <2>2
  <2>4. Delivery!decide(e) = Delivery!DecideDelete(e)
    BY <1>10 DEF Delivery!decide
  <2>5. Fine(Delivery!decide(e))
    BY <2>3, <2>4
  <2> QED BY <2>5 DEF Fine, Mild
<1> QED BY <1>1, <1>8, <1>9, <1>10 DEF Ops

(* and one about the file: it is sent, or the disk has moved on.            *)
LEMMA DecidedHere ==
    ASSUME NEW l \in Leaf, DOMAIN disk = Leaf, Shaped(tombs, l), NEW e, Apart(e, l), e.path = l,
           e.at \in Nat, e.op = "upsert" => tombs.entries[l] <= e.at
    PROVE  LET r == Delivery!decide(e)
           IN  /\ r.disk = disk /\ Shaped(r.ledger, l)
               /\ \/ r.send = <<>> /\ ~Matching(e, l)
                  \/ r.send = <<e>> /\ Matching(e, l)
               /\ e.op = "upsert" => /\ r.ledger.entries[l] \in {tombs.entries[l], -1}
                                     /\ r.ledger.alive[l] \in {tombs.alive[l], e.at}
               /\ e.op = "delete" => /\ r.ledger.entries[l] \in {tombs.entries[l], e.at}
                                     /\ r.ledger.alive[l] = tombs.alive[l]
<1>1. Delivery!starts_with(l, l) /\ Delivery!Under(l) = {l}
  BY LeafFacts
<1>2. e.op = "upsert" \/ e.op = "delete"
  BY <1>1 DEF Apart, Ops
<1>3. Delivery!exists(disk, l) <=> disk[l] # 0
  BY <1>1 DEF Delivery!exists
<1>4. CASE e.op = "upsert"
  <2> DEFINE k == Delivery!L!record_alive(tombs, l, e.at)
             s == Delivery!stage_live_action(l, e.at)
  <2>1. Shaped(k, l) /\ k.alive[l] \in {tombs.alive[l], e.at} /\ k.entries[l] \in {tombs.entries[l], -1}
    BY AliveHere
  <2>2. s = tombs \/ s = k
    BY DEF Delivery!stage_live_action
  <2> HIDE DEF k, s
  <2>3. ~Delivery!tombstone_beating(l, e.at)
    <3>1. Delivery!L!covering_tombstone(tombs, l) \in {-1, tombs.entries[l]}
      BY CoveredHere
    <3> QED BY <1>4, <3>1 DEF Delivery!tombstone_beating, Shaped
  <2>4. Delivery!decide(e) = IF ~Delivery!exists(disk, l) THEN Delivery!Settled(disk, tombs)
                             ELSE Delivery!Send(disk, s, e)
    BY <1>4, <2>3 DEF s, Delivery!decide, Delivery!DecideUpsert
  <2> QED BY <1>3, <1>4, <2>1, <2>2, <2>4 DEF Delivery!Settled, Delivery!Send, Matching
<1>5. CASE e.op = "delete"
  <2> DEFINE s == Delivery!L!record(tombs, l, e.at)
  <2>1. Shaped(s, l) /\ s.alive[l] = tombs.alive[l] /\ s.entries[l] \in {tombs.entries[l], e.at}
    BY RecordHere
  <2> HIDE DEF s
  <2>2. Delivery!decide(e) = IF Delivery!exists(disk, l) THEN Delivery!Settled(disk, tombs)
                             ELSE Delivery!Send(disk, s, e)
    BY <1>5 DEF s, Delivery!decide, Delivery!DecideDelete
  <2> QED BY <1>3, <1>5, <2>1, <2>2 DEF Delivery!Settled, Delivery!Send, Matching
<1> QED BY <1>2, <1>4, <1>5

-----------------------------------------------------------------------------
(* What recording an action does to the entries about a file.               *)

Sound(s, l) == JournalOK(s) /\ Indexed(s, l)

LEMMA SoundRemoved ==
    ASSUME NEW l \in Leaf, NEW s, Sound(s, l), NEW es, es \subseteq s.entries
    PROVE  LET r == Delivery!remove(s, es)
           IN  Sound(r, l) /\ r.entries = s.entries \ es /\ r.next_seq = s.next_seq
<1> DEFINE r == Delivery!remove(s, es)
<1>1. JournalOK(r) /\ r.next_seq = s.next_seq
  BY RemoveKeeps DEF Sound, Grows
<1>2. /\ r.entries = s.entries \ es
      /\ r.by_path = s.by_path \ {<<e.path, e.seq>> : e \in es}
      /\ r.by_to = s.by_to \ {<<e.to, e.seq>> : e \in {f \in es : f.op = "rename"}}
  BY DEF Delivery!remove, Sound, JournalOK
<1> HIDE DEF r
<1>3. \A e \in r.entries : Apart(e, l)
  BY <1>2 DEF Sound, Indexed
<1>4. \A e, f \in r.entries : e.path = l /\ (f.seq = e.seq \/ f.path = l) => f = e
  BY <1>2 DEF Sound, Indexed
<1>5. ASSUME NEW e \in r.entries, e.path = l
      PROVE  /\ <<l, e.seq>> \in r.by_path
             /\ \A i \in r.by_path : i[2] = e.seq => i[1] = l
             /\ \A i \in r.by_to : i[2] # e.seq
  <2>1. e \in s.entries /\ e \notin es
    BY <1>2
  <2>2. \A f \in es : f.seq # e.seq
    BY <1>5, <2>1 DEF Sound, Indexed
  <2>3. <<l, e.seq>> \notin {<<f.path, f.seq>> : f \in es}
    BY <2>2
  <2> QED BY <1>2, <1>5, <2>1, <2>3 DEF Sound, Indexed
<1>6. \A i \in r.by_path \cup r.by_to : i[2] \in Nat /\ i[2] < r.next_seq
  BY <1>1, <1>2 DEF Sound, Indexed
<1>7. Sound(r, l)
  BY <1>1, <1>3, <1>4, <1>5, <1>6 DEF Sound, Indexed
<1> QED BY <1>1, <1>2, <1>7 DEF r

LEMMA SoundInserted ==
    ASSUME NEW l \in Leaf, NEW s, Sound(s, l), NEW e, Apart(e, l), e.seq = s.next_seq,
           e.path = l => PendingAt(s, l) = {}
    PROVE  LET r == Delivery!insert(s, e)
           IN  /\ Sound(r, l)
               /\ PendingAt(r, l) = IF e.path = l THEN {e} ELSE PendingAt(s, l)
<1> DEFINE r == Delivery!insert(s, e)
           to == IF e.op = "rename" THEN {<<e.to, e.seq>>} ELSE {}
<1>0. /\ s.next_seq \in Nat /\ s.next_seq > 0 /\ e.op \in Ops
      /\ \A f \in s.entries : f.seq \in Nat /\ f.seq < s.next_seq
  BY DEF Sound, JournalOK, Issued, Apart
<1>1. JournalOK(r)
  BY <1>0, InsertKeeps DEF Sound, Grows
<1>2. /\ r.entries = {f \in s.entries : f.seq # e.seq} \cup {e}
      /\ r.by_path = s.by_path \cup {<<e.path, e.seq>>} /\ r.by_to = s.by_to \cup to
      /\ r.next_seq = IF e.seq + 1 > s.next_seq THEN e.seq + 1 ELSE s.next_seq
  BY DEF Delivery!insert, Sound, JournalOK
<1>3. r.entries = s.entries \cup {e} /\ r.next_seq = s.next_seq + 1
  BY <1>0, <1>2
<1>4. \A i \in to : i[2] = e.seq
  OBVIOUS
<1> HIDE DEF r, to
<1>5. \A f \in r.entries : Apart(f, l)
  BY <1>3 DEF Sound, Indexed
<1>6. \A f \in s.entries : f.seq # e.seq
  BY <1>0
<1>7. \A f, g \in r.entries : f.path = l /\ (g.seq = f.seq \/ g.path = l) => g = f
  <2>1. ASSUME NEW f \in r.entries, NEW g \in r.entries, f.path = l, g.seq = f.seq \/ g.path = l
        PROVE  g = f
    <3>1. CASE f \in s.entries /\ g \in s.entries
      BY <2>1, <3>1 DEF Sound, Indexed
    <3>2. CASE f = e /\ g \in s.entries
      BY <1>6, <2>1, <3>2 DEF PendingAt
    <3>3. CASE g = e /\ f \in s.entries
      BY <1>6, <2>1, <3>3 DEF PendingAt
    <3> QED BY <1>3, <2>1, <3>1, <3>2, <3>3
  <2> QED BY <2>1
<1>8. ASSUME NEW f \in r.entries, f.path = l
      PROVE  /\ <<l, f.seq>> \in r.by_path
             /\ \A i \in r.by_path : i[2] = f.seq => i[1] = l
             /\ \A i \in r.by_to : i[2] # f.seq
  <2>1. CASE f = e
    <3>1. e.op # "rename"
      BY <1>8, <2>1, LeafFacts DEF Apart
    <3>2. to = {}
      BY <3>1 DEF to
    <3>3. \A i \in s.by_path \cup s.by_to : i[2] # e.seq
      BY <1>0 DEF Sound, Indexed
    <3> QED BY <1>2, <1>8, <2>1, <3>2, <3>3
  <2>2. CASE f \in s.entries
    <3>1. f.seq # e.seq
      BY <1>6, <2>2
    <3>2. /\ <<l, f.seq>> \in s.by_path /\ \A i \in s.by_path : i[2] = f.seq => i[1] = l
          /\ \A i \in s.by_to : i[2] # f.seq
      BY <1>8, <2>2 DEF Sound, Indexed
    <3> QED BY <1>2, <1>4, <3>1, <3>2
  <2> QED BY <1>3, <2>1, <2>2
<1>9. \A i \in r.by_path \cup r.by_to : i[2] \in Nat /\ i[2] < r.next_seq
  BY <1>0, <1>2, <1>3, <1>4 DEF Sound, Indexed
<1>10. Sound(r, l)
  BY <1>1, <1>5, <1>7, <1>8, <1>9 DEF Sound, Indexed
<1>11. PendingAt(r, l) = IF e.path = l THEN {e} ELSE PendingAt(s, l)
  BY <1>3 DEF PendingAt
<1> QED BY <1>10, <1>11 DEF r

LEMMA SoundAllInserted ==
    ASSUME NEW l \in Leaf, NEW s, Sound(s, l), NEW es,
           \A g \in es : /\ Apart(g, l) /\ g.path # l /\ g.seq \in Nat /\ 0 < g.seq /\ g.seq < s.next_seq
                         /\ \A f \in s.entries : f.path = l => f.seq # g.seq
    PROVE  LET r == Delivery!InsertAll(s, es)
           IN  Sound(r, l) /\ PendingAt(r, l) = PendingAt(s, l) /\ r.next_seq = s.next_seq
<1> DEFINE r == Delivery!InsertAll(s, es)
           to == {<<e.to, e.seq>> : e \in {f \in es : f.op = "rename"}}
           pa == {<<e.path, e.seq>> : e \in es}
<1>0. Issued(es, s.next_seq)
  BY DEF Issued, Apart
<1>1. JournalOK(r) /\ r.next_seq = s.next_seq
  BY <1>0, InsertAllKeeps DEF Sound
<1>2. /\ r.entries = {f \in s.entries : \A e \in es : f.seq # e.seq} \cup es
      /\ r.by_path = s.by_path \cup pa /\ r.by_to = s.by_to \cup to
  BY DEF Delivery!InsertAll, Sound, JournalOK
<1>3. \A i \in to \cup pa : \E g \in es : i[2] = g.seq
  OBVIOUS
<1> HIDE DEF r, to, pa
<1>4. \A f \in r.entries : Apart(f, l)
  BY <1>2 DEF Sound, Indexed
<1>5. \A f \in s.entries : f.path = l => f \in r.entries /\ \A g \in es : f.seq # g.seq
  BY <1>2
<1>6. \A f \in r.entries : f.path = l => f \in s.entries
  BY <1>2
<1>7. \A f, g \in r.entries : f.path = l /\ (g.seq = f.seq \/ g.path = l) => g = f
  BY <1>2, <1>5, <1>6 DEF Sound, Indexed
<1>8. ASSUME NEW f \in r.entries, f.path = l
      PROVE  /\ <<l, f.seq>> \in r.by_path
             /\ \A i \in r.by_path : i[2] = f.seq => i[1] = l
             /\ \A i \in r.by_to : i[2] # f.seq
  <2>1. f \in s.entries /\ \A g \in es : f.seq # g.seq
    BY <1>5, <1>6, <1>8
  <2>2. /\ <<l, f.seq>> \in s.by_path /\ \A i \in s.by_path : i[2] = f.seq => i[1] = l
        /\ \A i \in s.by_to : i[2] # f.seq
    BY <1>8, <2>1 DEF Sound, Indexed
  <2>3. \A i \in to \cup pa : i[2] # f.seq
    BY <1>3, <2>1
  <2> QED BY <1>2, <2>2, <2>3
<1>9. \A i \in r.by_path \cup r.by_to : i[2] \in Nat /\ i[2] < r.next_seq
  <2>1. \A i \in to \cup pa : i[2] \in Nat /\ i[2] < s.next_seq
    BY <1>3
  <2> QED BY <1>1, <1>2, <2>1 DEF Sound, Indexed
<1>10. Sound(r, l)
  BY <1>1, <1>4, <1>7, <1>8, <1>9 DEF Sound, Indexed
<1>11. PendingAt(r, l) = PendingAt(s, l)
  BY <1>5, <1>6 DEF PendingAt
<1> QED BY <1>1, <1>10, <1>11 DEF r

(* A new entry replaces what is pending about its file; one about something *)
(* else leaves it.                                                          *)
LEMMA SoundApplied ==
    ASSUME NEW l \in Leaf, NEW s, Sound(s, l), NEW e, Apart(e, l), e.seq = s.next_seq
    PROVE  LET r == Delivery!apply(s, e)
           IN  /\ Sound(r, l)
               /\ PendingAt(r, l) = IF e.path = l THEN {e} ELSE PendingAt(s, l)
<1>0. /\ e.op \in Ops /\ (e.path # l => ~Delivery!starts_with(l, e.path))
      /\ Delivery!starts_with(l, l) /\ (e.path = l => e.op # "rename")
  BY LeafFacts DEF Apart
<1>1. \A f \in s.entries : f.path = l =>
         f.op # "rename" /\ <<l, f.seq>> \in s.by_path /\ (\A i \in s.by_path : i[2] = f.seq => i[1] = l)
           /\ \A i \in s.by_to : i[2] # f.seq
  BY LeafFacts DEF Sound, Indexed, Apart
<1>2. CASE e.op = "upsert"
  <2> DEFINE d == {f \in Delivery!At(s, Delivery!exact(s.by_path, e.path)) : f.op # "rename"}
             r == Delivery!remove(s, d)
  <2>1. Delivery!apply(s, e) = Delivery!insert(r, e)
    BY <1>2 DEF Delivery!apply, Delivery!ApplyUpsert
  <2>2. d \subseteq s.entries
    BY DEF Delivery!At
  <2>3. \A f \in s.entries : f.path = l => (f \in d <=> e.path = l)
    <3>1. ASSUME NEW f \in s.entries, f.path = l PROVE f \in d <=> e.path = l
      <4>1. f.seq \in Delivery!exact(s.by_path, l)
        <5>1. <<l, f.seq>> \in {j \in s.by_path : j[1] = l} /\ <<l, f.seq>>[2] = f.seq
          BY <1>1, <3>1
        <5> QED BY <5>1 DEF Delivery!exact
      <4>2. e.path # l => f.seq \notin Delivery!exact(s.by_path, e.path)
        BY <1>1, <3>1 DEF Delivery!exact
      <4> QED BY <1>1, <3>1, <4>1, <4>2 DEF Delivery!At
    <3> QED BY <3>1
  <2> HIDE DEF d
  <2>4. Sound(r, l) /\ r.entries = s.entries \ d /\ r.next_seq = s.next_seq
    BY <2>2, SoundRemoved
  <2> HIDE DEF r
  <2>5. PendingAt(r, l) = IF e.path = l THEN {} ELSE PendingAt(s, l)
    BY <2>3, <2>4 DEF PendingAt
  <2> QED BY <2>1, <2>4, <2>5, SoundInserted
<1>3. CASE e.op = "delete"
  <2> DEFINE ns == Delivery!under(s.by_path, e.path) \cup Delivery!under(s.by_to, e.path)
             vs == Delivery!At(s, ns)
             es == UNION {Delivery!Cut(v, e.path) : v \in vs}
             r == Delivery!remove(s, vs)
             q == Delivery!InsertAll(r, es)
  <2>1. Delivery!apply(s, e) = Delivery!insert(q, e)
    BY <1>3 DEF Delivery!apply, Delivery!ApplyDelete
  <2>2. vs \subseteq s.entries
    BY DEF Delivery!At
  <2>3. \A f \in s.entries : f.path = l => (f \in vs <=> e.path = l)
    <3>1. ASSUME NEW f \in s.entries, f.path = l PROVE f \in vs <=> e.path = l
      <4>1. f.seq \in Delivery!under(s.by_path, l)
        <5>1. /\ <<l, f.seq>> \in {j \in s.by_path : Delivery!starts_with(j[1], l)}
              /\ <<l, f.seq>>[2] = f.seq
          BY <1>0, <1>1, <3>1
        <5> QED BY <5>1 DEF Delivery!under
      <4>2. e.path # l => f.seq \notin Delivery!under(s.by_path, e.path)
        BY <1>0, <1>1, <3>1 DEF Delivery!under
      <4>3. f.seq \notin Delivery!under(s.by_to, e.path)
        BY <1>1, <3>1 DEF Delivery!under
      <4> QED BY <4>1, <4>2, <4>3 DEF Delivery!At
    <3> QED BY <3>1
  <2> HIDE DEF ns, vs
  <2>4. Sound(r, l) /\ r.entries = s.entries \ vs /\ r.next_seq = s.next_seq
    BY <2>2, SoundRemoved
  <2>5. ASSUME NEW g \in es
        PROVE  /\ Apart(g, l) /\ g.path # l /\ g.seq \in Nat /\ 0 < g.seq /\ g.seq < r.next_seq
               /\ \A f \in r.entries : f.path = l => f.seq # g.seq
    <3>1. PICK v \in vs : g \in Delivery!Cut(v, e.path)
      OBVIOUS
    <3>2. v \in s.entries /\ Apart(v, l) /\ v.seq \in Nat /\ 0 < v.seq /\ v.seq < s.next_seq
      BY <2>2 DEF Sound, Indexed, JournalOK, Issued
    <3>3. v.op = "rename"
      BY <3>1 DEF Delivery!Cut
    <3>4. /\ v.path \in Path /\ v.to \in Path /\ v.path # l /\ v.to # l
          /\ ~Delivery!starts_with(l, v.path) /\ ~Delivery!starts_with(l, v.to)
      BY <1>0, <3>2, <3>3 DEF Apart
    <3>5. g.seq = v.seq /\ Apart(g, l) /\ g.path # l
      <4>1. CASE g = v
        BY <3>2, <3>4, <4>1
      <4>2. CASE g = Delivery!Entry(v.seq, "upsert", v.to, Delivery!NoPath, v.at)
        BY <3>4, <4>2 DEF Delivery!Entry, Apart, Ops
      <4>3. CASE g = Delivery!Entry(v.seq, "delete", v.path, Delivery!NoPath, v.at)
        BY <3>4, <4>3 DEF Delivery!Entry, Apart, Ops
      <4> QED BY <3>1, <4>1, <4>2, <4>3 DEF Delivery!Cut
    <3>6. \A f \in r.entries : f.path = l => f.seq # v.seq
      <4>1. ASSUME NEW f \in r.entries, f.path = l, f.seq = v.seq PROVE FALSE
        <5>1. f = v
          BY <2>4, <3>2, <4>1 DEF Sound, Indexed
        <5> QED BY <3>4, <4>1, <5>1
      <4> QED BY <4>1
    <3> QED BY <2>4, <3>2, <3>5, <3>6
  <2> HIDE DEF es, r
  <2>6. Sound(q, l) /\ PendingAt(q, l) = PendingAt(r, l) /\ q.next_seq = r.next_seq
    BY <2>4, <2>5, SoundAllInserted
  <2> HIDE DEF q
  <2>7. PendingAt(q, l) = IF e.path = l THEN {} ELSE PendingAt(s, l)
    BY <2>3, <2>4, <2>6 DEF PendingAt
  <2> QED BY <2>1, <2>4, <2>6, <2>7, SoundInserted
<1>4. CASE e.op = "rename"
  <2> DEFINE d == {f \in Delivery!At(s, Delivery!exact(s.by_path, e.path)) : f.op = "upsert"}
             r == Delivery!remove(s, d)
             c == {f \in Delivery!At(r, Delivery!exact(r.by_path, e.to)) : f.op # "rename"}
             q == Delivery!remove(r, c)
  <2>0. e.path # l /\ e.to # l
    BY <1>0, <1>4 DEF Apart
  <2>1. Delivery!apply(s, e) = Delivery!insert(q, e)
    BY <1>4 DEF Delivery!apply, Delivery!ApplyRename
  <2>2. d \subseteq s.entries /\ \A f \in d : f.path # l
    <3>1. ASSUME NEW f \in s.entries, f.path = l PROVE f.seq \notin Delivery!exact(s.by_path, e.path)
      BY <1>1, <2>0, <3>1 DEF Delivery!exact
    <3> QED BY <3>1 DEF Delivery!At
  <2> HIDE DEF d
  <2>3. Sound(r, l) /\ r.entries = s.entries \ d /\ r.next_seq = s.next_seq
    BY <2>2, SoundRemoved
  <2> HIDE DEF r
  <2>4. c \subseteq r.entries /\ \A f \in c : f.path # l
    <3>1. ASSUME NEW f \in r.entries, f.path = l PROVE f.seq \notin Delivery!exact(r.by_path, e.to)
      <4>1. \A i \in r.by_path : i[2] = f.seq => i[1] = l
        BY <2>3, <3>1 DEF Sound, Indexed
      <4> QED BY <2>0, <4>1 DEF Delivery!exact
    <3> QED BY <3>1 DEF Delivery!At
  <2> HIDE DEF c
  <2>5. Sound(q, l) /\ q.entries = r.entries \ c /\ q.next_seq = r.next_seq
    BY <2>3, <2>4, SoundRemoved
  <2> HIDE DEF q
  <2>6. PendingAt(q, l) = PendingAt(s, l)
    BY <2>2, <2>3, <2>4, <2>5 DEF PendingAt
  <2> QED BY <2>0, <2>1, <2>3, <2>5, <2>6, SoundInserted
<1> QED BY <1>0, <1>2, <1>3, <1>4 DEF Ops

(* One more entry at its own number,                                        *)
LEMMA SoundAppended ==
    ASSUME NEW l \in Leaf, NEW s, Sound(s, l), NEW op \in {"upsert", "delete"}, NEW p \in Path, NEW at,
           p = l \/ ~Delivery!starts_with(l, p)
    PROVE  LET r == Delivery!append(s, op, p, at)
               e == Delivery!Entry(s.next_seq, op, l, Delivery!NoPath, at)
           IN  Sound(r, l) /\ PendingAt(r, l) = IF p = l THEN {e} ELSE PendingAt(s, l)
<1> DEFINE e == Delivery!Entry(s.next_seq, op, p, Delivery!NoPath, at)
<1>1. e.seq = s.next_seq /\ e.op = op /\ e.path = p
  BY DEF Delivery!Entry
<1>2. Apart(e, l)
  BY <1>1 DEF Apart, Ops
<1>3. Delivery!append(s, op, p, at) = Delivery!apply(s, e)
  BY DEF Delivery!append
<1>4. p = l => e = Delivery!Entry(s.next_seq, op, l, Delivery!NoPath, at)
  OBVIOUS
<1> HIDE DEF e
<1> DEFINE r == Delivery!apply(s, e)
<1>5. Sound(r, l) /\ PendingAt(r, l) = IF e.path = l THEN {e} ELSE PendingAt(s, l)
  BY <1>1, <1>2, SoundApplied
<1> HIDE DEF r
<1>6. Delivery!append(s, op, p, at) = r
  BY <1>3 DEF r
<1> QED BY <1>1, <1>4, <1>5, <1>6

(* a rename elsewhere,                                                      *)
LEMMA SoundRenamed ==
    ASSUME NEW l \in Leaf, NEW s, Sound(s, l), NEW p \in Path, NEW q \in Path, NEW at,
           ~Delivery!starts_with(l, p), ~Delivery!starts_with(l, q)
    PROVE  LET r == Delivery!rename(s, p, q, at)
           IN  Sound(r, l) /\ PendingAt(r, l) = PendingAt(s, l)
<1> DEFINE e == Delivery!Entry(s.next_seq, "rename", p, q, at)
           r == Delivery!apply(s, e)
           u == Delivery!append(r, "upsert", q, at)
<1>0. p # l /\ q # l
  BY LeafFacts
<1>1. e.seq = s.next_seq /\ e.op = "rename" /\ e.path = p /\ e.to = q
  BY DEF Delivery!Entry
<1>2. Apart(e, l)
  BY <1>1 DEF Apart, Ops
<1>3. Delivery!rename(s, p, q, at) = r \/ Delivery!rename(s, p, q, at) = u
  BY DEF Delivery!rename
<1> HIDE DEF e
<1>4. Sound(r, l) /\ PendingAt(r, l) = PendingAt(s, l)
  BY <1>0, <1>1, <1>2, SoundApplied
<1> HIDE DEF r
<1>5. Sound(u, l) /\ PendingAt(u, l) = PendingAt(r, l)
  BY <1>0, <1>4, SoundAppended
<1> HIDE DEF u
<1> QED BY <1>3, <1>4, <1>5

(* and an acknowledgement.                                                  *)
LEMMA SoundAcked ==
    ASSUME NEW l \in Leaf, NEW s, Sound(s, l), NEW n \in Nat, n < s.next_seq
    PROVE  LET r == Delivery!ack_local(s, n)
           IN  Sound(r, l) /\ PendingAt(r, l) = {e \in PendingAt(s, l) : e.seq > n}
<1> DEFINE es == {e \in s.entries : e.seq <= n}
           q == Delivery!remove(s, es)
           r == Delivery!ack_local(s, n)
<1>1. Sound(q, l) /\ q.entries = s.entries \ es /\ q.next_seq = s.next_seq
  BY SoundRemoved
<1>2. r = [q EXCEPT !.acked = IF n > @ THEN n ELSE @, !.next_seq = IF n + 1 > @ THEN n + 1 ELSE @]
  BY DEF Delivery!ack_local
<1>3. /\ JournalOK(r) /\ r.next_seq = s.next_seq /\ r.entries = {e \in s.entries : e.seq > n}
  BY AckKeeps DEF Sound
<1>4. DOMAIN q = {"entries", "by_path", "by_to", "acked", "next_seq"}
  BY <1>1 DEF Sound, JournalOK
<1> HIDE DEF q, r
<1>5. r.by_path = q.by_path /\ r.by_to = q.by_to /\ r.entries = q.entries
  BY <1>2, <1>4
<1>6. Indexed(r, l)
  BY <1>1, <1>3, <1>5 DEF Sound, Indexed
<1>7. Sound(r, l) /\ PendingAt(r, l) = {e \in PendingAt(s, l) : e.seq > n}
  BY <1>3, <1>6 DEF Sound, PendingAt
<1> QED BY <1>7 DEF r

-----------------------------------------------------------------------------
(* The members of a queue.                                                  *)

LEMMA ElemsTail ==
    ASSUME NEW q, IsSeq(q), q # <<>>
    PROVE  /\ Head(q) \in Elems(q) /\ Elems(Tail(q)) \subseteq Elems(q)
           /\ \A x \in Elems(q) : x = Head(q) \/ x \in Elems(Tail(q))
<1>1. /\ Len(q) \in Nat /\ Len(q) > 0 /\ Head(q) = q[1] /\ Len(Tail(q)) = Len(q) - 1
      /\ \A i \in 1..(Len(q) - 1) : Tail(q)[i] = q[i + 1]
  BY TailFacts
<1>2. Head(q) \in Elems(q)
  BY <1>1 DEF Elems
<1>3. ASSUME NEW x \in Elems(Tail(q)) PROVE x \in Elems(q)
  <2>1. PICK i \in 1..(Len(q) - 1) : x = q[i + 1]
    BY <1>1 DEF Elems
  <2>2. i + 1 \in 1..Len(q)
    BY <1>1
  <2> QED BY <2>1, <2>2 DEF Elems
<1>4. ASSUME NEW x \in Elems(q), x # Head(q) PROVE x \in Elems(Tail(q))
  <2>1. PICK i \in 1..Len(q) : x = q[i]
    BY DEF Elems
  <2>2. i # 1
    BY <1>1, <1>4, <2>1
  <2>3. i - 1 \in 1..(Len(q) - 1) /\ (i - 1) + 1 = i
    BY <1>1, <2>2
  <2>4. Tail(q)[i - 1] = x
    BY <1>1, <2>1, <2>3
  <2> QED BY <1>1, <2>3, <2>4 DEF Elems
<1> QED BY <1>2, <1>3, <1>4

LEMMA ElemsAppend ==
    ASSUME NEW q, NEW x, IsSeq(q)
    PROVE  Elems(Append(q, x)) = Elems(q) \cup {x}
<1> DEFINE r == Append(q, x)
<1>1. /\ Len(q) \in Nat /\ Len(r) = Len(q) + 1
      /\ \A i \in 1..Len(q) : r[i] = q[i]
      /\ r[Len(q) + 1] = x
  BY AppendFacts
<1> HIDE DEF r
<1>2. ASSUME NEW y \in Elems(r) PROVE y \in Elems(q) \cup {x}
  <2>1. PICK i \in 1..(Len(q) + 1) : y = r[i]
    BY <1>1 DEF Elems
  <2>2. i \in 1..Len(q) \/ i = Len(q) + 1
    BY <1>1
  <2> QED BY <1>1, <2>1, <2>2 DEF Elems
<1>3. ASSUME NEW y \in Elems(q) PROVE y \in Elems(r)
  <2>1. PICK i \in 1..Len(q) : y = q[i]
    BY DEF Elems
  <2>2. i \in 1..Len(r) /\ r[i] = y
    BY <1>1, <2>1
  <2> QED BY <2>2 DEF Elems
<1>4. x \in Elems(r)
  <2>1. Len(q) + 1 \in 1..Len(r)
    BY <1>1
  <2> QED BY <1>1, <2>1 DEF Elems
<1>5. Elems(r) = Elems(q) \cup {x}
  BY <1>2, <1>3, <1>4
<1> QED BY <1>5 DEF r

LEMMA ElemsNone == Elems(<<>>) = {}
BY EmptyCarries DEF Elems

-----------------------------------------------------------------------------
(* Every step keeps what is known of a file.                                *)

(* What is pending about a file, and what is in hand of it.                 *)
LEMMA InHand ==
    ASSUME NEW l \in Leaf, FileAt(l), NEW x \in Flight, x.path = l
    PROVE  /\ x.at \in Nat /\ x.at <= now /\ x.seq \in Nat
           /\ \E e \in PendingAt(journal, l) :
                 /\ PendingAt(journal, l) = {e} /\ e.at \in Nat /\ e.path = l
                 /\ Similar(x, e) \/ Outdates(e, x)
<1>1. PICK e \in PendingAt(journal, l) : Similar(x, e) \/ Outdates(e, x)
  BY DEF FileAt, FlightAt
<1>2. \A f \in PendingAt(journal, l) : f = e
  BY DEF FileAt, JournalAt, Indexed, PendingAt
<1>3. PendingAt(journal, l) = {e} /\ e.at \in Nat /\ e.path = l
  BY <1>2 DEF FileAt, JournalAt, PendingAt
<1> QED BY <1>1, <1>3 DEF FileAt, FlightAt

(* The pass has less in hand, or nothing.                                   *)
LEMMA Shrinks ==
    ASSUME NEW l \in Leaf, DInv, FileAt(l),
           UNCHANGED <<disk, events, now, journal, tombs, theirs, tree, owed>>,
           drain'.pending \subseteq drain.pending, Elems(drain'.wires) \subseteq Elems(drain.wires),
           \A x \in Elems(net') : x.op # "end" => x \in Elems(net),
           drain'.upto = 0 \/ drain'.upto = drain.upto
    PROVE  FileAt(l)'
<1>1. /\ Flight' \subseteq Flight
      /\ \A x \in Elems(net') : x.op = "upsert" => x \in Elems(net)
  BY DEF Flight
<1>2. /\ \A e \in PendingAt(journal, l) : e.seq \in Nat /\ 0 < e.seq
      /\ \A x \in drain.pending : x.seq \in Nat /\ 0 < x.seq
  BY DEF PendingAt, DInv, DType, JournalOK, Issued
<1>3. EventsAt(l)' /\ JournalAt(l)'
  BY DEF FileAt, EventsAt, JournalAt, Told, Matching
<1>4. \A e \in PendingAt(journal, l) : \A x : Outdates(e, x) => Outdates(e, x)'
  BY <1>2 DEF Outdates
<1>5. FlightAt(l)'
  <2>1. \A x \in Flight' : x.path = l =>
          \E e \in PendingAt(journal, l) : Similar(x, e) \/ Outdates(e, x)'
    BY <1>1, <1>4 DEF FileAt, FlightAt
  <2> QED BY <1>1, <1>2, <2>1 DEF FileAt, FlightAt, Similar
<1>6. LedgersAt(l)'
  BY <1>1 DEF FileAt, LedgersAt, Shaped, Older
<1>7. ServedAt(l)'
  BY <1>1, <1>2 DEF FileAt, ServedAt, Told
<1> QED BY <1>3, <1>5, <1>6, <1>7 DEF FileAt

(* A wire or a frame dealt with leaves the ledgers older than what is left. *)
LEMMA OlderApplied ==
    ASSUME NEW l \in Leaf, FileAt(l), now \in Nat, NEW g, Shaped(g, l), Older(g, l), NEW r, Shaped(r, l),
           NEW x \in Flight, x.path = l,
           x.op = "upsert" => r.entries[l] \in {g.entries[l], -1} /\ r.alive[l] \in {g.alive[l], x.at},
           x.op = "delete" => r.entries[l] \in {g.entries[l], x.at} /\ r.alive[l] = g.alive[l]
    PROVE  Older(r, l)
<1>1. x.at \in Nat /\ x.at <= now /\ x.seq \in Nat
  BY InHand
<1>2. PICK e \in PendingAt(journal, l) :
         /\ PendingAt(journal, l) = {e} /\ e.at \in Nat /\ e.path = l
         /\ Similar(x, e) \/ Outdates(e, x)
  BY InHand
<1>3. /\ Similar(x, e) => e.op = x.op /\ e.at = x.at
      /\ Outdates(e, x) => x.at < e.at
  BY DEF Similar, Outdates
<1>4. \A y \in Flight : y.path = l => y.op = x.op /\ y.at = x.at
  BY DEF FileAt, FlightAt, Similar
<1>5. x.op = "upsert" \/ x.op = "delete"
  BY LeafFacts DEF FileAt, FlightAt, Apart, Ops
<1>6. g.entries[l] \in Int /\ g.alive[l] \in Nat
  BY DEF Shaped
<1>7. r.entries[l] <= now /\ r.alive[l] <= now
  BY <1>1, <1>5, <1>6 DEF Older
<1>8. ASSUME NEW y \in PendingAt(journal, l) \cup Flight, y.path = l, y.op = "upsert"
      PROVE  r.entries[l] <= y.at
  <2>1. y.at \in Nat /\ g.entries[l] <= y.at
    BY <1>2, <1>8, InHand DEF Older
  <2>2. CASE x.op = "upsert"
    BY <1>6, <2>1, <2>2
  <2>3. CASE x.op = "delete"
    <3>1. y \notin Flight
      BY <1>4, <1>8, <2>3
    <3>2. y = e /\ Outdates(e, x)
      BY <1>2, <1>3, <1>8, <2>3, <3>1
    <3> QED BY <1>1, <1>3, <1>6, <2>1, <2>3, <3>2
  <2> QED BY <1>5, <2>2, <2>3
<1>9. ASSUME NEW y \in PendingAt(journal, l), y.op = "delete"
      PROVE  r.alive[l] < y.at
  <2>1. y = e /\ y.at \in Nat /\ g.alive[l] < y.at
    BY <1>2, <1>9 DEF Older
  <2>2. CASE x.op = "upsert"
    BY <1>1, <1>2, <1>3, <1>6, <1>9, <2>1, <2>2
  <2>3. CASE x.op = "delete"
    BY <2>1, <2>3
  <2> QED BY <1>5, <2>2, <2>3
<1> QED BY <1>7, <1>8, <1>9 DEF Older

(* Older ledgers merge into older ones.                                     *)
LEMMA OlderMerged ==
    ASSUME NEW l \in Leaf, FileAt(l), now \in Nat, NEW g, NEW h, Older(g, l), Older(h, l), NEW r,
           r.alive[l] \in {g.alive[l], h.alive[l]},
           r.entries[l] \in {g.entries[l], h.entries[l], -1}
    PROVE  Older(r, l)
<1>1. \A e \in PendingAt(journal, l) \cup Flight : e.path = l => e.at \in Nat
  BY DEF FileAt, JournalAt, FlightAt
<1> QED BY <1>1 DEF Older

(* The steps that leave the file and what is recorded of it alone.          *)
LEMMA FileKept ==
    ASSUME NEW l \in Leaf, DInv, FileAt(l),
           \/ Delivery!Disconnect \/ Delivery!CloseChunk \/ Delivery!StopUnstable
           \/ Delivery!SendBatchEnd \/ Delivery!ServerAck \/ Delivery!ServerApplyFails
    PROVE  FileAt(l)'
<1>0. /\ IsSeq(net) /\ IsSeq(drain.wires) /\ DOMAIN drain = {"pc", "pending", "wires", "upto", "stop"}
      /\ drain.upto \in Nat /\ drain.wires = drain.wires
  BY DEF DInv, DType
<1>1. UNCHANGED <<disk, events, now, journal, tombs, theirs, tree, owed>>
  BY DEF Delivery!Disconnect, Delivery!CloseChunk, Delivery!StopUnstable, Delivery!SendBatchEnd,
         Delivery!ServerAck, Delivery!ServerApplyFails, Delivery!client, Delivery!server,
         Delivery!history
<1>2. /\ drain'.pending \subseteq drain.pending /\ Elems(drain'.wires) \subseteq Elems(drain.wires)
      /\ drain'.upto = 0 \/ drain'.upto = drain.upto
  <2>1. \/ drain' = Delivery!Idle \/ drain' = drain
        \/ drain' = [drain EXCEPT !.pc = "send"] \/ drain' = [drain EXCEPT !.pc = "await"]
        \/ drain' = [drain EXCEPT !.pc = "send", !.stop = TRUE]
    BY DEF Delivery!Disconnect, Delivery!CloseChunk, Delivery!StopUnstable, Delivery!SendBatchEnd,
           Delivery!ServerAck, Delivery!ServerApplyFails
  <2>2. CASE drain' = Delivery!Idle
    BY <2>2, IdleFacts, ElemsNone
  <2>3. CASE drain' # Delivery!Idle
    <3>1. drain'.pending = drain.pending /\ drain'.wires = drain.wires /\ drain'.upto = drain.upto
      BY <1>0, <2>1, <2>3
    <3> QED BY <3>1
  <2> QED BY <2>2, <2>3
<1>3. \A x \in Elems(net') : x.op # "end" => x \in Elems(net)
  <2> DEFINE z == Delivery!Frame("end", drain.upto, Delivery!NoPath, Delivery!NoPath, 0, 0)
  <2>1. \/ net' = <<>> \/ net' = net \/ (net # <<>> /\ net' = Tail(net)) \/ net' = Append(net, z)
    BY DEF Delivery!Disconnect, Delivery!CloseChunk, Delivery!StopUnstable, Delivery!SendBatchEnd,
           Delivery!ServerAck, Delivery!ServerApplyFails
  <2>2. z.op = "end"
    BY DEF Delivery!Frame
  <2> HIDE DEF z
  <2>3. CASE net' = <<>>
    BY <2>3, ElemsNone
  <2>4. CASE net # <<>> /\ net' = Tail(net)
    BY <1>0, <2>4, ElemsTail
  <2>5. CASE net' = Append(net, z)
    BY <1>0, <2>2, <2>5, ElemsAppend
  <2> QED BY <2>1, <2>3, <2>4, <2>5
<1> QED BY <1>1, <1>2, <1>3, Shrinks

(* A pass takes up what is pending.                                         *)
LEMMA FileStartPass ==
    ASSUME NEW l \in Leaf, DInv, FileAt(l), Delivery!StartPass
    PROVE  FileAt(l)'
<1>1. /\ UNCHANGED <<disk, events, now, journal, tombs, theirs, tree, owed, net>>
      /\ drain.pc = "idle" /\ drain' = [Delivery!Idle EXCEPT !.pc = "decide", !.pending = journal.entries]
  BY DEF Delivery!StartPass, Delivery!client, Delivery!server, Delivery!history
<1>2. drain'.pending = journal.entries /\ drain'.wires = <<>> /\ drain'.upto = 0 /\ net = <<>>
  BY <1>1, IdleFacts DEF DInv, Phases
<1>3. Flight' = journal.entries
  BY <1>1, <1>2, ElemsNone DEF Flight
<1>4. \A e \in journal.entries : e.seq \in Nat /\ 0 < e.seq /\ e.seq < journal.next_seq
  BY DEF DInv, DType, JournalOK, Issued
<1>5. \A e \in journal.entries : e.path = l => e \in PendingAt(journal, l) /\ e.at \in Nat /\ e.at <= now
  BY DEF FileAt, JournalAt, PendingAt
<1>6. \A e, f \in journal.entries : e.path = l /\ (f.seq = e.seq \/ f.path = l) => f = e
  BY DEF FileAt, JournalAt, Indexed
<1>7. EventsAt(l)' /\ JournalAt(l)'
  BY <1>1 DEF FileAt, EventsAt, JournalAt, Told, Matching
<1>8. FlightAt(l)'
  <2>1. \A x \in Flight' : Apart(x, l) /\ x.seq \in Nat /\ x.seq < journal.next_seq
    BY <1>3, <1>4 DEF FileAt, JournalAt, Indexed
  <2>2. \A x \in Flight' : x.path = l =>
           /\ x.at \in Nat /\ x.at <= now
           /\ \E e \in PendingAt(journal, l) : Similar(x, e)
    BY <1>3, <1>5 DEF Similar
  <2>3. \A x, y \in Flight' : x.path = l /\ y.path = l => Similar(x, y)
    BY <1>3, <1>6 DEF Similar
  <2>4. \A x \in Flight', e \in PendingAt(journal, l) : x.seq = e.seq => x.path = l
    BY <1>3, <1>6 DEF PendingAt
  <2>5. \A x, y \in journal.entries : x.path = l /\ y.seq = x.seq => y = x
    BY <1>6
  <2> QED BY <1>1, <1>2, <1>4, <2>1, <2>2, <2>3, <2>4, <2>5 DEF FlightAt, Similar
<1>9. LedgersAt(l)'
  BY <1>1, <1>3, <1>5 DEF FileAt, LedgersAt, Shaped, Older
<1>10. ServedAt(l)'
  BY <1>1, <1>2, <1>4, ElemsNone DEF FileAt, ServedAt, Told, PendingAt
<1> QED BY <1>7, <1>8, <1>9, <1>10 DEF FileAt

(* Ledgers are exchanged.                                                   *)
LEMMA FileConnect ==
    ASSUME NEW l \in Leaf, now \in Nat, FileAt(l), Delivery!Connect
    PROVE  FileAt(l)'
<1>1. /\ UNCHANGED <<disk, events, now, journal, drain, net, tree, owed>>
      /\ tombs' = Delivery!L!merge_ledger(tombs, theirs)
      /\ theirs' = Delivery!L!merge_ledger(theirs, tombs')
  BY DEF Delivery!Connect, Delivery!history
<1>2. Shaped(tombs, l) /\ Shaped(theirs, l) /\ Older(tombs, l) /\ Older(theirs, l)
  BY DEF FileAt, LedgersAt
<1>3. /\ Shaped(tombs', l) /\ tombs'.alive[l] \in {tombs.alive[l], theirs.alive[l]}
      /\ tombs'.entries[l] \in {tombs.entries[l], theirs.entries[l], -1}
  BY <1>1, <1>2, MergedHere
<1>4. Older(tombs', l)
  BY <1>2, <1>3, OlderMerged
<1>5. /\ Shaped(theirs', l) /\ theirs'.alive[l] \in {theirs.alive[l], tombs'.alive[l]}
      /\ theirs'.entries[l] \in {theirs.entries[l], tombs'.entries[l], -1}
  BY <1>1, <1>2, <1>3, MergedHere
<1>6. Older(theirs', l)
  BY <1>2, <1>4, <1>5, OlderMerged
<1>7. LedgersAt(l)'
  BY <1>1, <1>3, <1>4, <1>5, <1>6 DEF LedgersAt, Shaped, Older, Flight
<1>8. EventsAt(l)' /\ JournalAt(l)' /\ FlightAt(l)' /\ ServedAt(l)'
  BY <1>1 DEF FileAt, EventsAt, JournalAt, FlightAt, ServedAt, Told, Matching, Flight, Outdates
<1> QED BY <1>7, <1>8 DEF FileAt

(* What a user does to other files leaves the file, and what is done to the *)
(* file is told last.                                                       *)
LEMMA FileActed ==
    ASSUME NEW l \in Leaf, DInv, FileAt(l), NEW t, NEW x, Delivery!Act(t, x), Apart(x, l),
           IF x.path = l THEN x.op = "upsert" <=> t[l] # 0 ELSE t[l] = disk[l]
    PROVE  FileAt(l)'
<1>1. /\ events' = Append(events, x) /\ disk' = t
      /\ UNCHANGED <<now, journal, tombs, drain, net, theirs, tree, owed>>
  BY DEF Delivery!Act, Delivery!server
<1>2. IsSeq(events)
  BY DEF DInv, DType
<1>3. Elems(events') = Elems(events) \cup {x}
  BY <1>1, <1>2, ElemsAppend
<1>4. /\ Len(events) \in Nat /\ Len(events') = Len(events) + 1
      /\ \A i \in 1..Len(events) : events'[i] = events[i]
      /\ events'[Len(events) + 1] = x
  BY <1>1, <1>2, AppendFacts
<1>5. Told(l)' => Told(l) /\ disk'[l] = disk[l]
  BY <1>1, <1>3 DEF Told
<1>6. EventsAt(l)'
  <2>1. \A y \in Elems(events') : Apart(y, l)
    BY <1>3 DEF FileAt, EventsAt
  <2>2. ASSUME NEW i \in 1..Len(events'), events'[i].path = l,
               \A j \in 1..Len(events') : j > i => events'[j].path # l
        PROVE  events'[i].op = "upsert" <=> disk'[l] # 0
    <3>1. CASE x.path = l
      <4>1. Len(events) + 1 \in 1..Len(events') /\ (i # Len(events) + 1 => Len(events) + 1 > i)
        BY <1>4
      <4>2. events'[i] = x
        BY <1>4, <2>2, <3>1, <4>1
      <4> QED BY <1>1, <3>1, <4>2 DEF Matching
    <3>2. CASE x.path # l
      <4>1. i \in 1..Len(events) /\ events'[i] = events[i]
        BY <1>4, <2>2, <3>2
      <4>2. \A j \in 1..Len(events) : j > i => events[j].path # l
        BY <1>4, <2>2
      <4>3. Matching(events[i], l)
        BY <2>2, <4>1, <4>2 DEF FileAt, EventsAt
      <4> QED BY <1>1, <3>2, <4>1, <4>3 DEF Matching
    <3> QED BY <3>1, <3>2
  <2> QED BY <2>1, <2>2 DEF EventsAt, Matching
<1>7. JournalAt(l)'
  <2>1. ASSUME NEW e \in PendingAt(journal, l), Told(l)' PROVE Matching(e, l)'
    BY <1>5, <2>1 DEF FileAt, JournalAt, Matching
  <2> QED BY <1>1, <2>1 DEF FileAt, JournalAt
<1>8. FlightAt(l)' /\ LedgersAt(l)'
  BY <1>1 DEF FileAt, FlightAt, LedgersAt, Shaped, Older, Flight, Outdates
<1>9. ServedAt(l)'
  BY <1>1, <1>5 DEF FileAt, ServedAt
<1> QED BY <1>6, <1>7, <1>8, <1>9 DEF FileAt

LEMMA FileUser ==
    ASSUME NEW l \in Leaf, DInv, UType, FileAt(l), Delivery!User, l \notin moved'
    PROVE  FileAt(l)'
<1>0. l \in Path /\ Delivery!starts_with(l, l) /\ Leaf \subseteq Path
      /\ \A k \in Leaf : Delivery!starts_with(l, k) => k = l
  BY LeafFacts, TreeAssumption
<1>1. ASSUME NEW p \in Leaf, Delivery!UserWrite(p) PROVE FileAt(l)'
  <2> DEFINE x == [op |-> "upsert", path |-> p, to |-> Delivery!NoPath]
             t == [disk EXCEPT ![p] = Delivery!Fresh]
  <2>1. x.op = "upsert" /\ x.path = p
    OBVIOUS
  <2>2. Delivery!Act(t, x)
    BY <1>1 DEF Delivery!UserWrite
  <2>3. Delivery!Fresh # 0
    <3>1. Cardinality(Leaf) \in Nat
      BY TreeAssumption, FS_CardinalityType
    <3>2. Delivery!Cardinality(Leaf) = Cardinality(Leaf)
      BY DEF Delivery!Cardinality, Cardinality
    <3> QED BY <3>1, <3>2 DEF Delivery!Fresh, UType
  <2>4. t[l] = IF p = l THEN Delivery!Fresh ELSE disk[l]
    BY DEF UType
  <2> HIDE DEF x, t
  <2>5. Apart(x, l)
    BY <1>0, <2>1 DEF Apart, Ops
  <2> QED BY <2>1, <2>2, <2>3, <2>4, <2>5, FileActed
<1>2. ASSUME NEW p \in Path, Delivery!UserDelete(p) PROVE FileAt(l)'
  <2> DEFINE x == [op |-> "delete", path |-> p, to |-> Delivery!NoPath]
             t == [k \in Leaf |-> IF k \in Delivery!Under(p) THEN 0 ELSE disk[k]]
  <2>1. x.op = "delete" /\ x.path = p
    OBVIOUS
  <2>2. Delivery!Act(t, x)
    BY <1>2 DEF Delivery!UserDelete
  <2>3. t[l] = IF l \in Delivery!Under(p) THEN 0 ELSE disk[l]
    OBVIOUS
  <2> HIDE DEF x, t
  <2>4. p \in Leaf \/ l \notin Delivery!Under(p)
    BY <2>1, <2>2 DEF Delivery!Act
  <2>5. l \in Delivery!Under(p) <=> p = l
    BY <1>0, <2>4 DEF Delivery!Under
  <2>6. Apart(x, l)
    BY <1>0, <2>1, <2>5 DEF Apart, Ops, Delivery!Under
  <2> QED BY <2>1, <2>2, <2>3, <2>5, <2>6, FileActed
<1>3. ASSUME NEW m \in Moves, Delivery!UserRename(m[1], m[2]) PROVE FileAt(l)'
  <2> DEFINE x == [op |-> "rename", path |-> m[1], to |-> m[2]]
             t == Delivery!FsRename(disk, m[1], m[2])
  <2>1. x.op = "rename" /\ x.path = m[1] /\ x.to = m[2] /\ m[1] \in Path /\ m[2] \in Path
    BY TreeAssumption
  <2>2. Delivery!Act(t, x)
    BY <1>3 DEF Delivery!UserRename
  <2> HIDE DEF x
  <2>3. l \notin Delivery!Under(m[1]) /\ l \notin Delivery!Under(m[2])
    BY <2>1, <2>2 DEF Delivery!Act
  <2>4. t[l] = disk[l]
    BY <2>3 DEF Delivery!FsRename
  <2> HIDE DEF t
  <2>5. Apart(x, l) /\ x.path # l
    BY <1>0, <2>1, <2>3 DEF Apart, Ops, Delivery!Under
  <2> QED BY <2>2, <2>4, <2>5, FileActed
<1> QED BY <1>1, <1>2, <1>3 DEF Delivery!User

(* An event is recorded: about the file, it takes the place of what was     *)
(* pending and is newer than all there is.                                  *)
LEMMA FileCapture ==
    ASSUME NEW l \in Leaf, DInv, now \in Nat, FileAt(l), Delivery!Capture
    PROVE  FileAt(l)'
<1> DEFINE x == Head(events)
<1>1. /\ events # <<>> /\ events' = Tail(events) /\ now' = now + 1
      /\ UNCHANGED <<disk, tombs, drain, net, theirs, tree, owed>>
      /\ journal' = IF x.op = "rename" THEN Delivery!rename(journal, x.path, x.to, now + 1)
                    ELSE Delivery!append(journal, x.op, x.path, now + 1)
  BY DEF Delivery!Capture, Delivery!server, Delivery!history
<1>2. IsSeq(events)
  BY DEF DInv, DType
<1>3. /\ x \in Elems(events) /\ Elems(events') \subseteq Elems(events)
      /\ \A y \in Elems(events) : y = x \/ y \in Elems(events')
  BY <1>1, <1>2, ElemsTail
<1>4. /\ Len(events) \in Nat /\ Len(events) > 0 /\ x = events[1]
      /\ Len(events') = Len(events) - 1
      /\ \A i \in 1..(Len(events) - 1) : events'[i] = events[i + 1]
  BY <1>1, <1>2, TailFacts
<1> HIDE DEF x
<1>5. Apart(x, l)
  BY <1>3 DEF FileAt, EventsAt
<1>6. Sound(journal, l) /\ journal.next_seq \in Nat
  BY DEF DInv, DType, FileAt, JournalAt, Sound, JournalOK
<1>7. journal.next_seq <= journal'.next_seq
  <2>1. DInv' /\ Grows(journal, journal')
    <3>1. x.op \in Ops /\ JournalOK(journal)
      BY <1>5, <1>6 DEF Apart, Sound
    <3> QED BY <1>1, <3>1, AppendKeeps, RenameKeeps, StepCapture
  <2> QED BY <2>1 DEF Grows, DInv, DType, JournalOK
<1>8. EventsAt(l)'
  <2>1. \A y \in Elems(events') : Apart(y, l)
    BY <1>3 DEF FileAt, EventsAt
  <2>2. ASSUME NEW i \in 1..Len(events'), events'[i].path = l,
               \A j \in 1..Len(events') : j > i => events'[j].path # l
        PROVE  events'[i].op = "upsert" <=> disk'[l] # 0
    <3>1. i + 1 \in 1..Len(events) /\ events'[i] = events[i + 1]
      BY <1>4
    <3>2. ASSUME NEW j \in 1..Len(events), j > i + 1 PROVE events[j].path # l
      <4>1. j - 1 \in 1..Len(events') /\ j - 1 > i /\ (j - 1) + 1 = j
        BY <1>4, <3>2
      <4>2. events'[j - 1] = events[j]
        BY <1>4, <4>1
      <4> QED BY <2>2, <4>1, <4>2
    <3>3. Matching(events[i + 1], l)
      BY <2>2, <3>1, <3>2 DEF FileAt, EventsAt
    <3> QED BY <1>1, <3>1, <3>3 DEF Matching
  <2> QED BY <2>1, <2>2 DEF EventsAt, Matching
<1>9. Flight' = Flight
  BY <1>1 DEF Flight
<1>10. CASE x.path = l
  <2>0. PICK n : n = Delivery!Entry(journal.next_seq, x.op, l, Delivery!NoPath, now + 1)
    OBVIOUS
  <2>1. x.op \in {"upsert", "delete"} /\ l \in Path
    BY <1>5, <1>10, LeafFacts DEF Apart, Ops
  <2>2. Sound(journal', l) /\ PendingAt(journal', l) = {n}
    <3>1. journal' = Delivery!append(journal, x.op, l, now + 1)
      BY <1>1, <1>10, <2>1
    <3> QED BY <1>6, <2>0, <2>1, <3>1, SoundAppended
  <2>3. n.seq = journal.next_seq /\ n.op = x.op /\ n.path = l /\ n.at = now + 1
    BY <2>0 DEF Delivery!Entry
  <2>4. Told(l)' => Matching(n, l)'
    <3>1. ASSUME Told(l)' PROVE Matching(x, l)
      <4>1. \A j \in 1..Len(events) : j > 1 => events[j].path # l
        <5>1. ASSUME NEW j \in 1..Len(events), j > 1 PROVE events[j].path # l
          <6>1. j - 1 \in 1..Len(events') /\ j - 1 \in 1..(Len(events) - 1) /\ (j - 1) + 1 = j
            BY <1>4, <5>1
          <6>2. events'[j - 1] = events[j]
            BY <1>4, <6>1
          <6> QED BY <3>1, <6>1, <6>2 DEF Told, Elems
        <5> QED BY <5>1
      <4> QED BY <1>4, <1>10, <4>1 DEF FileAt, EventsAt
    <3> QED BY <1>1, <2>3, <3>1 DEF Matching
  <2>5. JournalAt(l)'
    BY <1>1, <2>2, <2>3, <2>4 DEF JournalAt, Sound
  <2>6. FlightAt(l)'
    <3>1. \A y \in Flight : Apart(y, l) /\ y.seq \in Nat /\ y.seq < journal.next_seq
      BY DEF FileAt, FlightAt
    <3>2. ASSUME NEW y \in Flight, y.path = l PROVE y.at \in Nat /\ y.at < now + 1 /\ Outdates(n, y)'
      <4>1. y.at \in Nat /\ y.at <= now
        BY <3>2 DEF FileAt, FlightAt
      <4>2. drain.upto < journal.next_seq /\ \A p \in drain.pending : p.seq < journal.next_seq
        BY DEF DInv, DType, Issued
      <4> QED BY <1>1, <2>3, <3>1, <4>1, <4>2 DEF Outdates
    <3>3. \A y \in Flight : y.seq # n.seq /\ y.seq < journal'.next_seq
      <4>1. journal'.next_seq \in Nat
        BY <2>2 DEF Sound, JournalOK
      <4> QED BY <1>6, <1>7, <2>3, <3>1, <4>1
    <3>4. \A y \in Flight : y.path = l => y.at \in Nat /\ y.at <= now + 1
      BY <3>2
    <3> QED BY <1>1, <1>9, <2>2, <3>1, <3>2, <3>3, <3>4 DEF FileAt, FlightAt
  <2>7. LedgersAt(l)'
    <3>1. ASSUME NEW g, Shaped(g, l), Older(g, l)
          PROVE  /\ g.entries[l] <= now + 1 /\ g.alive[l] <= now + 1
                 /\ g.entries[l] <= n.at /\ g.alive[l] < n.at
      BY <2>3, <3>1 DEF Shaped, Older
    <3> QED BY <1>1, <1>9, <2>2, <3>1 DEF FileAt, LedgersAt, Shaped, Older
  <2>8. ServedAt(l)'
    <3>1. \A y \in Elems(net) : y.op = "upsert" => y.seq # n.seq
      <4>1. \A y \in Elems(net) : y.op = "upsert" => y.seq \in Nat /\ y.seq < journal.next_seq
        BY DEF FileAt, FlightAt, Flight
      <4> QED BY <1>6, <2>3, <4>1
    <3>2. ~(n.seq <= drain.upto)
      BY <1>6, <2>3 DEF DInv, DType
    <3> QED BY <1>1, <2>2, <3>1, <3>2 DEF ServedAt
  <2> QED BY <1>8, <2>5, <2>6, <2>7, <2>8 DEF FileAt
<1>11. CASE x.path # l
  <2>1. Sound(journal', l) /\ PendingAt(journal', l) = PendingAt(journal, l)
    <3>1. CASE x.op = "rename"
      BY <1>1, <1>5, <1>6, <1>11, <3>1, SoundRenamed DEF Apart
    <3>2. CASE x.op # "rename"
      BY <1>1, <1>5, <1>6, <1>11, <3>2, SoundAppended DEF Apart, Ops
    <3> QED BY <3>1, <3>2
  <2>2. Told(l)' => Told(l)
    BY <1>3, <1>11 DEF Told
  <2>3. JournalAt(l)'
    <3>1. \A e \in PendingAt(journal, l) : e.at \in Nat /\ e.at <= now + 1
      BY DEF FileAt, JournalAt
    <3>2. \A e \in PendingAt(journal, l) : Told(l)' => Matching(e, l)'
      BY <1>1, <2>2 DEF FileAt, JournalAt, Matching
    <3> QED BY <1>1, <2>1, <3>1, <3>2 DEF JournalAt, Sound
  <2>4. FlightAt(l)'
    <3>1. \A y \in Flight : y.seq < journal'.next_seq
      <4>1. journal'.next_seq \in Nat
        BY <2>1 DEF Sound, JournalOK
      <4> QED BY <1>6, <1>7, <4>1 DEF FileAt, FlightAt
    <3>2. \A y \in Flight : y.path = l => y.at \in Nat /\ y.at <= now + 1
      BY DEF FileAt, FlightAt
    <3>3. \A y \in Flight : y.path = l =>
            \E e \in PendingAt(journal, l) : Similar(y, e) \/ Outdates(e, y)'
      BY <1>1 DEF FileAt, FlightAt, Outdates
    <3> QED BY <1>1, <1>9, <2>1, <3>1, <3>2, <3>3 DEF FileAt, FlightAt
  <2>5. LedgersAt(l)'
    <3>1. ASSUME NEW g, Shaped(g, l), Older(g, l) PROVE g.entries[l] <= now + 1 /\ g.alive[l] <= now + 1
      BY <3>1 DEF Shaped, Older
    <3> QED BY <1>1, <1>9, <2>1, <3>1 DEF FileAt, LedgersAt, Shaped, Older
  <2>6. ServedAt(l)'
    BY <1>1, <2>1, <2>2 DEF FileAt, ServedAt
  <2> QED BY <1>8, <2>3, <2>4, <2>5, <2>6 DEF FileAt
<1> QED BY <1>10, <1>11

(* A chunk's wires after an entry is decided.                               *)
LEMMA WiresGrow ==
    ASSUME NEW q, IsSeq(q), NEW s, NEW w, s = <<>> \/ s = <<w>>
    PROVE  Elems(q \o s) = Elems(q) \cup (IF s = <<>> THEN {} ELSE {w})
<1>1. PICK S : q \in Seq(S)
  BY DEF IsSeq
<1>2. CASE s = <<>>
  <2>1. q \o s = q
    BY <1>1, <1>2
  <2> QED BY <1>2, <2>1
<1>3. CASE s = <<w>>
  <2>1. q \in Seq(S \cup {w}) /\ <<w>> \in Seq(S \cup {w})
    BY <1>1
  <2>2. q \o <<w>> = Append(q, w)
    BY <2>1
  <2>3. s # <<>>
    BY <1>3
  <2> QED BY <1>3, <2>2, <2>3, ElemsAppend
<1> QED BY <1>2, <1>3

(* The least entry pending is decided.                                      *)
LEMMA FileDecide ==
    ASSUME NEW l \in Leaf, DInv, UType, FileAt(l), Delivery!DecideEntry
    PROVE  FileAt(l)'
<1>1. PICK e \in drain.pending :
        /\ \A f \in drain.pending : e.seq <= f.seq
        /\ disk' = Delivery!decide(e).disk /\ tombs' = Delivery!decide(e).ledger
        /\ drain' = [drain EXCEPT !.pending = @ \ {e}, !.wires = @ \o Delivery!decide(e).send,
                                  !.upto = e.seq]
        /\ owed' = IF Delivery!decide(e).send = <<>> THEN owed \ {e.seq} ELSE owed \cup {e.seq}
  BY DEF Delivery!DecideEntry, Delivery!Pending
<1>2. UNCHANGED <<events, now, journal, net, theirs, tree>>
  BY DEF Delivery!DecideEntry, Delivery!server
<1>3. PICK s : s = Delivery!decide(e).send
  OBVIOUS
<1>4. /\ drain'.pending = drain.pending \ {e} /\ drain'.wires = drain.wires \o s /\ drain'.upto = e.seq
      /\ owed' = IF s = <<>> THEN owed \ {e.seq} ELSE owed \cup {e.seq}
  BY <1>1, <1>3 DEF DInv, DType
<1>5. e \in Flight /\ Apart(e, l) /\ e.seq \in Nat /\ e.seq < journal.next_seq /\ IsSeq(drain.wires)
  BY DEF Flight, FileAt, FlightAt, DInv, DType
<1>6. Shaped(tombs, l) /\ Shaped(theirs, l) /\ Older(tombs, l) /\ Older(theirs, l) /\ now \in Nat
  BY DEF FileAt, LedgersAt, UType
<1>7. \A x \in drain.pending : x.seq \in Nat /\ x.seq >= e.seq
  BY <1>1, <1>5 DEF DInv, DType, Issued
<1>8. \A x \in drain'.pending : x.path = l => x.seq > e.seq
  <2>1. ASSUME NEW x \in drain.pending, x.path = l, x # e PROVE x.seq # e.seq
    BY <2>1 DEF FileAt, FlightAt
  <2> QED BY <1>4, <1>5, <1>7, <2>1
<1>9. ASSUME NEW f \in PendingAt(journal, l), f.seq <= e.seq, f.seq # e.seq PROVE f.seq <= drain.upto
  <2>1. f.seq \in Numbers(journal.entries) /\ f.seq \in Nat
    BY NumbersFacts DEF PendingAt, Numbers
  <2>2. f.seq \notin Numbers(drain.pending)
    BY <1>5, <1>7, <1>9, <2>1 DEF Numbers
  <2> QED BY <1>5, <1>9, <2>1, <2>2 DEF DInv, GoesUp
<1>10. \A f : \A x \in Flight : Outdates(f, x) => Outdates(f, x)'
  BY <1>4, <1>7 DEF Outdates
<1>11. CASE e.path # l
  <2>1. /\ disk'[l] = disk[l] /\ Keeps(tombs, tombs', l)
        /\ \/ s = <<>>
           \/ \E w : s = <<w>> /\ w.seq = e.seq /\ Apart(w, l) /\ w.path # l
    BY <1>1, <1>3, <1>5, <1>6, <1>11, DecidedAway DEF UType
  <2>2. PICK w : s = <<>> \/ (s = <<w>> /\ w.seq = e.seq /\ Apart(w, l) /\ w.path # l)
    BY <2>1
  <2>3. Elems(drain'.wires) = Elems(drain.wires) \cup (IF s = <<>> THEN {} ELSE {w})
    <3>1. s = <<>> \/ s = <<w>>
      BY <2>2
    <3>2. Elems(drain.wires \o s) = Elems(drain.wires) \cup (IF s = <<>> THEN {} ELSE {w})
      BY ONLY <1>5, <3>1, WiresGrow
    <3> QED BY <1>4, <3>2
  <2>4. \A x \in Flight' : x \in Flight \/ (x = w /\ w.seq = e.seq /\ Apart(w, l) /\ w.path # l)
    BY <1>2, <1>4, <2>2, <2>3 DEF Flight
  <2>5. \A f \in PendingAt(journal, l) : f.seq # e.seq
    BY <1>5, <1>11 DEF FileAt, FlightAt
  <2>6. EventsAt(l)' /\ JournalAt(l)'
    BY <1>2, <2>1 DEF FileAt, EventsAt, JournalAt, Told, Matching
  <2>7. FlightAt(l)'
    <3>1. \A x \in Flight' : Apart(x, l) /\ x.seq \in Nat /\ x.seq < journal.next_seq
      BY <1>5, <2>4 DEF FileAt, FlightAt
    <3>2. \A x \in Flight' : x.path = l => x \in Flight
      BY <2>4
    <3>3. \A x \in Flight' : x.path = l =>
             /\ x.at \in Nat /\ x.at <= now
             /\ \E f \in PendingAt(journal, l) : Similar(x, f) \/ Outdates(f, x)'
      BY <1>10, <3>2 DEF FileAt, FlightAt
    <3>4. \A x, y \in Flight' : x.path = l /\ y.path = l => Similar(x, y)
      BY <3>2 DEF FileAt, FlightAt
    <3>5. \A x \in Flight', f \in PendingAt(journal, l) : x.seq = f.seq => x.path = l
      BY <2>4, <2>5 DEF FileAt, FlightAt
    <3>6. \A x, y \in drain'.pending : x.path = l /\ y.seq = x.seq => y = x
      BY <1>4 DEF FileAt, FlightAt
    <3> QED BY <1>2, <1>4, <1>8, <3>1, <3>3, <3>4, <3>5, <3>6 DEF FlightAt, Similar
  <2>8. LedgersAt(l)'
    <3>1. \A x \in Flight' : x.path = l => x \in Flight
      BY <2>4
    <3> QED BY <1>2, <1>6, <2>1, <3>1 DEF LedgersAt, Shaped, Older, Keeps
  <2>9. ServedAt(l)'
    <3>1. ASSUME NEW f \in PendingAt(journal, l), f.seq <= e.seq, f.seq \notin owed'
          PROVE  f.seq <= drain.upto /\ f.seq \notin owed
      BY <1>4, <1>9, <2>5, <3>1
    <3> QED BY <1>2, <1>4, <2>1, <3>1 DEF FileAt, ServedAt, Told
  <2> QED BY <2>6, <2>7, <2>8, <2>9 DEF FileAt
<1>12. CASE e.path = l
  <2>0. e.at \in Nat /\ e.at <= now /\ (e.op = "upsert" => tombs.entries[l] <= e.at)
    BY <1>5, <1>6, <1>12, InHand DEF Older
  <2>1. /\ disk' = disk /\ Shaped(tombs', l)
        /\ \/ s = <<>> /\ ~Matching(e, l)
           \/ s = <<e>> /\ Matching(e, l)
        /\ e.op = "upsert" => /\ tombs'.entries[l] \in {tombs.entries[l], -1}
                              /\ tombs'.alive[l] \in {tombs.alive[l], e.at}
        /\ e.op = "delete" => /\ tombs'.entries[l] \in {tombs.entries[l], e.at}
                              /\ tombs'.alive[l] = tombs.alive[l]
    BY <1>1, <1>3, <1>5, <1>6, <1>12, <2>0, DecidedHere DEF UType
  <2>2. Elems(drain'.wires) = Elems(drain.wires) \cup (IF s = <<>> THEN {} ELSE {e})
    <3>1. s = <<>> \/ s = <<e>>
      BY <2>1
    <3>2. Elems(drain.wires \o s) = Elems(drain.wires) \cup (IF s = <<>> THEN {} ELSE {e})
      BY ONLY <1>5, <3>1, WiresGrow
    <3> QED BY <1>4, <3>2
  <2>3. Flight' \subseteq Flight
    BY <1>2, <1>4, <1>5, <2>2 DEF Flight
  <2>4. Older(tombs', l)
    BY <1>5, <1>6, <1>12, <2>1, OlderApplied
  <2>5. EventsAt(l)' /\ JournalAt(l)'
    BY <1>2, <2>1 DEF FileAt, EventsAt, JournalAt, Told, Matching
  <2>6. FlightAt(l)'
    <3>1. \A x \in Flight' : x.path = l =>
             \E f \in PendingAt(journal, l) : Similar(x, f) \/ Outdates(f, x)'
      BY <1>10, <2>3 DEF FileAt, FlightAt
    <3>2. \A x, y \in drain'.pending : x.path = l /\ y.seq = x.seq => y = x
      BY <1>4 DEF FileAt, FlightAt
    <3> QED BY <1>2, <1>4, <1>8, <2>3, <3>1, <3>2 DEF FileAt, FlightAt, Similar
  <2>7. LedgersAt(l)'
    BY <1>2, <1>6, <2>1, <2>3, <2>4 DEF LedgersAt, Shaped, Older
  <2>8. PICK f \in PendingAt(journal, l) :
           PendingAt(journal, l) = {f} /\ (Similar(e, f) \/ Outdates(f, e))
    BY <1>5, <1>12, InHand
  <2>9. f.seq \in Nat
    BY NumbersFacts DEF PendingAt, Numbers
  <2>10. ServedAt(l)'
    <3>1. ASSUME Told(l), f.seq <= e.seq PROVE f.seq \in owed'
      <4>1. Similar(e, f)
        BY <1>5, <2>8, <2>9, <3>1 DEF Outdates
      <4>2. Matching(e, l)
        BY <2>8, <3>1, <4>1 DEF FileAt, JournalAt, Matching, Similar
      <4>3. s # <<>>
        BY <2>1, <4>2
      <4> QED BY <1>4, <4>1, <4>3 DEF Similar
    <3> QED BY <1>2, <1>4, <2>1, <2>8, <3>1 DEF FileAt, ServedAt, Told
  <2> QED BY <2>5, <2>6, <2>7, <2>10 DEF FileAt
<1> QED BY <1>11, <1>12

(* A wire becomes a frame, with the file as it is.                          *)
LEMMA FileSendWire ==
    ASSUME NEW l \in Leaf, DInv, UType, FileAt(l), Delivery!SendWire
    PROVE  FileAt(l)'
<1>1. PICK w : w = Head(drain.wires)
  OBVIOUS
<1>2. PICK c : c = IF w.op = "upsert" /\ w.path \in Leaf THEN disk[w.path] ELSE 0
  OBVIOUS
<1>3. PICK x : x = Delivery!Frame(w.op, w.seq, w.path, w.to, w.at, c)
  OBVIOUS
<1>4. /\ drain.wires # <<>> /\ drain' = [drain EXCEPT !.wires = Tail(@)]
      /\ UNCHANGED <<disk, events, now, journal, tombs, theirs, tree>>
      /\ \/ /\ w.op = "upsert" /\ ~Delivery!exists(disk, w.path)
            /\ net' = net /\ owed' = owed \ {w.seq}
         \/ net' = Append(net, x) /\ owed' = owed
  BY <1>1, <1>2, <1>3 DEF Delivery!SendWire, Delivery!client, Delivery!server
<1>5. /\ x.op = w.op /\ x.seq = w.seq /\ x.path = w.path /\ x.to = w.to /\ x.at = w.at /\ x.content = c
  BY <1>3 DEF Delivery!Frame
<1>6. /\ drain'.pending = drain.pending /\ drain'.wires = Tail(drain.wires) /\ drain'.upto = drain.upto
      /\ IsSeq(drain.wires) /\ IsSeq(net)
  BY <1>4 DEF DInv, DType
<1>7. w \in Elems(drain.wires) /\ Elems(drain'.wires) \subseteq Elems(drain.wires) /\ w \in Flight
  BY <1>1, <1>4, <1>6, ElemsTail DEF Flight
<1>8. \A y \in Flight' : y \in Flight \/ (y = x /\ net' = Append(net, x))
  <2>1. net' = Append(net, x) => Elems(net') = Elems(net) \cup {x}
    BY <1>6, ElemsAppend
  <2> QED BY <1>4, <1>6, <1>7, <2>1 DEF Flight
<1>9. \A y \in Flight' : \E z \in Flight :
         z.op = y.op /\ z.seq = y.seq /\ z.path = y.path /\ z.to = y.to /\ z.at = y.at
  BY <1>5, <1>7, <1>8
<1>10. EventsAt(l)' /\ JournalAt(l)'
  BY <1>4 DEF FileAt, EventsAt, JournalAt, Told, Matching
<1>11. FlightAt(l)'
  <2>1. \A y \in Flight' : Apart(y, l) /\ y.seq \in Nat /\ y.seq < journal.next_seq
    <3>1. ASSUME NEW y \in Flight' PROVE Apart(y, l) /\ y.seq \in Nat /\ y.seq < journal.next_seq
      <4>1. PICK z \in Flight :
              z.op = y.op /\ z.seq = y.seq /\ z.path = y.path /\ z.to = y.to /\ z.at = y.at
        BY <1>9
      <4>2. Apart(z, l) /\ z.seq \in Nat /\ z.seq < journal.next_seq
        BY DEF FileAt, FlightAt
      <4> QED BY <4>1, <4>2 DEF Apart
    <3> QED BY <3>1
  <2>2. \A y \in Flight' : y.path = l =>
           /\ y.at \in Nat /\ y.at <= now
           /\ \E f \in PendingAt(journal, l) : Similar(y, f) \/ Outdates(f, y)'
    <3>1. ASSUME NEW y \in Flight', y.path = l
          PROVE  /\ y.at \in Nat /\ y.at <= now
                 /\ \E f \in PendingAt(journal, l) : Similar(y, f) \/ Outdates(f, y)'
      <4>1. PICK z \in Flight :
              z.op = y.op /\ z.seq = y.seq /\ z.path = y.path /\ z.to = y.to /\ z.at = y.at
        BY <1>9
      <4>2. PICK f \in PendingAt(journal, l) : Similar(z, f) \/ Outdates(f, z)
        BY <3>1, <4>1 DEF FileAt, FlightAt
      <4>3. Similar(y, f) \/ Outdates(f, y)'
        BY <1>6, <4>1, <4>2 DEF Similar, Outdates
      <4>4. z.at \in Nat /\ z.at <= now
        BY <3>1, <4>1 DEF FileAt, FlightAt
      <4> QED BY <4>1, <4>3, <4>4
    <3> QED BY <3>1
  <2>3. \A y, z \in Flight' : y.path = l /\ z.path = l => Similar(y, z)
    BY <1>9 DEF FileAt, FlightAt, Similar
  <2>4. \A y \in Flight', f \in PendingAt(journal, l) : y.seq = f.seq => y.path = l
    BY <1>9 DEF FileAt, FlightAt
  <2> QED BY <1>4, <1>6, <2>1, <2>2, <2>3, <2>4 DEF FileAt, FlightAt, Similar
<1>12. LedgersAt(l)'
  <2>1. ASSUME NEW g, Older(g, l), NEW y \in PendingAt(journal, l) \cup Flight', y.path = l, y.op = "upsert"
        PROVE  g.entries[l] <= y.at
    BY <1>9, <2>1 DEF Older
  <2> QED BY <1>4, <2>1 DEF FileAt, LedgersAt, Shaped, Older
<1>13. ServedAt(l)'
  <2>1. ASSUME NEW f \in PendingAt(journal, l), Told(l), f.seq <= drain.upto, f.seq \notin owed'
        PROVE  f.seq \notin owed
    <3>1. CASE net' = net /\ owed' = owed \ {w.seq} /\ w.op = "upsert" /\ ~Delivery!exists(disk, w.path)
      <4>1. ASSUME f.seq = w.seq PROVE FALSE
        <5>1. w.path = l
          BY <1>7, <4>1 DEF FileAt, FlightAt
        <5>2. disk[l] = 0
          <6>1. Delivery!Under(l) = {l}
            BY LeafFacts
          <6> QED BY <3>1, <5>1, <6>1 DEF Delivery!exists
        <5>3. PICK e \in PendingAt(journal, l) :
                PendingAt(journal, l) = {e} /\ (Similar(w, e) \/ Outdates(e, w))
          BY <1>7, <5>1, InHand
        <5>4. e = f /\ f.seq \in Nat
          BY <5>3, NumbersFacts DEF PendingAt, Numbers
        <5>5. f.op = "upsert"
          BY <3>1, <4>1, <5>3, <5>4 DEF Similar, Outdates
        <5> QED BY <2>1, <5>2, <5>5 DEF FileAt, JournalAt, Matching
      <4> QED BY <2>1, <3>1, <4>1
    <3> QED BY <1>4, <2>1, <3>1
  <2>2. ASSUME NEW f \in PendingAt(journal, l), Told(l), NEW y \in Elems(net'),
               y.seq = f.seq, y.op = "upsert"
        PROVE  y.content = disk[l]
    <3>1. CASE y \in Elems(net)
      BY <2>2, <3>1 DEF FileAt, ServedAt
    <3>2. CASE y = x
      <4>1. w.path = l
        BY <1>5, <1>7, <2>2, <3>2 DEF FileAt, FlightAt
      <4> QED BY <1>2, <1>5, <2>2, <3>2, <4>1
    <3>3. net' = Append(net, x) => Elems(net') = Elems(net) \cup {x}
      BY <1>6, ElemsAppend
    <3> QED BY <1>4, <2>2, <3>1, <3>2, <3>3
  <2> QED BY <1>4, <1>6, <2>1, <2>2 DEF FileAt, ServedAt, Told
<1> QED BY <1>10, <1>11, <1>12, <1>13 DEF FileAt

(* An acknowledgement is read: what it takes from the journal has been      *)
(* applied.                                                                 *)
LEMMA FileRecvAck ==
    ASSUME NEW l \in Leaf, DInv, FileAt(l), Delivery!RecvAck
    PROVE  FileAt(l)'
<1>1. /\ up /\ net = <<>> /\ srv.last_acked \in Nat /\ srv.last_acked <= drain.upto
      /\ journal' = Delivery!ack_local(journal, srv.last_acked)
  BY AckRead
<1>2. UNCHANGED <<disk, events, now, tombs, net, theirs, tree, owed>>
  BY DEF Delivery!RecvAck, Delivery!server, Delivery!history
<1>3. \/ drain' = Delivery!Idle
      \/ drain' = [Delivery!Idle EXCEPT !.pc = "decide", !.pending = drain.pending]
  BY AckRead
<1>4. drain'.pending \subseteq drain.pending /\ drain'.wires = <<>> /\ drain'.upto = 0
  BY <1>3, IdleFacts
<1>5. Flight' \subseteq drain.pending /\ drain.pending \subseteq Flight
  BY <1>1, <1>2, <1>4, ElemsNone DEF Flight
<1>6. Sound(journal, l) /\ srv.last_acked < journal.next_seq /\ drain.upto \in Nat
  BY DEF DInv, DType, FileAt, JournalAt, Sound
<1>7. /\ Sound(journal', l)
      /\ PendingAt(journal', l) = {e \in PendingAt(journal, l) : e.seq > srv.last_acked}
  BY <1>1, <1>6, SoundAcked
<1>8. journal'.next_seq = journal.next_seq
  BY <1>1, <1>6, AckKeeps DEF Sound
<1>9. \A e \in PendingAt(journal, l) : e.seq \in Nat /\ 0 < e.seq
  BY DEF PendingAt, DInv, DType, JournalOK, Issued
<1>10. EventsAt(l)' /\ JournalAt(l)'
  BY <1>2, <1>7 DEF FileAt, EventsAt, JournalAt, Sound, Told, Matching
<1>11. FlightAt(l)'
  <2>1. ASSUME NEW x \in Flight', x.path = l
        PROVE  \E e \in PendingAt(journal', l) : Similar(x, e) \/ Outdates(e, x)'
    <3>1. x \in drain.pending /\ x \in Flight
      BY <1>5
    <3>2. x.seq > drain.upto /\ x.seq \in Nat
      BY <2>1, <3>1 DEF FileAt, FlightAt
    <3>3. PICK e \in PendingAt(journal, l) : Similar(x, e) \/ Outdates(e, x)
      BY <2>1, <3>1 DEF FileAt, FlightAt
    <3>4. e.seq > srv.last_acked
      BY <1>1, <1>6, <1>9, <3>2, <3>3 DEF Similar, Outdates
    <3>5. Outdates(e, x) => Outdates(e, x)'
      BY <1>4, <1>9 DEF Outdates
    <3> QED BY <1>7, <3>3, <3>4, <3>5
  <2>2. \A x \in drain.pending : x.seq \in Nat /\ x.seq > 0
    BY DEF DInv, DType, Issued
  <2> QED BY <1>2, <1>4, <1>5, <1>7, <1>8, <2>1, <2>2 DEF FileAt, FlightAt, Similar
<1>12. LedgersAt(l)'
  BY <1>2, <1>5, <1>7 DEF FileAt, LedgersAt, Shaped, Older
<1>13. ServedAt(l)'
  <2>1. ASSUME Told(l), PendingAt(journal', l) = {} PROVE tree[l] = disk[l]
    <3>1. CASE PendingAt(journal, l) = {}
      BY <2>1, <3>1 DEF FileAt, ServedAt
    <3>2. ASSUME NEW e \in PendingAt(journal, l) PROVE tree[l] = disk[l]
      <4>1. e.seq <= srv.last_acked /\ e.seq <= drain.upto
        BY <1>1, <1>6, <1>7, <1>9, <2>1
      <4>2. e.seq \in Numbers(journal.entries)
        BY DEF PendingAt, Numbers
      <4>3. e.seq \notin owed
        BY <1>1, <1>9, <4>1, <4>2 DEF DInv, AckIsTrue
      <4> QED BY <2>1, <4>1, <4>3 DEF FileAt, ServedAt
    <3> QED BY <3>1, <3>2
  <2>2. \A e \in PendingAt(journal', l) : ~(e.seq <= 0)
    BY <1>7, <1>9
  <2> QED BY <1>1, <1>2, <1>4, <2>1, <2>2, ElemsNone DEF ServedAt, Told
<1> QED BY <1>10, <1>11, <1>12, <1>13 DEF FileAt

(* The server applies a frame.                                              *)
LEMMA FileServerApply ==
    ASSUME NEW l \in Leaf, DInv, UType, FileAt(l), Delivery!ServerApply
    PROVE  FileAt(l)'
<1>1. PICK m : m = Head(net)
  OBVIOUS
<1>2. /\ net # <<>> /\ m.op # "end" /\ net' = Tail(net) /\ owed' = owed \ {m.seq}
      /\ tree' = Delivery!apply_action(tree, theirs, m).tree
      /\ theirs' = Delivery!apply_action(tree, theirs, m).ledger
      /\ UNCHANGED <<disk, events, now, journal, tombs, drain>>
  BY <1>1 DEF Delivery!ServerApply, Delivery!client
<1>3. IsSeq(net)
  BY DEF DInv, DType
<1>4. m \in Elems(net) /\ Elems(net') \subseteq Elems(net) /\ m \in Flight /\ Flight' \subseteq Flight
  BY <1>1, <1>2, <1>3, ElemsTail DEF Flight
<1>5. Apart(m, l) /\ Shaped(tombs, l) /\ Shaped(theirs, l) /\ Older(tombs, l) /\ Older(theirs, l)
      /\ now \in Nat /\ DOMAIN tree = Leaf
  BY <1>4 DEF FileAt, FlightAt, LedgersAt, UType
<1>6. EventsAt(l)' /\ JournalAt(l)'
  BY <1>2 DEF FileAt, EventsAt, JournalAt, Told, Matching
<1>7. FlightAt(l)'
  <2>1. \A x \in Flight' : x.path = l =>
          \E e \in PendingAt(journal, l) : Similar(x, e) \/ Outdates(e, x)'
    BY <1>2, <1>4 DEF FileAt, FlightAt, Outdates
  <2> QED BY <1>2, <1>4, <2>1 DEF FileAt, FlightAt, Similar
<1>8. CASE m.path # l
  <2>1. tree'[l] = tree[l] /\ Keeps(theirs, theirs', l)
    BY <1>2, <1>5, <1>8, AppliedAway
  <2>2. LedgersAt(l)'
    BY <1>2, <1>4, <1>5, <2>1 DEF LedgersAt, Shaped, Older, Keeps
  <2>3. \A e \in PendingAt(journal, l) : e.seq # m.seq
    BY <1>4, <1>8 DEF FileAt, FlightAt
  <2>4. ServedAt(l)'
    BY <1>2, <1>4, <2>1, <2>3 DEF FileAt, ServedAt, Told
  <2> QED BY <1>6, <1>7, <2>2, <2>4 DEF FileAt
<1>9. CASE m.path = l
  <2>1. m.at \in Nat /\ (m.op = "upsert" => theirs.entries[l] <= m.at)
    BY <1>4, <1>5, <1>9, InHand DEF Older
  <2>2. m.op = "upsert" \/ m.op = "delete"
    BY <1>5, <1>9, LeafFacts DEF Apart, Ops
  <2>3. /\ Shaped(theirs', l)
        /\ m.op = "upsert" =>
              /\ tree'[l] = m.content
              /\ theirs'.entries[l] \in {theirs.entries[l], -1} /\ theirs'.alive[l] \in {theirs.alive[l], m.at}
        /\ m.op = "delete" =>
              /\ theirs.alive[l] < m.at => tree'[l] = 0
              /\ theirs'.entries[l] \in {theirs.entries[l], m.at} /\ theirs'.alive[l] = theirs.alive[l]
    BY <1>2, <1>5, <1>9, <2>1, AppliedHere
  <2>4. Older(theirs', l)
    BY <1>4, <1>5, <1>9, <2>3, OlderApplied
  <2>5. LedgersAt(l)'
    BY <1>2, <1>4, <1>5, <2>3, <2>4 DEF LedgersAt, Shaped, Older
  <2>6. PICK e \in PendingAt(journal, l) :
          PendingAt(journal, l) = {e} /\ (Similar(m, e) \/ Outdates(e, m))
    BY <1>4, <1>9, InHand
  <2>7. e.seq \in Nat /\ drain.upto \in Nat
    BY NumbersFacts DEF PendingAt, Numbers, DInv, DType
  <2>8. ASSUME Told(l), e.seq <= drain.upto PROVE tree'[l] = disk[l]
    <3>1. Similar(m, e)
      BY <2>6, <2>7, <2>8 DEF Outdates
    <3>2. Matching(e, l)
      BY <2>8 DEF FileAt, JournalAt
    <3>3. CASE m.op = "upsert"
      BY <1>4, <2>3, <2>8, <3>1, <3>3 DEF FileAt, ServedAt, Similar
    <3>4. CASE m.op = "delete"
      <4>1. theirs.alive[l] < m.at
        BY <1>5, <3>1, <3>4 DEF Older, Similar
      <4>2. e.op # "upsert"
        BY <3>1, <3>4 DEF Similar
      <4> QED BY <2>3, <3>2, <3>4, <4>1, <4>2 DEF Matching
    <3> QED BY <2>2, <3>3, <3>4
  <2>9. ServedAt(l)'
    BY <1>2, <1>4, <2>6, <2>8 DEF FileAt, ServedAt, Told
  <2> QED BY <1>6, <1>7, <2>5, <2>9 DEF FileAt
<1> QED BY <1>8, <1>9

-----------------------------------------------------------------------------
(* What lost connections leave behind.                                      *)

LEMMA ElemsFrom ==
    ASSUME NEW q, IsSeq(q), NEW i \in DOMAIN q
    PROVE  /\ q[i] \in Elems(q) /\ IsSeq(SubSeq(q, i + 1, Len(q)))
           /\ Elems(SubSeq(q, i + 1, Len(q))) \subseteq Elems(q)
<1>1. PICK S : q \in Seq(S)
  BY DEF IsSeq
<1>2. i \in 1..Len(q) /\ Len(q) \in Nat /\ \A k \in 1..Len(q) : q[k] \in S
  BY <1>1
<1> DEFINE p == SubSeq(q, i + 1, Len(q))
<1>3. p \in Seq(S) /\ Len(p) = Len(q) - i /\ \A k \in 1..Len(p) : p[k] = q[i + k]
  BY <1>1, <1>2
<1> HIDE DEF p
<1>4. \A k \in 1..Len(p) : i + k \in 1..Len(q)
  BY <1>2, <1>3
<1>5. Elems(p) \subseteq Elems(q)
  BY <1>3, <1>4 DEF Elems
<1>6. IsSeq(p)
  BY <1>3 DEF IsSeq
<1>7. q[i] \in Elems(q)
  BY <1>2 DEF Elems
<1> QED BY <1>5, <1>6, <1>7 DEF p

(* The handler of the n-th one applies m.                                   *)
LEMMA LateFacts ==
    ASSUME UType, Delivery!Late
    PROVE  \E n, m :
             /\ n \in 1..MaxLost /\ m \in Elems(old[n]) /\ m.op \in Ops
             /\ DOMAIN old' = 1..MaxLost
             /\ \A k \in 1..MaxLost : IsSeq(old'[k]) /\ Elems(old'[k]) \subseteq Elems(old[k])
             /\ tree' = Delivery!apply_action(tree, theirs, m).tree
             /\ theirs' = Delivery!apply_action(tree, theirs, m).ledger
             /\ moved' = moved \cup Delivery!Under(m.path) \cup
                            (IF m.op = "rename" THEN Delivery!Under(m.to) ELSE {})
<1>1. PICK n \in 1..MaxLost : Delivery!LateApply(n)
  BY DEF Delivery!Late
<1>2. PICK i \in DOMAIN old[n] :
        LET m == old[n][i]
            r == Delivery!apply_action(tree, theirs, m)
        IN  /\ m.op # "end"
            /\ old' = [old EXCEPT ![n] = SubSeq(@, i + 1, Len(@))]
            /\ tree' = r.tree /\ theirs' = r.ledger
            /\ moved' = moved \cup Delivery!Under(m.path) \cup
                           (IF m.op = "rename" THEN Delivery!Under(m.to) ELSE {})
  BY <1>1 DEF Delivery!LateApply
<1>3. IsSeq(old[n]) /\ DOMAIN old = 1..MaxLost
  BY <1>1 DEF UType
<1>4. PICK p : p = SubSeq(old[n], i + 1, Len(old[n]))
  OBVIOUS
<1>5. old[n][i] \in Elems(old[n]) /\ IsSeq(p) /\ Elems(p) \subseteq Elems(old[n])
  BY <1>2, <1>3, <1>4, ElemsFrom
<1>6. old' = [old EXCEPT ![n] = p]
  BY <1>2, <1>4
<1>7. /\ DOMAIN old' = 1..MaxLost
      /\ \A k \in 1..MaxLost : old'[k] = IF k = n THEN p ELSE old[k]
  BY <1>3, <1>6
<1>8. \A k \in 1..MaxLost : IsSeq(old'[k]) /\ Elems(old'[k]) \subseteq Elems(old[k])
  BY <1>5, <1>7 DEF UType
<1>9. old[n][i].op \in Ops
  BY <1>1, <1>2, <1>5 DEF UType
<1> WITNESS n, old[n][i]
<1> QED BY <1>1, <1>2, <1>5, <1>7, <1>8, <1>9

(* The connection is lost: its frames join what is left.                    *)
LEMMA LostFacts ==
    ASSUME UType, Delivery!Disconnect
    PROVE  /\ DOMAIN old' = 1..MaxLost
           /\ \A k \in 1..MaxLost : old'[k] \in {old[k], net, <<>>}
<1>1. PICK p : p = (IF Linger THEN net ELSE <<>>)
  OBVIOUS
<1>2. old' = [old EXCEPT ![lost'] = p] /\ p \in {net, <<>>}
  BY <1>1 DEF Delivery!Disconnect
<1>3. DOMAIN old = 1..MaxLost
  BY DEF UType
<1> QED BY <1>2, <1>3

(* A file that what is applied late does not touch.                         *)
LEMMA FileLate ==
    ASSUME NEW l \in Leaf, DInv, UType, Left, FileAt(l), Delivery!Late, l \notin moved, l \notin moved'
    PROVE  FileAt(l)'
<1>1. PICK n, m :
        /\ n \in 1..MaxLost /\ m \in Elems(old[n]) /\ m.op \in Ops
        /\ tree' = Delivery!apply_action(tree, theirs, m).tree
        /\ theirs' = Delivery!apply_action(tree, theirs, m).ledger
        /\ moved' = moved \cup Delivery!Under(m.path) \cup
                       (IF m.op = "rename" THEN Delivery!Under(m.to) ELSE {})
  BY LateFacts
<1>2. m.op # "end"
  BY <1>1 DEF Ops
<1>3. m.path \in Path /\ (m.op = "rename" => m.to \in Path)
  BY <1>1, <1>2 DEF Left
<1>4. ~Delivery!starts_with(l, m.path) /\ (m.op = "rename" => ~Delivery!starts_with(l, m.to))
  BY <1>1 DEF Delivery!Under
<1>5. m.path # l
  BY <1>4, LeafFacts
<1>6. Apart(m, l)
  BY <1>1, <1>3, <1>4 DEF Apart
<1>7. Shaped(theirs, l) /\ DOMAIN tree = Leaf
  BY DEF FileAt, LedgersAt, UType
<1>8. tree'[l] = tree[l] /\ Keeps(theirs, theirs', l)
  BY <1>1, <1>5, <1>6, <1>7, AppliedAway
<1>9. UNCHANGED <<disk, events, now, journal, tombs, drain, net, owed>>
  BY LateKeeps
<1>10. Flight' = Flight
  BY <1>9 DEF Flight, Elems
<1>11. EventsAt(l)' /\ JournalAt(l)'
  BY <1>9 DEF FileAt, EventsAt, JournalAt, Told, Matching
<1>12. FlightAt(l)'
  BY <1>9, <1>10 DEF FileAt, FlightAt, Similar, Outdates
<1>13. LedgersAt(l)'
  BY <1>8, <1>9, <1>10 DEF FileAt, LedgersAt, Shaped, Older, Keeps
<1>14. ServedAt(l)'
  BY <1>8, <1>9 DEF FileAt, ServedAt, Told
<1> QED BY <1>11, <1>12, <1>13, <1>14 DEF FileAt

-----------------------------------------------------------------------------
(* Files stay files.                                                        *)

LEMMA DecidedTree ==
    ASSUME DOMAIN disk = Leaf, NEW e
    PROVE  DOMAIN Delivery!decide(e).disk = Leaf
<1> DEFINE Fine(r) == DOMAIN r.disk = Leaf
<1>1. \A d, g : DOMAIN d = Leaf => Fine(Delivery!Settled(d, g))
  BY DEF Delivery!Settled
<1>2. \A d, g, w : DOMAIN d = Leaf => Fine(Delivery!Send(d, g, w))
  BY DEF Delivery!Send
<1>3. \A t, g, p, at : DOMAIN Delivery!apply_deletes(t, g, p, at).tree = Leaf
  BY DEF Delivery!apply_deletes
<1> HIDE DEF Fine
<1>4. Fine(Delivery!DecideUpsert(e))
  BY <1>1, <1>2, <1>3 DEF Delivery!DecideUpsert
<1>5. Fine(Delivery!DecideRename(e))
  BY <1>1, <1>2, <1>3 DEF Delivery!DecideRename
<1>6. Fine(Delivery!DecideDelete(e))
  BY <1>1, <1>2 DEF Delivery!DecideDelete
<1>7. Fine(Delivery!decide(e))
  BY <1>4, <1>5, <1>6 DEF Delivery!decide
<1> QED BY <1>7 DEF Fine

LEMMA AppliedTree ==
    ASSUME NEW t, DOMAIN t = Leaf, NEW g, NEW m, m.op \in Ops
    PROVE  DOMAIN Delivery!apply_action(t, g, m).tree = Leaf
<1> DEFINE Fine(r) == DOMAIN r.tree = Leaf
<1>1. \A p, at : Fine(Delivery!apply_deletes(t, g, p, at))
  BY DEF Delivery!apply_deletes
<1>2. \A s, h : DOMAIN s = Leaf => Fine([tree |-> s, ledger |-> h])
  OBVIOUS
<1>3. DOMAIN Delivery!FsRename(t, m.path, m.to) = Leaf
  BY DEF Delivery!FsRename
<1>4. DOMAIN [t EXCEPT ![m.path] = m.content] = Leaf
  OBVIOUS
<1> HIDE DEF Fine
<1>5. Fine(Delivery!apply_write(t, g, m))
  BY <1>2, <1>4 DEF Delivery!apply_write
<1>6. Fine(Delivery!apply_rename(t, g, m))
  BY <1>1, <1>2, <1>3 DEF Delivery!apply_rename
<1>7. Fine(Delivery!apply_action(t, g, m))
  BY <1>1, <1>5, <1>6 DEF Delivery!apply_action, Ops
<1> QED BY <1>7 DEF Fine

(* Only losing a connection and applying late touch what is left.           *)
LEMMA OldKept ==
    ASSUME Delivery!Next, ~Delivery!Disconnect, ~Delivery!Late
    PROVE  old' = old
<1>1. CASE Delivery!User
  BY <1>1 DEF Delivery!User, Delivery!UserWrite, Delivery!UserDelete, Delivery!UserRename, Delivery!Act,
              Delivery!server
<1>2. CASE Delivery!Drain
  BY <1>2 DEF Delivery!Drain, Delivery!Capture, Delivery!Connect, Delivery!StartPass,
              Delivery!DecideEntry, Delivery!CloseChunk, Delivery!SendWire, Delivery!SendBatchEnd,
              Delivery!RecvAck, Delivery!ServerApply, Delivery!ServerAck, Delivery!server
<1>3. CASE Delivery!Fault
  BY <1>3 DEF Delivery!Fault, Delivery!StopUnstable, Delivery!ServerApplyFails, Delivery!server
<1> QED BY <1>1, <1>2, <1>3 DEF Delivery!Next

(* The types of what is left are kept.                                      *)
LEMMA OldTypes ==
    ASSUME DInv, UType, Delivery!Next
    PROVE  /\ DOMAIN old' = 1..MaxLost
           /\ \A n \in 1..MaxLost : IsSeq(old'[n]) /\ \A x \in Elems(old'[n]) : x.op \in Ops \cup {"end"}
<1>1. CASE Delivery!Disconnect
  <2>1. IsSeq(net) /\ IsSeq(<<>>) /\ Elems(<<>>) = {} /\ \A x \in Elems(net) : x.op \in Ops \cup {"end"}
    BY EmptyCarries, ElemsNone DEF DInv, DType, UType
  <2>2. /\ DOMAIN old' = 1..MaxLost
        /\ \A k \in 1..MaxLost : old'[k] = old[k] \/ old'[k] = net \/ old'[k] = <<>>
    BY <1>1, LostFacts
  <2> QED BY <2>1, <2>2 DEF UType
<1>2. CASE Delivery!Late
  BY <1>2, LateFacts DEF UType
<1>3. CASE ~Delivery!Disconnect /\ ~Delivery!Late
  BY <1>3, OldKept DEF UType
<1> QED BY <1>1, <1>2, <1>3

LEMMA UTypeStep == DInv /\ UType /\ Delivery!Next => UType'
<1> SUFFICES ASSUME DInv, UType, Delivery!Next
             PROVE  /\ now' \in Nat /\ ops' \in Nat /\ DOMAIN disk' = Leaf /\ DOMAIN tree' = Leaf
                    /\ \A x \in Elems(net') : x.op \in Ops \cup {"end"}
  BY OldTypes DEF UType
<1> DEFINE Typed == /\ now' \in Nat /\ ops' \in Nat /\ DOMAIN disk' = Leaf /\ DOMAIN tree' = Leaf
                    /\ \A x \in Elems(net') : x.op \in Ops \cup {"end"}
<1>0. /\ now \in Nat /\ ops \in Nat /\ DOMAIN disk = Leaf /\ DOMAIN tree = Leaf
      /\ IsSeq(net) /\ IsSeq(drain.wires)
      /\ \A x \in Elems(net) : x.op \in Ops \cup {"end"}
      /\ \A x \in Elems(drain.wires) : x.op \in Ops
  BY DEF UType, DInv, DType, Elems
<1>1. CASE Delivery!User
  <2>1. ASSUME NEW t, NEW x, DOMAIN t = Leaf, Delivery!Act(t, x) PROVE Typed
    BY <1>0, <2>1 DEF Delivery!Act, Delivery!server
  <2>2. ASSUME NEW p \in Leaf, Delivery!UserWrite(p) PROVE Typed
    <3>1. DOMAIN [disk EXCEPT ![p] = Delivery!Fresh] = Leaf
      BY <1>0
    <3> QED BY <2>1, <2>2, <3>1 DEF Delivery!UserWrite
  <2>3. ASSUME NEW p \in Path, Delivery!UserDelete(p) PROVE Typed
    <3>1. DOMAIN [k \in Leaf |-> IF k \in Delivery!Under(p) THEN 0 ELSE disk[k]] = Leaf
      OBVIOUS
    <3> QED BY <2>1, <2>3, <3>1 DEF Delivery!UserDelete
  <2>4. ASSUME NEW m \in Moves, Delivery!UserRename(m[1], m[2]) PROVE Typed
    <3>1. DOMAIN Delivery!FsRename(disk, m[1], m[2]) = Leaf
      BY DEF Delivery!FsRename
    <3> QED BY <2>1, <2>4, <3>1 DEF Delivery!UserRename
  <2> QED BY <1>1, <2>2, <2>3, <2>4 DEF Delivery!User
<1>2. CASE Delivery!Capture
  BY <1>0, <1>2 DEF Delivery!Capture, Delivery!server, Delivery!bounds
<1>3. CASE Delivery!Connect \/ Delivery!StartPass \/ Delivery!CloseChunk \/ Delivery!StopUnstable
             \/ Delivery!RecvAck
  BY <1>0, <1>3 DEF Delivery!Connect, Delivery!StartPass, Delivery!CloseChunk, Delivery!StopUnstable,
                    Delivery!RecvAck, Delivery!client, Delivery!server, Delivery!bounds
<1>4. CASE Delivery!Disconnect
  BY <1>0, <1>4, ElemsNone DEF Delivery!Disconnect, Delivery!client, Delivery!server
<1>5. CASE Delivery!DecideEntry
  <2>1. PICK e : disk' = Delivery!decide(e).disk
    BY <1>5 DEF Delivery!DecideEntry
  <2>2. DOMAIN disk' = Leaf
    BY <1>0, <2>1, DecidedTree
  <2> QED BY <1>0, <1>5, <2>2 DEF Delivery!DecideEntry, Delivery!server, Delivery!bounds
<1>6. CASE Delivery!SendWire
  <2> DEFINE w == Head(drain.wires)
             x == Delivery!Frame(w.op, w.seq, w.path, w.to, w.at,
                    IF w.op = "upsert" /\ w.path \in Leaf THEN disk[w.path] ELSE 0)
  <2>1. /\ drain.wires # <<>> /\ (net' = net \/ net' = Append(net, x))
        /\ UNCHANGED <<now, ops, disk, tree>>
    BY <1>6 DEF Delivery!SendWire, Delivery!client, Delivery!server, Delivery!bounds
  <2>2. x.op = w.op
    BY DEF Delivery!Frame
  <2> HIDE DEF x
  <2>3. w.op \in Ops
    BY <1>0, <2>1, ElemsTail
  <2> HIDE DEF w
  <2>4. net' = Append(net, x) => Elems(net') = Elems(net) \cup {x}
    BY <1>0, ElemsAppend
  <2> QED BY <1>0, <2>1, <2>2, <2>3, <2>4
<1>7. CASE Delivery!SendBatchEnd
  <2> DEFINE x == Delivery!Frame("end", drain.upto, Delivery!NoPath, Delivery!NoPath, 0, 0)
  <2>1. net' = Append(net, x) /\ UNCHANGED <<now, ops, disk, tree>>
    BY <1>7 DEF Delivery!SendBatchEnd, Delivery!client, Delivery!server, Delivery!bounds
  <2>2. x.op = "end"
    BY DEF Delivery!Frame
  <2> HIDE DEF x
  <2>3. Elems(net') = Elems(net) \cup {x}
    BY <1>0, <2>1, ElemsAppend
  <2> QED BY <1>0, <2>1, <2>2, <2>3
<1>8. CASE Delivery!ServerApply \/ Delivery!ServerApplyFails \/ Delivery!ServerAck
  <2>1. net # <<>> /\ net' = Tail(net) /\ UNCHANGED <<now, ops, disk>>
    BY <1>8 DEF Delivery!ServerApply, Delivery!ServerApplyFails, Delivery!ServerAck,
                Delivery!client, Delivery!bounds
  <2>2. Elems(net') \subseteq Elems(net) /\ Head(net) \in Elems(net)
    BY <1>0, <2>1, ElemsTail
  <2>3. DOMAIN tree' = Leaf
    <3>1. CASE Delivery!ServerApply
      <4>1. Head(net).op # "end" /\ tree' = Delivery!apply_action(tree, theirs, Head(net)).tree
        BY <3>1 DEF Delivery!ServerApply
      <4>2. Head(net).op \in Ops
        BY <1>0, <2>2, <4>1
      <4> QED BY <1>0, <4>1, <4>2, AppliedTree
    <3>2. CASE Delivery!ServerApplyFails \/ Delivery!ServerAck
      BY <1>0, <3>2 DEF Delivery!ServerApplyFails, Delivery!ServerAck
    <3> QED BY <1>8, <3>1, <3>2
  <2> QED BY <1>0, <2>1, <2>2, <2>3
<1>9. CASE Delivery!Late
  <2>1. PICK m : m.op \in Ops /\ tree' = Delivery!apply_action(tree, theirs, m).tree
    BY <1>9, LateFacts
  <2>2. DOMAIN tree' = Leaf
    BY <1>0, <2>1, AppliedTree
  <2> QED BY <1>0, <1>9, <2>2, LateKeeps
<1> QED BY <1>1, <1>2, <1>3, <1>4, <1>5, <1>6, <1>7, <1>8, <1>9 DEF Delivery!Next, Delivery!Drain, Delivery!Fault

(* Frames are about paths of the tree, so what is left of them is.          *)
LEMMA LeftStep ==
    ASSUME DInv, UInv, Delivery!Next, moved \subseteq moved'
    PROVE  Left'
<1> SUFFICES ASSUME ~(Leaf \subseteq moved'), NEW n \in 1..MaxLost, NEW x \in Elems(old'[n]), x.op # "end"
             PROVE  x.path \in Path /\ (x.op = "rename" => x.to \in Path)
  BY DEF Left
<1>1. PICK l \in Leaf : l \notin moved
  OBVIOUS
<1>2. FileAt(l)
  BY <1>1 DEF UInv
<1>3. ASSUME x \in Elems(old[n]) PROVE x.path \in Path /\ (x.op = "rename" => x.to \in Path)
  BY <1>1, <1>3 DEF UInv, Left
<1>4. CASE Delivery!Disconnect
  <2>1. old'[n] = old[n] \/ old'[n] = net \/ old'[n] = <<>>
    BY <1>4, LostFacts DEF UInv
  <2>2. CASE old'[n] = net
    BY <1>2, <2>2 DEF FileAt, FlightAt, Flight, Apart
  <2> QED BY <1>3, <2>1, <2>2, ElemsNone
<1>5. CASE Delivery!Late
  <2>1. Elems(old'[n]) \subseteq Elems(old[n])
    BY <1>5, LateFacts DEF UInv
  <2> QED BY <1>3, <2>1
<1>6. CASE ~Delivery!Disconnect /\ ~Delivery!Late
  BY <1>3, <1>6, OldKept
<1> QED BY <1>4, <1>5, <1>6

-----------------------------------------------------------------------------
(* The three facts of the invariant.                                        *)

LEMMA UInit == Delivery!Init => UInv
<1> SUFFICES ASSUME Delivery!Init PROVE UInv
  OBVIOUS
<1>1. /\ disk = Seed /\ tree = Seed /\ events = <<>> /\ now = 0 /\ journal = Delivery!EmptyState
      /\ tombs = Delivery!L!EmptyLedger /\ theirs = Delivery!L!EmptyLedger
      /\ drain = Delivery!Idle /\ net = <<>> /\ ops = 0 /\ old = [n \in 1..MaxLost |-> <<>>]
  BY DEF Delivery!Init
<1>9. DOMAIN old = 1..MaxLost /\ \A n \in 1..MaxLost : old[n] = <<>>
  BY <1>1
<1>2. UType
  <2>1. /\ now \in Nat /\ ops \in Nat /\ DOMAIN disk = Leaf /\ DOMAIN tree = Leaf
        /\ \A x \in Elems(net) : x.op \in Ops \cup {"end"}
    BY <1>1, TreeAssumption, ElemsNone
  <2> QED BY <2>1, <1>9, ElemsNone, EmptyCarries DEF UType
<1>10. Left
  BY <1>9, ElemsNone DEF Left
<1>3. /\ journal.entries = {} /\ journal.by_path = {} /\ journal.by_to = {} /\ Flight = {}
  BY <1>1, IdleFacts, ElemsNone DEF Delivery!EmptyState, Flight
<1>4. ASSUME NEW l \in Leaf PROVE FileAt(l)
  <2>1. l \in Path
    BY LeafFacts
  <2>2. PendingAt(journal, l) = {} /\ Elems(events) = {} /\ Len(events) = 0
    BY <1>1, <1>3, ElemsNone, EmptyCarries DEF PendingAt
  <2>3. EventsAt(l)
    BY <2>2 DEF EventsAt
  <2>4. JournalAt(l)
    BY <1>3, <2>2 DEF JournalAt, Indexed
  <2>5. FlightAt(l)
    BY <1>1, <1>3, IdleFacts DEF FlightAt
  <2>6. Shaped(Delivery!L!EmptyLedger, l)
        /\ Delivery!L!EmptyLedger.entries[l] = -1 /\ Delivery!L!EmptyLedger.alive[l] = 0
    BY <2>1 DEF Shaped, Delivery!L!EmptyLedger, Delivery!L!NoStamp
  <2>7. LedgersAt(l)
    BY <1>1, <1>3, <2>2, <2>6 DEF LedgersAt, Older
  <2>8. ServedAt(l)
    BY <1>1, <2>2 DEF ServedAt
  <2> QED BY <2>3, <2>4, <2>5, <2>7, <2>8 DEF FileAt
<1> QED BY <1>2, <1>4, <1>10 DEF UInv

LEMMA UNext == DInv /\ UInv /\ [Delivery!Next]_Delivery!vars => UInv'
<1> SUFFICES ASSUME DInv, UInv, [Delivery!Next]_Delivery!vars PROVE UInv'
  OBVIOUS
<1>0. UType /\ now \in Nat
  BY DEF UInv, UType
<1>1. CASE Delivery!Next
  <2>1. UType'
    BY <1>0, <1>1, UTypeStep
  <2>2. moved \subseteq moved'
    <3>1. CASE Delivery!User
      BY <3>1 DEF Delivery!User, Delivery!UserWrite, Delivery!UserDelete, Delivery!UserRename, Delivery!Act
    <3>2. CASE Delivery!Drain
      BY <3>2 DEF Delivery!Drain, Delivery!Capture, Delivery!Connect, Delivery!StartPass,
                  Delivery!DecideEntry, Delivery!CloseChunk, Delivery!SendWire, Delivery!SendBatchEnd,
                  Delivery!RecvAck, Delivery!ServerApply, Delivery!ServerAck, Delivery!history
    <3>3. CASE Delivery!Fault
      BY <3>3 DEF Delivery!Fault, Delivery!Disconnect, Delivery!StopUnstable,
                  Delivery!ServerApplyFails, Delivery!history
    <3>4. CASE Delivery!Late
      BY <3>4 DEF Delivery!Late, Delivery!LateApply
    <3> QED BY <1>1, <3>1, <3>2, <3>3, <3>4 DEF Delivery!Next
  <2>3. ASSUME NEW l \in Leaf, l \notin moved' PROVE FileAt(l)'
    <3>1. FileAt(l)
      BY <2>2, <2>3 DEF UInv
    <3>2. CASE Delivery!User
      BY <1>0, <2>3, <3>1, <3>2, FileUser
    <3>3. CASE Delivery!Drain
      BY <1>0, <3>1, <3>3, FileCapture, FileConnect, FileStartPass, FileDecide, FileKept, FileSendWire,
         FileRecvAck, FileServerApply DEF Delivery!Drain
    <3>4. CASE Delivery!Fault
      BY <3>1, <3>4, FileKept DEF Delivery!Fault
    <3>5. CASE Delivery!Late
      BY <1>0, <2>2, <2>3, <3>1, <3>5, FileLate DEF UInv
    <3> QED BY <1>1, <3>2, <3>3, <3>4, <3>5 DEF Delivery!Next
  <2>4. Left'
    BY <1>1, <2>2, LeftStep
  <2> QED BY <2>1, <2>3, <2>4 DEF UInv
<1>2. CASE UNCHANGED Delivery!vars
  <2>1. UNCHANGED <<disk, events, now, journal, tombs, drain, net, tree, theirs, old, ops, owed, moved>>
    BY <1>2 DEF Delivery!vars, Delivery!client, Delivery!server, Delivery!bounds, Delivery!history
  <2>2. UType'
    BY <1>0, <2>1 DEF UType
  <2>3. ASSUME NEW l \in Leaf, l \notin moved PROVE FileAt(l)'
    <3>1. FileAt(l)
      BY <2>3 DEF UInv
    <3> QED BY <2>1, <3>1, Shrinks
  <2>4. Left'
    BY <2>1 DEF UInv, Left
  <2> QED BY <2>1, <2>2, <2>3, <2>4 DEF UInv
<1> QED BY <1>1, <1>2

(* A file that no rename has touched, and that was not in a directory taken *)
(* away as one, is at the server as the user left it once the journal is    *)
(* empty (client.rs, drain_action_journal; server.rs, apply_client_action): *)
(* for any tree, any number of user actions, faults and reconnections, and  *)
(* with events captured while a pass is under way.  The files that handlers *)
(* of lost connections write after the reconnect are not claimed.           *)
THEOREM UnmovedArrive == Delivery!Spec => []UnmovedDelivered
<1>1. UInv => UnmovedDelivered
  <2> SUFFICES ASSUME UInv, events = <<>>, journal.entries = {}, NEW l \in Leaf, l \notin moved
               PROVE  tree[l] = disk[l]
    BY DEF UnmovedDelivered, Delivery!UnmovedDelivered, Delivery!Quiet
  <2>1. ServedAt(l)
    BY DEF UInv, FileAt
  <2>2. Told(l) /\ PendingAt(journal, l) = {}
    BY ElemsNone DEF Told, PendingAt
  <2> QED BY <2>1, <2>2 DEF ServedAt
<1> QED BY <1>1, DInit, DNext, UInit, UNext, PTL DEF Delivery!Spec

=============================================================================
