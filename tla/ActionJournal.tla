---------------------------- MODULE ActionJournal ----------------------------
(***************************************************************************)
(* The client's persistent journal of user actions                         *)
(* (crates/filesync/src/action_journal.rs): the append-only file,          *)
(* acknowledgement, compaction, failing appends and replay after a crash.  *)
(*                                                                         *)
(* A line of the file is a journal entry, an acknowledgement, or a line    *)
(* that does not parse; tail says whether the file ends in an unfinished   *)
(* line.  Stamps play no part in the journal itself.                       *)
(***************************************************************************)
EXTENDS JournalOps, FiniteSets

CONSTANTS
    Path,       \* the paths users touch
    MaxSeq,     \* bound: sequence numbers ever assigned
    CompactMin, \* COMPACT_MIN_LINES
    MaxCrash,   \* bound: crashes
    MaxFault,   \* bound: appends, compactions and starts that fail
    MaxLines    \* bound: lines of a journal after such a failure

VARIABLES
    st,         \* State: pending entries, their indices, acked, next_seq
    file,       \* complete lines of action-journal.jsonl
    tail,       \* the file ends in a partial line
    counted,    \* lines_on_disk: the lines this process knows of
    crashes, faults,
    rewritten   \* history: the file has been rewritten compacted

vars == <<st, file, tail, counted, crashes, faults, rewritten>>

(* The lines an operation appends, in order.                                *)
UpsertLines(p) == <<Entry(st.next_seq, "upsert", p, NoPath, 0)>>
DeleteLines(p) == <<Entry(st.next_seq, "delete", p, NoPath, 0)>>
RenameLines(from, to) ==
    <<Entry(st.next_seq, "rename", from, to, 0)>> \o
      (IF HadUpsert(st, from) THEN <<Entry(st.next_seq + 1, "upsert", to, NoPath, 0)>> ELSE <<>>)

(* One line after the other.                                                *)
ApplyLines(s, lines) ==
    LET run[i \in 0..Len(lines)] == IF i = 0 THEN s ELSE apply_line(run[i - 1], lines[i])
    IN  run[Len(lines)]

replay(lines) == ApplyLines(EmptyState, lines)

(* Entries in sequence order: snapshot.                                     *)
InOrder(es) ==
    CHOOSE q \in [1..Cardinality(es) -> es] :
        /\ \A i, j \in DOMAIN q : i < j => q[i].seq < q[j].seq
        /\ \A e \in es : \E i \in DOMAIN q : q[i] = e

(* Mutant: the acked marker is not written. *)
write_compacted_NoCursor(s) == InOrder(s.entries)

(* write_compacted: the acked marker, then the entries in sequence order.   *)
write_compacted(s) ==
    (IF s.acked > 0 THEN <<AckLine(s.acked)>> ELSE <<>>) \o InOrder(s.entries)

(* append_line on a file that ends in a partial line glues the two.         *)
Written(lines) ==
    IF lines = <<>> THEN file
    ELSE file \o (IF tail THEN <<DamagedLine>> \o Tail(lines) ELSE lines)

-----------------------------------------------------------------------------
(* append, rename and ack: write the lines, apply them, maybe_compact.      *)
(* lines_on_disk is also what is left when the compaction fails.            *)
Commit(lines) ==
    LET n == counted + Len(lines)
    IN  /\ st' = ApplyLines(st, lines)
        /\ tail' = FALSE
        /\ \/ /\ file' = IF n >= CompactMin THEN write_compacted(st') ELSE Written(lines)
              /\ counted' = IF n >= CompactMin THEN Len(file') ELSE n
              /\ rewritten' = (rewritten \/ n >= CompactMin)
              /\ UNCHANGED faults
           \/ /\ n >= CompactMin /\ faults < MaxFault
              /\ file' = Written(lines) /\ counted' = n
              /\ faults' = faults + 1
              /\ UNCHANGED rewritten
        /\ UNCHANGED crashes

Room(lines) == faults > 0 => Len(file) + Len(lines) <= MaxLines
Fits(lines) == st.next_seq + Len(lines) - 1 <= MaxSeq /\ Room(lines)

Upsert(p) == Fits(UpsertLines(p)) /\ Commit(UpsertLines(p))

Delete(p) == Fits(DeleteLines(p)) /\ Commit(DeleteLines(p))

(* A rename moves a path elsewhere, never into itself.                      *)
CanRename(from, to) == ~starts_with(from, to) /\ ~starts_with(to, from)

Rename(from, to) ==
    /\ CanRename(from, to)
    /\ Fits(RenameLines(from, to))
    /\ Commit(RenameLines(from, to))

(* Mutant: the acknowledgement is not written to the file. *)
Ack_InMemory(upto) ==
    /\ upto < st.next_seq
    /\ st' = ack_local(st, upto)
    /\ UNCHANGED <<file, tail, counted, crashes, faults, rewritten>>

(* ack: an acknowledgement that brings nothing new is not written.          *)
Ack(upto) ==
    /\ upto < st.next_seq
    /\ IF upto <= st.acked
       THEN st' = ack_local(st, upto) /\ UNCHANGED <<file, tail, counted, crashes, faults, rewritten>>
       ELSE Room(<<AckLine(upto)>>) /\ Commit(<<AckLine(upto)>>)

(* What an operation under way may be appending.                            *)
Appending ==
    {l \in {UpsertLines(p) : p \in Path}
             \cup {DeleteLines(p) : p \in Path}
             \cup {RenameLines(r[1], r[2]) : r \in {q \in Path \X Path : CanRename(q[1], q[2])}} :
        Fits(l)}
      \cup {<<AckLine(n)>> : n \in (st.acked + 1)..(st.next_seq - 1)}

(* Mutant: a damaged file is set aside and not rewritten. *)
open_SetsAside(lines, torn) ==
    LET damaged == torn \/ \E i \in DOMAIN lines : lines[i].op = "damaged"
    IN  /\ st' = replay(lines)
        /\ file' = IF damaged THEN <<>> ELSE lines
        /\ counted' = Len(file')
        /\ rewritten' = (rewritten \/ damaged)
        /\ tail' = FALSE
        /\ UNCHANGED faults

(* open: replay; a damaged file is backed up and rewritten compacted, or is *)
(* kept when that fails.  A file that cannot be read, a tail torn inside a  *)
(* character included, is taken for an empty one and kept as it is.         *)
open(lines, torn) ==
    LET s == replay(lines)
        damaged == torn \/ \E i \in DOMAIN lines : lines[i].op = "damaged"
    IN  \/ /\ st' = s
           /\ file' = IF damaged THEN write_compacted(s) ELSE lines
           /\ counted' = Len(file')
           /\ rewritten' = (rewritten \/ damaged)
           /\ tail' = FALSE
           /\ UNCHANGED faults
        \/ /\ faults < MaxFault
           /\ faults' = faults + 1
           /\ file' = lines /\ tail' = torn
           /\ \/ damaged /\ st' = s /\ counted' = Len(lines)
              \/ st' = EmptyState /\ counted' = 0
           /\ UNCHANGED rewritten

(* The process dies while an operation appends its lines: some of them are  *)
(* in the file, the next one perhaps in part; then the client restarts.     *)
Crash(lines) ==
    \E k \in 0..Len(lines), torn \in BOOLEAN :
        /\ crashes < MaxCrash
        /\ k = Len(lines) => ~torn
        /\ crashes' = crashes + 1
        /\ open(Written(SubSeq(lines, 1, k)), torn \/ (tail /\ k = 0))

(* An append fails while the process lives on: write_all leaves part of a   *)
(* line, or sync_data fails after the whole line was written.  The entry is *)
(* not applied; of a rename's two lines the first may have been.            *)
FailedAppend(lines) ==
    \E k \in 0..(Len(lines) - 1), whole \in BOOLEAN :
        /\ faults < MaxFault
        /\ faults' = faults + 1
        /\ st' = ApplyLines(st, SubSeq(lines, 1, k))
        /\ file' = Written(SubSeq(lines, 1, IF whole THEN k + 1 ELSE k))
        /\ tail' = ~whole
        /\ counted' = counted + k
        /\ UNCHANGED <<crashes, rewritten>>

Init ==
    /\ st = EmptyState /\ file = <<>> /\ tail = FALSE /\ counted = 0
    /\ crashes = 0 /\ faults = 0 /\ rewritten = FALSE

Next ==
    \/ \E p \in Path : Upsert(p) \/ Delete(p)
    \/ \E p, q \in Path : Rename(p, q)
    \/ \E upto \in 0..MaxSeq : Ack(upto)
    \/ \E lines \in Appending : Crash(lines) \/ FailedAppend(lines)

Spec == Init /\ [][Next]_vars

-----------------------------------------------------------------------------
Seqs == 1..MaxSeq
Entries == [seq : Seqs, op : {"upsert", "delete", "rename"}, path : Path,
            to : Path \cup {NoPath}, at : {0}]

(* The journal holds entries it issued, one per sequence number, and each   *)
(* line of the file is an entry, an acknowledgement or damage.              *)
TypeOK ==
    /\ st.entries \subseteq Entries
    /\ st.by_path \subseteq Path \X Seqs /\ st.by_to \subseteq Path \X Seqs
    /\ st.acked \in 0..MaxSeq /\ st.next_seq \in 1..(MaxSeq + 1)
    /\ \A i \in DOMAIN file : file[i] \in Entries \cup {DamagedLine} \cup {AckLine(n) : n \in Seqs}
    /\ tail \in BOOLEAN /\ counted \in 0..Len(file)
    /\ crashes \in 0..MaxCrash /\ faults \in 0..MaxFault

(* action_journal.rs:8, "replay reproduces the live state": until the file  *)
(* is first rewritten, reading it back gives the pending entries, the       *)
(* acknowledged prefix and the next number the process has in memory, also  *)
(* in a later life of the process, if no append, compaction or read of the  *)
(* file has failed.                                                         *)
ReplayReproduces ==
    LET r == replay(file)
    IN  ~rewritten /\ faults = 0 =>
            r.entries = st.entries /\ r.acked = st.acked /\ r.next_seq = st.next_seq

(* Across compaction, crashes and torn tails a restart resumes at the same  *)
(* sequence number and above the same acknowledged prefix: a number is      *)
(* never given to two actions, so an old acknowledgement cannot remove a    *)
(* new entry, and an acknowledged entry does not come back.  This is for    *)
(* journals every start could read: after a failing read (line 293), to     *)
(* which a crash in the middle of a multi-byte character leads, the process *)
(* numbers from 1 again and appends to the old file.                        *)
CursorSurvives ==
    LET r == replay(file)
    IN  faults = 0 => /\ r.acked = st.acked /\ r.next_seq = st.next_seq
                      /\ \A e \in r.entries : e.seq > st.acked

(* Every path with an operation pending still has one after a restart that  *)
(* can read the file: an entry for it, for a directory above it, or a       *)
(* rename onto it.  Compaction and replay coalesce entries, they never      *)
(* forget that something is to be delivered there.                          *)
NoPathForgotten ==
    faults = 0 => \A e \in st.entries : \E f \in replay(file).entries :
        starts_with(e.path, f.path) \/ (f.op = "rename" /\ starts_with(e.path, f.to))
=============================================================================
