----------------------------- MODULE JournalOps -----------------------------
(***************************************************************************)
(* The in-memory state of the client's action journal                      *)
(* (crates/filesync/src/action_journal.rs) and its coalescing rules, as    *)
(* operators.  A path is the sequence of its components.                   *)
(***************************************************************************)
EXTENDS Integers, Sequences, SequencesExt

NoPath == <<>>

(* Path::starts_with, component-wise.                                       *)
starts_with(p, q) == IsPrefix(q, p)

Entry(seq, op, path, to, at) == [seq |-> seq, op |-> op, path |-> path, to |-> to, at |-> at]
AckLine(upto) == Entry(upto, "ack", NoPath, NoPath, 0)
DamagedLine == Entry(0, "damaged", NoPath, NoPath, 0)

EmptyState == [entries |-> {}, by_path |-> {}, by_to |-> {}, acked |-> 0, next_seq |-> 1]

exact(index, p) == {i[2] : i \in {j \in index : j[1] = p}}
under(index, p) == {i[2] : i \in {j \in index : starts_with(j[1], p)}}

At(s, seqs) == {e \in s.entries : e.seq \in seqs}

(* State::insert: an entry with the same sequence number is overwritten.    *)
insert(s, e) ==
    [s EXCEPT !.entries = {f \in @ : f.seq # e.seq} \cup {e},
              !.by_path = @ \cup {<<e.path, e.seq>>},
              !.by_to = IF e.op = "rename" THEN @ \cup {<<e.to, e.seq>>} ELSE @,
              !.next_seq = IF e.seq + 1 > @ THEN e.seq + 1 ELSE @]

remove(s, es) ==
    [s EXCEPT !.entries = @ \ es,
              !.by_path = @ \ {<<e.path, e.seq>> : e \in es},
              !.by_to = @ \ {<<e.to, e.seq>> : e \in {f \in es : f.op = "rename"}}]

ack_local(s, upto) ==
    LET r == remove(s, {e \in s.entries : e.seq <= upto})
    IN  [r EXCEPT !.acked = IF upto > @ THEN upto ELSE @,
                  !.next_seq = IF upto + 1 > @ THEN upto + 1 ELSE @]

(* A delete below a pending rename: both ends deleted, the entry goes; only *)
(* the source, the content lives on at the target; only the target, the     *)
(* source still exists remotely.                                            *)
Cut(v, p) ==
    LET from_in == starts_with(v.path, p)
        to_in == starts_with(v.to, p)
    IN  IF v.op # "rename" \/ (from_in /\ to_in) THEN {}
        ELSE IF from_in THEN {Entry(v.seq, "upsert", v.to, NoPath, v.at)}
        ELSE IF to_in THEN {Entry(v.seq, "delete", v.path, NoPath, v.at)}
        ELSE {v}

(* Entries under numbers that were issued before.                           *)
InsertAll(s, es) ==
    [s EXCEPT !.entries = {f \in @ : \A e \in es : f.seq # e.seq} \cup es,
              !.by_path = @ \cup {<<e.path, e.seq>> : e \in es},
              !.by_to = @ \cup {<<e.to, e.seq>> : e \in {f \in es : f.op = "rename"}}]

(* State::apply: the coalescing rules, shared by append and replay.         *)
ApplyUpsert(s, e) ==
    insert(remove(s, {f \in At(s, exact(s.by_path, e.path)) : f.op # "rename"}), e)

ApplyDelete(s, e) ==
    LET victims == At(s, under(s.by_path, e.path) \cup under(s.by_to, e.path))
    IN  insert(InsertAll(remove(s, victims), UNION {Cut(v, e.path) : v \in victims}), e)

ApplyRename(s, e) ==
    LET r == remove(s, {f \in At(s, exact(s.by_path, e.path)) : f.op = "upsert"})
    IN  insert(remove(r, {f \in At(r, exact(r.by_path, e.to)) : f.op # "rename"}), e)

apply(s, e) ==
    IF e.op = "upsert" THEN ApplyUpsert(s, e)
    ELSE IF e.op = "delete" THEN ApplyDelete(s, e)
    ELSE ApplyRename(s, e)

apply_line(s, line) ==
    IF line.op = "ack" THEN ack_local(s, line.seq)
    ELSE IF line.op = "damaged" THEN s ELSE apply(s, line)

(* upsert, delete: the next number is the entry's.                          *)
append(s, op, p, at) == apply(s, Entry(s.next_seq, op, p, NoPath, at))

(* rename: a pending upsert of the source is recorded again at the target.  *)
HadUpsert(s, from) == \E e \in At(s, exact(s.by_path, from)) : e.op = "upsert"

rename(s, from, to, at) ==
    LET r == apply(s, Entry(s.next_seq, "rename", from, to, at))
    IN  IF HadUpsert(s, from) THEN append(r, "upsert", to, at) ELSE r
=============================================================================
