----------------------------- MODULE LedgerOps -----------------------------
(***************************************************************************)
(* The deletion ledger of one node (crates/filesync/src/ledger.rs) and the *)
(* admission rules SyncEngine builds on it (sync_engine.rs), as operators. *)
(* Per path it holds the newest tombstone and the newest live action.      *)
(*                                                                         *)
(* A tombstone is abstracted to its stamp: who deleted and what was        *)
(* deleted take no part in any decision of the ledger itself.              *)
(***************************************************************************)
EXTENDS Integers, Sequences

CONSTANTS
    Path,       \* relative paths
    Ancestors,  \* path -> the walk of Path::ancestors(), nearest first
    Stamp,      \* wall-clock values, in milliseconds
    Ttl         \* DELETION_LEDGER_TTL_MS

ASSUME PathAssumption ==
    /\ Ancestors \in [Path -> Seq(Path)]
    /\ \A p \in Path : Len(Ancestors[p]) > 0 /\ Ancestors[p][1] = p

ASSUME StampAssumption == Stamp \subseteq Nat /\ Ttl \in Nat

-----------------------------------------------------------------------------
(* The data structure.  entries[p] is the tombstone's stamp, NoStamp when   *)
(* there is none; alive[p] is A(P), 0 when there is no record.              *)

NoStamp == -1

MaxOf(a, b) == IF a >= b THEN a ELSE b

Ledger == [entries : [Path -> {NoStamp} \cup Stamp],
           alive   : [Path -> {0} \cup Stamp]]

EmptyLedger == [entries |-> [p \in Path |-> NoStamp],
                alive   |-> [p \in Path |-> 0]]

is_superseded(l, p, d) == l.alive[p] > 0 /\ d <= l.alive[p]

alive_record_needed(l, p, a) ==
    a > 0 /\ (a > l.alive[p] \/ (l.entries[p] # NoStamp /\ l.entries[p] <= a))

(* Mutant: an older action replaces a newer record. *)
record_alive_Overwrites(l, p, a) ==
    IF a = 0 THEN l
    ELSE [entries |-> [l.entries EXCEPT ![p] = IF @ <= a THEN NoStamp ELSE @],
          alive   |-> [l.alive EXCEPT ![p] = a]]

record_alive(l, p, a) ==
    IF a = 0 THEN l
    ELSE [entries |-> [l.entries EXCEPT ![p] = IF @ <= a THEN NoStamp ELSE @],
          alive   |-> [l.alive EXCEPT ![p] = MaxOf(@, a)]]

(* Mutant: the superseded check is missing. *)
record_Unguarded(l, p, d) ==
    IF l.entries[p] >= d THEN l ELSE [l EXCEPT !.entries = [@ EXCEPT ![p] = d]]

record(l, p, d) ==
    IF is_superseded(l, p, d) \/ l.entries[p] >= d THEN l
    ELSE [l EXCEPT !.entries = [@ EXCEPT ![p] = d]]

remove(l, ps) ==
    [l EXCEPT !.entries = [p \in Path |-> IF p \in ps THEN NoStamp ELSE @[p]]]

(* Mutant: a tombstone already held is kept, newer or not. *)
merge_remote_KeepsFirst(l, remote) ==
    [l EXCEPT !.entries =
        [p \in Path |-> IF @[p] # NoStamp \/ is_superseded(l, p, remote[p]) THEN @[p] ELSE remote[p]]]

(* Applies the remote tombstones one by one; they have distinct paths.      *)
merge_remote(l, remote) ==
    [l EXCEPT !.entries =
        [p \in Path |->
            IF remote[p] = NoStamp \/ is_superseded(l, p, remote[p]) \/ @[p] >= remote[p]
            THEN @[p] ELSE remote[p]]]

(* merge_ledger: live records first, then the tombstones.                   *)
merge_alive(l, remote) ==
    [entries |-> [p \in Path |-> IF remote[p] > 0 /\ l.entries[p] <= remote[p]
                                 THEN NoStamp ELSE l.entries[p]],
     alive   |-> [p \in Path |-> MaxOf(l.alive[p], remote[p])]]

(* Mutant: the live records of the peer are ignored. *)
merge_ledger_TombstonesOnly(l, dtos) == merge_remote(l, dtos.entries)

merge_ledger(l, dtos) == merge_remote(merge_alive(l, dtos.alive), dtos.entries)

Kept(stamp, now) == stamp > now \/ now - stamp <= Ttl

prune(l, now) ==
    [entries |-> [p \in Path |-> IF Kept(l.entries[p], now) THEN l.entries[p] ELSE NoStamp],
     alive   |-> [p \in Path |-> IF Kept(l.alive[p], now) THEN l.alive[p] ELSE 0]]

(* Mutant: the walk takes a tombstone the path has outlived. *)
Applicable_IgnoresAlive(l, p) ==
    {i \in DOMAIN Ancestors[p] : l.entries[Ancestors[p][i]] # NoStamp}

(* Positions of the walk whose tombstone still applies to p.                *)
Applicable(l, p) ==
    {i \in DOMAIN Ancestors[p] :
        LET d == l.entries[Ancestors[p][i]]
        IN  d # NoStamp /\ ~(l.alive[p] > 0 /\ d <= l.alive[p])}

covering_tombstone(l, p) ==
    LET a == Applicable(l, p)
    IN  IF a = {} THEN NoStamp
        ELSE l.entries[Ancestors[p][CHOOSE i \in a : \A j \in a : i <= j]]

(* An incoming write carries a live action stamp, or NoStamp when it is a   *)
(* catch-up write judged by its mtime.                                      *)
Comparand(action, mtime) == IF action = NoStamp THEN mtime ELSE action

veto_for(l, p, action, mtime) == covering_tombstone(l, p) > Comparand(action, mtime)

admit_record(l, p, action, mtime) ==
    IF action # NoStamp
    THEN IF alive_record_needed(l, p, action) THEN record_alive(l, p, action) ELSE l
    ELSE IF l.entries[p] # NoStamp /\ mtime > l.entries[p]
         THEN record_alive(l, p, mtime) ELSE l
=============================================================================
