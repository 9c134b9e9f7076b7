---------------------------- MODULE LocalChanges ----------------------------
(***************************************************************************)
(* What the server's own users change and how the live peers hear of it:   *)
(* PendingChanges (filesync/src/common.rs) and local_change_broadcaster    *)
(* with flush_local_changes and broadcast_paths (server.rs).               *)
(*                                                                         *)
(* Users work on the disk while the thread collects the watcher's events,  *)
(* scans, and flushes in steps: renames, then files, then deletes.  The    *)
(* peer is connected, does what it is told in the order it is told, and    *)
(* has no users; nothing is suppressed or excluded.  Paths are files, so   *)
(* the set "changes", which only directories enter, is left out.  A file   *)
(* is its version and its mtime; version 0 is no file.                     *)
(***************************************************************************)
EXTENDS Integers, FiniteSets, Sequences

CONSTANTS
    File,
    Seeded,   \* the files there are at the start
    MaxOp,    \* bound: what users do
    MaxMiss,  \* bound: a further change is missed while fewer files have one
    MaxScan   \* bound: scans

VARIABLES
    disk,     \* disk[f]: the server's file
    manifest, \* manifest[f]: the version the engine's manifest lists
    ledger,   \* the server's deletion ledger
    events,   \* fs_rx
    pending,  \* PendingChanges: ready, deletes, renames, live
    phase,    \* where the broadcaster is
    peer,     \* peer[f]: the version the peer has
    pledger,  \* the peer's deletion ledger
    clock, ops, scans,
    missed,   \* history: files whose change was missed since the last scan
    excuse    \* history: why the peer may differ, see MirrorFollows

vars == <<disk, manifest, ledger, events, pending, phase, peer, pledger,
          clock, ops, scans, missed, excuse>>

L == INSTANCE LedgerOps WITH
        Path <- File, Ancestors <- [f \in File |-> <<f>>],
        Stamp <- 0..(2 * MaxOp + 2), Ttl <- 2 * MaxOp + 2

NoFile == [v |-> 0, m |-> 0]
Nothing == [ready |-> {}, deletes |-> {}, renames |-> <<>>, live |-> [f \in File |-> 0]]
Contents(d) == [f \in File |-> d[f].v]

Init ==
    /\ disk = [f \in File |-> IF f \in Seeded THEN [v |-> 1, m |-> 1] ELSE NoFile]
    /\ manifest = Contents(disk) /\ peer = Contents(disk)
    /\ ledger = L!EmptyLedger /\ pledger = L!EmptyLedger
    /\ events = <<>> /\ pending = Nothing /\ phase = "loop"
    /\ clock = 1 /\ ops = 0 /\ scans = 0 /\ missed = {} /\ excuse = {}

-----------------------------------------------------------------------------
(* Users, and the watcher that sees or misses them.                         *)

ThreadSame == UNCHANGED <<manifest, ledger, pending, phase, peer, pledger, scans>>

Op(e, touched) ==
    /\ ops < MaxOp /\ ops' = ops + 1 /\ clock' = clock + 1
    /\ \/ events' = Append(events, e) /\ UNCHANGED missed
       \/ Cardinality(missed) < MaxMiss /\ missed' = missed \cup touched /\ UNCHANGED events
    /\ ThreadSame

(* Files with a change the peer has not got.                                *)
UnderWay ==
    missed \cup pending.ready \cup pending.deletes \cup {f \in File : peer[f] # disk[f].v}
      \cup (UNION {{events[i].path, events[i].to} : i \in DOMAIN events})
      \cup (UNION {{pending.renames[i][1], pending.renames[i][2]} : i \in DOMAIN pending.renames})

Write(f) ==
    /\ disk' = [disk EXCEPT ![f] = [v |-> ops + 2, m |-> clock + 1]]
    /\ Op([op |-> "WriteComplete", path |-> f, to |-> f], {f}) /\ UNCHANGED excuse

Unlink(f) ==
    /\ disk[f] # NoFile
    /\ disk' = [disk EXCEPT ![f] = NoFile]
    /\ Op([op |-> "Deleted", path |-> f, to |-> f], {f}) /\ UNCHANGED excuse

Move(f, g) ==
    /\ f # g /\ disk[f] # NoFile
    /\ disk' = [disk EXCEPT ![g] = disk[f], ![f] = NoFile]
    /\ Op([op |-> "Renamed", path |-> f, to |-> g], {f, g})
    /\ excuse' = excuse \cup {"hasty" : h \in {f, g} \cap UnderWay}

-----------------------------------------------------------------------------
(* The peer's engine.                                                       *)

(* apply_deletes of one file: a live action as new as the delete keeps it.  *)
apply_deletes(r, fs, at) ==
    [disk |-> [f \in File |-> IF f \in fs /\ ~L!is_superseded(r.ledger, f, at) THEN 0 ELSE r.disk[f]],
     ledger |-> L!merge_remote(r.ledger, [f \in File |-> IF f \in fs THEN at ELSE L!NoStamp])]

(* apply_rename_at: vetoed, the source is deleted; without a source nothing *)
(* is moved.                                                                *)
apply_rename_at(r, from, to, at) ==
    IF L!veto_for(r.ledger, to, at, 0) THEN apply_deletes(r, {from}, at)
    ELSE [disk |-> IF r.disk[from] = 0 THEN r.disk
                   ELSE [r.disk EXCEPT ![to] = r.disk[from], ![from] = 0],
          ledger |-> L!admit_record(r.ledger, to, at, 0)]

(* apply_bundle of one file.                                                *)
apply_file(r, f, v, stamp, mtime) ==
    IF L!veto_for(r.ledger, f, stamp, mtime) THEN r
    ELSE [disk |-> [r.disk EXCEPT ![f] = v], ledger |-> L!admit_record(r.ledger, f, stamp, mtime)]

Peer == [disk |-> peer, ledger |-> pledger]
Becomes(r) == peer' = r.disk /\ pledger' = r.ledger

-----------------------------------------------------------------------------
(* PendingChanges.                                                          *)

UserSame == UNCHANGED <<disk, ops>>

(* Mutant: a file written again stays among the deletes. *)
Collected_KeepsDelete(p, e, now) ==
    CASE e.op = "WriteComplete" ->
           [p EXCEPT !.ready = @ \cup {e.path}, !.live = [@ EXCEPT ![e.path] = now]]
      [] e.op = "Deleted" ->
           [p EXCEPT !.ready = @ \ {e.path}, !.deletes = @ \cup {e.path}]
      [] e.op = "Renamed" ->
           [p EXCEPT !.ready = @ \ {e.path, e.to}, !.deletes = @ \ {e.path},
                     !.renames = Append(@, <<e.path, e.to>>)]

(* collect_event.                                                           *)
Collected(p, e, now) ==
    CASE e.op = "WriteComplete" ->
           [p EXCEPT !.ready = @ \cup {e.path}, !.deletes = @ \ {e.path},
                     !.live = [@ EXCEPT ![e.path] = now]]
      [] e.op = "Deleted" ->
           [p EXCEPT !.ready = @ \ {e.path}, !.deletes = @ \cup {e.path}]
      [] e.op = "Renamed" ->
           [p EXCEPT !.ready = @ \ {e.path, e.to}, !.deletes = @ \ {e.path},
                     !.renames = Append(@, <<e.path, e.to>>)]

Collect ==
    /\ phase = "loop" /\ events # <<>>
    /\ pending' = Collected(pending, Head(events), clock)
    /\ events' = Tail(events)
    /\ UNCHANGED <<manifest, ledger, phase, peer, pledger, clock, scans, missed, excuse>> /\ UserSame

(* periodic_rescan: scan replaces the manifest, diff_manifests tells what   *)
(* is new.                                                                  *)
Rescan ==
    LET changed == {f \in File : disk[f].v \notin {0, manifest[f]}}
        deleted == {f \in File : disk[f].v = 0 /\ manifest[f] # 0}
    IN  /\ phase = "loop" /\ scans < MaxScan /\ scans' = scans + 1
        /\ manifest' = Contents(disk)
        /\ pending' = [pending EXCEPT !.ready = (@ \cup changed) \ deleted,
                                      !.deletes = (@ \ changed) \cup deleted]
        /\ missed' = {}
        /\ excuse' = excuse
             \cup {"unseen" : f \in missed \ (changed \cup deleted)}
             \cup {"late" : i \in {k \in DOMAIN events : events[k].op = "Renamed" \/ events[k].path \in missed}}
        /\ UNCHANGED <<ledger, events, phase, peer, pledger, clock>> /\ UserSame

(* The scan of a session that starts, or of POST /rescan.                   *)
ScanElsewhere ==
    /\ scans < MaxScan /\ scans' = scans + 1
    /\ manifest' = Contents(disk)
    /\ UNCHANGED <<ledger, events, pending, phase, peer, pledger, clock, missed, excuse>> /\ UserSame

-----------------------------------------------------------------------------
(* flush_local_changes.                                                     *)

ApplyRenames(r, rs, at) ==
    LET run[i \in 0..Len(rs)] ==
            IF i = 0 THEN r ELSE apply_rename_at(run[i - 1], rs[i][1], rs[i][2], at)
    IN  run[Len(rs)]

Targets == {pending.renames[i][2] : i \in DOMAIN pending.renames}

(* record_live_actions of what was collected and of the renames' targets,   *)
(* then one Rename each.                                                    *)
FlushRenames ==
    LET at(f) == IF f \in Targets THEN clock ELSE pending.live[f]
    IN  /\ phase = "loop" /\ pending # Nothing
        /\ phase' = "files"
        /\ ledger' = L!merge_alive(ledger, [f \in File |-> at(f)])
        /\ Becomes(ApplyRenames(Peer, pending.renames, clock))
        /\ pending' = [pending EXCEPT !.renames = <<>>, !.live = Nothing.live]
        /\ excuse' = excuse \cup {"mixed" : f \in Targets \cap pending.deletes}
        /\ UNCHANGED <<manifest, events, clock, scans, missed>> /\ UserSame

wire_action_stamp(f) ==
    IF ledger.alive[f] = 0 THEN L!NoStamp ELSE L!MaxOf(ledger.alive[f], disk[f].m)

(* broadcast_paths, file by file as it is found on the disk; one that is    *)
(* gone is skipped.                                                         *)
SendFile(f) ==
    /\ phase = "files" /\ f \in pending.ready
    /\ pending' = [pending EXCEPT !.ready = @ \ {f}]
    /\ Becomes(IF disk[f] = NoFile THEN Peer
               ELSE apply_file(Peer, f, disk[f].v, wire_action_stamp(f), disk[f].m))
    /\ excuse' = IF L!veto_for(ledger, f, wire_action_stamp(f), disk[f].m)
                 THEN excuse \cup {"outdated"} ELSE excuse
    /\ UNCHANGED <<manifest, ledger, events, phase, clock, scans, missed>> /\ UserSame

(* take_deletes_with_engine: one stamp for the ledger and for the message.  *)
FlushDeletes ==
    /\ phase = "files" /\ pending.ready = {}
    /\ phase' = "loop"
    /\ pending' = [pending EXCEPT !.deletes = {}]
    /\ LET stones == [f \in File |-> IF f \in pending.deletes THEN clock ELSE L!NoStamp]
       IN  ledger' = L!merge_remote(ledger, stones)
    /\ Becomes(apply_deletes(Peer, pending.deletes, clock))
    /\ clock' = clock + 1
    /\ UNCHANGED <<manifest, events, scans, missed, excuse>> /\ UserSame

Next ==
    \/ \E f \in File : Write(f) \/ Unlink(f) \/ SendFile(f)
    \/ \E f, g \in File : Move(f, g)
    \/ Collect \/ Rescan \/ ScanElsewhere \/ FlushRenames \/ FlushDeletes

Spec == Init /\ [][Next]_vars

-----------------------------------------------------------------------------
(* filesync/README.md:331, the periodic full rescan: when the events are    *)
(* read, the changes flushed and no change was missed since the rescan, a   *)
(* peer that stayed connected has exactly the server's files, although      *)
(* users worked through it all and the watcher missed some of it.  Excused: *)
(*   hasty     a file was moved while an earlier change of it, or of its    *)
(*             target, was under way;                                       *)
(*   mixed     a rename and a delete of its target were in one flush;       *)
(*   late      a rename older than the rescan, or an event of a file with a *)
(*             change that was missed, was collected after it;              *)
(*   unseen    a missed change was undone, or was taken into the manifest   *)
(*             by another scan, before the rescan;                          *)
(*   outdated  an old file came, unseen, to where a newer one was deleted.  *)
MirrorFollows ==
    /\ events = <<>> /\ pending = Nothing /\ phase = "loop"
    /\ missed = {} /\ excuse = {}
    => peer = Contents(disk)
=============================================================================
