---------------------------- MODULE JournalDrain ----------------------------
(***************************************************************************)
(* Delivery of a client's user actions to the server: the watcher's event  *)
(* queue and capture_fs_event, the drain of the action journal             *)
(* (client.rs, drain_action_journal and send_loop) and the server's        *)
(* handlers (server.rs, recv_action_drain, client_recv_loop and            *)
(* apply_client_action), over a connection that may be lost at any point.  *)
(*                                                                         *)
(* A tree maps each file to its content, a version number, 0 when there is *)
(* no such file; a directory exists while a file below it does.  The       *)
(* client is the only writer, so every write carries an action stamp and   *)
(* the conflict copies of apply_bundle cannot arise.  A chunk may end      *)
(* after any entry: that covers the limits on entries and on bytes.        *)
(***************************************************************************)
EXTENDS JournalOps, FiniteSets

CONSTANTS
    Leaf,       \* the files there may be
    Path,       \* files and directories
    Seed,       \* file -> content both sides start with, 0 when absent
    Moves,      \* renames users may make: pairs of paths
    Lag,        \* BOOLEAN: the drain may run while events wait for capture
    Linger,     \* BOOLEAN: a lost connection's handler may outlive the reconnect
    MaxOps,     \* bound: user actions
    MaxFault    \* bound: lost connections, failing applies, unstable files

Ancestors == [p \in Path |-> [i \in 1..Len(p) |-> SubSeq(p, 1, Len(p) + 1 - i)]]
Stamp == 0..MaxOps
Ttl == MaxOps

L == INSTANCE LedgerOps

VARIABLES
    disk,       \* the client's tree
    events,     \* watcher events not yet captured
    now,        \* the client's clock: one tick per captured event
    st,         \* the journal
    mine,       \* the client's deletion ledger
    drain,      \* drain_action_journal: its progress through one pass
    up,         \* the connection is established
    net, acks,  \* frames in flight to the server, acknowledgements back
    old,        \* frames the handlers of lost connections still have to apply
    srv,        \* the server handler's last_acked and chunk_failed
    tree,       \* the server's tree
    theirs,     \* the server's deletion ledger
    ops, faults,
    owed,       \* history: sent entries the server has not applied
    moved       \* history: the files of renames, of directories removed as one
                \* and of what the handler of a lost connection applied late

client == <<disk, events, now, st, mine>>
server == <<srv, tree, theirs, old>>
bounds == <<ops, faults>>
history == <<owed, moved>>
vars == <<client, drain, up, net, acks, server, bounds, history>>

-----------------------------------------------------------------------------
(* Trees.                                                                   *)
Under(p) == {l \in Leaf : starts_with(l, p)}
exists(t, p) == \E l \in Under(p) : t[l] # 0
Suffix(l, p) == SubSeq(l, Len(p) + 1, Len(l))

(* fs::rename.  A file replaces a file; a directory does not replace one    *)
(* that has files in it.                                                    *)
FsRename(t, p, q) ==
    [l \in Leaf |->
        IF l \in Under(q) THEN t[p \o Suffix(l, q)] ELSE IF l \in Under(p) THEN 0 ELSE t[l]]
FsRenameFails(t, p, q) == p \notin Leaf /\ exists(t, q)

(* apply_deletes: what a live action at least as new protects is kept.      *)
Protected(l, p, at) == {q \in Under(p) \cup {p} : l.alive[q] > 0 /\ l.alive[q] >= at}
apply_deletes(t, l, p, at) ==
    [tree |-> [f \in Leaf |-> IF f \in Under(p) \ Protected(l, p, at) THEN 0 ELSE t[f]],
     ledger |-> L!record(l, p, at)]

(* apply_bundle for one file; a path that is a directory carries no files.  *)
apply_write(t, l, m) ==
    IF L!veto_for(l, m.path, m.at, 0) THEN [tree |-> t, ledger |-> l]
    ELSE [tree |-> IF m.path \in Leaf THEN [t EXCEPT ![m.path] = m.content] ELSE t,
          ledger |-> L!admit_record(l, m.path, m.at, 0)]

(* apply_rename_at: vetoed at the target, the source is deleted instead; a  *)
(* missing source is an idempotent retransmit.                              *)
apply_rename(t, l, m) ==
    IF L!veto_for(l, m.to, m.at, 0) THEN apply_deletes(t, l, m.path, m.at)
    ELSE [tree |-> IF exists(t, m.path) /\ ~FsRenameFails(t, m.path, m.to)
                   THEN FsRename(t, m.path, m.to) ELSE t,
          ledger |-> L!admit_record(l, m.to, m.at, 0)]

apply_action(t, l, m) ==
    CASE m.op = "upsert" -> apply_write(t, l, m)
      [] m.op = "rename" -> apply_rename(t, l, m)
      [] m.op = "delete" -> apply_deletes(t, l, m.path, m.at)

-----------------------------------------------------------------------------
(* The user.                                                                *)
Act(t, e) ==
    /\ ops < MaxOps
    /\ ops' = ops + 1
    /\ disk' = t
    /\ events' = Append(events, e)
    /\ moved' = moved \cup (IF e.op = "rename" THEN Under(e.path) \cup Under(e.to)
                           ELSE IF e.path \in Leaf THEN {} ELSE Under(e.path))
    /\ UNCHANGED <<now, st, mine, drain, up, net, acks, server, faults, owed>>

Fresh == Cardinality(Leaf) + ops + 1

UserWrite(p) == Act([disk EXCEPT ![p] = Fresh], [op |-> "upsert", path |-> p, to |-> NoPath])

UserDelete(p) ==
    /\ exists(disk, p)
    /\ Act([l \in Leaf |-> IF l \in Under(p) THEN 0 ELSE disk[l]],
           [op |-> "delete", path |-> p, to |-> NoPath])

UserRename(p, q) ==
    /\ exists(disk, p)
    /\ ~FsRenameFails(disk, p, q)
    /\ Act(FsRename(disk, p, q), [op |-> "rename", path |-> p, to |-> q])

(* capture_fs_event, stamped with the time of receipt.                      *)
Capture ==
    /\ events # <<>>
    /\ LET e == Head(events)
       IN  st' = IF e.op = "rename" THEN rename(st, e.path, e.to, now + 1)
                 ELSE append(st, e.op, e.path, now + 1)
    /\ now' = now + 1
    /\ events' = Tail(events)
    /\ UNCHANGED <<disk, mine, drain, up, net, acks, server, bounds, history>>

-----------------------------------------------------------------------------
(* The client's drain.                                                      *)
Idle == [pc |-> "idle", pending |-> {}, wires |-> <<>>, upto |-> 0, stop |-> FALSE]

(* A session begins: ledgers are exchanged, the server's handler is new.    *)
Connect ==
    /\ ~up
    /\ up' = TRUE
    /\ LET l == L!merge_ledger(mine, theirs)
       IN  mine' = l /\ theirs' = L!merge_ledger(theirs, l)
    /\ srv' = [last_acked |-> 0, failed |-> FALSE]
    /\ UNCHANGED <<disk, events, now, st, drain, net, acks, tree, old, bounds, history>>

(* The connection is lost and run() reconnects.  The frames the server has  *)
(* received are left to its handler thread, which nothing stops.  What it   *)
(* applies before the client is back is the same as applied before the      *)
(* loss, so old is what it may apply later; the rest is gone.               *)
Disconnect ==
    /\ up
    /\ faults < MaxFault
    /\ faults' = faults + 1
    /\ up' = FALSE
    /\ old' = [old EXCEPT ![faults'] = IF Linger THEN net ELSE <<>>]
    /\ net' = <<>> /\ acks' = <<>>
    /\ drain' = Idle
    /\ UNCHANGED <<client, srv, tree, theirs, ops, history>>

(* With Lag FALSE the capture thread is assumed to run ahead of the drain.  *)
CaughtUp == Lag \/ events = <<>>

StartPass ==
    /\ up
    /\ CaughtUp
    /\ drain.pc = "idle"
    /\ st.entries # {}
    /\ drain' = [Idle EXCEPT !.pc = "decide", !.pending = st.entries]
    /\ UNCHANGED <<client, up, net, acks, server, bounds, history>>

tombstone_beating(p, at) == L!covering_tombstone(mine, p) > at
stage_live_action(p, at) ==
    IF L!alive_record_needed(mine, p, at) THEN L!record_alive(mine, p, at) ELSE mine

(* The pass goes through its snapshot in sequence order.                    *)
Pending == {e \in drain.pending : \A f \in drain.pending : e.seq <= f.seq}

(* Each outcome of decide: the client's new tree and ledger, what is sent.  *)
Settled(d, l) == [disk |-> d, ledger |-> l, send |-> <<>>]
Send(d, l, e) == [disk |-> d, ledger |-> l, send |-> <<e>>]

DecideUpsert(e) ==
    IF ~exists(disk, e.path) THEN Settled(disk, mine)
    ELSE IF tombstone_beating(e.path, e.at)
    THEN LET r == apply_deletes(disk, mine, e.path, L!covering_tombstone(mine, e.path))
         IN  Settled(r.tree, r.ledger)
    ELSE Send(disk, stage_live_action(e.path, e.at), e)

DecideRename(e) ==
    IF ~tombstone_beating(e.to, e.at)
    THEN Send(disk, stage_live_action(e.to, e.at), e)
    ELSE LET r == apply_deletes(disk, mine, e.to, L!covering_tombstone(mine, e.to))
             s == apply_deletes(r.tree, r.ledger, e.path, e.at)
         IN  IF exists(r.tree, e.path) THEN Settled(r.tree, r.ledger)
             ELSE Send(s.tree, s.ledger, Entry(e.seq, "delete", e.path, NoPath, e.at))

DecideDelete(e) ==
    IF exists(disk, e.path) THEN Settled(disk, mine)
    ELSE Send(disk, L!record(mine, e.path, e.at), e)

decide(e) ==
    IF e.op = "upsert" THEN DecideUpsert(e)
    ELSE IF e.op = "rename" THEN DecideRename(e)
    ELSE DecideDelete(e)

DecideEntry ==
    /\ drain.pc = "decide"
    /\ CaughtUp
    /\ \E e \in Pending : LET r == decide(e) IN
           /\ disk' = r.disk
           /\ mine' = r.ledger
           /\ drain' = [drain EXCEPT !.pending = @ \ {e}, !.wires = @ \o r.send, !.upto = e.seq]
           /\ owed' = IF r.send = <<>> THEN owed \ {e.seq} ELSE owed \cup {e.seq}
    /\ UNCHANGED <<events, now, st, up, net, acks, server, bounds, moved>>

(* The chunk is full.                                                       *)
CloseChunk ==
    /\ drain.pc = "decide"
    /\ drain.upto > 0
    /\ drain' = [drain EXCEPT !.pc = "send"]
    /\ UNCHANGED <<client, up, net, acks, server, bounds, history>>

(* is_file_stable: a file still being written stops the pass.               *)
StopUnstable ==
    /\ drain.pc = "decide"
    /\ \E e \in Pending : e.op = "upsert" /\ exists(disk, e.path)
    /\ faults < MaxFault
    /\ faults' = faults + 1
    /\ drain' = IF drain.upto > 0 THEN [drain EXCEPT !.pc = "send", !.stop = TRUE] ELSE Idle
    /\ UNCHANGED <<client, up, net, acks, server, ops, history>>

Frame(op, seq, path, to, at, content) ==
    [op |-> op, seq |-> seq, path |-> path, to |-> to, at |-> at, content |-> content]

(* stream_upserts reads the content now; a file gone by now is skipped.     *)
SendWire ==
    /\ drain.pc = "send"
    /\ drain.wires # <<>>
    /\ CaughtUp
    /\ LET w == Head(drain.wires)
           gone == w.op = "upsert" /\ ~exists(disk, w.path)
           content == IF w.op = "upsert" /\ w.path \in Leaf THEN disk[w.path] ELSE 0
       IN  /\ net' = IF gone THEN net
                     ELSE Append(net, Frame(w.op, w.seq, w.path, w.to, w.at, content))
           /\ owed' = IF gone THEN owed \ {w.seq} ELSE owed
    /\ drain' = [drain EXCEPT !.wires = Tail(@)]
    /\ UNCHANGED <<client, up, acks, server, bounds, moved>>

(* Mutant: the batch ends before its last frames are sent. *)
SendBatchEnd_Early ==
    /\ drain.pc = "send"
    /\ net' = Append(net, Frame("end", drain.upto, NoPath, NoPath, 0, 0))
    /\ drain' = [drain EXCEPT !.pc = "await"]
    /\ UNCHANGED <<client, up, acks, server, bounds, history>>

SendBatchEnd ==
    /\ drain.pc = "send"
    /\ drain.wires = <<>>
    /\ net' = Append(net, Frame("end", drain.upto, NoPath, NoPath, 0, 0))
    /\ drain' = [drain EXCEPT !.pc = "await"]
    /\ UNCHANGED <<client, up, acks, server, bounds, history>>

(* Mutant: after a partial ack the client waits for the rest. *)
RecvAck_Waits ==
    /\ drain.pc = "await"
    /\ acks # <<>>
    /\ LET acked == IF Head(acks) < drain.upto THEN Head(acks) ELSE drain.upto
       IN  /\ st' = ack_local(st, acked)
           /\ drain' = IF acked < drain.upto THEN drain
                       ELSE IF drain.stop \/ drain.pending = {} THEN Idle
                       ELSE [Idle EXCEPT !.pc = "decide", !.pending = drain.pending]
    /\ acks' = Tail(acks)
    /\ UNCHANGED <<disk, events, now, mine, up, net, server, bounds, history>>

(* await_ack, journal.ack: a short ack ends the pass.                       *)
RecvAck ==
    /\ drain.pc = "await"
    /\ acks # <<>>
    /\ LET acked == IF Head(acks) < drain.upto THEN Head(acks) ELSE drain.upto
       IN  /\ st' = ack_local(st, acked)
           /\ drain' = IF acked < drain.upto \/ drain.stop \/ drain.pending = {} THEN Idle
                       ELSE [Idle EXCEPT !.pc = "decide", !.pending = drain.pending]
    /\ acks' = Tail(acks)
    /\ UNCHANGED <<disk, events, now, mine, up, net, server, bounds, history>>

-----------------------------------------------------------------------------
(* The server.                                                              *)
ServerApply ==
    /\ net # <<>> /\ Head(net).op # "end"
    /\ LET m == Head(net)
           r == apply_action(tree, theirs, m)
       IN  tree' = r.tree /\ theirs' = r.ledger /\ owed' = owed \ {m.seq}
    /\ net' = Tail(net)
    /\ UNCHANGED <<client, drain, up, acks, srv, old, bounds, moved>>

(* apply_client_action returns false (disk full, permission, hash).         *)
ServerApplyFails ==
    /\ net # <<>> /\ Head(net).op # "end"
    /\ faults < MaxFault
    /\ faults' = faults + 1
    /\ srv' = [srv EXCEPT !.failed = TRUE]
    /\ net' = Tail(net)
    /\ UNCHANGED <<client, drain, up, acks, tree, theirs, old, ops, history>>

MaxOfTwo(x, y) == IF x >= y THEN x ELSE y

(* Mutant: a chunk with a failed message is acknowledged whole. *)
ServerAck_IgnoresFailure ==
    /\ net # <<>> /\ Head(net).op = "end"
    /\ acks' = Append(acks, MaxOfTwo(Head(net).seq, srv.last_acked))
    /\ srv' = [last_acked |-> MaxOfTwo(Head(net).seq, srv.last_acked), failed |-> FALSE]
    /\ net' = Tail(net)
    /\ UNCHANGED <<client, drain, up, tree, theirs, old, bounds, history>>

ServerAck ==
    /\ net # <<>> /\ Head(net).op = "end"
    /\ LET upto == IF srv.failed THEN srv.last_acked ELSE MaxOfTwo(Head(net).seq, srv.last_acked)
       IN  /\ acks' = Append(acks, upto)
           /\ srv' = [last_acked |-> upto, failed |-> FALSE]
    /\ net' = Tail(net)
    /\ UNCHANGED <<client, drain, up, tree, theirs, old, bounds, history>>

(* The handler of a lost connection applies a frame it had received, after  *)
(* those that failed; its acknowledgements go nowhere.                      *)
LateApply(n) ==
    /\ up
    /\ \E i \in DOMAIN old[n] :
           LET m == old[n][i]
               r == apply_action(tree, theirs, m)
           IN  /\ m.op # "end"
               /\ old' = [old EXCEPT ![n] = SubSeq(@, i + 1, Len(@))]
               /\ tree' = r.tree /\ theirs' = r.ledger
               /\ moved' = moved \cup Under(m.path) \cup
                              (IF m.op = "rename" THEN Under(m.to) ELSE {})
    /\ UNCHANGED <<client, drain, up, net, acks, srv, ops, faults, owed>>

-----------------------------------------------------------------------------
Init ==
    /\ disk = Seed /\ tree = Seed
    /\ events = <<>> /\ now = 0 /\ st = EmptyState
    /\ mine = L!EmptyLedger /\ theirs = L!EmptyLedger
    /\ drain = Idle /\ up = FALSE /\ net = <<>> /\ acks = <<>>
    /\ srv = [last_acked |-> 0, failed |-> FALSE]
    /\ ops = 0 /\ faults = 0 /\ old = [n \in 1..MaxFault |-> <<>>] /\ owed = {} /\ moved = {}

User ==
    \/ \E p \in Leaf : UserWrite(p)
    \/ \E p \in Path : UserDelete(p)
    \/ \E r \in Moves : UserRename(r[1], r[2])

Drain ==
    Capture \/ Connect \/ StartPass \/ DecideEntry \/ CloseChunk \/ SendWire \/ SendBatchEnd
      \/ RecvAck \/ ServerApply \/ ServerAck

Fault == Disconnect \/ StopUnstable \/ ServerApplyFails

Late == \E n \in 1..MaxFault : LateApply(n)

Next == User \/ Drain \/ Fault \/ Late

(* run() reconnects and send_loop polls forever, the capture thread and the *)
(* server's handler take what is queued.                                    *)
Spec == Init /\ [][Next]_vars /\ WF_vars(Drain)

-----------------------------------------------------------------------------
Contents == 0..(Cardinality(Leaf) + MaxOps)
Seqs == 1..(2 * MaxOps)
Frames == [op : {"upsert", "delete", "rename", "end"}, seq : Seqs, path : Path \cup {NoPath},
           to : Path \cup {NoPath}, at : Stamp, content : Contents]

(* The trees, the ledgers, the journal, the drain and the frames in flight  *)
(* have their types.                                                        *)
TypeOK ==
    /\ disk \in [Leaf -> Contents] /\ tree \in [Leaf -> Contents]
    /\ mine \in L!Ledger /\ theirs \in L!Ledger
    /\ now \in Stamp /\ Len(events) <= MaxOps
    /\ \A e \in st.entries : e.seq \in Seqs /\ e.at \in Stamp
    /\ drain.pc \in {"idle", "decide", "send", "await"} /\ up \in BOOLEAN
    /\ \A i \in DOMAIN net : net[i] \in Frames
    /\ old \in [1..MaxFault -> Seq(Frames)]
    /\ \A i \in DOMAIN acks : acks[i] \in {0} \cup Seqs
    /\ srv \in [last_acked : {0} \cup Seqs, failed : BOOLEAN]
    /\ ops \in 0..MaxOps /\ faults \in 0..MaxFault /\ owed \subseteq Seqs
    /\ moved \subseteq Leaf

Quiet == events = <<>> /\ st.entries = {} /\ net = <<>>

(* Once every user action is captured, delivered and acknowledged, the      *)
(* server has the client's tree, after redelivery too: "Re-sending an       *)
(* unacked entry is idempotent" (action_journal.rs:11).                     *)
DrainDelivers == Quiet => tree = disk

(* A file that no rename has touched, and that was not in a directory taken *)
(* away as one, is at the server as the user left it once the journal is    *)
(* empty, whatever passes, partial acknowledgements, failing applies, lost  *)
(* connections and late watcher events came between, and whatever became of *)
(* the other files.  The files the handler of a lost connection writes      *)
(* after the client is back (server.rs:1080) are left out: there an older   *)
(* version may replace one already acknowledged.                            *)
UnmovedDelivered == Quiet => \A l \in Leaf \ moved : tree[l] = disk[l]

(* An acknowledgement removes an entry from the journal only when the       *)
(* server has applied what was sent for it, whatever connections are lost,  *)
(* applies fail and passes are cut short (server.rs:788).                   *)
AckedWereApplied ==
    [][st'.acked > st.acked =>
          \A e \in st.entries : e.seq <= st'.acked => e.seq \notin owed]_vars

(* Every user action is delivered in the end: once the user rests and the   *)
(* bounded faults are over, the journal empties and stays empty, in         *)
(* whatever order passes, partial acknowledgements and reconnections come.  *)
EventuallyDrained == <>[]Quiet
=============================================================================
