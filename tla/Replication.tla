----------------------------- MODULE Replication -----------------------------
(***************************************************************************)
(* A server and its clients keeping one path in step: the session          *)
(* (server.rs handle_client, client.rs session), the initial sync computed *)
(* from two manifests (manifest.rs), the relay of live changes to the      *)
(* other peers, and the periodic rescans (common.rs).                      *)
(*                                                                         *)
(* A file is its content, a version number, and its mtime; a user's write  *)
(* makes a new version, with the time of the write as mtime.  The server's *)
(* manifest is never empty: there are other files.                         *)
(*                                                                         *)
(* What a client sends is applied by the server in the same step, since    *)
(* delivery and acknowledgement are the subject of JournalDrain; what the  *)
(* server sends waits in the client's queue.  A session ends when the      *)
(* client gives the connection up; the server's handler may end long after.*)
(***************************************************************************)
EXTENDS Integers, Sequences, FiniteSets

CONSTANTS
    Client,
    QueueDepth, \* CLIENT_BROADCAST_DEPTH
    Overlap,    \* BOOLEAN: changes may happen while others are under way
    MaxOps,     \* bound: user actions
    MaxFault    \* bound: lost connections

VARIABLES
    node,       \* node[n]: disk, manifest, ledger, prev of the tombstone, conflict copies
    journal,    \* journal[c]: the pending user action of client c
    pend,       \* the server's PendingChanges
    conn,       \* conn[c]: phase of the session of c
    snap,       \* snap[c]: the two manifests exchanged
    queue,      \* queue[c]: messages on their way to c
    hush,       \* hush[n]: the events of the file that are suppressed, "write" and "delete"
    relic,       \* relic[c]: the handlers of lost connections of c that still run
    unlisted,   \* clients whose entry among the peers such a handler took out
    now, ops, faults,
    last,       \* history: the version users, or a client's rescan, last wrote, 0 for none
    lapsed      \* history: a change was not captured

vars ==
    <<node, journal, pend, conn, snap, queue, hush, relic, unlisted, now, ops, faults, last, lapsed>>

Server == "server"
Node == Client \cup {Server}

File == "file"
Path == {File}
Ancestors == [p \in Path |-> <<p>>]
MaxStamp == 3 * MaxOps
Stamp == 0..MaxStamp
Ttl == MaxStamp

L == INSTANCE LedgerOps

NoFile == [v |-> 0, m |-> 0]
NoAction == [op |-> "none", at |-> 0]

(* Messages: a file with its action stamp or none, a delete, SyncComplete.  *)
FileMsg(f, at) == [op |-> "file", v |-> f.v, m |-> f.m, at |-> at]
DeleteMsg(at) == [op |-> "delete", v |-> 0, m |-> 0, at |-> at]
CompleteMsg == [op |-> "complete", v |-> 0, m |-> 0, at |-> 0]

tombstone(nd) == nd.ledger.entries[File]
alive(nd) == nd.ledger.alive[File]

-----------------------------------------------------------------------------
(* The engine of one node.                                                  *)

(* detect_conflict: the file on disk is neither what the manifest says nor  *)
(* what arrives.                                                            *)
detect_conflict(nd, msg) ==
    /\ nd.mani # NoFile /\ nd.disk # NoFile
    /\ msg.v # nd.mani.v /\ nd.disk.v # nd.mani.v /\ nd.disk.v # msg.v

(* Mutant: the resurrection guard is missing. *)
apply_bundle_Unguarded(nd, msg) ==
    [nd EXCEPT !.ledger = L!admit_record(@, File, msg.at, msg.m),
               !.saved = IF detect_conflict(nd, msg) THEN @ \cup {nd.disk.v} ELSE @,
               !.disk = [v |-> msg.v, m |-> msg.m],
               !.mani = [v |-> msg.v, m |-> msg.m]]

apply_bundle(nd, msg) ==
    IF L!veto_for(nd.ledger, File, msg.at, msg.m) THEN nd
    ELSE [nd EXCEPT !.ledger = L!admit_record(@, File, msg.at, msg.m),
                    !.saved = IF detect_conflict(nd, msg) THEN @ \cup {nd.disk.v} ELSE @,
                    !.disk = [v |-> msg.v, m |-> msg.m],
                    !.mani = [v |-> msg.v, m |-> msg.m]]

(* A tombstone remembers what the manifest said of the file.                *)
record(nd, at) ==
    LET l == L!record(nd.ledger, File, at)
    IN  [nd EXCEPT !.ledger = l, !.prev = IF l = nd.ledger THEN @ ELSE nd.mani]

apply_deletes(nd, at) ==
    LET r == record(nd, at)
    IN  IF alive(nd) > 0 /\ alive(nd) >= at THEN r
        ELSE [r EXCEPT !.disk = NoFile, !.mani = NoFile]

apply_msg(nd, msg) ==
    IF msg.op = "file" THEN apply_bundle(nd, msg) ELSE apply_deletes(nd, msg.at)

(* What apply_bundle writes joins suppressed, and what apply_deletes removes *)
(* joins suppressed_deletes.                                                *)
Hushes(nd, msg) ==
    IF msg.op = "file"
    THEN IF L!veto_for(nd.ledger, File, msg.at, msg.m) THEN {} ELSE {"write"}
    ELSE IF alive(nd) > 0 /\ alive(nd) >= msg.at THEN {} ELSE {"delete"}

merge_ledger(nd, other) ==
    LET l == L!merge_ledger(nd.ledger, other.ledger)
    IN  [nd EXCEPT !.ledger = l,
                   !.prev = IF l.entries = nd.ledger.entries THEN @ ELSE other.prev]

scan(nd) == [nd EXCEPT !.mani = nd.disk]

wire_action_stamp(nd) ==
    IF alive(nd) = 0 THEN L!NoStamp ELSE L!MaxOf(alive(nd), nd.disk.m)

(* stream_messages: a file that is gone is skipped.                         *)
stream(nd, at) == IF nd.disk = NoFile THEN <<>> ELSE <<FileMsg(nd.disk, at)>>

-----------------------------------------------------------------------------
(* The initial sync, computed from the manifests both sides exchanged.      *)

(* Mutant: only files the other side lacks are sent. *)
compute_send_list_Missing(local, remote, is_server) == local # NoFile /\ remote = NoFile

compute_send_list(local, remote, is_server) ==
    /\ local # NoFile
    /\ \/ remote = NoFile
       \/ /\ local.v # remote.v
          /\ local.m > remote.m \/ (local.m = remote.m /\ is_server)

(* filter_resurrected: "send", "recreate" (sent, and its tombstone lifted)  *)
(* or "veto".                                                               *)
filter_resurrected(nd, local) ==
    LET t == tombstone(nd)
    IN  IF t = L!NoStamp THEN "send"
        ELSE IF local.m > t THEN "recreate"
        ELSE IF t > local.m /\ (nd.prev = NoFile \/ local.v = nd.prev.v \/ local.m <= nd.prev.m)
             THEN "veto"
        ELSE "send"

compute_deletes_to_push(nd, remote, t) ==
    IF t # L!NoStamp /\ nd.mani = NoFile /\ remote # NoFile /\ t > remote.m
    THEN <<DeleteMsg(t)>> ELSE <<>>

(* One side's part of the initial sync: what becomes of the node, and what  *)
(* it sends.                                                                *)
SyncPhase(nd, local, remote, is_server) ==
    LET listed == compute_send_list(local, remote, is_server)
        verdict == IF listed THEN filter_resurrected(nd, local) ELSE "none"
        t == tombstone(nd)
        cleaned == IF verdict = "veto" THEN apply_deletes(nd, t) ELSE nd
        files == IF verdict \in {"send", "recreate"}
                 THEN stream(cleaned, wire_action_stamp(cleaned)) ELSE <<>>
    IN  [node |-> IF verdict = "recreate"
                  THEN [cleaned EXCEPT !.ledger = L!remove(@, {File})] ELSE cleaned,
         hush |-> IF verdict = "veto" THEN Hushes(nd, DeleteMsg(t)) ELSE {},
         send |-> compute_deletes_to_push(cleaned, remote, t) \o files]

-----------------------------------------------------------------------------
(* Mutant: only deletes are relayed. *)
broadcast_to_others_NotFiles(q, sender, msgs) ==
    [c \in Client |->
        IF conn[c] = "live" /\ c \notin unlisted /\ c # sender /\ msgs # <<>> /\ msgs[1].op = "delete"
        THEN q[c] \o msgs ELSE q[c]]

(* The server's peers are the clients whose session is live, but for those  *)
(* whose entry is gone.  try_send drops what a full queue has no room for.  *)
broadcast_to_others(q, sender, msgs) ==
    [c \in Client |->
        LET all == q[c] \o msgs
            room == L!MaxOf(Len(q[c]), QueueDepth)
        IN  IF conn[c] = "live" /\ c \notin unlisted /\ c # sender
            THEN SubSeq(all, 1, IF Len(all) <= room THEN Len(all) ELSE room) ELSE q[c]]

ApplyAll(nd, msgs) ==
    IF msgs = <<>> THEN nd
    ELSE IF Len(msgs) = 1 THEN apply_msg(nd, msgs[1])
    ELSE apply_msg(apply_msg(nd, msgs[1]), msgs[2])

HushesAll(nd, msgs) ==
    IF msgs = <<>> THEN {}
    ELSE IF Len(msgs) = 1 THEN Hushes(nd, msgs[1])
    ELSE Hushes(nd, msgs[1]) \cup Hushes(apply_msg(nd, msgs[1]), msgs[2])

NoPending == [file |-> "none", live |-> 0]

(* Nothing is on its way and no session is being set up.                    *)
Calm ==
    /\ pend = NoPending
    /\ \A c \in Client : queue[c] = <<>> /\ conn[c] \in {"down", "live"}
    /\ \A c \in Client : conn[c] = "live" => journal[c] = NoAction

May == Overlap \/ Calm

-----------------------------------------------------------------------------
(* An event of kind k is seen when it is not suppressed.  A timer takes the *)
(* path out SUPPRESSION_SECS after the write or delete that put it there;   *)
(* the step that finds it gone stands for the timer too.                    *)
Seen(n, k) == hush' = [hush EXCEPT ![n] = @ \ {k}] /\ UNCHANGED lapsed

(* Or it is dropped, and nothing but a later scan can tell.                 *)
Dropped(n, k) == k \in hush[n] /\ lapsed' = TRUE /\ UNCHANGED hush

(* Users.  A client that runs captures their changes in its journal,        *)
(* connected or not (capture_fs_event); the server collects them in its     *)
(* PendingChanges (collect_event).                                          *)
User(n) ==
    /\ May
    /\ ops < MaxOps
    /\ ops' = ops + 1
    /\ now' = now + 1
    /\ UNCHANGED <<conn, snap, queue, relic, unlisted, faults>>

capture_fs_event(n, op) ==
    journal' = IF n \in Client
               THEN [journal EXCEPT ![n] = [op |-> op, at |-> now + 1]] ELSE journal

collect_event(n, file, live) ==
    pend' = IF n = Server THEN [file |-> file, live |-> live] ELSE pend

UserWrite(n) ==
    /\ User(n)
    /\ node' = [node EXCEPT ![n].disk = [v |-> ops + 1, m |-> now + 1]]
    /\ last' = ops + 1
    /\ \/ Seen(n, "write") /\ capture_fs_event(n, "upsert") /\ collect_event(n, "ready", now + 1)
       \/ Dropped(n, "write") /\ UNCHANGED <<journal, pend>>

UserDelete(n) ==
    /\ User(n)
    /\ node[n].disk # NoFile
    /\ node' = [node EXCEPT ![n].disk = NoFile]
    /\ last' = 0
    /\ \/ Seen(n, "delete") /\ capture_fs_event(n, "delete") /\ collect_event(n, "delete", pend.live)
       \/ Dropped(n, "delete") /\ UNCHANGED <<journal, pend>>

-----------------------------------------------------------------------------
(* The session.  Ledgers are exchanged ...                                  *)
Connect(c) ==
    /\ May
    /\ conn[c] = "down"
    /\ LET mine == merge_ledger(node[c], node[Server])
       IN  node' = [node EXCEPT ![c] = mine, ![Server] = merge_ledger(@, mine)]
    /\ conn' = [conn EXCEPT ![c] = "drain"]
    /\ UNCHANGED <<journal, pend, snap, queue, hush, relic, unlisted, now, ops, faults, last, lapsed>>

(* decide and drain_action_journal, in a session's drain and while live;    *)
(* the server applies and relays.                                           *)
Decided(nd, e) ==
    LET t == tombstone(nd)
        staged == IF L!alive_record_needed(nd.ledger, File, e.at)
                  THEN [nd EXCEPT !.ledger = L!record_alive(@, File, e.at)] ELSE nd
    IN  IF (e.op = "upsert") = (nd.disk = NoFile)
        THEN [node |-> nd, hush |-> {}, send |-> <<>>]
        ELSE IF e.op = "delete"
             THEN [node |-> record(nd, e.at), hush |-> {}, send |-> <<DeleteMsg(e.at)>>]
        ELSE IF t > e.at
             THEN [node |-> apply_deletes(nd, t), hush |-> Hushes(nd, DeleteMsg(t)), send |-> <<>>]
        ELSE [node |-> staged, hush |-> {}, send |-> <<FileMsg(nd.disk, e.at)>>]

(* A client c did what s says, and the server applied what s sends.         *)
Delivered(c, s) ==
    /\ node' = [node EXCEPT ![c] = s.node, ![Server] = ApplyAll(@, s.send)]
    /\ hush' = [hush EXCEPT ![c] = @ \cup s.hush,
                            ![Server] = @ \cup HushesAll(node[Server], s.send)]

Drain(c) ==
    /\ conn[c] \in {"drain", "live"}
    /\ journal[c] # NoAction
    /\ LET r == Decided(node[c], journal[c])
       IN  Delivered(c, r) /\ queue' = broadcast_to_others(queue, c, r.send)
    /\ journal' = [journal EXCEPT ![c] = NoAction]
    /\ UNCHANGED <<pend, conn, snap, relic, unlisted, now, ops, faults, last, lapsed>>

(* ... the client scans, the server uses the manifest it has, and sends its *)
(* part of the initial sync ...                                             *)
ExchangeManifests(c) ==
    /\ conn[c] = "drain"
    /\ journal[c] = NoAction
    /\ LET s == SyncPhase(node[Server], node[Server].mani, node[c].disk, TRUE)
       IN  /\ node' = [node EXCEPT ![c] = scan(@), ![Server] = s.node]
           /\ hush' = [hush EXCEPT ![Server] = @ \cup s.hush]
           /\ queue' = [queue EXCEPT ![c] = s.send \o <<CompleteMsg>>]
           /\ snap' = [snap EXCEPT ![c] = [local |-> node[c].disk, remote |-> node[Server].mani]]
    /\ conn' = [conn EXCEPT ![c] = "sync"]
    /\ UNCHANGED <<journal, pend, relic, unlisted, now, ops, faults, last, lapsed>>

(* ... the client applies what it receives, in the session and later ...    *)
Receive(c) ==
    /\ queue[c] # <<>>
    /\ Head(queue[c]).op # "complete"
    /\ node' = [node EXCEPT ![c] = apply_msg(@, Head(queue[c]))]
    /\ hush' = [hush EXCEPT ![c] = @ \cup Hushes(node[c], Head(queue[c]))]
    /\ queue' = [queue EXCEPT ![c] = Tail(@)]
    /\ UNCHANGED <<journal, pend, conn, snap, relic, unlisted, now, ops, faults, last, lapsed>>

(* ... and at SyncComplete sends its own part; the server applies and       *)
(* relays ...                                                               *)
SendInitial(c) ==
    /\ queue[c] # <<>>
    /\ Head(queue[c]).op = "complete"
    /\ LET s == SyncPhase(node[c], snap[c].local, snap[c].remote, FALSE)
       IN  /\ Delivered(c, s)
           /\ queue' = [broadcast_to_others(queue, c, s.send) EXCEPT ![c] = Tail(@)]
    /\ conn' = [conn EXCEPT ![c] = "sent"]
    /\ snap' = [snap EXCEPT ![c] = [local |-> NoFile, remote |-> NoFile]]
    /\ UNCHANGED <<journal, pend, relic, unlisted, now, ops, faults, last, lapsed>>

(* ... and enters the client among its peers.                               *)
InsertPeer(c) ==
    /\ conn[c] = "sent"
    /\ conn' = [conn EXCEPT ![c] = "live"]
    /\ unlisted' = unlisted \ {c}
    /\ UNCHANGED <<node, journal, pend, snap, queue, hush, relic, now, ops, faults, last, lapsed>>

(* The client gives a connection up and is free to connect again.  The      *)
(* handler of the server ends by itself, unless the initial sync is over.   *)
Disconnect(c) ==
    /\ conn[c] # "down"
    /\ faults < MaxFault
    /\ faults' = faults + 1
    /\ conn' = [conn EXCEPT ![c] = "down"]
    /\ queue' = [queue EXCEPT ![c] = <<>>]
    /\ snap' = [snap EXCEPT ![c] = [local |-> NoFile, remote |-> NoFile]]
    /\ relic' = [relic EXCEPT ![c] = IF conn[c] \in {"sent", "live"}
                                   THEN [@ EXCEPT ![conn[c]] = @ + 1] ELSE @]
    /\ unlisted' = unlisted \ {c}
    /\ UNCHANGED <<node, journal, pend, hush, now, ops, last, lapsed>>

(* Such a handler enters itself under the id of the client, when it has not *)
(* done so, and removes that id in the end: the entry of a newer session is *)
(* replaced or removed.                                                     *)
LateHandler(c) ==
    /\ \/ /\ relic[c].sent > 0
          /\ relic' = [relic EXCEPT ![c].sent = @ - 1, ![c].live = @ + 1]
       \/ /\ relic[c].live > 0
          /\ relic' = [relic EXCEPT ![c].live = @ - 1]
    /\ unlisted' = IF conn[c] = "live" THEN unlisted \cup {c} ELSE unlisted
    /\ UNCHANGED <<node, journal, pend, conn, snap, queue, hush, now, ops, faults, last, lapsed>>

-----------------------------------------------------------------------------
(* flush_local_changes on the server: live actions are recorded, ready      *)
(* files broadcast, deletes recorded with a stamp of their own and          *)
(* broadcast.  The manifest is left alone.                                  *)
FlushLocalChanges ==
    /\ pend # NoPending
    /\ LET lived == IF pend.live > 0
                    THEN [node[Server] EXCEPT !.ledger = L!record_alive(@, File, pend.live)]
                    ELSE node[Server]
           deleting == pend.file = "delete"
       IN  /\ node' = [node EXCEPT ![Server] = IF deleting THEN record(lived, now + 1) ELSE lived]
           /\ queue' = broadcast_to_others(queue, Server,
                          IF pend.file = "ready" THEN stream(lived, wire_action_stamp(lived))
                          ELSE IF deleting THEN <<DeleteMsg(now + 1)>> ELSE <<>>)
           /\ now' = IF deleting THEN now + 1 ELSE now
    /\ pend' = NoPending
    /\ UNCHANGED <<journal, conn, snap, hush, relic, unlisted, ops, faults, last, lapsed>>

(* periodic_rescan: on the server differences are broadcast, on a client    *)
(* (rescan_into_journal) they are user actions of this moment.  The scan    *)
(* takes them into the manifest even where the client drops them because    *)
(* the path is suppressed.                                                  *)
Differs(nd) == nd.disk.v # nd.mani.v

RescanServer ==
    /\ May
    /\ Differs(node[Server])
    /\ node' = [node EXCEPT ![Server] = scan(@)]
    /\ pend' = [pend EXCEPT !.file = IF node[Server].disk = NoFile THEN "delete" ELSE "ready"]
    /\ UNCHANGED <<journal, conn, snap, queue, hush, relic, unlisted, now, ops, faults, last, lapsed>>

RescanClient(c) ==
    /\ May
    /\ conn[c] = "live"
    /\ Differs(node[c])
    /\ node' = [node EXCEPT ![c] = scan(@)]
    /\ LET gone == node[c].disk = NoFile
           k == IF gone THEN "delete" ELSE "write"
       IN  \/ /\ Seen(c, k)
              /\ now' = now + 1
              /\ journal' = [journal EXCEPT ![c] =
                                [op |-> IF gone THEN "delete" ELSE "upsert", at |-> now + 1]]
              /\ last' = node[c].disk.v
           \/ Dropped(c, k) /\ UNCHANGED <<now, journal, last>>
    /\ UNCHANGED <<pend, conn, snap, queue, relic, unlisted, ops, faults>>

-----------------------------------------------------------------------------
Init ==
    /\ node = [n \in Node |-> [disk |-> NoFile, mani |-> NoFile, ledger |-> L!EmptyLedger,
                               prev |-> NoFile, saved |-> {}]]
    /\ journal = [c \in Client |-> NoAction]
    /\ pend = NoPending
    /\ conn = [c \in Client |-> "down"]
    /\ snap = [c \in Client |-> [local |-> NoFile, remote |-> NoFile]]
    /\ queue = [c \in Client |-> <<>>]
    /\ hush = [n \in Node |-> {}]
    /\ relic = [c \in Client |-> [sent |-> 0, live |-> 0]]
    /\ unlisted = {}
    /\ now = 0 /\ ops = 0 /\ faults = 0 /\ last = 0 /\ lapsed = FALSE

Users == \E n \in Node : UserWrite(n) \/ UserDelete(n)

System ==
    \/ \E c \in Client :
          Connect(c) \/ Drain(c) \/ ExchangeManifests(c) \/ Receive(c) \/ SendInitial(c)
            \/ InsertPeer(c) \/ RescanClient(c) \/ LateHandler(c)
    \/ FlushLocalChanges \/ RescanServer

Next == Users \/ System \/ \E c \in Client : Disconnect(c)

(* Clients reconnect for ever, every queue is served, rescans recur.        *)
Spec == Init /\ [][Next]_vars /\ WF_vars(System)

-----------------------------------------------------------------------------
Versions == 0..MaxOps
FileState == [v : Versions, m : Stamp]

(* The nodes, the journals and the sessions have their types.               *)
TypeOK ==
    /\ \A n \in Node :
          /\ node[n].disk \in FileState /\ node[n].mani \in FileState
          /\ node[n].prev \in FileState /\ node[n].ledger \in L!Ledger
          /\ node[n].saved \subseteq Versions
    /\ journal \in [Client -> [op : {"none", "upsert", "delete"}, at : Stamp]]
    /\ pend \in [file : {"none", "ready", "delete"}, live : Stamp]
    /\ conn \in [Client -> {"down", "drain", "sync", "sent", "live"}]
    /\ now \in Stamp /\ ops \in 0..MaxOps /\ faults \in 0..MaxFault
    /\ hush \in [Node -> SUBSET {"write", "delete"}]
    /\ relic \in [Client -> [sent : 0..MaxFault, live : 0..MaxFault]]
    /\ unlisted \subseteq Client
    /\ last \in Versions /\ lapsed \in BOOLEAN

(* The server may delete a file, still list it, and meet a client that has  *)
(* it: the client takes the tombstone and is not told to delete, for        *)
(* compute_deletes_to_push passes over what the manifest lists.  The next   *)
(* rescan of the server makes up for it, unless a session that breaks off   *)
(* took the entry from the manifest.                                        *)
Missed(c) == node[c].disk # NoFile /\ tombstone(node[c]) # L!NoStamp

SettledWith(c) ==
    /\ Calm /\ ~Differs(node[Server])
    /\ conn[c] = "live" /\ c \notin unlisted /\ ~Differs(node[c])

(* A client that is connected, and listed as a peer, has the content of the *)
(* server once nothing is left to do, unless it missed a delete of the      *)
(* server: what one client sends reaches the server and "all other clients" *)
(* (README.md:326), through the relay, the initial sync or the ledgers,     *)
(* whatever the order of offline edits, reconnections, broken sessions,     *)
(* late handlers and rescans.  Nothing is said once a change fell into the  *)
(* suppression of its path.                                                 *)
ReplicasAgree ==
    ~lapsed => \A c \in Client : SettledWith(c) /\ ~Missed(c) => node[c].disk.v = node[Server].disk.v

(* A delete that is the newest action is never undone: not by an older edit *)
(* delivered later, nor by the copy of a client that was away, nor by a     *)
(* manifest that still lists the file; as long as every change is captured. *)
LastDeleteWins ==
    ~lapsed /\ last = 0 /\ Calm /\ (\A c \in Client : SettledWith(c)) =>
        /\ node[Server].disk = NoFile
        /\ \A c \in Client : ~Missed(c) => node[c].disk = NoFile

(* Whatever users did offline, and if one session breaks off, the replicas  *)
(* settle in agreement once users rest and connections hold: all but the    *)
(* clients whose entry a late handler took out, and unless a change was not *)
(* captured.                                                                *)
EventuallyAgree == <>[](lapsed \/ \A n \in Node \ unlisted : node[n].disk.v = node[Server].disk.v)
=============================================================================
