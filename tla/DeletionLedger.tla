--------------------------- MODULE DeletionLedger ---------------------------
(***************************************************************************)
(* The deletion ledgers of the nodes of a sync group.                      *)
(*                                                                         *)
(* Nodes change their own ledger (user deletes, admitted writes, pruning,  *)
(* recreate wins) and exchange whole snapshots at the start of a session;  *)
(* a snapshot may be merged long after it was taken.                       *)
(***************************************************************************)
EXTENDS LedgerOps

CONSTANTS
    Node,       \* replicas: the server and its clients
    MaxWire     \* bound: ledger snapshots in flight at a time

ASSUME WireAssumption == MaxWire \in Nat

VARIABLES
    ledger,     \* ledger[n]: the DeletionLedger of node n
    wire,       \* LedgerExchange messages in flight
    seen        \* history: the newest stamps n has heard of and not forgotten

vars == <<ledger, wire, seen>>

-----------------------------------------------------------------------------
(* History: per node and path the newest live action and the newest delete. *)

Seen == [live : {0} \cup Stamp, del : {NoStamp} \cup Stamp]

SeenLive(s, p, a) == [s EXCEPT ![p].live = MaxOf(@, a)]
SeenDel(s, p, d)  == [s EXCEPT ![p].del = MaxOf(@, d)]
SeenJoin(s, t) == [p \in Path |-> [live |-> MaxOf(s[p].live, t[p].live),
                                   del  |-> MaxOf(s[p].del, t[p].del)]]

-----------------------------------------------------------------------------
(* Actions.                                                                 *)

(* record_delete, stage_delete and the tombstones of apply_deletes.         *)
RecordDelete(n, p, d) ==
    /\ ledger' = [ledger EXCEPT ![n] = record(@, p, d)]
    /\ seen' = [seen EXCEPT ![n] = SeenDel(@, p, d)]
    /\ UNCHANGED wire

(* record_live_actions and stage_live_action.                               *)
RecordLive(n, p, a) ==
    /\ ledger' = [ledger EXCEPT ![n] = record_alive(@, p, a)]
    /\ seen' = [seen EXCEPT ![n] = SeenLive(@, p, a)]
    /\ UNCHANGED wire

(* The guard of apply_bundle, of a large file and of a rename target.  A    *)
(* vetoed write changes nothing; an admitted catch-up write leaves a live   *)
(* record only when it lifts a tombstone.                                   *)
AdmitWrite(n, p, action, mtime) ==
    /\ ~veto_for(ledger[n], p, action, mtime)
    /\ ledger' = [ledger EXCEPT ![n] = admit_record(@, p, action, mtime)]
    /\ seen' = IF action # NoStamp \/ (ledger[n].entries[p] # NoStamp /\ mtime > ledger[n].entries[p])
               THEN [seen EXCEPT ![n] = SeenLive(@, p, Comparand(action, mtime))]
               ELSE seen
    /\ UNCHANGED wire

(* ledger_entries: the whole ledger as LedgerExchange DTOs.                 *)
SendLedger(n, m) ==
    /\ n # m
    /\ Len(wire) < MaxWire
    /\ wire' = Append(wire, [to |-> m, dtos |-> ledger[n], seen |-> seen[n]])
    /\ UNCHANGED <<ledger, seen>>

(* merge_ledger on receipt.                                                 *)
MergeLedger ==
    /\ wire # <<>>
    /\ LET msg == Head(wire)
       IN  /\ ledger' = [ledger EXCEPT ![msg.to] = merge_ledger(@, msg.dtos)]
           /\ seen' = [seen EXCEPT ![msg.to] = SeenJoin(@, msg.seen)]
    /\ wire' = Tail(wire)

(* The session ends: undelivered messages are gone.                         *)
DropWire ==
    /\ wire # <<>>
    /\ wire' = <<>>
    /\ UNCHANGED <<ledger, seen>>

(* prune_ledger, after every scan.                                          *)
PruneLedger(n, now) ==
    /\ ledger' = [ledger EXCEPT ![n] = prune(@, now)]
    /\ seen' = [seen EXCEPT ![n] =
                  [p \in Path |-> [live |-> IF Kept(@[p].live, now) THEN @[p].live ELSE 0,
                                   del  |-> IF Kept(@[p].del, now) THEN @[p].del ELSE NoStamp]]]
    /\ UNCHANGED wire

(* clear_tombstones (recreate wins) and clear_ledger_prefix (trash restore  *)
(* and purge).                                                              *)
ClearTombstones(n, ps) ==
    /\ ledger' = [ledger EXCEPT ![n] = remove(@, ps)]
    /\ seen' = [seen EXCEPT ![n] =
                  [p \in Path |-> IF p \in ps THEN [@[p] EXCEPT !.del = NoStamp] ELSE @[p]]]
    /\ UNCHANGED wire

Init ==
    /\ ledger = [n \in Node |-> EmptyLedger]
    /\ wire = <<>>
    /\ seen = [n \in Node |-> [p \in Path |-> [live |-> 0, del |-> NoStamp]]]

Next ==
    \/ \E n \in Node, p \in Path, s \in Stamp : RecordDelete(n, p, s)
    \/ \E n \in Node, p \in Path, s \in Stamp : RecordLive(n, p, s)
    \/ \E n \in Node, p \in Path, a \in {NoStamp} \cup Stamp, m \in Stamp : AdmitWrite(n, p, a, m)
    \/ \E n, m \in Node : SendLedger(n, m)
    \/ MergeLedger
    \/ DropWire
    \/ \E n \in Node, now \in Stamp : PruneLedger(n, now)
    \/ \E n \in Node, ps \in SUBSET Path : ClearTombstones(n, ps)

Spec == Init /\ [][Next]_vars

-----------------------------------------------------------------------------
(* Properties.                                                              *)

Message == [to : Node, dtos : Ledger, seen : [Path -> Seen]]

(* The ledgers, the snapshots in flight and the history have their types.   *)
TypeOK ==
    /\ ledger \in [Node -> Ledger]
    /\ wire \in Seq(Message)
    /\ seen \in [Node -> [Path -> Seen]]

LedgerOK(l) == \A p \in Path : l.alive[p] > 0 => ~(l.entries[p] # NoStamp /\ l.entries[p] <= l.alive[p])

(* The invariant DeletionLedger documents (ledger.rs:57): no node stores,   *)
(* and no snapshot carries, a tombstone that a live action at the same path *)
(* has superseded, whatever order deletes, writes, merges of stale          *)
(* snapshots, prunes and clears come in.                                    *)
SupersededNeverStored ==
    /\ \A n \in Node : LedgerOK(ledger[n])
    /\ \A i \in DOMAIN wire : LedgerOK(wire[i].dtos)

Verdict(l, s) ==
    \A p \in Path :
        /\ l.alive[p] = s[p].live
        /\ l.entries[p] = IF s[p].live > 0 /\ s[p].del <= s[p].live THEN NoStamp ELSE s[p].del

(* Last writer wins, in any order of arrival: the ledger holds exactly the  *)
(* newest live action and the newest delete the node has heard of, directly *)
(* or through any chain of snapshots, the delete only when it is newer.     *)
VerdictIsNewest ==
    /\ \A n \in Node : Verdict(ledger[n], seen[n])
    /\ \A i \in DOMAIN wire : Verdict(wire[i].dtos, wire[i].seen)

(* One LedgerExchange round trip (server to client, merged, client back to  *)
(* server) leaves both sides with the same ledger.                          *)
ExchangeAgrees ==
    \A n, m \in Node :
        LET client == merge_ledger(ledger[m], ledger[n])
        IN  merge_ledger(ledger[n], client) = client

(* Who wins when a write arrives, over everything the node has heard of     *)
(* (ledger.rs:8, "a live copy is never vetoed by an older delete"): a write *)
(* is refused when its path was deleted after it and after every live       *)
(* action there, and only for a delete, of the path or of a directory above *)
(* it, that is newer than both.                                             *)
VetoIsLastWriter ==
    \A n \in Node, p \in Path, a \in Stamp :
        LET newest == MaxOf(seen[n][p].live, a)
            vetoed == veto_for(ledger[n], p, a, 0)
        IN  /\ seen[n][p].del > newest => vetoed
            /\ vetoed => \E i \in DOMAIN Ancestors[p] : seen[n][Ancestors[p][i]].del > newest

(* A node's live record only ever rises, until pruning drops it whole; it   *)
(* is never replaced by an older one.                                       *)
AliveNeverRegresses ==
    [][\A n \in Node, p \in Path :
          ledger'[n].alive[p] >= ledger[n].alive[p] \/ ledger'[n].alive[p] = 0]_vars
=============================================================================
