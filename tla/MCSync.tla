---- MODULE MCSync ----
(***************************************************************************)
(* The sync of a server and its clients, checked in one run: the sessions  *)
(* (Session), and what happens to a file in them (Replication).  They      *)
(* share no state here: a behaviour is one of either, and part says which. *)
(***************************************************************************)
EXTENDS Session

CONSTANTS Client, QueueDepth, MaxOps

(* The server is none of its clients; a queue has room for two broadcasts.  *)
ASSUME ClientAssumption == "server" \notin Client
ASSUME DepthAssumption == QueueDepth \in Nat /\ QueueDepth >= 2

VARIABLES
    part, node, journal, pend, conn, snap, queue, hush, relic, unlisted, now, ops, lost, last, lapsed

fileVars ==
    <<node, journal, pend, conn, snap, queue, hush, relic, unlisted, now, ops, lost, last, lapsed>>

(* Clients whose changes do not overlap.                                    *)
Files == INSTANCE Replication WITH Overlap <- FALSE, faults <- lost

MCInit ==
    /\ Init /\ Files!Init
    /\ part \in {"session", "replication"}
    /\ part = "replication" => known = "absent"

InSession(A) == part = "session" /\ A /\ UNCHANGED <<part, fileVars>>
InReplication(A) == part = "replication" /\ A /\ UNCHANGED <<part, vars>>

MCNext == InSession(Next) \/ InReplication(Files!Next)

all == <<part, vars, fileVars>>

(* The fairness of Session and of Replication.                              *)
MCSpec ==
    /\ MCInit /\ [][MCNext]_all
    /\ WF_all(InSession(CliNext))
    /\ \A n \in Slot : WF_all(InSession(SrvNext(n))) /\ WF_all(InSession(Forward(n)))
    /\ WF_all(InReplication(Files!System))

(* Nothing is claimed of a sync that a change escaped, and it is followed no *)
(* further.                                                                 *)
Tracked == ~lapsed

(* A connected client that is listed has the server's content (Replication). *)
ReplicasAgree == Files!ReplicasAgree

(* A delete that is the newest action is never undone (Replication).        *)
LastDeleteWins == Files!LastDeleteWins

(* The replicas settle in agreement (Replication).                          *)
EventuallyAgree == Files!EventuallyAgree
====
