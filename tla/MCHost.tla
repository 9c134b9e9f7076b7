---- MODULE MCHost ----
(***************************************************************************)
(* The accounts and the event log of the framework, checked in one run.    *)
(* They share no state: a behaviour is one of the accounts, or one of the  *)
(* log, and part says which.                                               *)
(***************************************************************************)
EXTENDS UserStore, TLC

CONSTANTS Publisher, Topic, Subscription, Logger, pattern, depth, MaxMessage,
          MaxFiles, MaxSize, Cap, MaxClean, MaxFail

(* spawn_bus_logger subscribes.                                             *)
ASSUME LoggerAssumption == Logger \in Subscription

(* The limits of the log files are numbers; max_files may be 0.             *)
ASSUME LimitAssumption == MaxFiles \in Nat /\ MaxSize \in Nat /\ Cap \in Nat

VARIABLES part, next_id, subs, alive, queue, dropped, offer, offered, got, latest,
          disk, size, step, shift, record, lost, accepted, torn, doomed, passes, failures, crossed

logVars == <<next_id, subs, alive, queue, dropped, offer, offered, got, latest,
             disk, size, step, shift, record, lost, accepted, torn, doomed, passes, failures, crossed>>

(* A file with the accounts in the middle, a comment after them, and the    *)
(* known clients at its end.                                                *)
Own == <<[kind |-> "table", name |-> "framework"], Text("framework")>>
Note == <<[kind |-> "note", name |-> "framework"]>>
MCFile == {Own \o Section("auth") \o Note \o Section("clients")}

(* The logger takes everything and has a queue of two, a browser what       *)
(* concerns one app, with a queue of one.                                   *)
MCTopic == {<<"filesync", "status">>}
MCPattern == [s \in {"log", "sse"} |-> IF s = "log" THEN [kind |-> "all", of |-> <<>>]
                                       ELSE [kind |-> "below", of |-> <<"filesync">>]]
MCDepth == [s \in {"log", "sse"} |-> IF s = "log" THEN 2 ELSE 1]

Log == INSTANCE EventLog

MCInit ==
    /\ Init /\ Log!Init
    /\ part \in {"accounts", "log"}
    /\ part = "log" => mode = "absent"

MCNext ==
    \/ part = "accounts" /\ Next /\ UNCHANGED <<part, logVars>>
    \/ part = "log" /\ Log!Next /\ UNCHANGED <<part, vars>>

MCSpec == MCInit /\ [][MCNext]_<<part, vars, logVars>>

Sym == Permutations(Worker) \cup Permutations(Publisher)

(* The bus accounts for every message (EventLog).                           *)
Accounted == Log!Accounted

(* The log keeps its tail (EventLog).                                       *)
LogKeepsTail == Log!LogKeepsTail
====
