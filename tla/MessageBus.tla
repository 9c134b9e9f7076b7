----------------------------- MODULE MessageBus -----------------------------
(***************************************************************************)
(* The message bus (core/src/bus.rs).  publish takes the next id, then the *)
(* read lock of the subscriptions, and offers the message to every         *)
(* subscriber whose pattern matches its topic; a full queue drops it and   *)
(* counts the drop.  Publishers run concurrently, a subscriber may come    *)
(* late and its receiver may be dropped at any time.                       *)
(***************************************************************************)
EXTENDS Integers, Sequences, SequencesExt, FiniteSets

CONSTANTS
    Publisher,
    Topic,        \* a topic is the sequence of its segments
    Subscription,
    pattern,      \* pattern[s]: [kind, of] with kind "all", "exact" or "below"
    depth,        \* depth[s]: the bound of the queue
    MaxMessage    \* bound: messages published

VARIABLES
    next_id,
    subs,    \* the entries of the subscriptions map
    alive,   \* those whose receiver still exists
    queue,   \* queue[s]: messages sent to s and not received
    dropped, \* dropped[s]: the counter of drops
    offer,   \* offer[p]: the message p publishes and the subscribers it has not tried yet
    offered, \* history: messages published to s while its receiver lived
    got,     \* history: how many messages s received
    latest   \* history: the id of the last one by each publisher that s received

bus == <<next_id, subs, alive, queue, dropped, offer, offered, got, latest>>

Nothing == [id |-> 0, topic |-> <<>>, stage |-> "none", todo |-> {}]

(* early: those that subscribe before anything is published.                *)
BusInit(early) ==
    /\ next_id = 1 /\ subs = early /\ alive = early
    /\ queue = [s \in Subscription |-> <<>>]
    /\ dropped = [s \in Subscription |-> 0]
    /\ offer = [p \in Publisher |-> Nothing]
    /\ offered = [s \in Subscription |-> 0]
    /\ got = [s \in Subscription |-> 0]
    /\ latest = [s \in Subscription |-> [p \in Publisher |-> 0]]

(* "*", the topic itself, or "prefix.*" for the prefix and all below it.    *)
topic_matches(pat, topic) ==
    \/ pat.kind = "all"
    \/ pat.of = topic
    \/ pat.kind = "below" /\ IsPrefix(pat.of, topic)

(* The write lock waits for publishers that are in their loop.              *)
subscribe(s) ==
    /\ s \notin subs
    /\ \A p \in Publisher : offer[p].stage # "loop"
    /\ subs' = subs \cup {s} /\ alive' = alive \cup {s}
    /\ UNCHANGED <<next_id, queue, dropped, offer, offered, got, latest>>

TakeId(p, topic) ==
    /\ offer[p].stage = "none" /\ next_id <= MaxMessage
    /\ next_id' = next_id + 1
    /\ offer' = [offer EXCEPT ![p] = [id |-> next_id, topic |-> topic, stage |-> "id", todo |-> {}]]
    /\ UNCHANGED <<subs, alive, queue, dropped, offered, got, latest>>

ReadSubs(p) ==
    /\ offer[p].stage = "id"
    /\ offer' = [offer EXCEPT ![p].stage = "loop",
                              ![p].todo = {s \in subs : topic_matches(pattern[s], offer[p].topic)}]
    /\ UNCHANGED <<next_id, subs, alive, queue, dropped, offered, got, latest>>

(* Mutant: the drop is not counted. *)
TrySend_Uncounted(p, s) ==
    /\ offer[p].stage = "loop" /\ s \in offer[p].todo
    /\ offer' = [offer EXCEPT ![p].todo = @ \ {s}]
    /\ offered' = IF s \in alive THEN [offered EXCEPT ![s] = @ + 1] ELSE offered
    /\ queue' = IF s \in alive /\ Len(queue[s]) < depth[s] THEN [queue EXCEPT ![s] = Append(@, [id |-> offer[p].id, from |-> p])] ELSE queue
    /\ UNCHANGED <<next_id, subs, alive, dropped, got, latest>>

(* try_send: queued, dropped and counted, or disconnected and ignored.      *)
TrySend(p, s) ==
    /\ offer[p].stage = "loop" /\ s \in offer[p].todo
    /\ offer' = [offer EXCEPT ![p].todo = @ \ {s}]
    /\ IF s \notin alive THEN UNCHANGED <<queue, dropped, offered>>
       ELSE /\ offered' = [offered EXCEPT ![s] = @ + 1]
            /\ IF Len(queue[s]) < depth[s]
               THEN /\ queue' = [queue EXCEPT ![s] = Append(@, [id |-> offer[p].id, from |-> p])]
                    /\ UNCHANGED dropped
               ELSE /\ dropped' = [dropped EXCEPT ![s] = @ + 1]
                    /\ UNCHANGED queue
    /\ UNCHANGED <<next_id, subs, alive, got, latest>>

FinishPublish(p) ==
    /\ offer[p].stage = "loop" /\ offer[p].todo = {}
    /\ offer' = [offer EXCEPT ![p] = Nothing]
    /\ UNCHANGED <<next_id, subs, alive, queue, dropped, offered, got, latest>>

Receive(s) ==
    /\ s \in alive /\ queue[s] # <<>>
    /\ got' = [got EXCEPT ![s] = @ + 1]
    /\ latest' = [latest EXCEPT ![s][Head(queue[s]).from] = Head(queue[s]).id]
    /\ queue' = [queue EXCEPT ![s] = Tail(@)]
    /\ UNCHANGED <<next_id, subs, alive, dropped, offer, offered>>

(* A subscriber that ends drops its receiver, with what is queued in it.    *)
DropReceiver(s) ==
    /\ s \in alive
    /\ alive' = alive \ {s}
    /\ queue' = [queue EXCEPT ![s] = <<>>]
    /\ UNCHANGED <<next_id, subs, dropped, offer, offered, got, latest>>

Publish == \E p \in Publisher :
    \/ \E t \in Topic : TakeId(p, t)
    \/ ReadSubs(p) \/ FinishPublish(p)
    \/ \E s \in Subscription : TrySend(p, s)

-----------------------------------------------------------------------------
(* What was published to a living subscriber is received, queued or counted *)
(* as dropped, and the messages of one publisher keep their order whatever  *)
(* the others publish at the same time.                                     *)
Accounted ==
    \A s \in alive :
      /\ offered[s] = got[s] + Len(queue[s]) + dropped[s]
      /\ \A i \in DOMAIN queue[s] :
           /\ queue[s][i].id > latest[s][queue[s][i].from]
           /\ \A j \in 1..i - 1 : queue[s][j].from = queue[s][i].from => queue[s][j].id < queue[s][i].id
=============================================================================
