---- MODULE MCConnection ----
(***************************************************************************)
(* A connection that carries bulk data in one direction, and the registry  *)
(* of the apps, checked in one run.  They share no state: a behaviour is   *)
(* one of the connection or one of the registry, and layer says which.     *)
(***************************************************************************)
EXTENDS Transport

CONSTANTS Admin, Worker, Subscriber, MaxStart, MaxEdit

VARIABLES layer, status, up, held, starts, signal, alive, config, applied, pc,
          ticket, seen, result, serving, overlap

regVars == <<status, up, held, starts, signal, alive, config, applied, pc,
             ticket, seen, result, serving, overlap>>

Registry == INSTANCE AppRegistry

(* The client sends its files, the server only answers pings.               *)
OneWay == [e \in End |-> IF e = "client" THEN 3 ELSE 0]

MCInit == layer \in {"connection", "registry"} /\ Init /\ Registry!Init

MCNext ==
    \/ layer = "connection" /\ Next /\ UNCHANGED <<layer, regVars>>
    \/ layer = "registry" /\ Registry!Next /\ UNCHANGED <<layer, vars>>

all == <<layer, vars, regVars>>

MCSpec ==
    /\ MCInit /\ [][MCNext]_all
    /\ \A e \in End : /\ WF_all(layer = "connection" /\ Io(e) /\ UNCHANGED <<layer, regVars>>)
                      /\ WF_all(layer = "connection" /\ Sender(e) /\ UNCHANGED <<layer, regVars>>)
                      /\ WF_all(layer = "connection" /\ Receiver(e) /\ UNCHANGED <<layer, regVars>>)
    /\ \A a \in Admin : /\ WF_all(layer = "registry" /\ Registry!Step(a) /\ UNCHANGED <<layer, vars>>)
                        /\ SF_all(layer = "registry" /\ Registry!WriteSlot(a) /\ UNCHANGED <<layer, vars>>)
    /\ WF_all(layer = "registry" /\ UNCHANGED <<layer, vars>>
              /\ \E g \in Registry!Chan, w \in Worker : Registry!WorkerEnds(g, w))

(* Bulk data in one direction arrives or the connection is given up         *)
(* (Transport).                                                             *)
DataArrives == layer = "connection" => Arrives

(* The dashboard tells the truth (AppRegistry).                             *)
StatusIsTrue == Registry!StatusIsTrue

(* A lost race of two starts leaks no subscriber thread (AppRegistry).      *)
SupersededThreadsEnd == Registry!SupersededThreadsEnd
====
