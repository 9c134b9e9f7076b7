----------------------------- MODULE AppRegistry -----------------------------
(***************************************************************************)
(* One app in the registry (core/src/registry.rs): its slot, its shutdown  *)
(* channel and the threads that listen to it, under the start, stop,       *)
(* restart and configuration requests of several admins.                   *)
(*                                                                         *)
(* start_app reads the slot, lets go of the lock, wires subscriptions and  *)
(* starts the app, and only then writes the slot.  stop_app does all its   *)
(* work, app.stop() included, under the write lock.  Every start makes a   *)
(* channel of capacity one; a clone of its receiver is in each subscriber  *)
(* thread and in each thread the app starts, and a message on it reaches   *)
(* one of them.  The sender is dropped when the slot gets another one; a   *)
(* subscriber thread ends on that too, the collector threads of the        *)
(* filebrowser only on the message.                                        *)
(***************************************************************************)
EXTENDS Integers, FiniteSets

CONSTANTS
    Admin,      \* admin requests being served
    Worker,     \* threads one start leaves listening to the shutdown channel, the app's own included
    Subscriber, \* those of them that wire_subscriptions starts
    MaxStart,   \* bound: start attempts
    MaxEdit     \* bound: configuration edits

VARIABLES
    status,  \* slot.status
    up,      \* the app is started: its start() succeeded after the last stop()
    held,    \* slot.stop_tx: the channel of that start
    starts,  \* start attempts so far, each with its own channel
    signal,  \* signal[g]: a message is in channel g
    alive,   \* alive[g]: threads still listening to channel g
    config,  \* slot.config, as a version
    applied, \* the version the started app was given
    pc,      \* pc[a]: what request a does next
    ticket,  \* ticket[a]: the channel of the start request a is in
    seen,    \* seen[a]: the configuration request a read from the slot
    result,  \* result[a]: what app.start() answered to request a
    serving, \* requests inside the app's handle_http
    overlap  \* history: a start overlapped another start or a stop

vars == <<status, up, held, starts, signal, alive, config, applied, pc, ticket, seen, result, serving, overlap>>

Chan == 0..MaxStart
Busy(a) == pc[a] # "idle"
InStart(a) == pc[a] \in {"wire", "start", "write"}

(* register: the app is started before its slot exists.                     *)
Init ==
    /\ status = "running" /\ up = TRUE
    /\ held = 0 /\ starts = 0
    /\ signal = [g \in Chan |-> FALSE]
    /\ alive = [g \in Chan |-> IF g = 0 THEN Worker ELSE {}]
    /\ config = 0 /\ applied = 0
    /\ pc = [a \in Admin |-> "idle"]
    /\ ticket = [a \in Admin |-> 0]
    /\ seen = [a \in Admin |-> 0]
    /\ result = [a \in Admin |-> FALSE]
    /\ serving = {} /\ overlap = FALSE

(* Mutant: the lock is let go before the app handles the request. *)
WriteLock_Early == TRUE

(* Taking the write lock waits for the requests route_http has in the app.  *)
WriteLock == serving = {}

(* stop_app, under the write lock of the slots.                             *)
stop_app(a, next) ==
    /\ WriteLock /\ status # "gone"
    /\ pc' = [pc EXCEPT ![a] = next]
    /\ IF status = "stopped"
       THEN UNCHANGED <<status, up, signal, overlap>>
       ELSE /\ signal' = [signal EXCEPT ![held] = TRUE]
            /\ up' = FALSE
            /\ status' = "stopped"
            /\ overlap' = (overlap \/ \E b \in Admin : InStart(b))
    /\ UNCHANGED <<held, starts, alive, config, applied, ticket, seen, result, serving>>

Stop(a) == pc[a] = "idle" /\ a \notin serving /\ stop_app(a, "idle")

(* restart_app: stop, a pause, start.                                       *)
Restart(a) == pc[a] = "idle" /\ a \notin serving /\ stop_app(a, "read")

(* start_app: return at once when the slot says running; otherwise take a   *)
(* copy of the configuration and let go of the lock.                        *)
StartRead(a) ==
    /\ pc[a] \in {"idle", "read"}
    /\ IF status \in {"running", "gone"}
       THEN /\ pc' = [pc EXCEPT ![a] = "idle"]
            /\ UNCHANGED <<starts, ticket, seen, serving, overlap>>
       ELSE /\ starts < MaxStart
            /\ starts' = starts + 1
            /\ ticket' = [ticket EXCEPT ![a] = starts + 1]
            /\ seen' = [seen EXCEPT ![a] = config]
            /\ pc' = [pc EXCEPT ![a] = "wire"]
            /\ overlap' = (overlap \/ \E b \in Admin : InStart(b))
    /\ UNCHANGED <<status, up, held, signal, alive, config, applied, result, serving>>

(* wire_subscriptions: a thread per subscription, on the new channel.       *)
Wire(a) ==
    /\ pc[a] = "wire"
    /\ alive' = [alive EXCEPT ![ticket[a]] = Subscriber]
    /\ pc' = [pc EXCEPT ![a] = "start"]
    /\ UNCHANGED <<status, up, held, starts, signal, config, applied, ticket, seen, result, serving, overlap>>

(* app.start(ctx) succeeds or fails.                                        *)
StartApp(a) ==
    /\ pc[a] = "start"
    /\ \E ok \in BOOLEAN :
         /\ result' = [result EXCEPT ![a] = ok]
         /\ up' = (up \/ ok)
         /\ applied' = IF ok THEN seen[a] ELSE applied
         /\ alive' = IF ok THEN [alive EXCEPT ![ticket[a]] = @ \cup (Worker \ Subscriber)] ELSE alive
    /\ pc' = [pc EXCEPT ![a] = "write"]
    /\ UNCHANGED <<status, held, starts, signal, config, ticket, seen, serving, overlap>>

(* start_app returns, and its locals are gone.                              *)
Returns(a) ==
    /\ pc' = [pc EXCEPT ![a] = "idle"]
    /\ ticket' = [ticket EXCEPT ![a] = 0]
    /\ seen' = [seen EXCEPT ![a] = 0]
    /\ result' = [result EXCEPT ![a] = FALSE]

(* The slot, if there still is one, gets the new sender and the status.     *)
WriteSlot(a) ==
    /\ pc[a] = "write" /\ WriteLock
    /\ held' = IF status = "gone" THEN held ELSE ticket[a]
    /\ status' = IF status = "gone" THEN "gone" ELSE IF result[a] THEN "running" ELSE "failed"
    /\ Returns(a)
    /\ UNCHANGED <<up, starts, signal, alive, config, applied, serving, overlap>>

update_config(a) ==
    /\ pc[a] = "idle" /\ WriteLock /\ status # "gone"
    /\ config < MaxEdit
    /\ config' = config + 1
    /\ UNCHANGED <<status, up, held, starts, signal, alive, applied, pc, ticket, seen, result, serving, overlap>>

(* stop_all, when the process ends: the slots are cleared.                  *)
stop_all ==
    /\ WriteLock /\ status # "gone"
    /\ signal' = IF status = "running" THEN [signal EXCEPT ![held] = TRUE] ELSE signal
    /\ up' = (up /\ status # "running")
    /\ status' = "gone"
    /\ overlap' = (overlap \/ \E a \in Admin : InStart(a))
    /\ UNCHANGED <<held, starts, alive, config, applied, pc, ticket, seen, result, serving>>

(* route_http: the read lock of the slots is held while the app handles the *)
(* request; only an app whose slot says running gets one.                   *)
RouteBegin(a) ==
    /\ pc[a] = "idle" /\ a \notin serving
    /\ status = "running"
    /\ serving' = serving \cup {a}
    /\ UNCHANGED <<status, up, held, starts, signal, alive, config, applied, pc, ticket, seen, result, overlap>>

RouteEnd(a) ==
    /\ a \in serving
    /\ serving' = serving \ {a}
    /\ UNCHANGED <<status, up, held, starts, signal, alive, config, applied, pc, ticket, seen, result, overlap>>

(* Mutant: the app keeps a clone of the sender with its receiver. *)
Dropped_Cloned(g) == status = "gone" /\ \A a \in Admin : InStart(a) => ticket[a] # g

(* The sender of channel g was dropped: its start is over and the slot      *)
(* holds another one.                                                       *)
Dropped(g) == (g # held \/ status = "gone") /\ \A a \in Admin : InStart(a) => ticket[a] # g

(* A thread receives the message and ends.  When the sender is gone, the    *)
(* select of a subscriber ends its thread; the collector threads            *)
(* (filebrowser app.rs) leave their loop only when recv_timeout gives Ok.   *)
WorkerEnds(g, w) ==
    /\ w \in alive[g]
    /\ signal[g] \/ (Dropped(g) /\ w \in Subscriber)
    /\ alive' = [alive EXCEPT ![g] = @ \ {w}]
    /\ signal' = [signal EXCEPT ![g] = FALSE]
    /\ UNCHANGED <<status, up, held, starts, config, applied, pc, ticket, seen, result, serving, overlap>>

(* What request a does next on its way to the end, waiting for a lock apart. *)
Step(a) == RouteEnd(a) \/ Wire(a) \/ StartApp(a) \/ (pc[a] = "read" /\ StartRead(a))

Next ==
    \/ \E a \in Admin : \/ Stop(a) \/ Restart(a) \/ update_config(a)
                        \/ StartRead(a) \/ Wire(a) \/ StartApp(a) \/ WriteSlot(a)
                        \/ RouteBegin(a) \/ RouteEnd(a)
    \/ stop_all
    \/ \E g \in Chan, w \in Worker : WorkerEnds(g, w)

(* Requests are served to their end and threads are scheduled; parking_lot's *)
(* RwLock is task-fair: a waiting writer gets it though readers keep coming. *)
Spec == /\ Init /\ [][Next]_vars
        /\ \A a \in Admin : WF_vars(Step(a)) /\ SF_vars(WriteSlot(a))
        /\ WF_vars(\E g \in Chan, w \in Worker : WorkerEnds(g, w))

-----------------------------------------------------------------------------
(* The slot, the channels and the requests have their types.                *)
TypeOK ==
    /\ status \in {"running", "stopped", "failed", "gone"} /\ up \in BOOLEAN
    /\ held \in Chan /\ starts \in 0..MaxStart
    /\ signal \in [Chan -> BOOLEAN] /\ alive \in [Chan -> SUBSET Worker]
    /\ config \in 0..MaxEdit /\ applied \in 0..MaxEdit
    /\ pc \in [Admin -> {"idle", "read", "wire", "start", "write"}]
    /\ ticket \in [Admin -> Chan] /\ seen \in [Admin -> 0..MaxEdit]
    /\ result \in [Admin -> BOOLEAN] /\ serving \subseteq Admin /\ overlap \in BOOLEAN

(* Unless a start overlapped another start or a stop: no request is inside  *)
(* an app that is not started, and between requests the status the          *)
(* dashboard shows, and route_http goes by, is the truth.                   *)
StatusIsTrue ==
    ~overlap => /\ serving # {} => up
                /\ (\A a \in Admin : ~Busy(a)) => (status = "running" <=> up)

(* Even when starts overlap, and whoever takes the one message of a stop,   *)
(* the subscriber threads of all starts but the one whose sender the slot   *)
(* holds come to an end: a lost race leaks none of them.  (The collector    *)
(* threads of the filebrowser do stay behind.)                              *)
SupersededThreadsEnd ==
    \A g \in Chan : (g # held /\ alive[g] \cap Subscriber # {})
                        ~> (alive[g] \cap Subscriber = {} \/ g = held)
=============================================================================
