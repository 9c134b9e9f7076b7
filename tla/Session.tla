------------------------------- MODULE Session -------------------------------
(***************************************************************************)
(* The sessions of one client with the sync server, from the connection to *)
(* the live phase and its end (filesync/src/client.rs, server.rs, app.rs,  *)
(* known_hosts.rs).  What the messages do to files is in Replication,      *)
(* JournalDrain and LargeFile; here is who waits for what.                 *)
(*                                                                         *)
(* The client has one connection at a time.  The server has a thread per   *)
(* connection and learns late, by the heartbeat, of one that was cut: so   *)
(* several threads may serve the same client, and they share one entry     *)
(* among the peers, by the client's id.                                    *)
(***************************************************************************)
EXTENDS Integers, Sequences, FiniteSets

CONSTANTS
    Slot,     \* connections that exist at once, numbered from 1
    Depth,    \* CLIENT_BROADCAST_DEPTH
    MaxWire,  \* SEND_QUEUE_DEPTH: messages of one end under way before it waits
    MaxFault, \* bound: cuts, gaps, incomplete transfers, full disks, clients refused
    MaxEpoch  \* bound: times the app is started again

ASSUME SessionAssumption == 0 \notin Slot /\ MaxEpoch \in Nat

VARIABLES
    known,    \* the client's status among the known clients
    pin,      \* the certificate the client pinned, -1 for none
    cert,     \* the server's certificate
    serving,  \* the accept loop runs
    epoch,    \* how often the app was started: each start makes a new Server
    stopped,  \* the client was told to stop
    cpc,      \* what the client does; "rest" between sessions
    cur,      \* its connection, 0 for none
    spc,      \* spc[n]: what the server's thread for connection n does
    ep,       \* ep[n]: the Server it belongs to
    reg,      \* active_conns
    net,      \* net[n]: "up", or "cut" without notice to either end
    cEnd,     \* the client's end of n is open
    sEnd,     \* the server's end of n is open
    c2s, s2c, \* messages under way
    peer,     \* peer[e]: the connection the client's entry among the peers is of, 0 for none
    bcast,    \* bcast[n]: frames in the broadcast queue of n
    fwd,      \* fwd[n]: the thread that forwards them runs
    faults,
    surprise, \* history: messages an end received in a phase that has no use for them
    overlap,  \* history: a session went live while another one of the client was
    late      \* history: the app stopped while a connection was not registered yet

server == <<serving, epoch, spc, ep, reg, sEnd, peer, bcast, fwd>>
vars == <<known, pin, cert, stopped, cpc, cur, net, cEnd, c2s, s2c, faults, surprise, overlap, late, server>>

(* A thread of the server whose path dies in the handshake waits for ever   *)
(* and does nothing more.                                                   *)
Free(n) == cur # n /\ (spc[n] = "none" \/ (spc[n] = "tls" /\ net[n] = "cut"))
Fault == faults < MaxFault /\ faults' = faults + 1

Init ==
    /\ known \in {"absent", "allowed"}
    /\ pin = -1 /\ cert = 0
    /\ serving = TRUE /\ epoch = 0 /\ stopped = FALSE
    /\ cpc = "rest" /\ cur = 0
    /\ spc = [n \in Slot |-> "none"] /\ ep = [n \in Slot |-> 0] /\ reg = {}
    /\ net = [n \in Slot |-> "up"]
    /\ cEnd = [n \in Slot |-> FALSE] /\ sEnd = [n \in Slot |-> FALSE]
    /\ c2s = [n \in Slot |-> <<>>] /\ s2c = [n \in Slot |-> <<>>]
    /\ peer = [e \in 0..MaxEpoch |-> 0]
    /\ bcast = [n \in Slot |-> 0] /\ fwd = [n \in Slot |-> FALSE]
    /\ faults = 0 /\ surprise = {} /\ overlap = FALSE /\ late = FALSE

(* What is sent on a cut connection, or to an end that is closed, is lost.  *)
Reaches(n, open) == net[n] = "up" /\ open[n]
ToServer(n, q, msgs) == [q EXCEPT ![n] = IF Reaches(n, sEnd) THEN @ \o msgs ELSE @]
ToClient(n, msgs) == [s2c EXCEPT ![n] = IF Reaches(n, cEnd) THEN @ \o msgs ELSE @]

-----------------------------------------------------------------------------
(* The client.                                                              *)

(* run and session: the TCP connection.  The server accepts it and starts a *)
(* thread; both ends then are in the TLS handshake, which has no timeout    *)
(* (from_tls sets one, and the heartbeat begins, when it is over).          *)
Connect ==
    /\ cpc = "rest" /\ ~stopped /\ serving
    /\ \E m \in Slot : Free(m)
    /\ LET n == CHOOSE m \in Slot : Free(m)
       IN /\ cpc' = "tls" /\ cur' = n
          /\ cEnd' = [cEnd EXCEPT ![n] = TRUE]
          /\ sEnd' = [sEnd EXCEPT ![n] = TRUE]
          /\ c2s' = [c2s EXCEPT ![n] = <<>>]
          /\ s2c' = [s2c EXCEPT ![n] = <<>>]
          /\ net' = [net EXCEPT ![n] = "up"]
          /\ spc' = [spc EXCEPT ![n] = "tls"]
          /\ ep' = [ep EXCEPT ![n] = epoch]
    /\ UNCHANGED <<known, pin, cert, stopped, faults, surprise, overlap, late, serving, epoch, reg, peer, bcast, fwd>>

(* The handshake is done: the client checks the server's certificate        *)
(* against the pinned one, and sends Hello or closes the connection.        *)
Handshake ==
    /\ cpc = "tls" /\ net[cur] = "up"
    /\ LET trusted == pin \in {-1, cert}
       IN /\ pin' = IF pin = -1 THEN cert ELSE pin
          /\ cpc' = IF trusted THEN "hello" ELSE "rest"
          /\ cur' = IF trusted THEN cur ELSE 0
          /\ cEnd' = [cEnd EXCEPT ![cur] = trusted]
          /\ c2s' = [c2s EXCEPT ![cur] = IF trusted THEN <<"Hello">> ELSE <<>>]
    /\ UNCHANGED <<known, cert, stopped, net, s2c, faults, surprise, overlap, late, server>>

CliSame == UNCHANGED <<known, pin, cert, stopped, net, overlap, late, server>>

Step(next, q) == cpc' = next /\ c2s' = q /\ UNCHANGED <<cur, cEnd>>
Take == s2c' = [s2c EXCEPT ![cur] = Tail(@)]

(* session returns: the connection is shut down and dropped, with what was  *)
(* not read.                                                                *)
CliEnd(q) ==
    /\ cpc' = "rest" /\ cur' = 0
    /\ s2c' = [s2c EXCEPT ![cur] = <<>>]
    /\ cEnd' = [cEnd EXCEPT ![cur] = FALSE]
    /\ c2s' = q

Expected ==
    [hello |-> {"Hello", "Pending", "Rejected"}, ledger |-> {"Ledger"}, ack |-> {"ack"},
     manifest |-> {"Manifest"}, recv |-> {"data", "Complete", "NoSpace"},
     live |-> {"bcast", "ack", "chunk"}, liveack |-> {"bcast", "ack", "chunk"}]

(* The client takes the next message.  One it does not expect ends the      *)
(* session, but in the receive loops it is only reported.                   *)
CliRecv ==
    /\ cur # 0 /\ cpc \in DOMAIN Expected /\ s2c[cur] # <<>>
    /\ LET msg == Head(s2c[cur])
           Q(msgs) == ToServer(cur, c2s, msgs)
       IN
       /\ surprise' = IF msg \in Expected[cpc] THEN surprise ELSE surprise \cup {msg}
       /\ \/ /\ msg \notin Expected[cpc]
             /\ IF cpc \in {"recv", "live", "liveack"} THEN Take /\ Step(cpc, c2s) ELSE CliEnd(c2s)
             /\ UNCHANGED faults
          \/ /\ msg \in Expected[cpc] /\ UNCHANGED faults
             /\ \/ msg \in {"Pending", "Rejected", "NoSpace"} /\ CliEnd(c2s)
                \/ msg = "Hello" /\ Take /\ Step("ledger", c2s)
                \/ msg = "Ledger" /\ Take /\ Step("drain", Q(<<"Ledger">>))
                \/ msg = "ack" /\ Take /\ Step(IF cpc = "ack" THEN "scan" ELSE "live", c2s)
                \/ msg = "Manifest" /\ Take /\ Step("recv", c2s)
                \/ msg = "Complete" /\ Take /\ Step("live", Q(<<"data", "Complete">>))
                \/ msg \in {"data", "bcast", "chunk"} /\ Take /\ Step(cpc, c2s)
          \/ (* the disk of the client is too full for what the manifest lists *)
             /\ msg = "Manifest" /\ cpc = "manifest" /\ Fault
             /\ CliEnd(Q(<<"NoSpace">>))
          \/ (* a file ends with chunks missing *)
             /\ msg \in {"data", "bcast"} /\ msg \in Expected[cpc] /\ Fault
             /\ Take /\ Step(cpc, Q(<<"request">>))
    /\ CliSame

(* Mutant: the drain goes on without its acknowledgement. *)
CliBatch_NoWait ==
    /\ cpc = "drain"
    /\ Step("scan", ToServer(cur, c2s, <<"batch">>))
    /\ UNCHANGED <<s2c, faults, surprise>> /\ CliSame

(* drain_action_journal: a chunk of actions and its ActionBatchEnd.  The    *)
(* journal read before the manifests fits one chunk.                        *)
CliBatch ==
    /\ cpc \in {"drain", "live"} /\ Len(c2s[cur]) < MaxWire
    /\ Step(IF cpc = "drain" THEN "ack" ELSE "liveack", ToServer(cur, c2s, <<"batch">>))
    /\ UNCHANGED <<s2c, faults, surprise>> /\ CliSame

(* The journal is empty: scan, and send the manifest.                       *)
CliManifest ==
    /\ cpc \in {"drain", "scan"}
    /\ Step("manifest", ToServer(cur, c2s, <<"Manifest">>))
    /\ UNCHANGED <<s2c, faults, surprise>> /\ CliSame

(* Mutant: without a heartbeat nothing tells the client of a cut. *)
CliLost_NoHeartbeat ==
    /\ cur # 0 /\ cpc # "tls"
    /\ net[cur] = "up" /\ ~sEnd[cur] /\ s2c[cur] = <<>>
    /\ CliEnd(c2s)
    /\ UNCHANGED <<faults, surprise>> /\ CliSame

(* The server closed the connection, or the heartbeat timed out.            *)
CliLost ==
    /\ cur # 0 /\ cpc # "tls"
    /\ net[cur] = "cut" \/ (~sEnd[cur] /\ s2c[cur] = <<>>)
    /\ CliEnd(c2s)
    /\ UNCHANGED <<faults, surprise>> /\ CliSame

(* The handshake fails on a dead path: TCP gives up what it has sent.  What *)
(* was acknowledged it does not miss, so it need not happen.                *)
HandshakeFails ==
    /\ cpc = "tls" /\ net[cur] = "cut"
    /\ CliEnd(c2s)
    /\ UNCHANGED <<faults, surprise>> /\ CliSame

(* A gap in the wall clock (suspend) or force_disconnect.                   *)
CliGap ==
    /\ cur # 0 /\ cpc # "tls" /\ Fault
    /\ CliEnd(c2s)
    /\ UNCHANGED surprise /\ CliSame

(* shutdown closes active_conn, which is set after the handshake; a session *)
(* that is in its handshake goes on.                                        *)
CliStop ==
    /\ ~stopped /\ stopped' = TRUE
    /\ IF cur = 0 \/ cpc = "tls" THEN UNCHANGED <<cpc, cur, cEnd, c2s, s2c>> ELSE CliEnd(c2s)
    /\ UNCHANGED <<known, pin, cert, net, faults, surprise, overlap, late, server>>

-----------------------------------------------------------------------------
(* The server's thread for connection n: handle_client.                     *)

SrvSame == UNCHANGED <<pin, cert, stopped, cpc, cur, net, cEnd, late, serving, epoch, ep>>
Go(n, next) == spc' = [spc EXCEPT ![n] = next] /\ UNCHANGED <<sEnd, reg>>

(* handle_client returns: ConnGuard leaves active_conns, the connection is  *)
(* dropped; what it had queued is still sent.                               *)
SrvEnd(n) ==
    /\ spc' = [spc EXCEPT ![n] = "none"]
    /\ sEnd' = [sEnd EXCEPT ![n] = FALSE]
    /\ reg' = reg \ {n}

(* The handshake is done at this end too: the connection is entered in      *)
(* active_conns.                                                            *)
Register(n) ==
    /\ spc[n] = "tls" /\ net[n] = "up"
    /\ ~(cur = n /\ cpc = "tls")
    /\ spc' = [spc EXCEPT ![n] = "hello"]
    /\ reg' = reg \cup {n}
    /\ UNCHANGED <<known, c2s, s2c, faults, surprise, overlap, sEnd, peer, bcast, fwd>> /\ SrvSame

Took(n, msg) ==
    /\ c2s[n] # <<>> /\ Head(c2s[n]) = msg
    /\ c2s' = [c2s EXCEPT ![n] = Tail(@)]
Quiet == UNCHANGED <<overlap, peer, bcast, fwd>> /\ SrvSame

(* upsert_pending and status, under the mutex of the known clients.         *)
SrvHello(n) ==
    /\ spc[n] = "hello" /\ Took(n, "Hello")
    /\ known' = IF known = "absent" THEN "pending" ELSE known
    /\ IF known' = "allowed"
       THEN s2c' = ToClient(n, <<"Hello", "Ledger">>) /\ Go(n, "ledger")
       ELSE s2c' = ToClient(n, IF known' = "pending" THEN <<"Pending">> ELSE <<"Rejected">>) /\ SrvEnd(n)
    /\ UNCHANGED <<faults, surprise>> /\ Quiet

SrvLedger(n) ==
    /\ spc[n] = "ledger" /\ Took(n, "Ledger")
    /\ Go(n, "drain")
    /\ UNCHANGED <<known, s2c, faults, surprise>> /\ Quiet

(* recv_action_drain and client_recv_loop: the acknowledgement of a chunk;  *)
(* a large file of it that lacks chunks is asked for first.                 *)
SrvBatch(n) ==
    /\ spc[n] \in {"drain", "live"} /\ Took(n, "batch")
    /\ \/ s2c' = ToClient(n, <<"ack">>) /\ UNCHANGED faults
       \/ s2c' = ToClient(n, <<"request", "ack">>) /\ Fault
    /\ Go(n, spc[n])
    /\ UNCHANGED <<known, surprise>> /\ Quiet

(* The server's manifest, and everything it has for the client; or, when    *)
(* its own disk is too full for what the client has, the end.               *)
SrvManifest(n) ==
    /\ spc[n] = "drain" /\ Took(n, "Manifest")
    /\ \/ s2c' = ToClient(n, <<"Manifest", "data", "Complete">>) /\ Go(n, "recv") /\ UNCHANGED faults
       \/ s2c' = ToClient(n, <<"Manifest", "NoSpace">>) /\ SrvEnd(n) /\ Fault
    /\ UNCHANGED <<known, surprise>> /\ Quiet

(* The initial receive loop.                                                *)
SrvRecv(n) ==
    /\ spc[n] = "recv"
    /\ \/ /\ Took(n, "data") /\ Go(n, "recv")
          /\ \/ s2c' = s2c /\ UNCHANGED faults
             \/ s2c' = ToClient(n, <<"request">>) /\ Fault
       \/ Took(n, "Complete") /\ Go(n, "join") /\ UNCHANGED <<s2c, faults>>
       \/ Took(n, "NoSpace") /\ SrvEnd(n) /\ UNCHANGED <<s2c, faults>>
    /\ UNCHANGED <<known, surprise>> /\ Quiet

(* peers.insert.  The sender of an entry it replaces is dropped.            *)
Join(n) ==
    /\ spc[n] = "join"
    /\ peer' = [peer EXCEPT ![ep[n]] = n]
    /\ bcast' = [bcast EXCEPT ![n] = 0]
    /\ fwd' = [fwd EXCEPT ![n] = TRUE]
    /\ overlap' = (overlap \/ \E m \in Slot \ {n} : spc[m] \in {"live", "leave"})
    /\ Go(n, "live")
    /\ UNCHANGED <<known, c2s, s2c, faults, surprise>> /\ SrvSame

(* handle_request_chunks.                                                   *)
SrvRequest(n) ==
    /\ spc[n] = "live" /\ Took(n, "request")
    /\ s2c' = ToClient(n, <<"chunk">>)
    /\ Go(n, "live")
    /\ UNCHANGED <<known, faults, surprise>> /\ Quiet

Handles == [hello |-> {"Hello"}, ledger |-> {"Ledger"}, drain |-> {"batch", "Manifest"},
            recv |-> {"data", "Complete", "NoSpace"}, live |-> {"batch", "request"}]

(* Any other message: an error before the drain, reported and dropped after *)
(* it.  (The drain and the live loop would also end at a NoSpace, which no  *)
(* client sends there.)                                                     *)
SrvOther(n) ==
    /\ spc[n] \in DOMAIN Handles /\ c2s[n] # <<>>
    /\ LET msg == Head(c2s[n]) IN
       /\ msg \notin Handles[spc[n]]
       /\ Took(n, msg)
       /\ surprise' = surprise \cup {msg}
    /\ IF spc[n] \in {"hello", "ledger"} THEN SrvEnd(n) ELSE Go(n, spc[n])
    /\ UNCHANGED <<known, s2c, faults>> /\ Quiet

(* Mutant: the peer is removed however handle_client ends. *)
SrvLost_RemovesPeer(n) ==
    /\ spc[n] \in DOMAIN Handles
    /\ \/ net[n] = "cut"
       \/ ~cEnd[n] /\ c2s[n] = <<>>
       \/ ~sEnd[n]
    /\ IF spc[n] = "live" THEN Go(n, "leave") /\ UNCHANGED peer
       ELSE SrvEnd(n) /\ peer' = [peer EXCEPT ![ep[n]] = 0]
    /\ UNCHANGED <<known, c2s, s2c, faults, surprise, overlap, bcast, fwd>> /\ SrvSame

(* The client closed the connection, the heartbeat timed out, or shutdown   *)
(* closed it: before the live phase that is an error of handle_client.      *)
SrvLost(n) ==
    /\ spc[n] \in DOMAIN Handles
    /\ \/ net[n] = "cut"
       \/ ~cEnd[n] /\ c2s[n] = <<>>
       \/ ~sEnd[n]
    /\ IF spc[n] = "live" THEN Go(n, "leave") ELSE SrvEnd(n)
    /\ UNCHANGED <<known, c2s, s2c, faults, surprise>> /\ Quiet

(* peers.remove, by the client's id; then the connection is shut down and   *)
(* both threads are joined.                                                 *)
Leave(n) ==
    /\ spc[n] = "leave"
    /\ peer' = [peer EXCEPT ![ep[n]] = 0]
    /\ fwd' = [fwd EXCEPT ![n] = FALSE]
    /\ bcast' = [bcast EXCEPT ![n] = 0]
    /\ SrvEnd(n)
    /\ UNCHANGED <<known, c2s, s2c, faults, surprise, overlap>> /\ SrvSame

(* broadcast_to_others and flush_local_changes: a change by somebody else   *)
(* is offered to the queue of the entry, and dropped when it is full.       *)
broadcast_to_others(e) ==
    /\ peer[e] # 0
    /\ bcast' = [bcast EXCEPT ![peer[e]] = IF fwd[peer[e]] /\ @ < Depth THEN @ + 1 ELSE @]
    /\ UNCHANGED <<known, c2s, s2c, faults, surprise, overlap, spc, reg, sEnd, peer, fwd>> /\ SrvSame

(* The forwarding thread: a frame, or its end when its sender is dropped,   *)
(* the connection closed or the heartbeat timed out.                        *)
Forward(n) ==
    /\ fwd[n]
    /\ \/ /\ bcast[n] > 0 /\ sEnd[n] /\ Len(s2c[n]) < MaxWire
          /\ bcast' = [bcast EXCEPT ![n] = @ - 1]
          /\ s2c' = ToClient(n, <<"bcast">>)
          /\ UNCHANGED fwd
       \/ /\ (bcast[n] = 0 /\ peer[ep[n]] # n) \/ ~sEnd[n] \/ net[n] = "cut"
          /\ fwd' = [fwd EXCEPT ![n] = FALSE]
          /\ bcast' = [bcast EXCEPT ![n] = 0]
          /\ UNCHANGED s2c
    /\ UNCHANGED <<known, c2s, faults, surprise, overlap, spc, reg, sEnd, peer>> /\ SrvSame

-----------------------------------------------------------------------------
(* The administrator, the operator and the network.                         *)

(* The routes of app.rs that approve, reject and remove a client: none of   *)
(* them touches a session.                                                  *)
SetStatus ==
    /\ known # "absent"
    /\ \/ known # "allowed" /\ known' = "allowed" /\ UNCHANGED faults
       \/ known' \in {"absent", "rejected"} \ {known} /\ Fault
    /\ UNCHANGED <<pin, cert, stopped, cpc, cur, net, cEnd, c2s, s2c, surprise, overlap, late, server>>

(* FileSyncApp::stop: Server::shutdown closes the registered connections.   *)
AppStop ==
    /\ serving /\ epoch < MaxEpoch
    /\ serving' = FALSE
    /\ sEnd' = [n \in Slot |-> sEnd[n] /\ ~(n \in reg /\ ep[n] = epoch)]
    /\ late' = (late \/ \E n \in Slot : spc[n] = "tls")
    /\ UNCHANGED <<known, pin, cert, stopped, cpc, cur, net, cEnd, c2s, s2c, faults, surprise, overlap, epoch, spc, ep, reg, peer, bcast, fwd>>

(* FileSyncApp::start, perhaps with a new identity.                         *)
AppStart ==
    /\ ~serving /\ serving' = TRUE
    /\ epoch' = epoch + 1
    /\ cert' \in {cert, 1}
    /\ UNCHANGED <<known, pin, stopped, cpc, cur, net, cEnd, c2s, s2c, faults, surprise, overlap, late, spc, ep, reg, sEnd, peer, bcast, fwd>>

(* The operator deletes known_servers.toml, as the mismatch message says.   *)
Unpin ==
    /\ pin \notin {-1, cert} /\ pin' = -1
    /\ UNCHANGED <<known, cert, stopped, cpc, cur, net, cEnd, c2s, s2c, faults, surprise, overlap, late, server>>

(* The path goes dead: nothing under way arrives, nobody is told.           *)
Cut(n) ==
    /\ ~Free(n) /\ net[n] = "up" /\ Fault
    /\ net' = [net EXCEPT ![n] = "cut"]
    /\ c2s' = [c2s EXCEPT ![n] = <<>>] /\ s2c' = [s2c EXCEPT ![n] = <<>>]
    /\ UNCHANGED <<known, pin, cert, stopped, cpc, cur, cEnd, surprise, overlap, late, server>>

-----------------------------------------------------------------------------
CliNext == Connect \/ Handshake \/ CliRecv \/ CliManifest \/ CliLost
SrvNext(n) ==
    \/ Register(n) \/ SrvHello(n) \/ SrvLedger(n) \/ SrvBatch(n) \/ SrvManifest(n) \/ SrvRecv(n)
    \/ Join(n) \/ SrvRequest(n) \/ SrvOther(n) \/ SrvLost(n) \/ Leave(n)

Next ==
    \/ CliNext \/ CliBatch \/ HandshakeFails \/ CliGap \/ CliStop
    \/ \E n \in Slot : SrvNext(n) \/ Forward(n) \/ Cut(n)
    \/ \E e \in 0..MaxEpoch : broadcast_to_others(e)
    \/ SetStatus \/ AppStop \/ AppStart \/ Unpin

(* Both ends keep running, and the heartbeat (2 s poll) and the back-off    *)
(* (at most 300 s) end by the clock.                                        *)
Fairness == WF_vars(CliNext) /\ \A n \in Slot : WF_vars(SrvNext(n)) /\ WF_vars(Forward(n))

Spec == Init /\ [][Next]_vars /\ Fairness

-----------------------------------------------------------------------------
(* However sessions break and overlap, the two ends stay in step: apart     *)
(* from RequestChunks, neither receives a message in a phase that has no    *)
(* use for it.                                                              *)
InStep == surprise \subseteq {"request"}

Live(n) == /\ cur = n /\ cpc \in {"live", "liveack"} /\ spc[n] = "live"
           /\ net[n] = "up" /\ sEnd[n]

(* A client in a live session is the peer that broadcasts go to, and its    *)
(* forwarding thread runs.                                                  *)
Listed == \A n \in Slot : Live(n) => peer[epoch] = n /\ fwd[n]

(* ... unless two of its sessions were live at once, or the app stopped     *)
(* while a connection was between its handshake and active_conns.           *)
ListedWhileLive == overlap \/ late \/ Listed

(* The path died in the handshake: nothing ends the client's wait.          *)
Hung == cpc = "tls" /\ net[cur] = "cut"

(* A client that is allowed, trusts the certificate, is not stopped and     *)
(* does not hang in a handshake, at a server that runs, is in a live        *)
(* session in the end and stays in it.                                      *)
Approved == known = "allowed" /\ serving /\ ~stopped /\ pin \in {-1, cert}
Reconnects == <>[](Approved /\ ~Hung) => <>[](\E n \in Slot : Live(n))

=============================================================================
