---------------------------- MODULE SessionProofs ----------------------------
(* Proofs about Session, for any numbers of connections, restarts and       *)
(* faults, and any queue depths.                                            *)
EXTENDS Session, TLAPS

-----------------------------------------------------------------------------
(* The first inductive invariant: who is listed among the peers.            *)

InLoop(n) == spc[n] \in {"live", "leave"}

(* The server's variables are arrays.                                       *)
ServerType ==
    /\ spc = [n \in Slot |-> spc[n]] /\ ep \in [Slot -> 0..MaxEpoch]
    /\ sEnd = [n \in Slot |-> sEnd[n]] /\ net = [n \in Slot |-> net[n]]
    /\ peer = [e \in 0..MaxEpoch |-> peer[e]] /\ fwd = [n \in Slot |-> fwd[n]]
    /\ epoch \in 0..MaxEpoch
    /\ ~serving => epoch < MaxEpoch

(* active_conns has every connection whose handshake is done.               *)
Registered == \A n \in Slot : spc[n] \notin {"none", "tls"} => n \in reg

(* A connection the server has not closed is one of the running Server.     *)
OfThisServer == ~late => \A n \in Slot : spc[n] # "none" /\ sEnd[n] => serving /\ ep[n] = epoch

(* One session is in the live phase; the entry is its own and its           *)
(* forwarding thread runs.                                                  *)
OneLive == ~overlap => \A m, n \in Slot : InLoop(m) /\ InLoop(n) => m = n
EntryIsOwn == ~overlap => \A n \in Slot : InLoop(n) => peer[ep[n]] = n
Forwards == ~overlap => \A n \in Slot : spc[n] = "live" /\ sEnd[n] /\ net[n] = "up" => fwd[n]

LInv == ServerType /\ Registered /\ OfThisServer /\ OneLive /\ EntryIsOwn /\ Forwards

lvars == <<spc, ep, reg, sEnd, net, peer, fwd, serving, epoch, overlap, late>>

(* The thread of n goes on in its session, or ends it before it was live.   *)
GoesOn(n, next) ==
    /\ spc' = [spc EXCEPT ![n] = next]
    /\ spc[n] \notin {"none", "leave"} /\ next # "none"
    /\ next = "tls" => spc[n] = "tls"
    /\ next \in {"live", "leave"} => spc[n] = "live"
    /\ spc[n] = "tls" => reg' = reg \cup {n}
    /\ spc[n] # "tls" => reg' = reg
    /\ UNCHANGED <<ep, sEnd, net, peer, fwd, serving, epoch, overlap, late>>
Ends(n) ==
    SrvEnd(n) /\ spc[n] # "leave" /\ UNCHANGED <<ep, net, peer, fwd, serving, epoch, overlap, late>>

(* The steps, as far as the peers are concerned.                            *)
LEMMA PeerSplit ==
    ASSUME [Next]_vars
    PROVE  \/ UNCHANGED lvars
           \/ Connect \/ AppStop \/ AppStart
           \/ \E n \in Slot : \/ Ends(n) \/ \E next : GoesOn(n, next)
                              \/ Join(n) \/ Leave(n) \/ Forward(n) \/ Cut(n)
<1>1. CASE UNCHANGED vars
  BY <1>1 DEF vars, server, lvars
<1>2. CASE CliRecv \/ CliManifest \/ CliLost \/ CliBatch \/ CliGap \/ Handshake \/ HandshakeFails
  BY <1>2 DEF CliRecv, CliManifest, CliLost, CliBatch, CliGap, Handshake, HandshakeFails, CliSame, server, lvars
<1>3. CASE CliStop \/ SetStatus \/ Unpin
  BY <1>3 DEF CliStop, SetStatus, Unpin, server, lvars
<1>4. ASSUME NEW e, broadcast_to_others(e) PROVE UNCHANGED lvars
  <2>1. net' = net
    BY <1>4 DEF broadcast_to_others, SrvSame
  <2> QED
    BY <1>4, <2>1 DEF broadcast_to_others, SrvSame, lvars
<1>5. ASSUME NEW n \in Slot, SrvNext(n)
      PROVE  Ends(n) \/ (\E next : GoesOn(n, next)) \/ Join(n) \/ Leave(n)
  <2>1. CASE Register(n)
    BY <2>1 DEF Register, SrvSame, GoesOn
  <2>2. ASSUME NEW next, Go(n, next), Quiet, spc[n] \notin {"none", "tls", "leave"},
               next \notin {"none", "tls"}, next \in {"live", "leave"} => spc[n] = "live"
        PROVE  GoesOn(n, next)
    BY <2>2 DEF Go, Quiet, SrvSame, GoesOn
  <2>3. ASSUME SrvEnd(n), Quiet, spc[n] # "leave"
        PROVE  Ends(n)
    BY <2>3 DEF Quiet, SrvSame, Ends
  <2>4. CASE SrvHello(n)
    BY <2>2, <2>3, <2>4 DEF SrvHello
  <2>5. CASE SrvLedger(n) \/ SrvRequest(n)
    BY <2>2, <2>5 DEF SrvLedger, SrvRequest
  <2>6. CASE SrvBatch(n)
    BY <2>2, <2>6 DEF SrvBatch
  <2>7. CASE SrvManifest(n)
    BY <2>2, <2>3, <2>7 DEF SrvManifest
  <2>8. CASE SrvRecv(n)
    BY <2>2, <2>3, <2>8 DEF SrvRecv
  <2>9. CASE SrvOther(n)
    BY <2>2, <2>3, <2>9 DEF SrvOther, Handles
  <2>10. CASE SrvLost(n)
    BY <2>2, <2>3, <2>10 DEF SrvLost, Handles
  <2> QED
    BY <1>5, <2>1, <2>4, <2>5, <2>6, <2>7, <2>8, <2>9, <2>10 DEF SrvNext
<1> QED
  BY <1>1, <1>2, <1>3, <1>4, <1>5 DEF Next, CliNext

(* The thread of a connection goes on or ends.                              *)
LEMMA ThreadStep ==
    ASSUME LInv, NEW n \in Slot, Ends(n) \/ \E next : GoesOn(n, next)
    PROVE  LInv'
<1>1. /\ \A m \in Slot : m # n => spc'[m] = spc[m] /\ sEnd'[m] = sEnd[m]
      /\ spc'[n] # "none" => spc[n] \notin {"none", "leave"}
      /\ spc'[n] \in {"live", "leave"} => spc[n] = "live"
      /\ spc'[n] # "none" => sEnd'[n] = sEnd[n]
      /\ spc'[n] \notin {"none", "tls"} => n \in reg'
      /\ \A m \in Slot : m # n => (m \in reg => m \in reg')
      /\ UNCHANGED <<ep, net, peer, fwd, serving, epoch, overlap, late>>
  <2>1. CASE Ends(n)
    BY <2>1 DEF Ends, SrvEnd, LInv, ServerType
  <2>2. ASSUME NEW next, GoesOn(n, next)
        PROVE  <1>1!:
    BY <2>2 DEF GoesOn, LInv, ServerType, Registered
  <2> QED
    BY <2>1, <2>2
<1>2. ServerType'
  BY <1>1 DEF Ends, SrvEnd, GoesOn, LInv, ServerType
<1>3. Registered'
  BY <1>1 DEF LInv, Registered
<1>4. OfThisServer'
  BY <1>1 DEF LInv, OfThisServer
<1>5. OneLive' /\ EntryIsOwn'
  BY <1>1 DEF LInv, OneLive, EntryIsOwn, InLoop
<1>6. Forwards'
  BY <1>1 DEF LInv, Forwards
<1> QED
  BY <1>2, <1>3, <1>4, <1>5, <1>6 DEF LInv

(* A connection is accepted.                                                *)
LEMMA ConnectStep ==
    ASSUME LInv, Connect
    PROVE  LInv'
<1> DEFINE n == CHOOSE m \in Slot : Free(m)
<1>1. n \in Slot /\ spc[n] \in {"none", "tls"}
  BY DEF Connect, Free
<1>2. /\ sEnd' = [sEnd EXCEPT ![n] = TRUE] /\ spc' = [spc EXCEPT ![n] = "tls"]
      /\ net' = [net EXCEPT ![n] = "up"] /\ ep' = [ep EXCEPT ![n] = epoch] /\ serving
      /\ UNCHANGED <<serving, epoch, reg, peer, fwd, overlap, late>>
  BY DEF Connect
<1> HIDE DEF n
<1>3. /\ spc'[n] = "tls" /\ ep'[n] = epoch
      /\ \A m \in Slot : m # n => spc'[m] = spc[m] /\ ep'[m] = ep[m] /\ net'[m] = net[m] /\ sEnd'[m] = sEnd[m]
  BY <1>1, <1>2 DEF LInv, ServerType
<1>4. ServerType'
  BY <1>1, <1>2 DEF LInv, ServerType
<1>5. Registered' /\ OfThisServer'
  BY <1>2, <1>3 DEF LInv, Registered, OfThisServer
<1>6. OneLive' /\ EntryIsOwn'
  BY <1>2, <1>3 DEF LInv, OneLive, EntryIsOwn, InLoop
<1>7. Forwards'
  BY <1>2, <1>3 DEF LInv, Forwards
<1> QED
  BY <1>4, <1>5, <1>6, <1>7 DEF LInv

(* A session goes live.                                                     *)
LEMMA JoinStep ==
    ASSUME LInv, NEW n \in Slot, Join(n)
    PROVE  LInv'
<1>1. /\ spc[n] = "join" /\ spc' = [spc EXCEPT ![n] = "live"] /\ peer' = [peer EXCEPT ![ep[n]] = n]
      /\ fwd' = [fwd EXCEPT ![n] = TRUE]
      /\ overlap' = (overlap \/ \E m \in Slot \ {n} : spc[m] \in {"live", "leave"})
      /\ UNCHANGED <<ep, reg, sEnd, net, serving, epoch, late>>
  BY DEF Join, Go, SrvSame
<1>2. /\ spc'[n] = "live" /\ fwd'[n] /\ peer'[ep[n]] = n
      /\ \A m \in Slot : m # n => spc'[m] = spc[m] /\ fwd'[m] = fwd[m]
  BY <1>1 DEF LInv, ServerType
<1>3. ServerType'
  BY <1>1 DEF LInv, ServerType
<1>4. Registered' /\ OfThisServer'
  BY <1>1, <1>2 DEF LInv, Registered, OfThisServer
<1>5. ~overlap' => \A m \in Slot : m # n => ~InLoop(m)'
  BY <1>1, <1>2 DEF InLoop
<1>6. OneLive' /\ EntryIsOwn'
  BY <1>1, <1>2, <1>5 DEF OneLive, EntryIsOwn
<1>7. Forwards'
  BY <1>1, <1>2 DEF LInv, Forwards
<1> QED
  BY <1>3, <1>4, <1>6, <1>7 DEF LInv

(* A session leaves the live phase: there is no other whose entry it takes. *)
LEMMA LeaveStep ==
    ASSUME LInv, NEW n \in Slot, Leave(n)
    PROVE  LInv'
<1>1. /\ spc[n] = "leave" /\ spc' = [spc EXCEPT ![n] = "none"] /\ peer' = [peer EXCEPT ![ep[n]] = 0]
      /\ fwd' = [fwd EXCEPT ![n] = FALSE] /\ sEnd' = [sEnd EXCEPT ![n] = FALSE] /\ reg' = reg \ {n}
      /\ UNCHANGED <<ep, net, serving, epoch, late, overlap>>
  BY DEF Leave, SrvEnd, SrvSame
<1>2. /\ spc'[n] = "none" /\ InLoop(n)
      /\ \A m \in Slot : m # n => spc'[m] = spc[m] /\ fwd'[m] = fwd[m] /\ sEnd'[m] = sEnd[m]
  BY <1>1 DEF LInv, ServerType, InLoop
<1>3. ServerType'
  BY <1>1 DEF LInv, ServerType
<1>4. Registered' /\ OfThisServer'
  BY <1>1, <1>2 DEF LInv, Registered, OfThisServer
<1>5. ~overlap => \A m \in Slot : m # n => ~InLoop(m)
  BY <1>2 DEF LInv, OneLive
<1>6. ~overlap => \A m \in Slot : ~InLoop(m)'
  BY <1>2, <1>5 DEF InLoop
<1>7. OneLive' /\ EntryIsOwn'
  BY <1>1, <1>6 DEF OneLive, EntryIsOwn
<1>8. Forwards'
  BY <1>1, <1>6 DEF Forwards, InLoop
<1> QED
  BY <1>3, <1>4, <1>7, <1>8 DEF LInv

(* A forwarding thread forwards, or ends because its session does.          *)
LEMMA ForwardStep ==
    ASSUME LInv, NEW n \in Slot, Forward(n)
    PROVE  LInv'
<1>1. UNCHANGED <<spc, ep, reg, sEnd, net, peer, serving, epoch, late, overlap>>
  BY DEF Forward, SrvSame
<1>2. \/ fwd' = fwd
      \/ fwd' = [fwd EXCEPT ![n] = FALSE] /\ (peer[ep[n]] # n \/ ~sEnd[n] \/ net[n] = "cut")
  BY DEF Forward
<1>3. ServerType'
  BY <1>1, <1>2 DEF LInv, ServerType
<1>4. \A m \in Slot : m # n => fwd'[m] = fwd[m]
  BY <1>2 DEF LInv, ServerType
<1>5. Forwards'
  <2> SUFFICES ASSUME ~overlap, NEW m \in Slot, spc[m] = "live", sEnd[m], net[m] = "up" PROVE fwd'[m]
    BY <1>1 DEF Forwards
  <2>1. fwd[m] /\ peer[ep[m]] = m
    BY DEF LInv, Forwards, EntryIsOwn, InLoop
  <2> QED
    BY <1>2, <1>4, <2>1
<1>6. Registered' /\ OfThisServer' /\ OneLive' /\ EntryIsOwn'
  BY <1>1 DEF LInv, Registered, OfThisServer, OneLive, EntryIsOwn, InLoop
<1> QED
  BY <1>3, <1>5, <1>6 DEF LInv

(* A path is cut, and the app is stopped and started again.                 *)
LEMMA OutsideStep ==
    ASSUME LInv, AppStop \/ AppStart \/ \E n \in Slot : Cut(n)
    PROVE  LInv'
<1>1. CASE AppStop
  <2>1. /\ serving /\ serving' = FALSE /\ epoch < MaxEpoch
        /\ sEnd' = [n \in Slot |-> sEnd[n] /\ ~(n \in reg /\ ep[n] = epoch)]
        /\ late' = (late \/ \E n \in Slot : spc[n] = "tls")
        /\ UNCHANGED <<spc, ep, reg, net, peer, fwd, epoch, overlap>>
    BY <1>1 DEF AppStop
  <2>2. ServerType'
    BY <2>1 DEF LInv, ServerType
  <2>3. OfThisServer'
    <3> SUFFICES ASSUME ~late', NEW n \in Slot, spc[n] # "none", sEnd'[n] PROVE FALSE
      BY <2>1 DEF OfThisServer
    <3>1. ~late /\ spc[n] # "tls" /\ sEnd[n]
      BY <2>1
    <3>2. n \in reg /\ ep[n] = epoch
      BY <3>1 DEF LInv, Registered, OfThisServer
    <3> QED
      BY <2>1, <3>2
  <2>4. Registered' /\ OneLive' /\ EntryIsOwn'
    BY <2>1 DEF LInv, Registered, OneLive, EntryIsOwn, InLoop
  <2>5. Forwards'
    BY <2>1 DEF LInv, Forwards
  <2> QED
    BY <2>2, <2>3, <2>4, <2>5 DEF LInv
<1>2. CASE AppStart
  <2>1. /\ ~serving /\ serving' = TRUE /\ epoch' = epoch + 1
        /\ UNCHANGED <<spc, ep, reg, sEnd, net, peer, fwd, overlap, late>>
    BY <1>2 DEF AppStart
  <2>2. ServerType'
    BY <2>1, SessionAssumption DEF LInv, ServerType
  <2>3. OfThisServer'
    BY <2>1 DEF LInv, OfThisServer
  <2>4. Registered' /\ OneLive' /\ EntryIsOwn' /\ Forwards'
    BY <2>1 DEF LInv, Registered, OneLive, EntryIsOwn, InLoop, Forwards
  <2> QED
    BY <2>2, <2>3, <2>4 DEF LInv
<1>3. ASSUME NEW n \in Slot, Cut(n) PROVE LInv'
  <2>1. /\ net' = [net EXCEPT ![n] = "cut"]
        /\ UNCHANGED <<spc, ep, reg, sEnd, peer, fwd, serving, epoch, overlap, late>>
    BY <1>3 DEF Cut, server
  <2>2. ServerType' /\ \A m \in Slot : net'[m] = net[m] \/ net'[m] = "cut"
    BY <2>1 DEF LInv, ServerType
  <2>3. Registered' /\ OfThisServer' /\ OneLive' /\ EntryIsOwn'
    BY <2>1 DEF LInv, Registered, OfThisServer, OneLive, EntryIsOwn, InLoop
  <2>4. Forwards'
    BY <2>1, <2>2 DEF LInv, Forwards
  <2> QED
    BY <2>2, <2>3, <2>4 DEF LInv
<1> QED
  BY <1>1, <1>2, <1>3

(* Every step keeps the invariant.                                          *)
LEMMA LInvStep == LInv /\ [Next]_vars => LInv'
<1> SUFFICES ASSUME LInv, [Next]_vars PROVE LInv'
  OBVIOUS
<1>1. CASE UNCHANGED lvars
  BY <1>1 DEF lvars, LInv, ServerType, Registered, OfThisServer, OneLive, EntryIsOwn, Forwards, InLoop
<1> QED
  BY <1>1, PeerSplit, ThreadStep, ConnectStep, JoinStep, LeaveStep, ForwardStep, OutsideStep

(* At the start there is no connection.                                     *)
LEMMA InitLInv == Init => LInv
<1> SUFFICES ASSUME Init PROVE LInv
  OBVIOUS
<1>1. ServerType
  BY SessionAssumption DEF Init, ServerType
<1>2. Registered /\ OfThisServer /\ OneLive /\ EntryIsOwn /\ Forwards
  BY DEF Init, Registered, OfThisServer, OneLive, EntryIsOwn, InLoop, Forwards
<1> QED
  BY <1>1, <1>2 DEF LInv

(* A client in a live session is the peer that broadcasts go to and its     *)
(* forwarding thread runs, however sessions break and the app is restarted, *)
(* unless two of its sessions were live at once or the app stopped while a  *)
(* connection was not in active_conns yet.                                  *)
THEOREM LiveMeansListed == Spec => []ListedWhileLive
<1>1. Init => LInv
  BY InitLInv
<1>2. LInv /\ [Next]_vars => LInv'
  BY LInvStep
<1>3. LInv => ListedWhileLive
  <2> SUFFICES ASSUME LInv, ~overlap, ~late, NEW n \in Slot, Live(n)
               PROVE  peer[epoch] = n /\ fwd[n]
    BY DEF ListedWhileLive, Listed
  <2>1. spc[n] = "live" /\ sEnd[n] /\ net[n] = "up"
    BY DEF Live
  <2>2. ep[n] = epoch
    BY <2>1 DEF LInv, OfThisServer
  <2> QED
    BY <2>1, <2>2 DEF LInv, EntryIsOwn, Forwards, InLoop
<1> QED
  BY <1>1, <1>2, <1>3, PTL DEF Spec

-----------------------------------------------------------------------------
(* The second inductive invariant: what is under way on each connection.    *)

Msg == {"Hello", "Ledger", "Pending", "Rejected", "batch", "ack", "request", "Manifest", "data",
        "Complete", "NoSpace", "bcast", "chunk"}
Phase == {"tls", "hello", "ledger", "drain", "ack", "scan", "manifest", "recv", "live", "liveack"}
LiveIn == {"bcast", "chunk", "request", "ack"}

Only(q, S) == \A i \in 1..Len(q) : q[i] \in S
Holds(q, msg) == \E i \in 1..Len(q) : q[i] = msg
LiveClient(cp) == cp \in {"live", "liveack"}

(* During the initial transfer the client may already be in its live phase: *)
(* what belongs to that phase comes after its Complete.                     *)
FullSync(q) ==
    /\ Only(q, {"request", "data", "Complete", "NoSpace", "batch"})
    /\ \A i \in 1..Len(q) : q[i] = "batch" => \E j \in 1..Len(q) : j < i /\ q[j] = "Complete"
    /\ \A i, j \in 1..Len(q) : i < j /\ q[i] = "Complete" => q[j] \in {"batch", "request"}

(* What may be under way to a thread of the server, by its phase.           *)
ForThread(sp, q) ==
    /\ sp \in {"tls", "hello"} => q \in {<<>>, <<"Hello">>}
    /\ sp = "ledger" => q \in {<<>>, <<"Ledger">>, <<"Ledger", "batch">>, <<"Ledger", "Manifest">>}
    /\ sp = "drain" => q \in {<<>>, <<"batch">>, <<"Manifest">>}
    /\ sp = "recv" => FullSync(q)
    /\ sp \in {"join", "live"} => Only(q, {"batch", "request"})

(* What may be under way to the client, by its phase.                       *)
ForClient(cp, q) ==
    /\ cp = "hello" => q \in {<<>>, <<"Hello", "Ledger">>, <<"Pending">>, <<"Rejected">>}
    /\ cp = "ledger" => q = <<"Ledger">>
    /\ cp \in {"drain", "scan"} => q = <<>>
    /\ cp = "ack" => q \in {<<>>, <<"ack">>, <<"request", "ack">>}
    /\ cp = "manifest" => q \in {<<>>, <<"Manifest", "data", "Complete">>, <<"Manifest", "NoSpace">>}
    /\ cp = "recv" => q \in {<<"data", "Complete">>, <<"Complete">>, <<"NoSpace">>}
    /\ LiveClient(cp) => Only(q, LiveIn)

(* How far the ends of one connection can be apart: c is under way to the   *)
(* thread, s to the client, and what the client sends arrives while the end *)
(* of the server is open.                                                   *)
Both(cp, sp, open, c, s) ==
    /\ cp \in Phase /\ ForThread(sp, c) /\ ForClient(cp, s)
    /\ sp = "none" => ~open
    /\ sp \in {"tls", "hello"} => \/ cp = "hello" /\ s = <<>> /\ c = <<"Hello">>
                                  \/ cp = "tls" /\ sp = "tls"
    /\ cp = "tls" => sp = "tls" /\ s = <<>> /\ c = <<>>
    /\ sp = "ledger" =>
          \/ c = <<>> /\ cp = "hello" /\ s = <<"Hello", "Ledger">>
          \/ c = <<>> /\ cp = "ledger" /\ s = <<"Ledger">>
          \/ c \in {<<>>, <<"Ledger">>} /\ s = <<>> /\ ~open /\ cp \in {"drain", "ack", "manifest"}
          \/ c = <<"Ledger">> /\ s = <<>> /\ cp = "drain"
          \/ c = <<"Ledger", "batch">> /\ s = <<>> /\ cp = "ack"
          \/ c = <<"Ledger", "Manifest">> /\ s = <<>> /\ cp = "manifest"
    /\ sp = "drain" =>
          \/ c = <<>> /\ s = <<>> /\ cp \in {"drain", "scan"}
          \/ c = <<>> /\ s = <<>> /\ ~open /\ cp \in {"ack", "manifest"}
          \/ c = <<>> /\ s # <<>> /\ cp = "ack"
          \/ c = <<"batch">> /\ s = <<>> /\ cp = "ack"
          \/ c = <<"Manifest">> /\ s = <<>> /\ cp = "manifest"
    /\ sp = "recv" =>
          \/ c = <<>> /\ cp = "manifest" /\ s = <<"Manifest", "data", "Complete">>
          \/ Only(c, {"request"}) /\ cp = "recv" /\ s # <<"NoSpace">>
          \/ LiveClient(cp) /\ (open => Holds(c, "Complete"))
    /\ sp \in {"join", "live", "leave"} => LiveClient(cp)

(* A connection.  The client may have left it: then only the thread counts. *)
Conn(n) ==
    /\ net[n] = "cut" => c2s[n] = <<>> /\ s2c[n] = <<>>
    /\ fwd[n] => InLoop(n)
    /\ ForThread(spc[n], c2s[n])
    /\ spc[n] = "none" => ~sEnd[n]
    /\ cur = n /\ net[n] = "up" => Both(cpc, spc[n], sEnd[n], c2s[n], s2c[n])

WiresType ==
    /\ c2s \in [Slot -> Seq(Msg)] /\ s2c \in [Slot -> Seq(Msg)]
    /\ net \in [Slot -> {"up", "cut"}] /\ sEnd \in [Slot -> BOOLEAN]
    /\ cEnd = [n \in Slot |-> cEnd[n]]
    /\ spc = [n \in Slot |-> spc[n]] /\ fwd = [n \in Slot |-> fwd[n]]
    /\ cur \in Slot \cup {0} /\ (cpc = "rest" <=> cur = 0)
    /\ cur # 0 => cEnd[cur]

QInv == WiresType /\ (\A n \in Slot : Conn(n)) /\ InStep

(* What the client has under way after it sent msgs.                        *)
Sent(open, q, msgs) == IF open THEN q \o msgs ELSE q

-----------------------------------------------------------------------------
(* Messages in a sequence.                                                  *)

(* The first message of a short sequence, and the rest.                     *)
LEMMA Heads ==
    ASSUME NEW a, NEW b, NEW d
    PROVE  /\ Head(<<a>>) = a /\ Head(<<a, b>>) = a /\ Head(<<a, b, d>>) = a
           /\ Tail(<<a>>) = <<>> /\ Tail(<<a, b>>) = <<b>> /\ Tail(<<a, b, d>>) = <<b, d>>
<1>1. Head(<<a>>) = a /\ Head(<<a, b>>) = a /\ Head(<<a, b, d>>) = a
  OBVIOUS
<1>2. Tail(<<a>>) = <<>>
  OBVIOUS
<1>3. Tail(<<a, b>>) = <<b>>
  OBVIOUS
<1>4. Tail(<<a, b, d>>) = <<b, d>>
  OBVIOUS
<1> QED BY <1>1, <1>2, <1>3, <1>4

(* Short sequences that differ.                                             *)
LEMMA Differ ==
    ASSUME NEW a, NEW b, NEW d, NEW e, NEW f
    PROVE  /\ <<a>> # <<>> /\ <<a, b>> # <<>> /\ <<a, b, d>> # <<>>
           /\ <<a>> # <<b, d>> /\ <<a>> # <<b, d, e>>
           /\ <<a, b>> = <<d, e>> => a = d /\ b = e
           /\ <<a>> = <<d>> => a = d
OBVIOUS

(* What is sent where nothing was under way.                                *)
LEMMA Joins ==
    ASSUME NEW a, NEW b, NEW d
    PROVE  /\ <<>> \o <<a>> = <<a>> /\ <<>> \o <<a, b>> = <<a, b>> /\ <<>> \o <<a, b, d>> = <<a, b, d>>
<1>1. <<>> \o <<a>> = <<a>>
  OBVIOUS
<1>2. <<>> \o <<a, b>> = <<a, b>>
  OBVIOUS
<1>3. <<>> \o <<a, b, d>> = <<a, b, d>>
  OBVIOUS
<1> QED BY <1>1, <1>2, <1>3

(* Taking the first message moves the others up.                            *)
LEMMA TailAt ==
    ASSUME NEW q \in Seq(Msg), q # <<>>
    PROVE  /\ Len(q) \in Nat /\ Len(q) >= 1 /\ Head(q) = q[1]
           /\ Tail(q) \in Seq(Msg) /\ Len(Tail(q)) = Len(q) - 1
           /\ \A i \in 1..Len(Tail(q)) : Tail(q)[i] = q[i + 1] /\ i + 1 \in 1..Len(q)
OBVIOUS

(* Taking one message of a kind leaves messages of that kind.               *)
LEMMA OnlyTail ==
    ASSUME NEW q \in Seq(Msg), NEW S, Only(q, S), q # <<>>
    PROVE  Head(q) \in S /\ Only(Tail(q), S)
BY TailAt DEF Only

(* Taking a message of the initial transfer: before its Complete the rest   *)
(* is still of it, after it everything is of the live phase.                *)
LEMMA SyncTail ==
    ASSUME NEW q \in Seq(Msg), FullSync(q), q # <<>>
    PROVE  /\ Head(q) \in {"request", "data", "Complete", "NoSpace"}
           /\ Head(q) # "Complete" => FullSync(Tail(q))
           /\ Head(q) = "Complete" => Only(Tail(q), {"batch", "request"})
<1> DEFINE t == Tail(q)
<1>1. /\ Len(q) \in Nat /\ Len(q) >= 1 /\ Head(q) = q[1]
      /\ Len(t) = Len(q) - 1
      /\ \A i \in 1..Len(t) : t[i] = q[i + 1] /\ i + 1 \in 1..Len(q)
  BY TailAt
<1> HIDE DEF t
<1>2. Head(q) \in {"request", "data", "Complete", "NoSpace"}
  BY <1>1 DEF FullSync, Only
<1>3. ASSUME Head(q) = "Complete" PROVE Only(t, {"batch", "request"})
  BY <1>1, <1>3 DEF FullSync, Only
<1>4. ASSUME Head(q) # "Complete" PROVE FullSync(t)
  <2>1. Only(t, {"request", "data", "Complete", "NoSpace", "batch"})
    BY <1>1 DEF FullSync, Only
  <2>2. ASSUME NEW i \in 1..Len(t), t[i] = "batch"
        PROVE  \E j \in 1..Len(t) : j < i /\ t[j] = "Complete"
    <3>1. PICK j \in 1..Len(q) : j < i + 1 /\ q[j] = "Complete"
      BY <1>1, <2>2 DEF FullSync
    <3>2. j # 1
      BY <1>1, <1>4, <3>1
    <3>3. j - 1 \in 1..Len(t) /\ j - 1 < i
      BY <1>1, <3>1, <3>2
    <3>4. t[j - 1] = q[(j - 1) + 1] /\ (j - 1) + 1 = j
      BY <1>1, <3>1, <3>3
    <3> QED BY <3>1, <3>3, <3>4
  <2>3. \A i, j \in 1..Len(t) : i < j /\ t[i] = "Complete" => t[j] \in {"batch", "request"}
    BY <1>1 DEF FullSync
  <2> QED BY <2>1, <2>2, <2>3 DEF FullSync
<1> QED BY <1>2, <1>3, <1>4 DEF t

(* Sending puts messages behind the others.                                 *)
LEMMA JoinAt ==
    ASSUME NEW q \in Seq(Msg), NEW a, NEW b
    PROVE  /\ Len(q) \in Nat
           /\ Len(q \o <<a>>) = Len(q) + 1 /\ (q \o <<a>>)[Len(q) + 1] = a
           /\ Len(q \o <<a, b>>) = Len(q) + 2 /\ (q \o <<a, b>>)[Len(q) + 1] = a
           /\ (q \o <<a, b>>)[Len(q) + 2] = b
           /\ \A i \in 1..Len(q) : (q \o <<a>>)[i] = q[i] /\ (q \o <<a, b>>)[i] = q[i]
OBVIOUS

(* One message behind another.                                              *)
LEMMA JoinsTwo ==
    ASSUME NEW a \in Msg, NEW b \in Msg
    PROVE  <<a>> \o <<b>> = <<a, b>>
<1> DEFINE x == <<a>>
           y == x \o <<b>>
<1>1. x \in Seq(Msg) /\ Len(x) = 1 /\ x[1] = a
  OBVIOUS
<1> HIDE DEF x
<1>2. y \in Seq(Msg)
  BY <1>1
<1>3. Len(y) = 2 /\ y[1] = a /\ y[2] = b
  <2>1. Len(y) = Len(x) + 1 /\ y[Len(x) + 1] = b /\ \A i \in 1..Len(x) : y[i] = x[i]
    BY <1>1, JoinAt
  <2> QED BY <1>1, <2>1
<1> HIDE DEF y
<1>4. y = <<a, b>>
  BY <1>2, <1>3
<1> QED BY <1>4 DEF x, y

(* Sending messages of a kind.                                              *)
LEMMA OnlyMore ==
    ASSUME NEW q \in Seq(Msg), NEW S, Only(q, S), NEW a \in S, NEW b \in S
    PROVE  Only(q \o <<a>>, S) /\ Only(q \o <<a, b>>, S)
BY JoinAt DEF Only

(* After the Complete, what belongs to the live phase may follow.           *)
LEMMA SyncMore ==
    ASSUME NEW q \in Seq(Msg), FullSync(q), Holds(q, "Complete"), NEW m \in {"batch", "request"}
    PROVE  FullSync(q \o <<m>>) /\ Holds(q \o <<m>>, "Complete")
<1> DEFINE t == q \o <<m>>
<1>1. /\ Len(q) \in Nat /\ Len(t) = Len(q) + 1 /\ t[Len(t)] = m
      /\ \A i \in 1..Len(q) : t[i] = q[i]
  BY JoinAt
<1> HIDE DEF t
<1>2. PICK k \in 1..Len(q) : q[k] = "Complete"
  BY DEF Holds
<1>3. k \in 1..Len(t) /\ t[k] = "Complete" /\ k < Len(t)
  BY <1>1, <1>2
<1>4. \A i \in 1..Len(t) : i = Len(t) \/ (i \in 1..Len(q) /\ i < Len(t))
  BY <1>1
<1>5. Only(t, {"request", "data", "Complete", "NoSpace", "batch"})
  BY <1>1, <1>4 DEF FullSync, Only
<1>6. ASSUME NEW i \in 1..Len(t), t[i] = "batch"
      PROVE  \E j \in 1..Len(t) : j < i /\ t[j] = "Complete"
  <2>1. CASE i = Len(t)
    BY <1>3, <2>1
  <2>2. CASE i \in 1..Len(q)
    <3>1. PICK j \in 1..Len(q) : j < i /\ q[j] = "Complete"
      BY <1>1, <1>6, <2>2 DEF FullSync
    <3> QED BY <1>1, <3>1
  <2> QED BY <1>4, <2>1, <2>2
<1>7. ASSUME NEW i \in 1..Len(t), NEW j \in 1..Len(t), i < j, t[i] = "Complete"
      PROVE  t[j] \in {"batch", "request"}
  <2>1. i \in 1..Len(q)
    BY <1>1, <1>7
  <2> QED BY <1>1, <1>4, <1>7, <2>1 DEF FullSync
<1> QED BY <1>3, <1>5, <1>6, <1>7 DEF FullSync, Holds, t

(* The end of the initial transfer.                                         *)
LEMMA SyncDone ==
    ASSUME NEW q \in Seq(Msg), Only(q, {"request"})
    PROVE  FullSync(q \o <<"data", "Complete">>) /\ Holds(q \o <<"data", "Complete">>, "Complete")
<1> DEFINE t == q \o <<"data", "Complete">>
<1>1. /\ Len(q) \in Nat /\ Len(t) = Len(q) + 2 /\ t[Len(q) + 1] = "data" /\ t[Len(t)] = "Complete"
      /\ \A i \in 1..Len(q) : t[i] = "request"
  BY JoinAt DEF Only
<1> HIDE DEF t
<1>2. \A i \in 1..Len(t) : i = Len(t) \/ i = Len(q) + 1 \/ i \in 1..Len(q)
  BY <1>1
<1>3. Holds(t, "Complete")
  BY <1>1 DEF Holds
<1> QED BY <1>1, <1>2, <1>3 DEF FullSync, Only, t

(* Requests alone are part of an initial transfer.                          *)
LEMMA OnlySync ==
    ASSUME NEW q \in Seq(Msg), Only(q, {"request"})
    PROVE  FullSync(q)
BY DEF FullSync, Only

-----------------------------------------------------------------------------
(* What taking and sending a message does to what is under way.             *)

(* What the client finds first is what its phase expects, or a request.     *)
LEMMA ClientExpects ==
    ASSUME NEW cp \in DOMAIN Expected, NEW s \in Seq(Msg), s # <<>>, ForClient(cp, s)
    PROVE  Head(s) \in Expected[cp] \cup {"request"}
<1>0. DOMAIN Expected = {"hello", "ledger", "ack", "manifest", "recv", "live", "liveack"}
  BY DEF Expected
<1>1. CASE cp = "hello"
  BY <1>1, Heads DEF ForClient, Expected
<1>2. CASE cp = "ledger"
  BY <1>2, Heads DEF ForClient, Expected
<1>3. CASE cp = "ack"
  BY <1>3, Heads DEF ForClient, Expected
<1>4. CASE cp = "manifest"
  BY <1>4, Heads DEF ForClient, Expected
<1>5. CASE cp = "recv"
  BY <1>5, Heads DEF ForClient, Expected
<1>6. CASE cp = "live" \/ cp = "liveack"
  BY <1>6, OnlyTail DEF ForClient, LiveClient, Expected, LiveIn
<1> QED
  BY <1>0, <1>1, <1>2, <1>3, <1>4, <1>5, <1>6

(* The same of the server's thread.                                         *)
LEMMA ThreadExpects ==
    ASSUME NEW sp \in DOMAIN Handles, NEW c \in Seq(Msg), c # <<>>, ForThread(sp, c)
    PROVE  Head(c) \in Handles[sp] \/ (sp = "recv" /\ Head(c) = "request")
<1>0. DOMAIN Handles = {"hello", "ledger", "drain", "recv", "live"}
  BY DEF Handles
<1>1. CASE sp = "hello"
  BY <1>1, Heads DEF ForThread, Handles
<1>2. CASE sp = "ledger"
  BY <1>2, Heads DEF ForThread, Handles
<1>3. CASE sp = "drain"
  BY <1>3, Heads DEF ForThread, Handles
<1>4. CASE sp = "recv"
  BY <1>4, SyncTail DEF ForThread, Handles
<1>5. CASE sp = "live"
  BY <1>5, OnlyTail DEF ForThread, Handles
<1> QED
  BY <1>0, <1>1, <1>2, <1>3, <1>4, <1>5

(* The client is admitted.                                                  *)
LEMMA CliTakesHello ==
    ASSUME NEW sp, NEW open \in BOOLEAN, NEW c \in Seq(Msg), NEW s \in Seq(Msg),
           Both("hello", sp, open, c, s), s # <<>>, Head(s) = "Hello"
    PROVE  Both("ledger", sp, open, c, Tail(s))
<1>1. s = <<"Hello", "Ledger">> /\ Tail(s) = <<"Ledger">>
  <2>1. s \in {<<>>, <<"Hello", "Ledger">>, <<"Pending">>, <<"Rejected">>}
    BY DEF Both, ForClient
  <2>2. /\ Head(<<"Pending">>) = "Pending" /\ Head(<<"Rejected">>) = "Rejected"
        /\ Tail(<<"Hello", "Ledger">>) = <<"Ledger">>
    BY Heads
  <2> QED BY <2>1, <2>2
<1>2. sp \notin {"tls", "hello", "drain", "recv", "join", "live", "leave"}
  BY <1>1, Differ DEF Both, LiveClient
<1>3. sp = "ledger" => c = <<>>
  BY <1>1, Differ DEF Both
<1> QED
  BY <1>1, <1>2, <1>3 DEF Both, ForThread, ForClient, LiveClient, Phase, LiveIn

(* The client merges the ledger and sends its own.                          *)
LEMMA CliTakesLedger ==
    ASSUME NEW sp, NEW open \in BOOLEAN, NEW c \in Seq(Msg), NEW s \in Seq(Msg),
           Both("ledger", sp, open, c, s)
    PROVE  Both("drain", sp, open, Sent(open, c, <<"Ledger">>), Tail(s))
<1>1. s = <<"Ledger">> /\ Tail(s) = <<>>
  BY Heads DEF Both, ForClient
<1>2. sp \notin {"tls", "hello", "drain", "recv", "join", "live", "leave"}
  BY DEF Both, LiveClient
<1>3. sp = "ledger" => c = <<>>
  BY <1>1, Differ DEF Both
<1>4. sp = "ledger" => Sent(open, c, <<"Ledger">>) = IF open THEN <<"Ledger">> ELSE <<>>
  BY <1>3, Joins DEF Sent
<1>5. ~open => Sent(open, c, <<"Ledger">>) = c
  BY DEF Sent
<1> HIDE DEF Sent
<1> QED
  BY <1>1, <1>2, <1>3, <1>4, <1>5 DEF Both, ForThread, ForClient, LiveClient, Phase, LiveIn

(* The journal is acknowledged.                                             *)
LEMMA CliTakesAck ==
    ASSUME NEW sp, NEW open \in BOOLEAN, NEW c \in Seq(Msg), NEW s \in Seq(Msg),
           Both("ack", sp, open, c, s), s # <<>>, Head(s) = "ack"
    PROVE  Both("scan", sp, open, c, Tail(s))
<1>1. s = <<"ack">> /\ Tail(s) = <<>>
  <2>1. s \in {<<>>, <<"ack">>, <<"request", "ack">>}
    BY DEF Both, ForClient
  <2>2. Head(<<"request", "ack">>) = "request" /\ Tail(<<"ack">>) = <<>>
    BY Heads
  <2> QED BY <2>1, <2>2
<1>2. sp \notin {"tls", "hello", "ledger", "recv", "join", "live", "leave"}
  BY <1>1, Differ DEF Both, LiveClient
<1>3. sp = "drain" => c = <<>>
  BY <1>1, Differ DEF Both
<1> QED
  BY <1>1, <1>2, <1>3 DEF Both, ForThread, ForClient, LiveClient, Phase, LiveIn

(* The client takes the manifest, or has no room for what it lists.         *)
LEMMA CliTakesManifest ==
    ASSUME NEW sp, NEW open \in BOOLEAN, NEW c \in Seq(Msg), NEW s \in Seq(Msg),
           Both("manifest", sp, open, c, s), s # <<>>
    PROVE  /\ Both("recv", sp, open, c, Tail(s))
           /\ ForThread(sp, Sent(open, c, <<"NoSpace">>))
<1>1. \/ s = <<"Manifest", "data", "Complete">> /\ Tail(s) = <<"data", "Complete">>
      \/ s = <<"Manifest", "NoSpace">> /\ Tail(s) = <<"NoSpace">>
  <2>1. s \in {<<>>, <<"Manifest", "data", "Complete">>, <<"Manifest", "NoSpace">>}
    BY DEF Both, ForClient
  <2>2. /\ Tail(<<"Manifest", "data", "Complete">>) = <<"data", "Complete">>
        /\ Tail(<<"Manifest", "NoSpace">>) = <<"NoSpace">>
    BY Heads
  <2> QED BY <2>1, <2>2
<1>2. sp \notin {"tls", "hello", "ledger", "drain", "join", "live", "leave"}
  BY <1>1, Differ DEF Both, LiveClient
<1>3. sp = "recv" => c = <<>> /\ s = <<"Manifest", "data", "Complete">>
  BY DEF Both, LiveClient
<1>4. sp = "none" => ~open
  BY DEF Both
<1>5. Only(<<>>, {"request"})
  BY DEF Only
<1>6. sp = "recv" => Tail(s) = <<"data", "Complete">> /\ Tail(s) # <<"NoSpace">>
  BY <1>1, <1>3, Heads, Differ
<1>7. Both("recv", sp, open, c, Tail(s))
  BY <1>1, <1>2, <1>3, <1>4, <1>5, <1>6 DEF Both, ForThread, ForClient, LiveClient, Phase, LiveIn
<1>8. sp = "recv" => Sent(open, c, <<"NoSpace">>) \in {<<>>, <<"NoSpace">>}
  BY <1>3, Joins DEF Sent
<1>9. FullSync(<<>>) /\ FullSync(<<"NoSpace">>)
  BY DEF FullSync, Only
<1> QED
  BY <1>2, <1>7, <1>8, <1>9 DEF ForThread

(* The client takes a file, and perhaps asks for missing chunks.            *)
LEMMA CliTakesData ==
    ASSUME NEW sp, NEW open \in BOOLEAN, NEW c \in Seq(Msg), NEW s \in Seq(Msg),
           Both("recv", sp, open, c, s), Head(s) = "data"
    PROVE  /\ Both("recv", sp, open, c, Tail(s))
           /\ Both("recv", sp, open, Sent(open, c, <<"request">>), Tail(s))
<1>1. s = <<"data", "Complete">> /\ Tail(s) = <<"Complete">>
  <2>1. s \in {<<"data", "Complete">>, <<"Complete">>, <<"NoSpace">>}
    BY DEF Both, ForClient
  <2>2. /\ Tail(<<"data", "Complete">>) = <<"Complete">>
        /\ Head(<<"Complete">>) = "Complete" /\ Head(<<"NoSpace">>) = "NoSpace"
    BY Heads
  <2> QED BY <2>1, <2>2
<1>2. sp \notin {"tls", "hello", "ledger", "drain", "join", "live", "leave"}
  BY DEF Both, LiveClient
<1>3. sp = "recv" => Only(c, {"request"})
  BY DEF Both, LiveClient
<1>4. <<"Complete">> # <<"NoSpace">>
  BY Differ
<1>5. sp = "none" => ~open
  BY DEF Both
<1>6. ASSUME NEW q \in Seq(Msg), sp = "recv" => Only(q, {"request"})
      PROVE  Both("recv", sp, open, q, Tail(s))
  BY <1>1, <1>2, <1>4, <1>5, <1>6, OnlySync DEF Both, ForThread, ForClient, LiveClient, Phase, LiveIn
<1> DEFINE d == Sent(open, c, <<"request">>)
<1>7. d \in Seq(Msg) /\ (sp = "recv" => Only(d, {"request"}))
  <2>1. c \o <<"request">> \in Seq(Msg)
    BY DEF Msg
  <2>2. sp = "recv" => Only(c \o <<"request">>, {"request"})
    BY <1>3, OnlyMore
  <2> QED BY <1>3, <2>1, <2>2 DEF Sent
<1> HIDE DEF d
<1>8. Both("recv", sp, open, d, Tail(s))
  BY <1>6, <1>7
<1> QED
  BY <1>3, <1>6, <1>8 DEF d

(* The client has everything, sends its files and goes live.                *)
LEMMA CliTakesComplete ==
    ASSUME NEW sp, NEW open \in BOOLEAN, NEW c \in Seq(Msg), NEW s \in Seq(Msg),
           Both("recv", sp, open, c, s), Head(s) = "Complete"
    PROVE  Both("live", sp, open, Sent(open, c, <<"data", "Complete">>), Tail(s))
<1>1. Tail(s) = <<>>
  <2>1. s \in {<<"data", "Complete">>, <<"Complete">>, <<"NoSpace">>}
    BY DEF Both, ForClient
  <2>2. /\ Head(<<"data", "Complete">>) = "data"
        /\ Tail(<<"Complete">>) = <<>> /\ Tail(<<"NoSpace">>) = <<>>
    BY Heads
  <2> QED BY <2>1, <2>2
<1>2. sp \notin {"tls", "hello", "ledger", "drain", "join", "live", "leave"}
  BY DEF Both, LiveClient
<1>3. sp = "recv" => Only(c, {"request"})
  BY DEF Both, LiveClient
<1>4. sp = "none" => ~open
  BY DEF Both
<1> DEFINE d == Sent(open, c, <<"data", "Complete">>)
<1>5. sp = "recv" => FullSync(d) /\ (open => Holds(d, "Complete"))
  BY <1>3, SyncDone, OnlySync DEF Sent
<1> HIDE DEF d
<1>6. Only(<<>>, {"bcast", "chunk", "request", "ack"})
  BY DEF Only
<1> QED
  BY <1>1, <1>2, <1>4, <1>5, <1>6 DEF Both, ForThread, ForClient, LiveClient, d, Phase, LiveIn

(* The client takes a message or sends a chunk of its journal in the live   *)
(* phase.                                                                   *)
LEMMA CliGoesOnLive ==
    ASSUME NEW sp, NEW open \in BOOLEAN, NEW c \in Seq(Msg), NEW s \in Seq(Msg),
           NEW cp, LiveClient(cp), Both(cp, sp, open, c, s), NEW dp, LiveClient(dp)
    PROVE  /\ Both(dp, sp, open, c, s)
           /\ s # <<>> => Both(dp, sp, open, c, Tail(s))
           /\ s # <<>> => Both(dp, sp, open, Sent(open, c, <<"request">>), Tail(s))
           /\ Both(dp, sp, open, Sent(open, c, <<"batch">>), s)
<1>1. sp \notin {"tls", "hello", "ledger", "drain"}
  BY DEF Both, LiveClient
<1>2. Only(s, {"bcast", "chunk", "request", "ack"})
  BY DEF Both, ForClient, LiveIn
<1>3. s # <<>> => Only(Tail(s), {"bcast", "chunk", "request", "ack"})
  BY <1>2, OnlyTail
<1>4. /\ sp = "recv" => FullSync(c) /\ (open => Holds(c, "Complete"))
      /\ sp \in {"join", "live"} => Only(c, {"batch", "request"})
      /\ sp = "none" => ~open
  BY DEF Both, ForThread, LiveClient
<1>5. ASSUME NEW q, NEW d, Only(q, {"bcast", "chunk", "request", "ack"}),
             sp = "recv" => FullSync(d) /\ (open => Holds(d, "Complete")),
             sp \in {"join", "live"} => Only(d, {"batch", "request"})
      PROVE  Both(dp, sp, open, d, q)
  BY <1>1, <1>4, <1>5 DEF Both, ForThread, ForClient, LiveClient, Phase, LiveIn
<1>6. ASSUME NEW m \in {"batch", "request"}
      PROVE  /\ sp = "recv" => FullSync(Sent(open, c, <<m>>)) /\ (open => Holds(Sent(open, c, <<m>>), "Complete"))
             /\ sp \in {"join", "live"} => Only(Sent(open, c, <<m>>), {"batch", "request"})
  BY <1>4, SyncMore, OnlyMore DEF Sent
<1> QED
  BY <1>2, <1>3, <1>4, <1>5, <1>6

(* The client sends while it drains its journal.                            *)
LEMMA CliDrains ==
    ASSUME NEW sp, NEW open \in BOOLEAN, NEW c \in Seq(Msg), NEW s \in Seq(Msg)
    PROVE  /\ Both("drain", sp, open, c, s) => Both("ack", sp, open, Sent(open, c, <<"batch">>), s)
           /\ \A cp \in {"drain", "scan"} :
                 Both(cp, sp, open, c, s) => Both("manifest", sp, open, Sent(open, c, <<"Manifest">>), s)
<1>1. ASSUME NEW cp \in {"drain", "scan"}, Both(cp, sp, open, c, s),
             NEW m \in {"batch", "Manifest"}, m = "batch" => cp = "drain",
             NEW dp, dp = IF m = "batch" THEN "ack" ELSE "manifest"
      PROVE  Both(dp, sp, open, Sent(open, c, <<m>>), s)
  <2>1. s = <<>>
    BY <1>1 DEF Both, ForClient
  <2>2. sp \notin {"tls", "hello", "recv", "join", "live", "leave"}
    BY <1>1 DEF Both, LiveClient
  <2>3. sp = "ledger" => c = <<"Ledger">> \/ (~open /\ c \in {<<>>, <<"Ledger">>})
    BY <1>1, <2>1, Differ DEF Both
  <2>4. sp = "drain" => c = <<>>
    BY <1>1, <2>1 DEF Both
  <2>5. sp = "none" => ~open
    BY <1>1 DEF Both
  <2> DEFINE d == Sent(open, c, <<m>>)
  <2>6. ~open => d = c
    BY DEF Sent
  <2>7. open /\ sp = "ledger" => d = <<"Ledger", m>>
    BY <2>3, JoinsTwo DEF Sent, Msg
  <2>8. open /\ sp = "drain" => d = <<m>>
    BY <2>4, Joins DEF Sent
  <2> HIDE DEF d
  <2>9. ForThread(sp, d)
    BY <1>1, <2>2, <2>3, <2>4, <2>6, <2>7, <2>8 DEF ForThread
  <2>10. ForClient(dp, s)
    BY <1>1, <2>1 DEF ForClient, LiveClient
  <2> QED
    BY <1>1, <2>1, <2>2, <2>3, <2>4, <2>5, <2>6, <2>7, <2>8, <2>9, <2>10 DEF Both, d, Phase
<1> QED
  BY <1>1

(* The thread takes a message: what is left fits its next phase.            *)
LEMMA ThreadTakes ==
    ASSUME NEW sp, NEW c \in Seq(Msg), c # <<>>, ForThread(sp, c)
    PROVE  /\ sp = "hello" => Tail(c) = <<>>
           /\ sp = "ledger" => c # <<"Ledger">> \/ Tail(c) = <<>>
           /\ sp = "ledger" => ForThread("drain", Tail(c))
           /\ sp = "drain" => Tail(c) = <<>>
           /\ sp = "recv" /\ Head(c) # "Complete" => ForThread("recv", Tail(c))
           /\ sp = "recv" /\ Head(c) = "Complete" => ForThread("join", Tail(c))
           /\ sp = "live" => ForThread("live", Tail(c))
<1>1. ASSUME sp = "hello" PROVE Tail(c) = <<>>
  BY <1>1, Heads DEF ForThread
<1>2. ASSUME sp = "ledger"
      PROVE  Tail(c) \in {<<>>, <<"batch">>, <<"Manifest">>} /\ (c = <<"Ledger">> => Tail(c) = <<>>)
  <2>1. c \in {<<>>, <<"Ledger">>, <<"Ledger", "batch">>, <<"Ledger", "Manifest">>}
    BY <1>2 DEF ForThread
  <2>2. /\ Tail(<<"Ledger">>) = <<>> /\ Tail(<<"Ledger", "batch">>) = <<"batch">>
        /\ Tail(<<"Ledger", "Manifest">>) = <<"Manifest">>
    BY Heads
  <2> QED BY <2>1, <2>2
<1>3. ASSUME sp = "drain" PROVE Tail(c) = <<>>
  BY <1>3, Heads DEF ForThread
<1>4. ASSUME sp = "recv"
      PROVE  /\ Head(c) # "Complete" => FullSync(Tail(c))
             /\ Head(c) = "Complete" => Only(Tail(c), {"batch", "request"})
  BY <1>4, SyncTail DEF ForThread
<1>5. ASSUME sp = "live" PROVE Only(Tail(c), {"batch", "request"})
  BY <1>5, OnlyTail DEF ForThread
<1> QED
  BY <1>1, <1>2, <1>3, <1>4, <1>5 DEF ForThread

(* Nothing under way suits every phase.                                     *)
LEMMA NothingFits ==
    \A sp : ForThread(sp, <<>>)
BY DEF ForThread, FullSync, Only

(* The thread closes its end, or has ended.                                 *)
LEMMA ThreadCloses ==
    ASSUME NEW cp, NEW sp, NEW open \in BOOLEAN, NEW c, NEW d, NEW s, Both(cp, sp, open, c, s)
    PROVE  /\ Both(cp, sp, FALSE, c, s)
           /\ sp # "tls" => Both(cp, "none", FALSE, d, s)
<1>1. Both(cp, sp, FALSE, c, s)
  BY DEF Both
<1>2. ASSUME sp # "tls" PROVE Both(cp, "none", FALSE, d, s)
  BY <1>2 DEF Both, ForThread
<1> QED BY <1>1, <1>2

(* The phases before the handshake and before the live loop expect what the *)
(* next ones do.                                                            *)
LEMMA ThreadRegisters ==
    ASSUME NEW cp, NEW open, NEW c, NEW s
    PROVE  /\ ForThread("tls", c) => ForThread("hello", c)
           /\ ForThread("join", c) => ForThread("live", c)
           /\ cp # "tls" /\ Both(cp, "tls", open, c, s) => Both(cp, "hello", open, c, s)
<1>1. ForThread("tls", c) => ForThread("hello", c)
  BY DEF ForThread
<1>2. ForThread("join", c) => ForThread("live", c)
  BY DEF ForThread
<1>3. cp # "tls" /\ Both(cp, "tls", open, c, s) => Both(cp, "hello", open, c, s)
  BY <1>1 DEF Both
<1> QED BY <1>1, <1>2, <1>3

(* The thread admits the client or turns it away.                           *)
LEMMA ThreadTakesHello ==
    ASSUME NEW cp, NEW open \in BOOLEAN, NEW c \in Seq(Msg), NEW s \in Seq(Msg),
           Both(cp, "hello", open, c, s)
    PROVE  /\ Both(cp, "ledger", open, Tail(c), s \o <<"Hello", "Ledger">>)
           /\ Both(cp, "none", FALSE, Tail(c), s \o <<"Pending">>)
           /\ Both(cp, "none", FALSE, Tail(c), s \o <<"Rejected">>)
<1>1. cp = "hello" /\ s = <<>> /\ c = <<"Hello">>
  BY DEF Both
<1>2. /\ Tail(c) = <<>> /\ s \o <<"Hello", "Ledger">> = <<"Hello", "Ledger">>
      /\ s \o <<"Pending">> = <<"Pending">> /\ s \o <<"Rejected">> = <<"Rejected">>
  BY <1>1, Heads, Joins
<1>3. Both("hello", "ledger", open, <<>>, <<"Hello", "Ledger">>)
  BY NothingFits DEF Both, ForClient, LiveClient
<1>4. Both("hello", "none", FALSE, <<>>, <<"Pending">>) /\ Both("hello", "none", FALSE, <<>>, <<"Rejected">>)
  BY NothingFits DEF Both, ForClient, LiveClient
<1> QED
  BY <1>1, <1>2, <1>3, <1>4

(* The thread takes the ledger.                                             *)
LEMMA ThreadTakesLedger ==
    ASSUME NEW cp, NEW open \in BOOLEAN, NEW c \in Seq(Msg), NEW s \in Seq(Msg),
           Both(cp, "ledger", open, c, s), c # <<>>
    PROVE  Both(cp, "drain", open, Tail(c), s)
<1>1. ForThread("drain", Tail(c)) /\ s = <<>>
  BY ThreadTakes DEF Both
<1>2. /\ Tail(<<"Ledger">>) = <<>> /\ Tail(<<"Ledger", "batch">>) = <<"batch">>
      /\ Tail(<<"Ledger", "Manifest">>) = <<"Manifest">>
  BY Heads
<1>3. \/ c = <<"Ledger">> /\ ~open /\ cp \in {"drain", "ack", "manifest"}
      \/ c = <<"Ledger">> /\ cp = "drain"
      \/ c = <<"Ledger", "batch">> /\ cp = "ack"
      \/ c = <<"Ledger", "Manifest">> /\ cp = "manifest"
  BY DEF Both
<1>4. ForClient(cp, s) /\ cp \in Phase
  BY DEF Both, Phase
<1> QED
  BY <1>1, <1>2, <1>3, <1>4 DEF Both, Phase

(* The thread acknowledges a batch.                                         *)
LEMMA ThreadTakesBatch ==
    ASSUME NEW cp, NEW open \in BOOLEAN, NEW c \in Seq(Msg), NEW s \in Seq(Msg),
           Both(cp, "drain", open, c, s), c # <<>>, Head(c) = "batch"
    PROVE  /\ Both(cp, "drain", open, Tail(c), s \o <<"ack">>)
           /\ Both(cp, "drain", open, Tail(c), s \o <<"request", "ack">>)
<1>1. c = <<"batch">> /\ s = <<>> /\ cp = "ack"
  <2>1. \/ c = <<"batch">> /\ s = <<>> /\ cp = "ack"
        \/ c = <<"Manifest">>
    BY DEF Both
  <2> QED BY <2>1, Heads
<1>2. /\ Tail(c) = <<>> /\ s \o <<"ack">> = <<"ack">> /\ s \o <<"request", "ack">> = <<"request", "ack">>
  BY <1>1, Heads, Joins
<1>3. <<"ack">> # <<>> /\ <<"request", "ack">> # <<>>
  BY Differ
<1>4. Both("ack", "drain", open, <<>>, <<"ack">>) /\ Both("ack", "drain", open, <<>>, <<"request", "ack">>)
  BY <1>3, NothingFits DEF Both, ForClient, LiveClient
<1> QED
  BY <1>1, <1>2, <1>4

(* The thread takes the manifest and sends its own, or has no room.         *)
LEMMA ThreadTakesManifest ==
    ASSUME NEW cp, NEW open \in BOOLEAN, NEW c \in Seq(Msg), NEW s \in Seq(Msg),
           Both(cp, "drain", open, c, s), c # <<>>, Head(c) = "Manifest"
    PROVE  /\ Both(cp, "recv", open, Tail(c), s \o <<"Manifest", "data", "Complete">>)
           /\ Both(cp, "none", FALSE, Tail(c), s \o <<"Manifest", "NoSpace">>)
<1>1. c = <<"Manifest">> /\ s = <<>> /\ cp = "manifest"
  <2>1. \/ c = <<"Manifest">> /\ s = <<>> /\ cp = "manifest"
        \/ c = <<"batch">>
    BY DEF Both
  <2> QED BY <2>1, Heads
<1>2. /\ Tail(c) = <<>> /\ s \o <<"Manifest", "data", "Complete">> = <<"Manifest", "data", "Complete">>
      /\ s \o <<"Manifest", "NoSpace">> = <<"Manifest", "NoSpace">>
  BY <1>1, Heads, Joins
<1>3. Both("manifest", "recv", open, <<>>, <<"Manifest", "data", "Complete">>)
  BY NothingFits DEF Both, ForClient, LiveClient
<1>4. Both("manifest", "none", FALSE, <<>>, <<"Manifest", "NoSpace">>)
  BY NothingFits DEF Both, ForClient, LiveClient
<1> QED
  BY <1>1, <1>2, <1>3, <1>4

(* The initial receive loop.                                                *)
LEMMA ThreadReceives ==
    ASSUME NEW cp, NEW open \in BOOLEAN, NEW c \in Seq(Msg), NEW s \in Seq(Msg),
           Both(cp, "recv", open, c, s), c # <<>>
    PROVE  /\ Head(c) # "Complete" => Both(cp, "recv", open, Tail(c), s)
           /\ Head(c) = "data" => Both(cp, "recv", open, Tail(c), s \o <<"request">>)
           /\ Head(c) = "Complete" => Both(cp, "join", open, Tail(c), s)
<1>1. \/ Only(c, {"request"}) /\ cp = "recv" /\ s # <<"NoSpace">>
      \/ LiveClient(cp) /\ (open => Holds(c, "Complete"))
  BY DEF Both
<1>2. ForClient(cp, s) /\ cp \in Phase
  BY DEF Both, Phase
<1>3. Head(c) # "Complete" => ForThread("recv", Tail(c))
  BY ThreadTakes DEF Both
<1>4. Head(c) = "Complete" => ForThread("join", Tail(c))
  BY ThreadTakes DEF Both
<1>5. Only(c, {"request"}) => Head(c) = "request" /\ Only(Tail(c), {"request"})
  BY OnlyTail
<1>6. Head(c) # "Complete" /\ Holds(c, "Complete") => Holds(Tail(c), "Complete")
  <2> SUFFICES ASSUME Head(c) # "Complete", NEW i \in 1..Len(c), c[i] = "Complete"
               PROVE  Holds(Tail(c), "Complete")
    BY DEF Holds
  <2>1. /\ Len(c) \in Nat /\ Head(c) = c[1] /\ Len(Tail(c)) = Len(c) - 1
        /\ \A k \in 1..Len(Tail(c)) : Tail(c)[k] = c[k + 1]
    BY TailAt
  <2>2. i # 1 /\ i - 1 \in 1..Len(Tail(c)) /\ (i - 1) + 1 = i
    BY <2>1
  <2>3. Tail(c)[i - 1] = c[i]
    BY <2>1, <2>2
  <2> QED BY <2>2, <2>3 DEF Holds
<1>7. Head(c) # "Complete" => Both(cp, "recv", open, Tail(c), s)
  BY <1>1, <1>2, <1>3, <1>5, <1>6 DEF Both, Phase
<1>8. Head(c) = "Complete" => Both(cp, "join", open, Tail(c), s)
  BY <1>1, <1>2, <1>4, <1>5 DEF Both, Phase
<1>9. ASSUME Head(c) = "data" PROVE Both(cp, "recv", open, Tail(c), s \o <<"request">>)
  <2>1. LiveClient(cp) /\ (open => Holds(Tail(c), "Complete"))
    BY <1>1, <1>5, <1>6, <1>9
  <2>2. ForClient(cp, s \o <<"request">>)
    <3>1. Only(s, LiveIn)
      BY <1>2, <2>1 DEF ForClient, LiveIn
    <3>2. Only(s \o <<"request">>, LiveIn)
      BY <3>1, OnlyMore DEF LiveIn
    <3> QED BY <2>1, <3>2 DEF ForClient, LiveClient
  <2> QED BY <1>2, <1>3, <1>9, <2>1, <2>2 DEF Both, Phase
<1> QED
  BY <1>7, <1>8, <1>9

(* The live loop.                                                           *)
LEMMA ThreadLives ==
    ASSUME NEW cp, NEW sp \in {"join", "live", "leave"}, NEW open \in BOOLEAN,
           NEW c, NEW s \in Seq(Msg), Both(cp, sp, open, c, s),
           NEW tp \in {"live", "leave"}, NEW d, ForThread(tp, d)
    PROVE  /\ Both(cp, tp, open, d, s)
           /\ \A m \in LiveIn : Both(cp, tp, open, d, s \o <<m>>)
           /\ Both(cp, tp, open, d, s \o <<"request", "ack">>)
<1>1. LiveClient(cp) /\ cp \in Phase /\ Only(s, LiveIn)
  BY DEF Both, ForClient, LiveIn, Phase
<1>2. ASSUME NEW q, Only(q, LiveIn) PROVE Both(cp, tp, open, d, q)
  <2>1. ForClient(cp, q)
    BY <1>1, <1>2 DEF ForClient, LiveClient
  <2> QED BY <1>1, <2>1 DEF Both, Phase
<1>3. \A m \in LiveIn : Only(s \o <<m>>, LiveIn)
  BY <1>1, OnlyMore
<1>4. Only(s \o <<"request", "ack">>, LiveIn)
  BY <1>1, OnlyMore DEF LiveIn
<1> QED
  BY <1>1, <1>2, <1>3, <1>4

-----------------------------------------------------------------------------
(* The steps of the specification.                                          *)

(* A step of the thread of n, as far as the connections are concerned.      *)
Touches(n) ==
    /\ WiresType'
    /\ \A m \in Slot : m # n =>
          /\ c2s'[m] = c2s[m] /\ s2c'[m] = s2c[m] /\ spc'[m] = spc[m]
          /\ sEnd'[m] = sEnd[m] /\ fwd'[m] = fwd[m]
    /\ UNCHANGED <<cpc, cur, net, cEnd>>

(* A step of the thread of n keeps the invariant when it does so for n.     *)
LEMMA Lands ==
    ASSUME QInv, NEW n \in Slot, Touches(n), surprise' \subseteq {"request"},
           net[n] = "cut" => c2s'[n] = <<>> /\ s2c'[n] = <<>>,
           fwd'[n] => spc'[n] \in {"live", "leave"},
           ForThread(spc'[n], c2s'[n]), spc'[n] = "none" => ~sEnd'[n],
           cur = n /\ net[n] = "up" => Both(cpc, spc'[n], sEnd'[n], c2s'[n], s2c'[n])
    PROVE  QInv'
<1>1. Conn(n)'
  BY DEF Conn, InLoop, Touches
<1>2. ASSUME NEW m \in Slot, m # n PROVE Conn(m)'
  <2>1. Conn(m)
    BY DEF QInv
  <2> QED BY <1>2, <2>1 DEF Conn, InLoop, Touches
<1> QED
  BY <1>1, <1>2 DEF QInv, InStep, Touches

(* The thread of n takes a message.                                         *)
LEMMA TookMeans ==
    ASSUME QInv, NEW n \in Slot, NEW msg, Took(n, msg)
    PROVE  /\ c2s[n] \in Seq(Msg) /\ c2s[n] # <<>> /\ Head(c2s[n]) = msg
           /\ c2s' \in [Slot -> Seq(Msg)] /\ c2s'[n] = Tail(c2s[n])
           /\ \A m \in Slot : m # n => c2s'[m] = c2s[m]
           /\ net[n] = "up"
<1>1. c2s[n] \in Seq(Msg) /\ c2s[n] # <<>> /\ Head(c2s[n]) = msg /\ c2s' = [c2s EXCEPT ![n] = Tail(@)]
  BY DEF QInv, WiresType, Took
<1>2. Tail(c2s[n]) \in Seq(Msg)
  BY <1>1, TailAt
<1>3. net[n] = "up"
  BY <1>1 DEF QInv, WiresType, Conn
<1> QED
  BY <1>1, <1>2, <1>3 DEF QInv, WiresType

(* What the thread sends reaches the client that is still there.            *)
LEMMA ToClientMeans ==
    ASSUME QInv, NEW n \in Slot, NEW msgs \in Seq(Msg), s2c' = ToClient(n, msgs)
    PROVE  /\ s2c[n] \in Seq(Msg)
           /\ s2c' \in [Slot -> Seq(Msg)]
           /\ \A m \in Slot : m # n => s2c'[m] = s2c[m]
           /\ net[n] = "up" /\ cur = n => s2c'[n] = s2c[n] \o msgs
           /\ net[n] = "cut" => s2c'[n] = <<>>
<1>1. s2c \in [Slot -> Seq(Msg)] /\ s2c[n] \o msgs \in Seq(Msg)
  BY DEF QInv, WiresType
<1>2. net[n] = "cut" => s2c[n] = <<>>
  BY DEF QInv, Conn
<1>3. cur = n => cEnd[n]
  BY SessionAssumption DEF QInv, WiresType
<1> QED
  BY <1>1, <1>2, <1>3 DEF ToClient, Reaches

(* What is known of a connection.                                           *)
LEMMA ConnMeans ==
    ASSUME QInv, NEW n \in Slot
    PROVE  /\ ForThread(spc[n], c2s[n]) /\ sEnd[n] \in BOOLEAN
           /\ cur = n /\ net[n] = "up" => Both(cpc, spc[n], sEnd[n], c2s[n], s2c[n])
           /\ spc[n] = "none" => ~sEnd[n]
           /\ fwd[n] => InLoop(n)
           /\ net[n] = "cut" => c2s[n] = <<>> /\ s2c[n] = <<>>
           /\ c2s[n] \in Seq(Msg) /\ s2c[n] \in Seq(Msg)
BY DEF QInv, WiresType, Conn

(* The thread goes on.                                                      *)
LEMMA GoMeans ==
    ASSUME QInv, NEW n \in Slot, NEW next, Go(n, next), Quiet,
           c2s' \in [Slot -> Seq(Msg)], s2c' \in [Slot -> Seq(Msg)],
           \A m \in Slot : m # n => c2s'[m] = c2s[m] /\ s2c'[m] = s2c[m]
    PROVE  Touches(n) /\ spc'[n] = next /\ sEnd'[n] = sEnd[n] /\ fwd'[n] = fwd[n]
BY DEF QInv, WiresType, Touches, Go, Quiet, SrvSame

(* The thread ends.                                                         *)
LEMMA SrvEndMeans ==
    ASSUME QInv, NEW n \in Slot, SrvEnd(n), Quiet,
           c2s' \in [Slot -> Seq(Msg)], s2c' \in [Slot -> Seq(Msg)],
           \A m \in Slot : m # n => c2s'[m] = c2s[m] /\ s2c'[m] = s2c[m]
    PROVE  Touches(n) /\ spc'[n] = "none" /\ sEnd'[n] = FALSE /\ fwd'[n] = fwd[n]
BY DEF QInv, WiresType, Touches, SrvEnd, Quiet, SrvSame

(* The messages that are sent.                                              *)
LEMMA MsgTuples ==
    /\ <<"Hello", "Ledger">> \in Seq(Msg) /\ <<"Pending">> \in Seq(Msg) /\ <<"Rejected">> \in Seq(Msg)
    /\ <<"ack">> \in Seq(Msg) /\ <<"request", "ack">> \in Seq(Msg) /\ <<"request">> \in Seq(Msg)
    /\ <<"Manifest", "data", "Complete">> \in Seq(Msg) /\ <<"Manifest", "NoSpace">> \in Seq(Msg)
    /\ <<"chunk">> \in Seq(Msg) /\ <<"bcast">> \in Seq(Msg)
    /\ <<"Ledger">> \in Seq(Msg) /\ <<"batch">> \in Seq(Msg) /\ <<"Manifest">> \in Seq(Msg)
    /\ <<"data", "Complete">> \in Seq(Msg) /\ <<"NoSpace">> \in Seq(Msg) /\ <<"Hello">> \in Seq(Msg)
BY DEF Msg

(* SrvHello.                                                                *)
LEMMA HelloStep ==
    ASSUME QInv, NEW n \in Slot, SrvHello(n)
    PROVE  QInv'
<1>1. spc[n] = "hello" /\ Took(n, "Hello") /\ surprise' = surprise /\ Quiet
  BY DEF SrvHello
<1>2. /\ ~fwd[n] /\ ForThread("hello", c2s[n]) /\ sEnd[n] \in BOOLEAN
      /\ c2s[n] \in Seq(Msg) /\ s2c[n] \in Seq(Msg) /\ c2s'[n] = Tail(c2s[n]) /\ net[n] = "up"
      /\ surprise \subseteq {"request"} /\ c2s'[n] = <<>>
  BY <1>1, ConnMeans, TookMeans, ThreadTakes DEF InLoop, QInv, InStep
<1>3. cur = n => /\ Both(cpc, "ledger", sEnd[n], c2s'[n], s2c[n] \o <<"Hello", "Ledger">>)
                 /\ Both(cpc, "none", FALSE, c2s'[n], s2c[n] \o <<"Pending">>)
                 /\ Both(cpc, "none", FALSE, c2s'[n], s2c[n] \o <<"Rejected">>)
  <2>1. cur = n => Both(cpc, "hello", sEnd[n], c2s[n], s2c[n])
    BY <1>1, <1>2, ConnMeans
  <2> QED BY <1>2, <2>1, ThreadTakesHello
<1>4. ASSUME s2c' = ToClient(n, <<"Hello", "Ledger">>), Go(n, "ledger") PROVE QInv'
  <2>1. Touches(n) /\ spc'[n] = "ledger" /\ sEnd'[n] = sEnd[n] /\ fwd'[n] = fwd[n]
    BY <1>1, <1>4, TookMeans, ToClientMeans, MsgTuples, GoMeans
  <2>2. cur = n => s2c'[n] = s2c[n] \o <<"Hello", "Ledger">>
    BY <1>2, <1>4, ToClientMeans, MsgTuples
  <2> QED
    BY <1>1, <1>2, <1>3, <2>1, <2>2, NothingFits, Lands
<1>5. ASSUME NEW msg \in {"Pending", "Rejected"}, s2c' = ToClient(n, <<msg>>), SrvEnd(n) PROVE QInv'
  <2>1. Touches(n) /\ spc'[n] = "none" /\ sEnd'[n] = FALSE /\ fwd'[n] = fwd[n]
    BY <1>1, <1>5, TookMeans, ToClientMeans, MsgTuples, SrvEndMeans
  <2>2. cur = n => s2c'[n] = s2c[n] \o <<msg>>
    BY <1>2, <1>5, ToClientMeans, MsgTuples
  <2> QED
    BY <1>1, <1>2, <1>3, <2>1, <2>2, NothingFits, Lands
<1> QED
  BY <1>4, <1>5 DEF SrvHello

(* SrvLedger.                                                               *)
LEMMA LedgerStep ==
    ASSUME QInv, NEW n \in Slot, SrvLedger(n)
    PROVE  QInv'
<1>1. spc[n] = "ledger" /\ Took(n, "Ledger") /\ surprise' = surprise /\ s2c' = s2c /\ Go(n, "drain") /\ Quiet
  BY DEF SrvLedger
<1>2. /\ ~fwd[n] /\ ForThread("ledger", c2s[n]) /\ sEnd[n] \in BOOLEAN
      /\ c2s[n] \in Seq(Msg) /\ s2c[n] \in Seq(Msg) /\ c2s'[n] = Tail(c2s[n]) /\ net[n] = "up"
      /\ surprise \subseteq {"request"} /\ c2s[n] # <<>>
  BY <1>1, ConnMeans, TookMeans DEF InLoop, QInv, InStep
<1>3. ForThread("drain", c2s'[n])
  BY <1>2, ThreadTakes
<1>4. cur = n => Both(cpc, "drain", sEnd[n], c2s'[n], s2c[n])
  <2>1. cur = n => Both(cpc, "ledger", sEnd[n], c2s[n], s2c[n])
    BY <1>1, <1>2, ConnMeans
  <2> QED BY <1>2, <2>1, ThreadTakesLedger
<1>5. Touches(n) /\ spc'[n] = "drain" /\ sEnd'[n] = sEnd[n] /\ fwd'[n] = fwd[n]
  <2>1. s2c' \in [Slot -> Seq(Msg)]
    BY <1>1 DEF QInv, WiresType
  <2> QED BY <1>1, <2>1, TookMeans, GoMeans
<1> QED
  BY <1>1, <1>2, <1>3, <1>4, <1>5, Lands

(* recv_action_drain, until the manifest.                                   *)
LEMMA DrainStep ==
    ASSUME QInv, NEW n \in Slot, SrvBatch(n) \/ SrvManifest(n), spc[n] = "drain"
    PROVE  QInv'
<1>1. surprise' = surprise /\ Quiet /\ (Took(n, "batch") \/ Took(n, "Manifest"))
  BY DEF SrvBatch, SrvManifest
<1>2. /\ ~fwd[n] /\ ForThread("drain", c2s[n]) /\ sEnd[n] \in BOOLEAN
      /\ c2s[n] \in Seq(Msg) /\ s2c[n] \in Seq(Msg) /\ c2s'[n] = Tail(c2s[n]) /\ net[n] = "up"
      /\ surprise \subseteq {"request"} /\ c2s[n] # <<>> /\ c2s'[n] = <<>>
  BY <1>1, ConnMeans, TookMeans, ThreadTakes DEF InLoop, QInv, InStep
<1>3. cur = n => Both(cpc, "drain", sEnd[n], c2s[n], s2c[n])
  BY <1>2, ConnMeans
<1>4. ASSUME Took(n, "batch"), Go(n, "drain"), NEW msgs \in {<<"ack">>, <<"request", "ack">>},
             s2c' = ToClient(n, msgs)
      PROVE  QInv'
  <2>1. Touches(n) /\ spc'[n] = "drain" /\ sEnd'[n] = sEnd[n] /\ fwd'[n] = fwd[n]
    BY <1>1, <1>4, TookMeans, ToClientMeans, MsgTuples, GoMeans
  <2>2. cur = n => s2c'[n] = s2c[n] \o msgs
    BY <1>2, <1>4, ToClientMeans, MsgTuples
  <2>3. cur = n => Both(cpc, "drain", sEnd[n], c2s'[n], s2c'[n])
    BY <1>2, <1>3, <1>4, <2>2, TookMeans, ThreadTakesBatch
  <2> QED
    BY <1>1, <1>2, <2>1, <2>3, NothingFits, Lands
<1>5. ASSUME Took(n, "Manifest"), s2c' = ToClient(n, <<"Manifest", "data", "Complete">>), Go(n, "recv")
      PROVE  QInv'
  <2>1. Touches(n) /\ spc'[n] = "recv" /\ sEnd'[n] = sEnd[n] /\ fwd'[n] = fwd[n]
    BY <1>1, <1>5, TookMeans, ToClientMeans, MsgTuples, GoMeans
  <2>2. cur = n => s2c'[n] = s2c[n] \o <<"Manifest", "data", "Complete">>
    BY <1>2, <1>5, ToClientMeans, MsgTuples
  <2>3. cur = n => Both(cpc, "recv", sEnd[n], c2s'[n], s2c'[n])
    BY <1>2, <1>3, <1>5, <2>2, TookMeans, ThreadTakesManifest
  <2> QED
    BY <1>1, <1>2, <2>1, <2>3, NothingFits, Lands
<1>6. ASSUME Took(n, "Manifest"), s2c' = ToClient(n, <<"Manifest", "NoSpace">>), SrvEnd(n)
      PROVE  QInv'
  <2>1. Touches(n) /\ spc'[n] = "none" /\ sEnd'[n] = FALSE /\ fwd'[n] = fwd[n]
    BY <1>1, <1>6, TookMeans, ToClientMeans, MsgTuples, SrvEndMeans
  <2>2. cur = n => s2c'[n] = s2c[n] \o <<"Manifest", "NoSpace">>
    BY <1>2, <1>6, ToClientMeans, MsgTuples
  <2>3. cur = n => Both(cpc, "none", FALSE, c2s'[n], s2c'[n])
    BY <1>2, <1>3, <1>6, <2>2, TookMeans, ThreadTakesManifest
  <2> QED
    BY <1>1, <1>2, <2>1, <2>3, NothingFits, Lands
<1> QED
  BY <1>4, <1>5, <1>6 DEF SrvBatch, SrvManifest

(* The initial receive loop.                                                *)
LEMMA RecvStep ==
    ASSUME QInv, NEW n \in Slot, SrvRecv(n)
    PROVE  QInv'
<1>1. /\ surprise' = surprise /\ Quiet /\ spc[n] = "recv"
      /\ \E msg : Took(n, msg)
  BY DEF SrvRecv
<1>2. /\ ~fwd[n] /\ ForThread("recv", c2s[n]) /\ sEnd[n] \in BOOLEAN
      /\ c2s[n] \in Seq(Msg) /\ s2c[n] \in Seq(Msg) /\ c2s'[n] = Tail(c2s[n]) /\ net[n] = "up"
      /\ surprise \subseteq {"request"} /\ c2s[n] # <<>>
  BY <1>1, ConnMeans, TookMeans DEF InLoop, QInv, InStep
<1>3. cur = n => Both(cpc, "recv", sEnd[n], c2s[n], s2c[n])
  BY <1>1, <1>2, ConnMeans
<1>4. /\ Head(c2s[n]) # "Complete" => ForThread("recv", c2s'[n])
      /\ Head(c2s[n]) = "Complete" => ForThread("join", c2s'[n])
  BY <1>2, ThreadTakes
<1>5. cur = n => /\ Head(c2s[n]) # "Complete" => Both(cpc, "recv", sEnd[n], c2s'[n], s2c[n])
                 /\ Head(c2s[n]) = "data" => Both(cpc, "recv", sEnd[n], c2s'[n], s2c[n] \o <<"request">>)
                 /\ Head(c2s[n]) = "Complete" => Both(cpc, "join", sEnd[n], c2s'[n], s2c[n])
                 /\ Both(cpc, "none", FALSE, c2s'[n], s2c[n])
  BY <1>2, <1>3, ThreadReceives, ThreadCloses, "recv" # "tls"
<1>6. s2c \in [Slot -> Seq(Msg)]
  BY DEF QInv, WiresType
<1>7. ASSUME Took(n, "data"), Go(n, "recv"), s2c' = s2c \/ s2c' = ToClient(n, <<"request">>)
      PROVE  QInv'
  <2>1. Touches(n) /\ spc'[n] = "recv" /\ sEnd'[n] = sEnd[n] /\ fwd'[n] = fwd[n]
    BY <1>1, <1>6, <1>7, TookMeans, ToClientMeans, MsgTuples, GoMeans
  <2>2. Head(c2s[n]) = "data"
    BY <1>7, TookMeans
  <2>3. cur = n => s2c'[n] \in {s2c[n], s2c[n] \o <<"request">>}
    BY <1>2, <1>7, ToClientMeans, MsgTuples
  <2>4. cur = n => Both(cpc, "recv", sEnd[n], c2s'[n], s2c'[n])
    BY <1>5, <2>2, <2>3
  <2> QED
    BY <1>1, <1>2, <1>4, <2>1, <2>2, <2>4, Lands
<1>8. ASSUME Took(n, "Complete"), Go(n, "join"), s2c' = s2c
      PROVE  QInv'
  <2>1. Touches(n) /\ spc'[n] = "join" /\ sEnd'[n] = sEnd[n] /\ fwd'[n] = fwd[n]
    BY <1>1, <1>6, <1>8, TookMeans, GoMeans
  <2>2. Head(c2s[n]) = "Complete"
    BY <1>8, TookMeans
  <2> QED
    BY <1>1, <1>2, <1>4, <1>5, <1>8, <2>1, <2>2, Lands
<1>9. ASSUME Took(n, "NoSpace"), SrvEnd(n), s2c' = s2c
      PROVE  QInv'
  <2>1. Touches(n) /\ spc'[n] = "none" /\ sEnd'[n] = FALSE /\ fwd'[n] = fwd[n]
    BY <1>1, <1>6, <1>9, TookMeans, SrvEndMeans
  <2>2. ForThread("none", c2s'[n])
    BY DEF ForThread
  <2> QED
    BY <1>1, <1>2, <1>5, <1>9, <2>1, <2>2, Lands
<1> QED
  BY <1>7, <1>8, <1>9 DEF SrvRecv

(* client_recv_loop.                                                        *)
LEMMA LiveLoopStep ==
    ASSUME QInv, NEW n \in Slot, spc[n] = "live", SrvBatch(n) \/ SrvRequest(n)
    PROVE  QInv'
<1>1. /\ surprise' = surprise /\ Quiet /\ Go(n, "live") /\ \E msg : Took(n, msg)
      /\ \E msgs \in {<<"ack">>, <<"request", "ack">>, <<"chunk">>} : s2c' = ToClient(n, msgs)
  BY DEF SrvBatch, SrvRequest
<1>2. /\ ForThread("live", c2s[n]) /\ sEnd[n] \in BOOLEAN
      /\ c2s[n] \in Seq(Msg) /\ s2c[n] \in Seq(Msg) /\ c2s'[n] = Tail(c2s[n]) /\ net[n] = "up"
      /\ surprise \subseteq {"request"} /\ c2s[n] # <<>>
  BY <1>1, ConnMeans, TookMeans DEF QInv, InStep
<1>3. PICK msgs \in {<<"ack">>, <<"request", "ack">>, <<"chunk">>} : s2c' = ToClient(n, msgs)
  BY <1>1
<1>4. Touches(n) /\ spc'[n] = "live" /\ sEnd'[n] = sEnd[n] /\ fwd'[n] = fwd[n]
  BY <1>1, <1>3, TookMeans, ToClientMeans, MsgTuples, GoMeans
<1>5. cur = n => s2c'[n] = s2c[n] \o msgs
  BY <1>2, <1>3, ToClientMeans, MsgTuples
<1>6. ForThread("live", c2s'[n])
  BY <1>2, ThreadTakes
<1>7. cur = n => Both(cpc, "live", sEnd[n], c2s'[n], s2c'[n])
  <2>1. cur = n => Both(cpc, "live", sEnd[n], c2s[n], s2c[n])
    BY <1>2, ConnMeans
  <2>2. cur = n => /\ \A m \in LiveIn : Both(cpc, "live", sEnd[n], c2s'[n], s2c[n] \o <<m>>)
                   /\ Both(cpc, "live", sEnd[n], c2s'[n], s2c[n] \o <<"request", "ack">>)
    BY <1>2, <1>6, <2>1, ThreadLives
  <2>3. "ack" \in LiveIn /\ "chunk" \in LiveIn
    BY DEF LiveIn
  <2> QED BY <1>5, <2>2, <2>3
<1> QED
  BY <1>1, <1>2, <1>4, <1>6, <1>7, Lands

(* The session goes live.                                                   *)
LEMMA JoinWires ==
    ASSUME QInv, NEW n \in Slot, Join(n)
    PROVE  QInv'
<1>1. /\ spc[n] = "join" /\ surprise' = surprise /\ c2s' = c2s /\ s2c' = s2c
      /\ spc' = [spc EXCEPT ![n] = "live"] /\ fwd' = [fwd EXCEPT ![n] = TRUE]
      /\ UNCHANGED <<cpc, cur, net, cEnd, sEnd>>
  BY DEF Join, Go, SrvSame
<1>2. Touches(n) /\ spc'[n] = "live" /\ sEnd'[n] = sEnd[n]
  BY <1>1 DEF QInv, WiresType, Touches
<1>3. ForThread("live", c2s[n]) /\ sEnd[n] \in BOOLEAN /\ s2c[n] \in Seq(Msg) /\ surprise \subseteq {"request"}
  BY <1>1, ConnMeans, ThreadRegisters DEF QInv, InStep
<1>4. cur = n /\ net[n] = "up" => Both(cpc, "live", sEnd[n], c2s[n], s2c[n])
  <2>1. cur = n /\ net[n] = "up" => Both(cpc, "join", sEnd[n], c2s[n], s2c[n])
    BY <1>1, ConnMeans
  <2> QED BY <1>3, <2>1, ThreadLives
<1>5. net[n] = "cut" => c2s[n] = <<>> /\ s2c[n] = <<>>
  BY ConnMeans
<1> QED
  BY <1>1, <1>2, <1>3, <1>4, <1>5, Lands

(* The handshake is done.                                                   *)
LEMMA RegisterStep ==
    ASSUME QInv, NEW n \in Slot, Register(n)
    PROVE  QInv'
<1>1. /\ spc[n] = "tls" /\ (cur = n => cpc # "tls") /\ surprise' = surprise /\ c2s' = c2s /\ s2c' = s2c
      /\ spc' = [spc EXCEPT ![n] = "hello"] /\ UNCHANGED <<cpc, cur, net, cEnd, sEnd, fwd>>
  BY DEF Register, SrvSame
<1>2. Touches(n) /\ spc'[n] = "hello" /\ sEnd'[n] = sEnd[n] /\ fwd'[n] = fwd[n]
  BY <1>1 DEF QInv, WiresType, Touches
<1>3. ForThread("hello", c2s[n]) /\ ~fwd[n] /\ surprise \subseteq {"request"}
  BY <1>1, ConnMeans, ThreadRegisters DEF InLoop, QInv, InStep
<1>4. cur = n /\ net[n] = "up" => Both(cpc, "hello", sEnd[n], c2s[n], s2c[n])
  BY <1>1, ConnMeans, ThreadRegisters
<1>5. net[n] = "cut" => c2s[n] = <<>> /\ s2c[n] = <<>>
  BY ConnMeans
<1> QED
  BY <1>1, <1>2, <1>3, <1>4, <1>5, Lands

(* A thread that has nothing to do with the message in front.               *)
LEMMA OtherStep ==
    ASSUME QInv, NEW n \in Slot, SrvOther(n)
    PROVE  QInv'
<1> DEFINE msg == Head(c2s[n])
<1>1. /\ spc[n] \in DOMAIN Handles /\ msg \notin Handles[spc[n]] /\ Took(n, msg)
      /\ surprise' = surprise \cup {msg} /\ s2c' = s2c /\ Quiet
      /\ spc[n] \notin {"hello", "ledger"} => Go(n, spc[n])
  BY DEF SrvOther
<1>2. /\ ForThread(spc[n], c2s[n]) /\ sEnd[n] \in BOOLEAN
      /\ c2s[n] \in Seq(Msg) /\ s2c[n] \in Seq(Msg) /\ c2s'[n] = Tail(c2s[n]) /\ net[n] = "up"
      /\ surprise \subseteq {"request"} /\ c2s[n] # <<>>
  BY <1>1, ConnMeans, TookMeans DEF QInv, InStep
<1>3. spc[n] = "recv" /\ msg = "request"
  BY <1>1, <1>2, ThreadExpects
<1>4. ~fwd[n]
  BY <1>3, ConnMeans DEF InLoop
<1>5. ForThread("recv", c2s'[n])
  BY <1>2, <1>3, ThreadTakes
<1>6. cur = n => Both(cpc, "recv", sEnd[n], c2s'[n], s2c[n])
  <2>1. cur = n => Both(cpc, "recv", sEnd[n], c2s[n], s2c[n])
    BY <1>2, <1>3, ConnMeans
  <2> QED BY <1>2, <1>3, <2>1, ThreadReceives
<1>7. Touches(n) /\ spc'[n] = "recv" /\ sEnd'[n] = sEnd[n] /\ fwd'[n] = fwd[n]
  <2>1. s2c' \in [Slot -> Seq(Msg)]
    BY <1>1 DEF QInv, WiresType
  <2> QED BY <1>1, <1>3, <2>1, TookMeans, GoMeans
<1> HIDE DEF msg
<1>8. surprise' \subseteq {"request"}
  BY <1>1, <1>2, <1>3
<1> QED
  BY <1>1, <1>2, <1>4, <1>5, <1>6, <1>7, <1>8, Lands

(* A session of the server ends.                                            *)
LEMMA LostStep ==
    ASSUME QInv, NEW n \in Slot, SrvLost(n)
    PROVE  QInv'
<1>1. /\ spc[n] \in DOMAIN Handles /\ surprise' = surprise /\ c2s' = c2s /\ s2c' = s2c /\ Quiet
      /\ IF spc[n] = "live" THEN Go(n, "leave") ELSE SrvEnd(n)
  BY DEF SrvLost
<1>2. c2s \in [Slot -> Seq(Msg)] /\ s2c \in [Slot -> Seq(Msg)] /\ surprise \subseteq {"request"}
  BY DEF QInv, WiresType, InStep
<1>3. /\ net[n] = "cut" => c2s[n] = <<>> /\ s2c[n] = <<>>
      /\ fwd[n] => InLoop(n)
      /\ cur = n /\ net[n] = "up" => Both(cpc, spc[n], sEnd[n], c2s[n], s2c[n])
      /\ sEnd[n] \in BOOLEAN
  BY ConnMeans
<1>4. ForThread("leave", c2s[n]) /\ ForThread("none", c2s[n])
  BY DEF ForThread
<1>5. CASE spc[n] = "live"
  <2>1. Touches(n) /\ spc'[n] = "leave" /\ sEnd'[n] = sEnd[n] /\ fwd'[n] = fwd[n]
    BY <1>1, <1>2, <1>5, GoMeans
  <2>2. cur = n /\ net[n] = "up" => Both(cpc, "leave", sEnd[n], c2s[n], s2c[n])
    BY <1>2, <1>3, <1>4, <1>5, ThreadLives
  <2> QED BY <1>1, <1>2, <1>3, <1>4, <2>1, <2>2, Lands
<1>6. CASE spc[n] # "live"
  <2>1. Touches(n) /\ spc'[n] = "none" /\ sEnd'[n] = FALSE /\ fwd'[n] = fwd[n]
    BY <1>1, <1>2, <1>6, SrvEndMeans
  <2>2. ~fwd[n]
    BY <1>1, <1>3, <1>6 DEF InLoop, Handles
  <2>3. cur = n /\ net[n] = "up" => Both(cpc, "none", FALSE, c2s[n], s2c[n])
    <3>1. spc[n] # "tls"
      BY <1>1 DEF InLoop, Handles
    <3>2. cur = n /\ net[n] = "up" => Both(cpc, spc[n], sEnd[n], c2s[n], s2c[n])
      BY <1>3
    <3>3. sEnd[n] \in BOOLEAN
      BY <1>3
    <3> QED BY ONLY <3>1, <3>2, <3>3, ThreadCloses
  <2> QED BY <1>1, <1>2, <1>3, <1>4, <2>1, <2>2, <2>3, Lands
<1> QED BY <1>5, <1>6

(* The session is over.                                                     *)
LEMMA LeaveWires ==
    ASSUME QInv, NEW n \in Slot, Leave(n)
    PROVE  QInv'
<1>1. /\ surprise' = surprise /\ c2s' = c2s /\ s2c' = s2c
      /\ spc' = [spc EXCEPT ![n] = "none"] /\ sEnd' = [sEnd EXCEPT ![n] = FALSE]
      /\ fwd' = [fwd EXCEPT ![n] = FALSE] /\ UNCHANGED <<cpc, cur, net, cEnd>>
  BY DEF Leave, SrvEnd, SrvSame
<1>2. Touches(n) /\ spc'[n] = "none" /\ sEnd'[n] = FALSE /\ fwd'[n] = FALSE
  BY <1>1 DEF QInv, WiresType, Touches
<1>3. /\ net[n] = "cut" => c2s[n] = <<>> /\ s2c[n] = <<>>
      /\ cur = n /\ net[n] = "up" => Both(cpc, spc[n], sEnd[n], c2s[n], s2c[n])
      /\ sEnd[n] \in BOOLEAN /\ surprise \subseteq {"request"}
  BY ConnMeans DEF QInv, InStep
<1>4. cur = n /\ net[n] = "up" => Both(cpc, "none", FALSE, c2s[n], s2c[n])
  <2>1. spc[n] # "tls"
    BY DEF Leave
  <2> QED BY <1>3, <2>1, ThreadCloses
<1>5. ForThread("none", c2s[n])
  BY DEF ForThread
<1> QED BY <1>1, <1>2, <1>3, <1>4, <1>5, Lands

(* The forwarding thread.                                                   *)
LEMMA ForwardWires ==
    ASSUME QInv, NEW n \in Slot, Forward(n)
    PROVE  QInv'
<1>1. /\ fwd[n] /\ surprise' = surprise /\ c2s' = c2s
      /\ UNCHANGED <<cpc, cur, net, cEnd, spc, sEnd>>
      /\ \/ s2c' = ToClient(n, <<"bcast">>) /\ fwd' = fwd
         \/ s2c' = s2c /\ fwd' = [fwd EXCEPT ![n] = FALSE]
  BY DEF Forward, SrvSame
<1>2. /\ net[n] = "cut" => c2s[n] = <<>> /\ s2c[n] = <<>>
      /\ spc[n] \in {"live", "leave"}
      /\ cur = n /\ net[n] = "up" => Both(cpc, spc[n], sEnd[n], c2s[n], s2c[n])
      /\ ForThread(spc[n], c2s[n])
      /\ sEnd[n] \in BOOLEAN /\ surprise \subseteq {"request"} /\ s2c[n] \in Seq(Msg)
  BY <1>1, ConnMeans DEF InLoop, QInv, InStep
<1>3. cur = n /\ net[n] = "up" => /\ Both(cpc, spc[n], sEnd[n], c2s[n], s2c[n])
                                  /\ Both(cpc, spc[n], sEnd[n], c2s[n], s2c[n] \o <<"bcast">>)
  <2>1. "bcast" \in LiveIn /\ spc[n] \in {"join", "live", "leave"}
    BY <1>2 DEF LiveIn
  <2> QED BY <1>2, <2>1, ThreadLives
<1>4. CASE s2c' = ToClient(n, <<"bcast">>) /\ fwd' = fwd
  <2>1. Touches(n)
    BY <1>1, <1>4, ToClientMeans, MsgTuples DEF QInv, WiresType, Touches
  <2>2. cur = n /\ net[n] = "up" => s2c'[n] = s2c[n] \o <<"bcast">>
    BY <1>4, ToClientMeans, MsgTuples
  <2>3. net[n] = "cut" => s2c'[n] = <<>>
    BY <1>4, ToClientMeans, MsgTuples
  <2> QED BY <1>1, <1>2, <1>3, <1>4, <2>1, <2>2, <2>3, Lands
<1>5. CASE s2c' = s2c /\ fwd' = [fwd EXCEPT ![n] = FALSE]
  <2>1. Touches(n) /\ ~fwd'[n]
    BY <1>1, <1>5 DEF QInv, WiresType, Touches
  <2> QED BY <1>1, <1>2, <1>5, <2>1, Lands
<1> QED BY <1>1, <1>4, <1>5

(* A step of the client leaves the threads and the other connections alone. *)
CliTouches(n) ==
    /\ WiresType'
    /\ \A m \in Slot : m # n => c2s'[m] = c2s[m] /\ s2c'[m] = s2c[m]
    /\ UNCHANGED <<net, spc, sEnd, fwd>>

(* A step of the client keeps the invariant when it does so for its         *)
(* connection.                                                              *)
LEMMA CliLands ==
    ASSUME QInv, NEW n \in Slot, cur = n, CliTouches(n), surprise' \subseteq {"request"},
           net[n] = "cut" => c2s'[n] = <<>> /\ s2c'[n] = <<>>,
           \/ cur' = n /\ (net[n] = "up" => Both(cpc', spc[n], sEnd[n], c2s'[n], s2c'[n]))
           \/ cur' = 0 /\ ForThread(spc[n], c2s'[n])
    PROVE  QInv'
<1>1. ForThread(spc[n], c2s'[n])
  <2>1. net[n] \in {"up", "cut"}
    BY DEF QInv, WiresType
  <2> QED BY <2>1, NothingFits DEF Both
<1>2. Conn(n)'
  <2>1. Conn(n)
    BY DEF QInv
  <2> QED BY <1>1, <2>1, SessionAssumption DEF Conn, InLoop, CliTouches
<1>3. ASSUME NEW m \in Slot, m # n PROVE Conn(m)'
  <2>1. Conn(m)
    BY DEF QInv
  <2>2. cur' # m
    BY <1>3, SessionAssumption
  <2> QED BY <1>3, <2>1, <2>2 DEF Conn, InLoop, CliTouches
<1> QED
  BY <1>2, <1>3 DEF QInv, InStep, CliTouches

(* What the client sends reaches the end that is still open.                *)
LEMMA ToServerMeans ==
    ASSUME QInv, NEW n \in Slot, NEW msgs \in Seq(Msg), NEW q, q = ToServer(n, c2s, msgs)
    PROVE  /\ q \in [Slot -> Seq(Msg)]
           /\ \A m \in Slot : m # n => q[m] = c2s[m]
           /\ net[n] = "up" => q[n] = Sent(sEnd[n], c2s[n], msgs)
           /\ net[n] = "cut" => q[n] = <<>>
<1>1. c2s \in [Slot -> Seq(Msg)] /\ c2s[n] \o msgs \in Seq(Msg)
  BY DEF QInv, WiresType
<1>2. net[n] = "cut" => c2s[n] = <<>>
  BY DEF QInv, Conn
<1> QED
  BY <1>1, <1>2 DEF ToServer, Reaches, Sent

(* The client takes a message and goes on.                                  *)
LEMMA TakeMeans ==
    ASSUME QInv, NEW n \in Slot, cur = n, s2c[n] # <<>>, Take, NEW next, next # "rest", NEW q, Step(next, q),
           CliSame, q \in [Slot -> Seq(Msg)], \A m \in Slot : m # n => q[m] = c2s[m]
    PROVE  CliTouches(n) /\ s2c'[n] = Tail(s2c[n]) /\ c2s'[n] = q[n] /\ cpc' = next /\ cur' = n
<1>1. Tail(s2c[n]) \in Seq(Msg)
  BY TailAt DEF QInv, WiresType
<1>2. /\ s2c' = [s2c EXCEPT ![n] = Tail(s2c[n])] /\ cpc' = next /\ c2s' = q
      /\ UNCHANGED <<cur, cEnd, net, spc, sEnd, fwd>>
  BY DEF Take, Step, CliSame, server
<1> QED
  BY <1>1, <1>2, SessionAssumption DEF QInv, WiresType, CliTouches

(* The client ends its session.                                             *)
LEMMA CliEnds ==
    ASSUME QInv, NEW n \in Slot, cur = n, NEW q, CliEnd(q), q \in [Slot -> Seq(Msg)],
           \A m \in Slot : m # n => q[m] = c2s[m],
           UNCHANGED <<net, spc, sEnd, fwd>>, surprise' \subseteq {"request"},
           ForThread(spc[n], q[n]), net[n] = "cut" => q[n] = <<>>
    PROVE  QInv'
<1>1. /\ s2c' = [s2c EXCEPT ![n] = <<>>] /\ cEnd' = [cEnd EXCEPT ![n] = FALSE]
      /\ cpc' = "rest" /\ cur' = 0 /\ c2s' = q
  BY DEF CliEnd
<1>2. CliTouches(n) /\ s2c'[n] = <<>> /\ c2s'[n] = q[n]
  <2>1. <<>> \in Seq(Msg)
    OBVIOUS
  <2>2. WiresType'
    BY <1>1, <2>1 DEF QInv, WiresType
  <2>3. s2c'[n] = <<>> /\ \A m \in Slot : m # n => s2c'[m] = s2c[m]
    BY <1>1 DEF QInv, WiresType
  <2> QED BY <1>1, <2>2, <2>3 DEF CliTouches
<1> QED
  BY <1>1, <1>2, CliLands

(* The client ends its session with nothing more to say.                    *)
LEMMA CliLeaves ==
    ASSUME QInv, cur # 0, CliEnd(c2s), UNCHANGED <<net, spc, sEnd, fwd>>, surprise' \subseteq {"request"}
    PROVE  QInv'
<1>1. cur \in Slot
  BY DEF QInv, WiresType
<1>2. ForThread(spc[cur], c2s[cur]) /\ (net[cur] = "cut" => c2s[cur] = <<>>)
  BY <1>1, ConnMeans
<1>3. c2s \in [Slot -> Seq(Msg)]
  BY DEF QInv, WiresType
<1> QED
  BY <1>1, <1>2, <1>3, CliEnds

(* The client takes a message.                                              *)
LEMMA CliRecvStep ==
    ASSUME QInv, CliRecv
    PROVE  QInv'
<1> DEFINE n == cur
           msg == Head(s2c[cur])
           Q(msgs) == ToServer(cur, c2s, msgs)
<1>1. /\ n \in Slot /\ cpc \in DOMAIN Expected /\ s2c[n] # <<>> /\ CliSame
      /\ surprise' = IF msg \in Expected[cpc] THEN surprise ELSE surprise \cup {msg}
  BY DEF CliRecv, QInv, WiresType
<1>2. net[n] = "up" /\ c2s[n] \in Seq(Msg) /\ s2c[n] \in Seq(Msg) /\ sEnd[n] \in BOOLEAN
  BY <1>1 DEF QInv, WiresType, Conn
<1>3. Both(cpc, spc[n], sEnd[n], c2s[n], s2c[n])
  BY <1>1, <1>2, ConnMeans
<1>4. ForClient(cpc, s2c[n])
  BY <1>3 DEF Both
<1>5. msg \in Expected[cpc] \cup {"request"} /\ surprise' \subseteq {"request"}
  BY <1>1, <1>2, <1>4, ClientExpects DEF QInv, InStep
<1>6. UNCHANGED <<net, spc, sEnd, fwd>>
  BY <1>1 DEF CliSame, server
<1>7. c2s \in [Slot -> Seq(Msg)]
  BY DEF QInv, WiresType
<1>8. ASSUME CliEnd(c2s) PROVE QInv'
  BY <1>1, <1>5, <1>6, <1>8, CliLeaves, SessionAssumption
<1>9. ASSUME Take, NEW next \in Phase, NEW q, Step(next, q), q \in [Slot -> Seq(Msg)],
             \A m \in Slot : m # n => q[m] = c2s[m],
             Both(next, spc[n], sEnd[n], q[n], Tail(s2c[n]))
      PROVE  QInv'
  <2>1. next # "rest"
    BY DEF Phase
  <2>2. CliTouches(n) /\ s2c'[n] = Tail(s2c[n]) /\ c2s'[n] = q[n] /\ cpc' = next /\ cur' = n
    BY <1>1, <1>9, <2>1, TakeMeans
  <2> QED
    BY <1>1, <1>2, <1>5, <1>9, <2>2, CliLands
<1>10. ASSUME NEW msgs \in Seq(Msg)
       PROVE  /\ Q(msgs) \in [Slot -> Seq(Msg)] /\ \A m \in Slot : m # n => Q(msgs)[m] = c2s[m]
              /\ Q(msgs)[n] = Sent(sEnd[n], c2s[n], msgs)
  BY <1>1, <1>2, ToServerMeans
<1> USE DEF Phase
<1>11. CASE msg \notin Expected[cpc]
  <2>1. msg = "request"
    BY <1>5, <1>11
  <2>2. CASE cpc \in {"live", "liveack"}
    <3>1. Take /\ Step(cpc, c2s)
      BY <1>11, <2>2 DEF CliRecv
    <3>2. Both(cpc, spc[n], sEnd[n], c2s[n], Tail(s2c[n]))
      BY <1>1, <1>2, <1>3, <2>2, CliGoesOnLive DEF LiveClient
    <3> QED BY <1>7, <1>9, <2>2, <3>1, <3>2
  <2>3. CASE cpc = "recv"
    BY <1>2, <1>4, <2>1, <2>3, Heads DEF ForClient
  <2>4. CASE cpc \notin {"live", "liveack", "recv"}
    BY <1>8, <1>11, <2>1, <2>4 DEF CliRecv
  <2> QED BY <2>2, <2>3, <2>4
<1>12. CASE msg \in {"Pending", "Rejected", "NoSpace"} /\ msg \in Expected[cpc]
  BY <1>8, <1>12 DEF CliRecv
<1>13. CASE msg = "Hello" /\ msg \in Expected[cpc]
  <2>1. cpc = "hello" /\ Take /\ Step("ledger", c2s)
    BY <1>1, <1>13 DEF CliRecv, Expected
  <2>2. Both("ledger", spc[n], sEnd[n], c2s[n], Tail(s2c[n]))
    BY <1>1, <1>2, <1>3, <1>13, <2>1, CliTakesHello
  <2> QED BY <1>7, <1>9, <2>1, <2>2
<1>14. CASE msg = "Ledger" /\ msg \in Expected[cpc]
  <2>1. cpc = "ledger" /\ Take /\ Step("drain", Q(<<"Ledger">>))
    BY <1>1, <1>14 DEF CliRecv, Expected
  <2> DEFINE q == Q(<<"Ledger">>)
  <2>3. /\ q \in [Slot -> Seq(Msg)] /\ \A m \in Slot : m # n => q[m] = c2s[m]
        /\ q[n] = Sent(sEnd[n], c2s[n], <<"Ledger">>) /\ Step("drain", q)
    BY <1>10, <2>1, MsgTuples
  <2> HIDE DEF q
  <2>2. Both("drain", spc[n], sEnd[n], Sent(sEnd[n], c2s[n], <<"Ledger">>), Tail(s2c[n]))
    BY <1>1, <1>2, <1>3, <2>1, CliTakesLedger
  <2> QED BY <1>9, <2>1, <2>2, <2>3
<1>15. CASE msg = "ack" /\ msg \in Expected[cpc] /\ cpc = "ack"
  <2>1. Take /\ Step("scan", c2s)
    BY <1>1, <1>15 DEF CliRecv
  <2>2. Both("scan", spc[n], sEnd[n], c2s[n], Tail(s2c[n]))
    BY <1>1, <1>2, <1>3, <1>15, CliTakesAck
  <2> QED BY <1>7, <1>9, <2>1, <2>2
<1>16. CASE msg = "ack" /\ msg \in Expected[cpc] /\ cpc # "ack"
  <2>1. cpc \in {"live", "liveack"} /\ Take /\ Step("live", c2s)
    BY <1>1, <1>16 DEF CliRecv, Expected
  <2>2. Both("live", spc[n], sEnd[n], c2s[n], Tail(s2c[n]))
    BY <1>1, <1>2, <1>3, <2>1, CliGoesOnLive DEF LiveClient
  <2> QED BY <1>7, <1>9, <2>1, <2>2
<1>17. CASE msg = "Manifest" /\ msg \in Expected[cpc]
  <2>1. cpc = "manifest"
    BY <1>1, <1>17 DEF Expected
  <2>2. /\ Both("recv", spc[n], sEnd[n], c2s[n], Tail(s2c[n]))
        /\ ForThread(spc[n], Sent(sEnd[n], c2s[n], <<"NoSpace">>))
    BY <1>1, <1>2, <1>3, <2>1, CliTakesManifest
  <2>3. CASE Take /\ Step("recv", c2s)
    BY <1>7, <1>9, <2>2, <2>3
  <2>4. CASE CliEnd(Q(<<"NoSpace">>))
    <3> DEFINE q == Q(<<"NoSpace">>)
    <3>1. /\ q \in [Slot -> Seq(Msg)] /\ \A m \in Slot : m # n => q[m] = c2s[m]
          /\ q[n] = Sent(sEnd[n], c2s[n], <<"NoSpace">>) /\ CliEnd(q)
      BY <1>10, <2>4, MsgTuples
    <3> HIDE DEF q
    <3> QED BY <1>1, <1>2, <1>5, <1>6, <2>2, <3>1, CliEnds
  <2> QED BY <1>17, <2>1, <2>3, <2>4 DEF CliRecv
<1>18. CASE msg = "Complete" /\ msg \in Expected[cpc]
  <2>1. cpc = "recv" /\ Take /\ Step("live", Q(<<"data", "Complete">>))
    BY <1>1, <1>18 DEF CliRecv, Expected
  <2> DEFINE q == Q(<<"data", "Complete">>)
  <2>3. /\ q \in [Slot -> Seq(Msg)] /\ \A m \in Slot : m # n => q[m] = c2s[m]
        /\ q[n] = Sent(sEnd[n], c2s[n], <<"data", "Complete">>) /\ Step("live", q)
    BY <1>10, <2>1, MsgTuples
  <2> HIDE DEF q
  <2>2. Both("live", spc[n], sEnd[n], Sent(sEnd[n], c2s[n], <<"data", "Complete">>), Tail(s2c[n]))
    BY <1>1, <1>2, <1>3, <1>18, <2>1, CliTakesComplete
  <2> QED BY <1>9, <2>1, <2>2, <2>3
<1>19. CASE msg \in {"data", "bcast", "chunk"} /\ msg \in Expected[cpc]
  <2>1. (cpc = "recv" /\ msg = "data") \/ cpc \in {"live", "liveack"}
    BY <1>1, <1>19 DEF Expected
  <2>2. Take /\ (Step(cpc, c2s) \/ Step(cpc, Q(<<"request">>)))
    BY <1>1, <1>19 DEF CliRecv
  <2>3. /\ Both(cpc, spc[n], sEnd[n], c2s[n], Tail(s2c[n]))
        /\ Both(cpc, spc[n], sEnd[n], Sent(sEnd[n], c2s[n], <<"request">>), Tail(s2c[n]))
    <3>1. CASE cpc = "recv" /\ msg = "data"
      BY <1>1, <1>2, <1>3, <3>1, CliTakesData
    <3>2. CASE cpc \in {"live", "liveack"}
      BY <1>1, <1>2, <1>3, <3>2, CliGoesOnLive DEF LiveClient
    <3> QED BY <2>1, <3>1, <3>2
  <2>4. cpc \in Phase
    BY <2>1
  <2>5. CASE Step(cpc, c2s)
    BY <1>7, <1>9, <2>2, <2>3, <2>4, <2>5
  <2>6. CASE Step(cpc, Q(<<"request">>))
    <3> DEFINE q == Q(<<"request">>)
    <3>1. /\ q \in [Slot -> Seq(Msg)] /\ \A m \in Slot : m # n => q[m] = c2s[m]
          /\ q[n] = Sent(sEnd[n], c2s[n], <<"request">>) /\ Step(cpc, q)
      BY <1>10, <2>6, MsgTuples
    <3> HIDE DEF q
    <3> QED BY <1>9, <2>2, <2>3, <2>4, <3>1
  <2> QED BY <2>2, <2>5, <2>6
<1>20. msg \in {"Pending", "Rejected", "NoSpace", "Hello", "Ledger", "ack", "Manifest", "Complete",
                "data", "bcast", "chunk"} \/ msg \notin Expected[cpc]
  BY <1>1 DEF Expected
<1> QED
  BY <1>11, <1>12, <1>13, <1>14, <1>15, <1>16, <1>17, <1>18, <1>19, <1>20

(* The client sends a chunk of its journal, or its manifest.                *)
LEMMA CliSendStep ==
    ASSUME QInv, CliBatch \/ CliManifest
    PROVE  QInv'
<1>1. /\ CliSame /\ s2c' = s2c /\ surprise' = surprise
      /\ \/ cpc = "drain" /\ Step("ack", ToServer(cur, c2s, <<"batch">>))
         \/ cpc = "live" /\ Step("liveack", ToServer(cur, c2s, <<"batch">>))
         \/ cpc \in {"drain", "scan"} /\ Step("manifest", ToServer(cur, c2s, <<"Manifest">>))
  BY DEF CliBatch, CliManifest
<1>2. cur \in Slot /\ cur # 0
  BY <1>1 DEF QInv, WiresType
<1>3. /\ c2s[cur] \in Seq(Msg) /\ s2c[cur] \in Seq(Msg) /\ sEnd[cur] \in BOOLEAN
      /\ net[cur] \in {"up", "cut"} /\ surprise \subseteq {"request"}
      /\ net[cur] = "up" => Both(cpc, spc[cur], sEnd[cur], c2s[cur], s2c[cur])
      /\ net[cur] = "cut" => s2c[cur] = <<>>
  BY <1>2, ConnMeans DEF QInv, WiresType, InStep
<1>4. ASSUME NEW m \in {"batch", "Manifest"}, NEW next, next # "rest",
             Step(next, ToServer(cur, c2s, <<m>>)),
             net[cur] = "up" => Both(next, spc[cur], sEnd[cur], Sent(sEnd[cur], c2s[cur], <<m>>), s2c[cur])
      PROVE  QInv'
  <2> DEFINE q == ToServer(cur, c2s, <<m>>)
  <2>0. q = ToServer(cur, c2s, <<m>>)
    OBVIOUS
  <2> HIDE DEF q
  <2>1. /\ q \in [Slot -> Seq(Msg)] /\ \A k \in Slot : k # cur => q[k] = c2s[k]
        /\ net[cur] = "up" => q[cur] = Sent(sEnd[cur], c2s[cur], <<m>>)
        /\ net[cur] = "cut" => q[cur] = <<>>
    <3>1. <<m>> \in Seq(Msg)
      BY MsgTuples
    <3> QED BY <1>2, <2>0, <3>1, ToServerMeans
  <2>2. c2s' = q /\ cpc' = next /\ UNCHANGED <<cur, cEnd, net, spc, sEnd, fwd>>
    BY <1>1, <1>4, <2>0 DEF Step, CliSame, server
  <2>3. CliTouches(cur)
    <3>1. WiresType'
      BY <1>1, <1>2, <1>4, <2>1, <2>2 DEF QInv, WiresType
    <3> QED BY <1>1, <2>1, <2>2, <3>1 DEF CliTouches
  <2> QED
    BY <1>1, <1>2, <1>3, <1>4, <2>1, <2>2, <2>3, CliLands
<1>5. CASE cpc = "drain" /\ Step("ack", ToServer(cur, c2s, <<"batch">>))
  BY <1>3, <1>4, <1>5, CliDrains
<1>6. CASE cpc = "live" /\ Step("liveack", ToServer(cur, c2s, <<"batch">>))
  BY <1>3, <1>4, <1>6, CliGoesOnLive DEF LiveClient
<1>7. CASE cpc \in {"drain", "scan"} /\ Step("manifest", ToServer(cur, c2s, <<"Manifest">>))
  BY <1>3, <1>4, <1>7, CliDrains
<1> QED
  BY <1>1, <1>5, <1>6, <1>7

(* A new connection.                                                        *)
LEMMA ConnectWires ==
    ASSUME QInv, Connect
    PROVE  QInv'
<1>0. PICK n \in Slot : n = (CHOOSE m \in Slot : Free(m)) /\ Free(n)
  BY DEF Connect
<1>1. spc[n] \in {"none", "tls"} /\ cpc = "rest" /\ cur = 0
  BY <1>0 DEF Connect, Free, QInv, WiresType
<1>2. /\ cpc' = "tls" /\ cur' = n
      /\ cEnd' = [cEnd EXCEPT ![n] = TRUE] /\ sEnd' = [sEnd EXCEPT ![n] = TRUE]
      /\ c2s' = [c2s EXCEPT ![n] = <<>>]
      /\ s2c' = [s2c EXCEPT ![n] = <<>>] /\ net' = [net EXCEPT ![n] = "up"]
      /\ spc' = [spc EXCEPT ![n] = "tls"] /\ UNCHANGED <<fwd, surprise>>
  BY <1>0 DEF Connect
<1>3. <<>> \in Seq(Msg)
  OBVIOUS
<1>4. WiresType'
  BY <1>1, <1>2, <1>3, SessionAssumption DEF QInv, WiresType
<1>5. ASSUME NEW m \in Slot, m # n PROVE Conn(m)'
  <2>1. /\ Conn(m) /\ c2s'[m] = c2s[m] /\ s2c'[m] = s2c[m] /\ net'[m] = net[m]
        /\ spc'[m] = spc[m] /\ sEnd'[m] = sEnd[m] /\ fwd'[m] = fwd[m]
    BY <1>2, <1>5 DEF QInv, WiresType
  <2>2. cur' # m
    BY <1>2, <1>5, SessionAssumption
  <2> QED BY <2>1, <2>2 DEF Conn, InLoop
<1>6. Conn(n)'
  <2>1. /\ c2s'[n] = <<>> /\ s2c'[n] = <<>> /\ net'[n] = "up"
        /\ spc'[n] = "tls" /\ sEnd'[n] = TRUE /\ fwd'[n] = fwd[n] /\ cpc' = "tls"
    BY <1>1, <1>2, SessionAssumption DEF QInv, WiresType
  <2>2. ~fwd[n]
    BY <1>1, ConnMeans DEF InLoop
  <2>3. ForThread("tls", c2s'[n])
    BY <2>1 DEF ForThread
  <2>4. Both("tls", "tls", TRUE, <<>>, <<>>)
    BY DEF Both, ForThread, ForClient, LiveClient, Phase, LiveIn
  <2> QED BY <2>1, <2>2, <2>3, <2>4 DEF Conn, InLoop
<1> QED
  BY <1>2, <1>4, <1>5, <1>6 DEF QInv, InStep

(* The client's end of the handshake.                                       *)
LEMMA HandshakeWires ==
    ASSUME QInv, Handshake
    PROVE  QInv'
<1> DEFINE trusted == pin \in {-1, cert}
<1>0. PICK n \in Slot : n = cur
  BY DEF Handshake, QInv, WiresType
<1>1. cpc = "tls" /\ net[n] = "up" /\ cur = n /\ n # 0
  BY <1>0, SessionAssumption DEF Handshake
<1>2. /\ cpc' = (IF trusted THEN "hello" ELSE "rest") /\ cur' = (IF trusted THEN n ELSE 0)
      /\ cEnd' = [cEnd EXCEPT ![n] = trusted]
      /\ c2s' = [c2s EXCEPT ![n] = IF trusted THEN <<"Hello">> ELSE <<>>]
      /\ UNCHANGED <<s2c, net, spc, sEnd, fwd, surprise>>
  BY <1>0 DEF Handshake, server
<1> HIDE DEF trusted
<1>3. <<>> \in Seq(Msg) /\ <<"Hello">> \in Seq(Msg)
  BY MsgTuples
<1>4. WiresType'
  BY <1>1, <1>2, <1>3, SessionAssumption DEF QInv, WiresType
<1>5. ASSUME NEW m \in Slot, m # n PROVE Conn(m)'
  <2>1. /\ Conn(m) /\ c2s'[m] = c2s[m] /\ s2c'[m] = s2c[m] /\ net'[m] = net[m]
        /\ spc'[m] = spc[m] /\ sEnd'[m] = sEnd[m] /\ fwd'[m] = fwd[m]
    BY <1>2, <1>5 DEF QInv, WiresType
  <2>2. cur' # m
    BY <1>2, <1>5, SessionAssumption
  <2> QED BY <2>1, <2>2 DEF Conn, InLoop
<1>6. Conn(n)'
  <2>0. Both("tls", spc[n], sEnd[n], c2s[n], s2c[n])
    BY <1>1, ConnMeans
  <2>1. spc[n] = "tls" /\ s2c[n] = <<>>
    BY <2>0 DEF Both
  <2>2. /\ c2s'[n] \in {<<>>, <<"Hello">>} /\ s2c'[n] = <<>> /\ net'[n] = "up"
        /\ spc'[n] = "tls" /\ sEnd'[n] = sEnd[n] /\ fwd'[n] = fwd[n]
        /\ cur' = n => cpc' = "hello" /\ c2s'[n] = <<"Hello">>
    BY <1>1, <1>2, <2>1 DEF QInv, WiresType
  <2>3. ~fwd[n]
    BY <2>1, ConnMeans DEF InLoop
  <2>4. ForThread("tls", c2s'[n])
    BY <2>2 DEF ForThread
  <2>5. Both("hello", "tls", sEnd[n], <<"Hello">>, <<>>)
    BY DEF Both, ForThread, ForClient, LiveClient, Phase, LiveIn
  <2> QED BY <2>2, <2>3, <2>4, <2>5 DEF Conn, InLoop
<1> QED
  BY <1>2, <1>4, <1>5, <1>6 DEF QInv, InStep

(* A path goes dead.                                                        *)
LEMMA CutWires ==
    ASSUME QInv, NEW n \in Slot, Cut(n)
    PROVE  QInv'
<1>1. /\ net' = [net EXCEPT ![n] = "cut"] /\ c2s' = [c2s EXCEPT ![n] = <<>>] /\ s2c' = [s2c EXCEPT ![n] = <<>>]
      /\ UNCHANGED <<cpc, cur, cEnd, surprise, spc, sEnd, fwd>>
  BY DEF Cut, server
<1>2. <<>> \in Seq(Msg)
  OBVIOUS
<1>3. WiresType'
  BY <1>1, <1>2 DEF QInv, WiresType
<1>4. ASSUME NEW m \in Slot PROVE Conn(m)'
  <2>1. Conn(m)
    BY DEF QInv
  <2>2. CASE m = n
    <3>1. c2s'[m] = <<>> /\ s2c'[m] = <<>> /\ net'[m] = "cut"
      BY <1>1, <2>2 DEF QInv, WiresType
    <3> QED BY <1>1, <2>1, <3>1, NothingFits DEF Conn, InLoop
  <2>3. CASE m # n
    <3>1. c2s'[m] = c2s[m] /\ s2c'[m] = s2c[m] /\ net'[m] = net[m]
      BY <1>1, <2>3 DEF QInv, WiresType
    <3> QED BY <1>1, <2>1, <3>1 DEF Conn, InLoop
  <2> QED BY <2>2, <2>3
<1> QED
  BY <1>1, <1>3, <1>4 DEF QInv, InStep

(* The app stops: the server closes its ends of registered connections.     *)
LEMMA StopWires ==
    ASSUME QInv, AppStop
    PROVE  QInv'
<1>1. /\ sEnd' = [n \in Slot |-> sEnd[n] /\ ~(n \in reg /\ ep[n] = epoch)]
      /\ UNCHANGED <<cpc, cur, cEnd, surprise, spc, net, c2s, s2c, fwd>>
  BY DEF AppStop
<1>2. WiresType'
  BY <1>1 DEF QInv, WiresType
<1>3. ASSUME NEW m \in Slot PROVE Conn(m)'
  <2>1. Conn(m) /\ sEnd[m] \in BOOLEAN
    BY DEF QInv, WiresType
  <2>2. sEnd'[m] = sEnd[m] \/ sEnd'[m] = FALSE
    BY <1>1, <2>1
  <2>3. cur = m /\ net[m] = "up" => Both(cpc, spc[m], sEnd'[m], c2s[m], s2c[m])
    BY <2>1, <2>2, ThreadCloses DEF Conn
  <2> QED BY <1>1, <2>1, <2>2, <2>3 DEF Conn, InLoop
<1> QED
  BY <1>1, <1>2, <1>3 DEF QInv, InStep

wires == <<c2s, s2c, net, sEnd, cEnd, spc, fwd, cur, cpc, surprise>>

(* Steps that touch no connection.                                          *)
LEMMA StillWires ==
    ASSUME QInv, UNCHANGED wires
    PROVE  QInv'
<1>1. WiresType'
  BY DEF QInv, WiresType, wires
<1>2. ASSUME NEW m \in Slot PROVE Conn(m)'
  <2>1. Conn(m)
    BY DEF QInv
  <2> QED BY <2>1 DEF Conn, InLoop, wires
<1> QED
  BY <1>1, <1>2 DEF QInv, InStep, wires

(* Every step keeps the invariant.                                          *)
LEMMA QInvStep == QInv /\ [Next]_vars => QInv'
<1> SUFFICES ASSUME QInv, [Next]_vars PROVE QInv'
  OBVIOUS
<1>1. CASE UNCHANGED vars
  BY <1>1, StillWires DEF vars, server, wires
<1>2. CASE Connect
  BY <1>2, ConnectWires
<1>3. CASE CliRecv
  BY <1>3, CliRecvStep
<1>4. CASE CliManifest \/ CliBatch
  BY <1>4, CliSendStep
<1>13. CASE Handshake
  BY <1>13, HandshakeWires
<1>5. CASE CliLost \/ CliGap \/ HandshakeFails
  <2>1. cur # 0 /\ CliEnd(c2s) /\ UNCHANGED <<net, spc, sEnd, fwd, surprise>>
    <3>1. cpc = "tls" => cur # 0
      BY DEF QInv, WiresType
    <3> QED BY <1>5, <3>1 DEF CliLost, CliGap, HandshakeFails, CliSame, server
  <2> QED BY <2>1, CliLeaves DEF QInv, InStep
<1>6. CASE CliStop
  <2>1. UNCHANGED <<net, spc, sEnd, fwd, surprise>>
    BY <1>6 DEF CliStop, server
  <2>2. CASE cur = 0 \/ cpc = "tls"
    BY <1>6, <2>1, <2>2, StillWires DEF CliStop, wires
  <2>3. CASE ~(cur = 0 \/ cpc = "tls")
    BY <1>6, <2>1, <2>3, CliLeaves DEF CliStop, QInv, InStep
  <2> QED BY <2>2, <2>3
<1>7. ASSUME NEW n \in Slot, SrvNext(n) PROVE QInv'
  <2>1. CASE Register(n)
    BY <2>1, RegisterStep
  <2>2. CASE SrvHello(n)
    BY <2>2, HelloStep
  <2>3. CASE SrvLedger(n)
    BY <2>3, LedgerStep
  <2>4. CASE SrvBatch(n)
    <3>1. spc[n] \in {"drain", "live"}
      BY <2>4 DEF SrvBatch
    <3> QED BY <2>4, <3>1, DrainStep, LiveLoopStep
  <2>5. CASE SrvManifest(n)
    <3>1. spc[n] = "drain"
      BY <2>5 DEF SrvManifest
    <3> QED BY <2>5, <3>1, DrainStep
  <2>6. CASE SrvRecv(n)
    BY <2>6, RecvStep
  <2>7. CASE Join(n)
    BY <2>7, JoinWires
  <2>8. CASE SrvRequest(n)
    <3>1. spc[n] = "live"
      BY <2>8 DEF SrvRequest
    <3> QED BY <2>8, <3>1, LiveLoopStep
  <2>9. CASE SrvOther(n)
    BY <2>9, OtherStep
  <2>10. CASE SrvLost(n)
    BY <2>10, LostStep
  <2>11. CASE Leave(n)
    BY <2>11, LeaveWires
  <2> QED
    BY <1>7, <2>1, <2>2, <2>3, <2>4, <2>5, <2>6, <2>7, <2>8, <2>9, <2>10, <2>11 DEF SrvNext
<1>8. ASSUME NEW n \in Slot, Forward(n) PROVE QInv'
  BY <1>8, ForwardWires
<1>9. ASSUME NEW n \in Slot, Cut(n) PROVE QInv'
  BY <1>9, CutWires
<1>10. ASSUME NEW e, broadcast_to_others(e) PROVE QInv'
  <2>1. UNCHANGED wires
    BY <1>10 DEF broadcast_to_others, SrvSame, wires
  <2> QED BY <2>1, StillWires
<1>11. CASE SetStatus \/ AppStart \/ Unpin
  <2>1. UNCHANGED wires
    BY <1>11 DEF SetStatus, AppStart, Unpin, server, wires
  <2> QED BY <2>1, StillWires
<1>12. CASE AppStop
  BY <1>12, StopWires
<1> QED
  BY <1>1, <1>2, <1>3, <1>4, <1>5, <1>6, <1>7, <1>8, <1>9, <1>10, <1>11, <1>12, <1>13 DEF Next, CliNext

(* It holds in the beginning.                                               *)
LEMMA InitQInv == Init => QInv
<1> SUFFICES ASSUME Init PROVE QInv
  OBVIOUS
<1>1. <<>> \in Seq(Msg)
  OBVIOUS
<1>2. WiresType
  BY <1>1 DEF Init, WiresType
<1>3. ASSUME NEW n \in Slot PROVE Conn(n)
  <2>1. cur # n
    BY SessionAssumption DEF Init
  <2> QED BY <2>1, NothingFits DEF Init, Conn
<1> QED
  BY <1>2, <1>3 DEF QInv, InStep, Init

(* However sessions break, overlap and are restarted, neither end of a      *)
(* connection receives a message in a phase that has no use for it, apart   *)
(* from RequestChunks: handle_client and session agree on the order of the  *)
(* protocol.                                                                *)
THEOREM EndsStayInStep == Spec => []InStep
<1>1. QInv => InStep
  BY DEF QInv
<1> QED
  BY <1>1, InitQInv, QInvStep, PTL DEF Spec

=============================================================================
