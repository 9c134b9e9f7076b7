------------------------------ MODULE Transport ------------------------------
(***************************************************************************)
(* One connection (filesync/src/transport.rs): at each end an I/O thread   *)
(* between two bounded queues and a blocking socket, and two threads of    *)
(* the session, one that sends and one that receives and both of which     *)
(* keep the heartbeat.                                                     *)
(*                                                                         *)
(* The I/O thread writes all that is queued before it reads, answers pings *)
(* itself, and stops reading while the receive queue is full.  A frame is  *)
(* its header and its body; the socket takes and gives them in pieces, and *)
(* a read may time out between any two.                                    *)
(***************************************************************************)
EXTENDS Integers, Sequences

CONSTANTS
    Todo,      \* Todo[e]: data frames the sending thread of end e has
    SendDepth, \* SEND_QUEUE_DEPTH
    RecvDepth, \* RECV_CHANNEL_DEPTH
    Cap,       \* pieces of data the socket holds in one direction
    MaxPing,   \* bound: pings
    MaxFault   \* bound: a cut path, a gap in the clock

End == {"client", "server"}
Other(e) == IF e = "client" THEN "server" ELSE "client"

VARIABLES
    cut,   \* the path is dead
    sendq, \* sendq[e]: frames queued by the threads of e
    io,    \* io[e]: what the I/O thread does
    hand,  \* hand[e]: pieces it is about to write
    pipe,  \* pipe[e]: pieces on their way to e
    part,  \* part[e]: FrameReader, the pieces of the frame it is reading
    recvq, \* recvq[e]: numbers of the data frames decoded and not received
    got,   \* got[e]: the last number received
    sent,  \* sent[e]: data frames queued so far
    pings,
    snd,   \* snd[e]: the sending thread runs
    rcv,   \* rcv[e]: the receiving thread runs
    down,  \* down[e]: the session has called shutdown
    faults

vars == <<cut, sendq, io, hand, pipe, part, recvq, got, sent, pings, snd, rcv, down, faults>>

Data(n) == [kind |-> "data", n |-> n]
Ping == [kind |-> "Ping", n |-> 0]
Pong == [kind |-> "Pong", n |-> 0]
Close == [kind |-> "None", n |-> 0]
Pieces(f) == <<[frame |-> f, k |-> 1], [frame |-> f, k |-> 2]>>

Init ==
    /\ cut = FALSE /\ faults = 0
    /\ sendq = [e \in End |-> <<>>]
    /\ io = [e \in End |-> "poll"]
    /\ hand = [e \in End |-> <<>>] /\ pipe = [e \in End |-> <<>>] /\ part = [e \in End |-> <<>>]
    /\ recvq = [e \in End |-> <<>>] /\ got = [e \in End |-> 0]
    /\ sent = [e \in End |-> 0] /\ pings = 0
    /\ snd = [e \in End |-> TRUE] /\ rcv = [e \in End |-> TRUE] /\ down = [e \in End |-> FALSE]

(* The session has returned: its Connection, with both channels, is gone.   *)
Dropped(e) == ~snd[e] /\ ~rcv[e] /\ down[e]

-----------------------------------------------------------------------------
(* io_loop.                                                                 *)

IoSame == UNCHANGED <<cut, got, sent, pings, snd, rcv, down, faults>>
At(e, next) == io' = [io EXCEPT ![e] = next]
(* Back at the top of the loop: what is queued is written before a read.    *)
Again(e) == IF sendq[e] = <<>> THEN "poll" ELSE "loop"

TakeFrame(e) ==
    /\ io[e] = "loop"
    /\ sendq' = [sendq EXCEPT ![e] = Tail(@)]
    /\ IF Head(sendq[e]) = Close THEN At(e, "dead") /\ UNCHANGED hand
       ELSE At(e, "write") /\ hand' = [hand EXCEPT ![e] = Pieces(Head(sendq[e]))]
    /\ UNCHANGED <<pipe, part, recvq>> /\ IoSame

(* The socket takes a frame of data while there is room; a ping is a few    *)
(* bytes.                                                                   *)
Fits(e) == LET data(p) == p.frame.kind = "data"
           IN  data(hand[e][1]) => Len(SelectSeq(pipe[Other(e)], data)) < Cap

(* write_all: the socket has no write timeout.                              *)
WriteFrame(e) ==
    /\ io[e] = "write" /\ Fits(e)
    /\ ~cut /\ io[Other(e)] # "dead"
    /\ pipe' = [pipe EXCEPT ![Other(e)] = @ \o hand[e]]
    /\ hand' = [hand EXCEPT ![e] = <<>>]
    /\ At(e, Again(e))
    /\ UNCHANGED <<sendq, part, recvq>> /\ IoSame

(* An error is the last item of the receive queue, and waits for room.      *)
Fails(e) ==
    /\ Dropped(e) \/ Len(recvq[e]) < RecvDepth
    /\ At(e, "dead")
    /\ UNCHANGED <<sendq, hand, pipe, part, recvq>> /\ IoSame

(* The other end is closed, or the kernel has given up on a dead path.      *)
WriteFails(e) == io[e] = "write" /\ (cut \/ io[Other(e)] = "dead") /\ Fails(e)

(* FrameReader::poll takes what there is, up to the end of the frame; ...   *)
ReadPiece(e) ==
    /\ io[e] = "poll" /\ pipe[e] # <<>> /\ Len(part[e]) < 2
    /\ part' = [part EXCEPT ![e] = Append(@, Head(pipe[e]))]
    /\ pipe' = [pipe EXCEPT ![e] = Tail(@)]
    /\ UNCHANGED <<sendq, io, hand, recvq>> /\ IoSame

(* Mutant: what was read before the time-out is forgotten. *)
ReadTimeout_Resets(e) ==
    /\ io[e] = "poll" /\ Len(part[e]) < 2 /\ sendq[e] # <<>>
    /\ part' = [part EXCEPT ![e] = <<>>]
    /\ At(e, "loop")
    /\ UNCHANGED <<sendq, hand, pipe, recvq>> /\ IoSame

(* ... a read that times out leaves it for the next call.  It matters when  *)
(* there is something to write, or when the session is gone.                *)
ReadTimeout(e) ==
    /\ io[e] = "poll" /\ Len(part[e]) < 2
    /\ sendq[e] # <<>> \/ Dropped(e)
    /\ At(e, IF sendq[e] # <<>> THEN "loop" ELSE "dead")
    /\ UNCHANGED <<sendq, hand, pipe, part, recvq>> /\ IoSame

ReadEof(e) ==
    /\ io[e] = "poll" /\ Len(part[e]) < 2
    /\ pipe[e] = <<>> /\ io[Other(e)] = "dead" /\ ~cut
    /\ Fails(e)

(* A frame is complete: a ping is answered at once, ...                     *)
Decode(e) ==
    /\ io[e] = "poll" /\ Len(part[e]) = 2 /\ part[e][1].frame.kind # "data"
    /\ IF part[e][1].frame = Ping THEN At(e, "write") /\ hand' = [hand EXCEPT ![e] = Pieces(Pong)]
       ELSE At(e, Again(e)) /\ UNCHANGED hand
    /\ part' = [part EXCEPT ![e] = <<>>]
    /\ UNCHANGED <<sendq, pipe, recvq>> /\ IoSame

(* ... and data goes to the receiving thread: recv_tx.send waits while the  *)
(* channel is full, and fails when it is gone.                              *)
Deliver(e) ==
    /\ io[e] = "poll" /\ Len(part[e]) = 2 /\ part[e][1].frame.kind = "data"
    /\ IF Dropped(e) THEN At(e, "dead") /\ UNCHANGED recvq
       ELSE /\ Len(recvq[e]) < RecvDepth
            /\ recvq' = [recvq EXCEPT ![e] = Append(@, part[e][1].frame.n)]
            /\ At(e, Again(e))
    /\ part' = [part EXCEPT ![e] = <<>>]
    /\ UNCHANGED <<sendq, hand, pipe>> /\ IoSame

-----------------------------------------------------------------------------
(* The threads of the session.                                              *)

AppSame == UNCHANGED <<cut, io, hand, pipe, part>>
Room(e) == Len(sendq[e]) < SendDepth
Put(e, f) == sendq' = [sendq EXCEPT ![e] = Append(@, f)]

(* Mutant: a frame that finds the queue full is dropped. *)
SendFrame_Drops(e) ==
    /\ snd[e] /\ ~down[e]
    /\ \/ /\ io[e] # "dead" /\ sent[e] < Todo[e]
          /\ sent' = [sent EXCEPT ![e] = @ + 1]
          /\ IF Room(e) THEN Put(e, Data(sent[e] + 1)) ELSE UNCHANGED sendq
          /\ UNCHANGED snd
       \/ /\ io[e] = "dead"
          /\ snd' = [snd EXCEPT ![e] = FALSE]
          /\ UNCHANGED <<sendq, sent>>
    /\ UNCHANGED <<recvq, got, pings, rcv, down, faults>> /\ AppSame

(* send_frame waits for room; it fails, for data or for a ping, when the    *)
(* I/O thread is gone.                                                      *)
SendFrame(e) ==
    /\ snd[e] /\ ~down[e]
    /\ \/ /\ io[e] # "dead" /\ sent[e] < Todo[e] /\ Room(e)
          /\ sent' = [sent EXCEPT ![e] = @ + 1]
          /\ Put(e, Data(sent[e] + 1))
          /\ UNCHANGED snd
       \/ /\ io[e] = "dead"
          /\ snd' = [snd EXCEPT ![e] = FALSE]
          /\ UNCHANGED <<sendq, sent>>
    /\ UNCHANGED <<recvq, got, pings, rcv, down, faults>> /\ AppSame

Receive(e) ==
    /\ rcv[e] /\ recvq[e] # <<>>
    /\ got' = [got EXCEPT ![e] = Head(recvq[e])]
    /\ recvq' = [recvq EXCEPT ![e] = Tail(@)]
    /\ UNCHANGED <<sendq, sent, pings, snd, rcv, down, faults>> /\ AppSame

(* recv_timeout finds the channel disconnected.                             *)
RecvEnds(e) ==
    /\ rcv[e] /\ recvq[e] = <<>> /\ io[e] = "dead"
    /\ rcv' = [rcv EXCEPT ![e] = FALSE]
    /\ UNCHANGED <<sendq, recvq, got, sent, pings, snd, down, faults>> /\ AppSame

(* heartbeat_maintenance: nothing was sent for 15 s.                        *)
SendPing(e) ==
    /\ pings < MaxPing /\ (rcv[e] \/ snd[e]) /\ ~down[e]
    /\ io[e] # "dead" /\ Room(e)
    /\ pings' = pings + 1
    /\ Put(e, Ping)
    /\ UNCHANGED <<recvq, got, sent, snd, rcv, down, faults>> /\ AppSame

(* Nothing can arrive: the path is dead, or an I/O thread waits to write.   *)
Waits(e) == io[e] = "write" /\ ~Fits(e)
Silent(e) == cut \/ Waits(e) \/ Waits(Other(e))

(* heartbeat_maintenance after 30 s of silence: a ping first if one is due, *)
(* which waits for room like any frame (after 30 s with a full queue it is  *)
(* due), and then the error.  The sending thread looks only when it has     *)
(* nothing to send, the receiving one when nothing is queued for it.        *)
Timeout(e, t) ==
    /\ Silent(e) /\ Room(e) /\ io[e] # "dead" /\ ~down[e]
    /\ \/ pings < MaxPing /\ pings' = pings + 1 /\ Put(e, Ping)
       \/ UNCHANGED <<pings, sendq>>
    /\ \/ /\ t = "rcv" /\ rcv[e] /\ recvq[e] = <<>>
          /\ rcv' = [rcv EXCEPT ![e] = FALSE] /\ UNCHANGED snd
       \/ /\ t = "snd" /\ snd[e] /\ sent[e] = Todo[e]
          /\ snd' = [snd EXCEPT ![e] = FALSE] /\ UNCHANGED rcv
    /\ UNCHANGED <<recvq, got, sent, down, faults>> /\ AppSame

(* A gap in the clock, by suspend: the receiving thread sees 30 s pass.     *)
ClockGap(e) ==
    /\ rcv[e] /\ recvq[e] = <<>> /\ faults < MaxFault /\ faults' = faults + 1
    /\ rcv' = [rcv EXCEPT ![e] = FALSE]
    /\ UNCHANGED <<sendq, recvq, got, sent, pings, snd, down>> /\ AppSame

(* One thread ends because the other one has: recv_loop signals send_loop,  *)
(* which looks between two drains; the server drops the sender of its       *)
(* forwarding thread; and the connection is shut down under the receiver.   *)
Follow(e) ==
    /\ \/ /\ snd[e] /\ ~rcv[e] /\ (sent[e] = Todo[e] \/ down[e])
          /\ snd' = [snd EXCEPT ![e] = FALSE] /\ UNCHANGED rcv
       \/ /\ rcv[e] /\ ~snd[e] /\ down[e] /\ Silent(e)
          /\ rcv' = [rcv EXCEPT ![e] = FALSE] /\ UNCHANGED snd
    /\ UNCHANGED <<sendq, recvq, got, sent, pings, down, faults>> /\ AppSame

(* Mutant: the channels are left to be dropped. *)
Shutdown_NoSignal(e) ==
    /\ ~down[e]
    /\ IF e = "client" THEN ~snd[e] ELSE ~rcv[e]
    /\ down' = [down EXCEPT ![e] = TRUE]
    /\ UNCHANGED <<sendq, recvq, got, sent, pings, snd, rcv, faults>> /\ AppSame

(* Connection::shutdown queues the end behind what is queued: session calls *)
(* it after send_loop, handle_client after the receiving thread.            *)
Shutdown(e) ==
    /\ ~down[e]
    /\ IF e = "client" THEN ~snd[e] ELSE ~rcv[e]
    /\ io[e] = "dead" \/ Room(e)
    /\ sendq' = [sendq EXCEPT ![e] = IF io[e] = "dead" THEN @ ELSE Append(@, Close)]
    /\ down' = [down EXCEPT ![e] = TRUE]
    /\ UNCHANGED <<recvq, got, sent, pings, snd, rcv, faults>> /\ AppSame

CutPath ==
    /\ ~cut /\ faults < MaxFault
    /\ cut' = TRUE /\ faults' = faults + 1
    /\ pipe' = [e \in End |-> <<>>]
    /\ UNCHANGED <<sendq, io, hand, part, recvq, got, sent, pings, snd, rcv, down>>

-----------------------------------------------------------------------------
Io(e) == \/ TakeFrame(e) \/ WriteFrame(e) \/ WriteFails(e) \/ ReadPiece(e) \/ ReadEof(e)
         \/ Decode(e) \/ Deliver(e) \/ (pipe[e] = <<>> /\ ReadTimeout(e))
Sender(e) == SendFrame(e) \/ Timeout(e, "snd") \/ Follow(e) \/ Shutdown(e)
Receiver(e) == Receive(e) \/ RecvEnds(e) \/ Timeout(e, "rcv")

Next ==
    \/ \E e \in End : \/ Io(e) \/ ReadTimeout(e) \/ Sender(e) \/ Receiver(e)
                      \/ SendPing(e) \/ ClockGap(e)
    \/ CutPath

(* The threads of both ends are scheduled; a read that has data in time is  *)
(* not put off for ever.                                                    *)
Spec == /\ Init /\ [][Next]_vars
        /\ \A e \in End : WF_vars(Io(e)) /\ WF_vars(Sender(e)) /\ WF_vars(Receiver(e))

-----------------------------------------------------------------------------
(* Wherever reads time out, the reader holds the beginning of one frame,    *)
(* and the application receives the frames of the other end in order, each  *)
(* once and none skipped.                                                   *)
FramesIntact ==
    \A e \in End :
      /\ \A i \in DOMAIN part[e] : part[e][i].k = i /\ part[e][i].frame = part[e][1].frame
      /\ \A i \in DOMAIN recvq[e] : recvq[e][i] = got[e] + i
      /\ got[e] <= sent[Other(e)]

(* Bulk data goes one way.  When both ends send more than queues and        *)
(* sockets hold, both I/O threads block in write_all and neither reads.     *)
BulkOneWay == \E e \in End : Todo[e] = 0

(* When bulk data goes one way, a connection whose path is dead, or that    *)
(* one end has shut down, is gone in the end: at both ends the two threads  *)
(* of the session and the I/O thread have ended.  (With bulk both ways a    *)
(* shutdown finds both I/O threads in a write that nobody reads.)           *)
Gone == \A e \in End : ~snd[e] /\ ~rcv[e] /\ io[e] = "dead"
TornDown == BulkOneWay => ((cut \/ \E e \in End : down[e]) ~> Gone)

(* As long as nobody gives the connection up, and when bulk data goes one   *)
(* way, all that is sent is received.                                       *)
Arrives == BulkOneWay => <>[](\/ cut \/ \E e \in End : ~snd[e] \/ ~rcv[e]
                \/ \A e \in End : got[e] = Todo[Other(e)])

=============================================================================
