--------------------------- MODULE ConnectionProofs ---------------------------
(* Proofs about Transport, for any numbers of frames, queue depths, socket  *)
(* buffers and bounds, and about AppRegistry, for any numbers of requests,  *)
(* threads and starts.                                                      *)
EXTENDS MCConnection, TLAPS

-----------------------------------------------------------------------------
(* The inductive invariant.  Data frames travel from the queue of the other *)
(* end through its hand and the socket to the reader; their numbers are     *)
(* looked at stage by stage.                                                *)

Frame == [kind : {"data", "Ping", "Pong", "None"}, n : Nat]
Piece == [frame : Frame, k : {1, 2}]

IsData(p) == p.frame.kind = "data"

(* The pieces e has not decoded: those of the frame it is reading, and      *)
(* those in the socket.                                                     *)
Wire(e) == part[e] \o pipe[e]

(* Numbers of the data frames among pieces, and among queued frames.        *)
Numbers(s) == {s[i].frame.n : i \in {j \in DOMAIN s : IsData(s[j])}}
QueueNumbers(q) == {q[i].n : i \in {j \in DOMAIN q : q[j].kind = "data"}}

(* The last number handed to the application of e, or queued for it.        *)
Delivered(e) == got[e] + Len(recvq[e])

WireType ==
    /\ sendq \in [End -> Seq(Frame)]
    /\ hand \in [End -> Seq(Piece)] /\ pipe \in [End -> Seq(Piece)] /\ part \in [End -> Seq(Piece)]
    /\ recvq \in [End -> Seq(Nat)] /\ got \in [End -> Nat] /\ sent \in [End -> Nat]
    /\ cut \in BOOLEAN
    /\ io \in [End -> {"loop", "write", "poll", "dead"}]

(* A frame is in the hand while it is being written.                        *)
HandShape(e) ==
    /\ hand[e] = <<>> \/ \E f \in Frame : hand[e] = Pieces(f)
    /\ io[e] \in {"loop", "poll"} => hand[e] = <<>>
    /\ io[e] = "write" => \E f \in Frame : hand[e] = Pieces(f)
    /\ io[e] = "loop" => sendq[e] # <<>>

(* The pieces of a frame follow each other.                                 *)
Paired(s) ==
    /\ \A i \in 1..Len(s) : s[i].k = 1 /\ i < Len(s) => s[i + 1].k = 2 /\ s[i + 1].frame = s[i].frame
    /\ \A i \in 1..Len(s) : s[i].k = 2 => i > 1 /\ s[i - 1].k = 1
    /\ s # <<>> => s[1].k = 1

Whole(s) == s = <<>> \/ s[Len(s)].k = 2

(* Numbers rise; only the two pieces of a frame have the same.              *)
Rising(s) ==
    \A i, j \in 1..Len(s) : i < j /\ IsData(s[i]) /\ IsData(s[j]) =>
        \/ s[i].frame.n < s[j].frame.n
        \/ s[i].frame.n = s[j].frame.n /\ s[i].k = 1 /\ j = i + 1

WireShape(e) ==
    /\ Len(part[e]) \in {0, 1, 2}
    /\ Paired(Wire(e)) /\ Rising(Wire(e))
    /\ ~cut => Whole(Wire(e))
    /\ cut => pipe[e] = <<>>

QueueIsRising(q) ==
    \A i, j \in 1..Len(q) : i < j /\ q[i].kind = "data" /\ q[j].kind = "data" => q[i].n < q[j].n

QueueShape(e) ==
    QueueIsRising(sendq[e]) /\ \A m \in QueueNumbers(sendq[e]) : m <= sent[e]

(* What is queued for the application follows what it has.                  *)
InOrder(e) ==
    /\ \A i \in 1..Len(recvq[e]) : recvq[e][i] = got[e] + i
    /\ Delivered(e) <= sent[Other(e)]

(* No number is missing between the application and the sender: those up to *)
(* a are on the wire, the next, up to b, is in the hand, and the rest are   *)
(* queued.  A path that was cut keeps what has been read.                   *)
FlowAt(e, a, b) ==
    /\ Delivered(e) <= a /\ a <= b /\ b <= sent[Other(e)]
    /\ \A m \in Nat : m \in Numbers(Wire(e)) <=> Delivered(e) < m /\ m <= a
    /\ ~cut => \A m \in Nat : m \in Numbers(hand[Other(e)]) <=> a < m /\ m <= b
    /\ ~cut => \A m \in Nat : m \in QueueNumbers(sendq[Other(e)]) <=> b < m /\ m <= sent[Other(e)]

Flow(e) == io[e] # "dead" => \E a, b \in Nat : FlowAt(e, a, b)

Parts(e) == HandShape(e) /\ WireShape(e) /\ QueueShape(e) /\ InOrder(e) /\ Flow(e)

WInv == WireType /\ \A e \in End : Parts(e)

-----------------------------------------------------------------------------
(* Pieces in a sequence.                                                    *)

(* The fields of a piece.                                                   *)
LEMMA PieceType ==
    ASSUME NEW p \in Piece
    PROVE  p.frame \in Frame /\ p.frame.n \in Nat /\ (p.k = 1 \/ p.k = 2)
BY DEF Piece, Frame

(* Sequences with the same elements are the same.                           *)
LEMMA SameSeq ==
    ASSUME NEW s \in Seq(Piece), NEW t \in Seq(Piece), Len(s) = Len(t),
           \A i \in 1..Len(s) : s[i] = t[i]
    PROVE  s = t
OBVIOUS

(* The elements of two sequences put together.                              *)
LEMMA Concat ==
    ASSUME NEW s \in Seq(Piece), NEW h \in Seq(Piece)
    PROVE  /\ s \o h \in Seq(Piece)
           /\ Len(s) \in Nat /\ Len(h) \in Nat /\ Len(s \o h) = Len(s) + Len(h)
           /\ \A i \in 1..Len(s) : (s \o h)[i] = s[i]
           /\ \A i \in 1..Len(h) : (s \o h)[Len(s) + i] = h[i]
OBVIOUS

(* The pieces of a frame.                                                   *)
LEMMA PiecesShape ==
    ASSUME NEW f \in Frame
    PROVE  /\ Pieces(f) \in Seq(Piece) /\ Len(Pieces(f)) = 2
           /\ Pieces(f)[1].frame = f /\ Pieces(f)[2].frame = f
           /\ Pieces(f)[1].k = 1 /\ Pieces(f)[2].k = 2
BY DEF Pieces, Piece

(* The frames that are queued.                                              *)
LEMMA FrameTypes ==
    /\ Ping \in Frame /\ Pong \in Frame /\ Close \in Frame
    /\ \A n \in Nat : Data(n) \in Frame
    /\ Ping.kind # "data" /\ Pong.kind # "data" /\ Close.kind # "data"
    /\ \A n \in Nat : Data(n).kind = "data" /\ Data(n).n = n
BY DEF Ping, Pong, Close, Data, Frame

(* What it takes to be among the numbers of pieces.                         *)
LEMMA NumbersMeans ==
    ASSUME NEW s \in Seq(Piece), NEW m
    PROVE  m \in Numbers(s) <=> \E i \in 1..Len(s) : IsData(s[i]) /\ s[i].frame.n = m
BY DEF Numbers

(* What it takes to be among the numbers of queued frames.                  *)
LEMMA QueueNumbersMeans ==
    ASSUME NEW q \in Seq(Frame), NEW m
    PROVE  m \in QueueNumbers(q) <=> \E i \in 1..Len(q) : q[i].kind = "data" /\ q[i].n = m
BY DEF QueueNumbers

(* ReadPiece moves a piece along the wire.                                  *)
LEMMA ReadMoves ==
    ASSUME NEW p \in Seq(Piece), NEW q \in Seq(Piece), q # <<>>
    PROVE  Append(p, Head(q)) \o Tail(q) = p \o q
<1> DEFINE l == Append(p, Head(q)) \o Tail(q)
           r == p \o q
<1>1. Head(q) \in Piece /\ Tail(q) \in Seq(Piece) /\ Len(Tail(q)) = Len(q) - 1 /\ Len(q) > 0
  OBVIOUS
<1>2. Append(p, Head(q)) \in Seq(Piece) /\ Len(Append(p, Head(q))) = Len(p) + 1
  BY <1>1
<1>3. l \in Seq(Piece) /\ r \in Seq(Piece) /\ Len(l) = Len(r)
  BY <1>1, <1>2
<1>4. ASSUME NEW i \in 1..Len(l) PROVE l[i] = r[i]
  <2>1. CASE i <= Len(p)
    BY <1>1, <1>2, <1>3, <2>1
  <2>2. CASE i = Len(p) + 1
    BY <1>1, <1>2, <1>3, <2>2
  <2>3. CASE i > Len(p) + 1
    BY <1>1, <1>2, <1>3, <2>3
  <2> QED
    BY <1>3, <2>1, <2>2, <2>3
<1> HIDE DEF l, r
<1>5. l = r
  BY <1>3, <1>4, SameSeq
<1> QED
  BY <1>5 DEF l, r

(* A frame that is written follows what is on the wire.                     *)
LEMMA WriteExtends ==
    ASSUME NEW p \in Seq(Piece), NEW q \in Seq(Piece), NEW h \in Seq(Piece)
    PROVE  p \o (q \o h) = (p \o q) \o h
<1> DEFINE l == p \o (q \o h)
           r == (p \o q) \o h
<1>1. q \o h \in Seq(Piece) /\ Len(q \o h) = Len(q) + Len(h)
      /\ p \o q \in Seq(Piece) /\ Len(p \o q) = Len(p) + Len(q)
  OBVIOUS
<1>2. l \in Seq(Piece) /\ r \in Seq(Piece) /\ Len(l) = Len(r) /\ Len(l) = Len(p) + Len(q) + Len(h)
  BY <1>1
<1>3. ASSUME NEW i \in 1..Len(l) PROVE l[i] = r[i]
  <2>1. CASE i <= Len(p)
    BY <1>1, <1>2, <2>1
  <2>2. CASE i > Len(p) /\ i <= Len(p) + Len(q)
    BY <1>1, <1>2, <2>2
  <2>3. CASE i > Len(p) + Len(q)
    BY <1>1, <1>2, <2>3
  <2> QED
    BY <1>2, <2>1, <2>2, <2>3
<1> HIDE DEF l, r
<1>4. l = r
  BY <1>2, <1>3, SameSeq
<1> QED
  BY <1>4 DEF l, r

(* A frame written behind pieces of whole frames with smaller numbers.      *)
LEMMA WireGrows ==
    ASSUME NEW s \in Seq(Piece), Paired(s), Rising(s), Whole(s), NEW f \in Frame,
           f.kind = "data" => \A m \in Numbers(s) : m < f.n
    PROVE  /\ s \o Pieces(f) \in Seq(Piece)
           /\ Paired(s \o Pieces(f)) /\ Rising(s \o Pieces(f)) /\ Whole(s \o Pieces(f))
           /\ \A m : m \in Numbers(s \o Pieces(f)) <=> m \in Numbers(s) \/ (f.kind = "data" /\ m = f.n)
<1> DEFINE t == s \o Pieces(f)
           l == Len(s)
<1>1. /\ t \in Seq(Piece) /\ Len(t) = l + 2 /\ l \in Nat
      /\ \A i \in 1..l : t[i] = s[i]
      /\ t[l + 1].frame = f /\ t[l + 2].frame = f /\ t[l + 1].k = 1 /\ t[l + 2].k = 2
  <2>1. Pieces(f) \in Seq(Piece) /\ Len(Pieces(f)) = 2
    BY PiecesShape
  <2>2. t \in Seq(Piece) /\ Len(t) = l + 2 /\ l \in Nat
    <3>1. Len(s \o Pieces(f)) = Len(s) + Len(Pieces(f))
      BY <2>1, Concat
    <3> QED
      BY <2>1, <3>1, Concat
  <2>3. \A i \in 1..l : t[i] = s[i]
    BY <2>1, Concat
  <2>4. t[l + 1] = Pieces(f)[1] /\ t[l + 2] = Pieces(f)[2]
    <3>1. \A i \in 1..Len(Pieces(f)) : (s \o Pieces(f))[Len(s) + i] = Pieces(f)[i]
      BY <2>1, Concat
    <3>2. 1 \in 1..Len(Pieces(f)) /\ 2 \in 1..Len(Pieces(f))
      BY <2>1
    <3> QED
      BY <3>1, <3>2
  <2> QED
    BY <2>2, <2>3, <2>4, PiecesShape
<1>2. \A i \in 1..(l + 2) : i \in 1..l \/ i = l + 1 \/ i = l + 2
  BY <1>1
<1> HIDE DEF t
<1>3. Paired(t)
  <2>1. ASSUME NEW i \in 1..Len(t), t[i].k = 1, i < Len(t)
        PROVE  t[i + 1].k = 2 /\ t[i + 1].frame = t[i].frame
    <3>1. CASE i \in 1..l
      <4>1. i # l
        BY <1>1, <2>1, <3>1 DEF Whole
      <4>2. i < l /\ i + 1 \in 1..l /\ s[i].k = 1
        BY <1>1, <2>1, <3>1, <4>1
      <4>3. s[i + 1].k = 2 /\ s[i + 1].frame = s[i].frame
        BY <3>1, <4>2 DEF Paired
      <4> QED
        BY <1>1, <3>1, <4>2, <4>3
    <3> QED
      BY <1>1, <1>2, <2>1, <3>1
  <2>2. ASSUME NEW i \in 1..Len(t), t[i].k = 2
        PROVE  i > 1 /\ t[i - 1].k = 1
    <3>1. CASE i \in 1..l
      BY <1>1, <2>2, <3>1 DEF Paired
    <3> QED
      BY <1>1, <1>2, <2>2, <3>1
  <2>3. t[1].k = 1
    <3>1. CASE l = 0
      BY <1>1, <3>1
    <3>2. CASE l > 0
      BY <1>1, <3>2 DEF Paired
    <3> QED
      BY <1>1, <3>1, <3>2
  <2> QED
    BY <1>1, <2>1, <2>2, <2>3 DEF Paired
<1>4. Rising(t)
  <2> SUFFICES ASSUME NEW i \in 1..Len(t), NEW j \in 1..Len(t), i < j, IsData(t[i]), IsData(t[j])
               PROVE  \/ t[i].frame.n < t[j].frame.n
                      \/ t[i].frame.n = t[j].frame.n /\ t[i].k = 1 /\ j = i + 1
    BY <1>1 DEF Rising
  <2>1. CASE j \in 1..l
    <3>1. i \in 1..l /\ t[i] = s[i] /\ t[j] = s[j]
      BY <1>1, <2>1
    <3> QED
      BY <2>1, <3>1 DEF Rising
  <2>2. CASE j \notin 1..l /\ i \in 1..l
    <3>1. t[j].frame = f /\ t[i] = s[i]
      BY <1>1, <1>2, <2>2
    <3>2. s[i].frame.n \in Numbers(s)
      BY <3>1, <2>2, NumbersMeans
    <3> QED
      BY <3>1, <3>2 DEF IsData
  <2>3. CASE j \notin 1..l /\ i \notin 1..l
    BY <1>1, <1>2, <2>3
  <2> QED
    BY <2>1, <2>2, <2>3
<1>5. Whole(t)
  BY <1>1 DEF Whole
<1>6. ASSUME NEW m
      PROVE  m \in Numbers(t) <=> m \in Numbers(s) \/ (f.kind = "data" /\ m = f.n)
  <2>1. m \in Numbers(t) <=> \E i \in 1..Len(t) : IsData(t[i]) /\ t[i].frame.n = m
    BY <1>1, NumbersMeans
  <2>2. m \in Numbers(s) <=> \E i \in 1..l : IsData(s[i]) /\ s[i].frame.n = m
    BY NumbersMeans
  <2> QED
    BY <1>1, <1>2, <2>1, <2>2 DEF IsData
<1> QED
  BY <1>1, <1>3, <1>4, <1>5, <1>6 DEF t

(* The first frame is taken off the wire: its number was the smallest.      *)
LEMMA WireShrinks ==
    ASSUME NEW s \in Seq(Piece), Paired(s), Rising(s), Len(s) >= 2,
           NEW t \in Seq(Piece), Len(t) = Len(s) - 2, \A i \in 1..Len(t) : t[i] = s[i + 2]
    PROVE  /\ Paired(t) /\ Rising(t) /\ (Whole(s) => Whole(t))
           /\ s[1].frame.kind # "data" => \A m : m \in Numbers(t) <=> m \in Numbers(s)
           /\ s[1].frame.kind = "data" =>
                 /\ s[1].frame.n \in Numbers(s)
                 /\ \A m \in Numbers(s) : m = s[1].frame.n \/ m > s[1].frame.n
                 /\ \A m : m \in Numbers(t) <=> m \in Numbers(s) /\ m # s[1].frame.n
<1>1. s[1].k = 1 /\ s[2].k = 2 /\ s[2].frame = s[1].frame /\ s[1] \in Piece /\ Len(s) \in Nat /\ Len(t) \in Nat
  <2>1. Len(s) \in Nat /\ Len(t) \in Nat /\ 1 \in 1..Len(s) /\ s # <<>> /\ 1 < Len(s) /\ 1 + 1 = 2
    OBVIOUS
  <2>2. s[1].k = 1
    BY <2>1 DEF Paired
  <2>3. s[1 + 1].k = 2 /\ s[1 + 1].frame = s[1].frame
    BY <2>1, <2>2 DEF Paired
  <2> QED
    BY <2>1, <2>2, <2>3
<1>2. \A i \in 1..Len(s) : i = 1 \/ i = 2 \/ (i - 2) \in 1..Len(t)
  BY <1>1
<1>3. \A i \in 1..Len(t) : (i + 2) \in 1..Len(s) /\ t[i] = s[i + 2]
  BY <1>1
<1>4. Paired(t)
  <2>1. ASSUME NEW i \in 1..Len(t), t[i].k = 1, i < Len(t)
        PROVE  t[i + 1].k = 2 /\ t[i + 1].frame = t[i].frame
    <3>1. t[i] = s[i + 2] /\ t[i + 1] = s[(i + 2) + 1] /\ (i + 2) \in 1..Len(s) /\ i + 2 < Len(s)
      BY <1>1, <2>1
    <3> QED
      BY <3>1, <2>1 DEF Paired
  <2>2. ASSUME NEW i \in 1..Len(t), t[i].k = 2
        PROVE  i > 1 /\ t[i - 1].k = 1
    <3>1. (i + 2) \in 1..Len(s) /\ s[i + 2].k = 2 /\ s[(i + 2) - 1].k = 1
      <4>1. (i + 2) \in 1..Len(s) /\ s[i + 2].k = 2
        BY <1>3, <2>2
      <4> QED
        BY <4>1 DEF Paired
    <3>2. i # 1
      <4> SUFFICES ASSUME i = 1 PROVE FALSE
        OBVIOUS
      <4>1. s[2].k = 1
        BY <3>1
      <4> QED
        BY <1>1, <4>1
    <3> QED
      <4>1. i > 1 /\ i - 1 \in 1..Len(t) /\ (i - 1) + 2 = (i + 2) - 1
        BY <3>2
      <4>2. t[i - 1] = s[(i - 1) + 2]
        BY <1>3, <4>1
      <4> QED
        BY <3>1, <4>1, <4>2
  <2>3. t # <<>> => t[1].k = 1
    <3> SUFFICES ASSUME t # <<>> PROVE t[1].k = 1
      OBVIOUS
    <3>1. 1 \in 1..Len(t) /\ t[1] \in Piece
      BY <1>1
    <3>2. CASE t[1].k = 2
      BY <2>2, <3>1, <3>2
    <3> QED
      BY <3>1, <3>2 DEF Piece
  <2> QED
    BY <2>1, <2>2, <2>3 DEF Paired
<1>5. Rising(t)
  <2> SUFFICES ASSUME NEW i \in 1..Len(t), NEW j \in 1..Len(t), i < j, IsData(t[i]), IsData(t[j])
               PROVE  \/ t[i].frame.n < t[j].frame.n
                      \/ t[i].frame.n = t[j].frame.n /\ t[i].k = 1 /\ j = i + 1
    BY DEF Rising
  <2>1. (i + 2) \in 1..Len(s) /\ (j + 2) \in 1..Len(s) /\ t[i] = s[i + 2] /\ t[j] = s[j + 2] /\ i + 2 < j + 2
    BY <1>1, <1>3
  <2>2. \/ s[i + 2].frame.n < s[j + 2].frame.n
        \/ s[i + 2].frame.n = s[j + 2].frame.n /\ s[i + 2].k = 1 /\ j + 2 = (i + 2) + 1
    BY <2>1 DEF Rising
  <2> QED
    BY <2>1, <2>2
<1>6. Whole(s) => Whole(t)
  BY <1>1, <1>3 DEF Whole
<1>7. \A m : m \in Numbers(t) <=> \E i \in 1..Len(t) : IsData(t[i]) /\ t[i].frame.n = m
  BY NumbersMeans
<1>8. \A m : m \in Numbers(s) <=> \E i \in 1..Len(s) : IsData(s[i]) /\ s[i].frame.n = m
  BY NumbersMeans
<1>9. ASSUME NEW m, m \in Numbers(t)
      PROVE  m \in Numbers(s)
  <2>1. PICK i \in 1..Len(t) : IsData(t[i]) /\ t[i].frame.n = m
    BY <1>7, <1>9
  <2>2. (i + 2) \in 1..Len(s) /\ t[i] = s[i + 2]
    BY <1>3
  <2> QED
    BY <1>8, <2>1, <2>2
<1>10. ASSUME NEW m, m \in Numbers(s)
       PROVE  m \in Numbers(t) \/ (s[1].frame.kind = "data" /\ m = s[1].frame.n)
  <2>1. PICK i \in 1..Len(s) : IsData(s[i]) /\ s[i].frame.n = m
    BY <1>8, <1>10
  <2>2. CASE (i - 2) \in 1..Len(t)
    <3>1. t[i - 2] = s[(i - 2) + 2] /\ (i - 2) + 2 = i
      BY <1>3, <2>2
    <3> QED
      BY <1>7, <2>1, <2>2, <3>1
  <2> QED
    BY <1>1, <1>2, <2>1, <2>2 DEF IsData
<1>11. ASSUME s[1].frame.kind = "data"
       PROVE  /\ s[1].frame.n \in Numbers(s)
              /\ \A m \in Numbers(s) : m = s[1].frame.n \/ m > s[1].frame.n
              /\ \A m \in Numbers(t) : m # s[1].frame.n
  <2>1. s[1].frame.n \in Numbers(s)
    BY <1>1, <1>8, <1>11 DEF IsData
  <2>2. \A i \in 1..Len(s) : i > 2 /\ IsData(s[i]) => s[1].frame.n < s[i].frame.n
    <3> SUFFICES ASSUME NEW i \in 1..Len(s), i > 2, IsData(s[i])
                 PROVE  s[1].frame.n < s[i].frame.n
      OBVIOUS
    <3>1. 1 \in 1..Len(s) /\ 1 < i /\ i # 1 + 1 /\ IsData(s[1])
      BY <1>1, <1>11 DEF IsData
    <3> QED
      BY <3>1 DEF Rising
  <2>3. ASSUME NEW m \in Numbers(t) PROVE m > s[1].frame.n
    <3>1. PICK i \in 1..Len(t) : IsData(t[i]) /\ t[i].frame.n = m
      BY <1>7
    <3>2. s[1].frame.n < s[i + 2].frame.n
      BY <1>1, <1>3, <2>2, <3>1
    <3>3. s[1].frame.n \in Nat /\ s[i + 2].frame.n \in Nat
      <4>1. s[i + 2] \in Piece
        BY <1>3
      <4> QED
        BY <1>1, <4>1, PieceType
    <3> QED
      BY <1>3, <3>1, <3>2, <3>3
  <2>4. s[1].frame.n \in Nat
    BY <1>1 DEF Piece, Frame
  <2>5. \A m \in Numbers(t) : m # s[1].frame.n
    <3>1. \A m \in Numbers(t) : m \in Nat
      <4> SUFFICES ASSUME NEW m \in Numbers(t) PROVE m \in Nat
        OBVIOUS
      <4>1. PICK i \in 1..Len(t) : IsData(t[i]) /\ t[i].frame.n = m
        BY <1>7
      <4>2. t[i] \in Piece
        OBVIOUS
      <4> QED
        BY <4>1, <4>2, PieceType
    <3> QED
      BY <2>3, <2>4, <3>1
  <2> QED
    BY <1>10, <2>1, <2>3, <2>5
<1> QED
  BY <1>4, <1>5, <1>6, <1>9, <1>10, <1>11

(* What has been read when the path is cut is the beginning of one frame,   *)
(* the first.                                                               *)
LEMMA WireIsCut ==
    ASSUME NEW s \in Seq(Piece), Paired(s), Rising(s),
           NEW t \in Seq(Piece), Len(t) <= Len(s), Len(t) \in {0, 1, 2}, \A i \in 1..Len(t) : t[i] = s[i]
    PROVE  /\ Paired(t) /\ Rising(t)
           /\ \/ \A m : m \notin Numbers(t)
              \/ /\ s[1].frame.n \in Numbers(s)
                 /\ \A m \in Numbers(s) : m = s[1].frame.n \/ m > s[1].frame.n
                 /\ \A m : m \in Numbers(t) <=> m = s[1].frame.n
<1>0. Len(t) = 0 \/ Len(t) = 1 \/ Len(t) = 2
  OBVIOUS
<1>1. /\ Len(s) \in Nat /\ Len(t) \in Nat /\ \A i \in 1..Len(t) : i = 1 \/ i = 2
      /\ \A i \in 1..Len(t) : i \in 1..Len(s)
  OBVIOUS
<1>2. Paired(t)
  <2>1. ASSUME NEW i \in 1..Len(t), t[i].k = 1, i < Len(t)
        PROVE  t[i + 1].k = 2 /\ t[i + 1].frame = t[i].frame
    <3>1. i + 1 \in 1..Len(t) /\ i \in 1..Len(s) /\ i < Len(s) /\ s[i].k = 1
      BY <1>1, <2>1
    <3>2. s[i + 1].k = 2 /\ s[i + 1].frame = s[i].frame
      BY <3>1 DEF Paired
    <3> QED
      BY <3>1, <3>2
  <2>2. ASSUME NEW i \in 1..Len(t), t[i].k = 2
        PROVE  i > 1 /\ t[i - 1].k = 1
    <3>1. i \in 1..Len(s) /\ s[i].k = 2
      BY <1>1, <2>2
    <3>2. i > 1 /\ s[i - 1].k = 1
      BY <3>1 DEF Paired
    <3>3. i - 1 \in 1..Len(t)
      BY <3>2
    <3> QED
      BY <3>2, <3>3
  <2>3. t # <<>> => t[1].k = 1
    BY <1>1 DEF Paired
  <2> QED
    BY <2>1, <2>2, <2>3 DEF Paired
<1>3. Rising(t)
  BY <1>1 DEF Rising
<1>4. \A m : m \in Numbers(t) <=> \E i \in 1..Len(t) : IsData(t[i]) /\ t[i].frame.n = m
  BY NumbersMeans
<1>5. \A m : m \in Numbers(s) <=> \E i \in 1..Len(s) : IsData(s[i]) /\ s[i].frame.n = m
  BY NumbersMeans
<1>6. \A i \in 1..Len(t) : t[i].frame = s[1].frame
  <2>1. CASE Len(t) = 2
    <3>1. 1 \in 1..Len(t) /\ 2 \in 1..Len(t) /\ t # <<>> /\ 1 < Len(t) /\ 1 + 1 = 2 /\ t[1] = s[1]
      <4>1. 1 \in 1..Len(t) /\ 2 \in 1..Len(t) /\ 1 < Len(t)
        BY <2>1
      <4> QED
        BY <4>1
    <3>2. t[1].k = 1
      BY <1>2, <3>1 DEF Paired
    <3>3. t[1 + 1].frame = t[1].frame
      BY <1>2, <3>1, <3>2 DEF Paired
    <3> QED
      BY <1>1, <3>1, <3>3
  <2>2. CASE Len(t) # 2
    <3>1. Len(t) = 0 \/ Len(t) = 1
      BY <1>0, <2>2
    <3>2. \A i \in 1..Len(t) : i = 1
      BY <3>1
    <3> QED
      BY <3>2
  <2> QED
    BY <2>1, <2>2
<1>7. CASE Len(t) = 0 \/ s[1].frame.kind # "data"
  <2>1. \A m : m \notin Numbers(t)
    BY <1>1, <1>4, <1>6, <1>7 DEF IsData
  <2> QED
    BY <1>2, <1>3, <2>1
<1>8. CASE Len(t) # 0 /\ s[1].frame.kind = "data"
  <2>1. 1 \in 1..Len(t) /\ 1 \in 1..Len(s) /\ s[1] \in Piece /\ IsData(s[1])
    BY <1>1, <1>8 DEF IsData
  <2>2. s[1].frame.n \in Numbers(s)
    BY <1>5, <2>1
  <2>3. \A m : m \in Numbers(t) <=> m = s[1].frame.n
    BY <1>4, <1>6, <2>1 DEF IsData
  <2>4. ASSUME NEW m \in Numbers(s) PROVE m = s[1].frame.n \/ m > s[1].frame.n
    <3>1. PICK i \in 1..Len(s) : IsData(s[i]) /\ s[i].frame.n = m
      BY <1>5
    <3>2. s[1].frame.n \in Nat /\ s[i].frame.n \in Nat
      <4>1. s[i] \in Piece
        OBVIOUS
      <4> QED
        BY <2>1, <4>1, PieceType
    <3>3. CASE i = 1
      BY <3>1, <3>3
    <3>4. CASE i > 1
      BY <2>1, <3>1, <3>2, <3>4 DEF Rising
    <3> QED
      BY <3>3, <3>4
  <2> QED
    BY <1>2, <1>3, <2>2, <2>3, <2>4
<1> QED
  BY <1>1, <1>7, <1>8

-----------------------------------------------------------------------------
(* Queued frames.                                                           *)

(* A frame is queued behind the others.                                     *)
LEMMA QueueGrows ==
    ASSUME NEW q \in Seq(Frame), QueueIsRising(q), NEW f \in Frame,
           f.kind = "data" => \A m \in QueueNumbers(q) : m < f.n
    PROVE  /\ Append(q, f) \in Seq(Frame) /\ Append(q, f) # <<>> /\ QueueIsRising(Append(q, f))
           /\ \A m : m \in QueueNumbers(Append(q, f)) <=>
                        m \in QueueNumbers(q) \/ (f.kind = "data" /\ m = f.n)
<1> DEFINE t == Append(q, f)
           l == Len(q)
<1>1. /\ t \in Seq(Frame) /\ Len(t) = l + 1 /\ l \in Nat
      /\ \A i \in 1..l : t[i] = q[i]
      /\ t[l + 1] = f
  OBVIOUS
<1>2. \A i \in 1..(l + 1) : i \in 1..l \/ i = l + 1
  BY <1>1
<1> HIDE DEF t
<1>3. QueueIsRising(t)
  <2> SUFFICES ASSUME NEW i \in 1..Len(t), NEW j \in 1..Len(t), i < j,
                      t[i].kind = "data", t[j].kind = "data"
               PROVE  t[i].n < t[j].n
    BY DEF QueueIsRising
  <2>1. i \in 1..l /\ t[i] = q[i]
    BY <1>1, <1>2
  <2>2. CASE j \in 1..l
    <3>1. t[j] = q[j]
      BY <1>1, <2>2
    <3> QED
      BY <2>1, <2>2, <3>1 DEF QueueIsRising
  <2>3. CASE j = l + 1
    <3>1. q[i].n \in QueueNumbers(q)
      BY <2>1, QueueNumbersMeans
    <3> QED
      BY <1>1, <2>1, <2>3, <3>1
  <2> QED
    BY <1>1, <1>2, <2>2, <2>3
<1>4. ASSUME NEW m
      PROVE  m \in QueueNumbers(t) <=> m \in QueueNumbers(q) \/ (f.kind = "data" /\ m = f.n)
  <2>1. m \in QueueNumbers(t) <=> \E i \in 1..Len(t) : t[i].kind = "data" /\ t[i].n = m
    BY <1>1, QueueNumbersMeans
  <2>2. m \in QueueNumbers(q) <=> \E i \in 1..l : q[i].kind = "data" /\ q[i].n = m
    BY QueueNumbersMeans
  <2> QED
    BY <1>1, <1>2, <2>1, <2>2
<1>5. t # <<>>
  BY <1>1
<1> QED
  BY <1>1, <1>3, <1>4, <1>5 DEF t

(* The first frame is taken: its number was the smallest.                   *)
LEMMA QueueShrinks ==
    ASSUME NEW q \in Seq(Frame), q # <<>>, QueueIsRising(q)
    PROVE  /\ Head(q) \in Frame /\ Tail(q) \in Seq(Frame) /\ QueueIsRising(Tail(q))
           /\ \A m \in QueueNumbers(Tail(q)) : m \in QueueNumbers(q)
           /\ Head(q).kind # "data" => \A m \in QueueNumbers(q) : m \in QueueNumbers(Tail(q))
           /\ Head(q).kind = "data" =>
                 /\ Head(q).n \in QueueNumbers(q)
                 /\ \A m \in QueueNumbers(q) : m = Head(q).n \/ m \in QueueNumbers(Tail(q))
                 /\ \A m \in QueueNumbers(Tail(q)) : m > Head(q).n
<1> DEFINE t == Tail(q)
           f == Head(q)
<1>1. /\ t \in Seq(Frame) /\ Len(t) = Len(q) - 1 /\ Len(q) \in Nat /\ Len(q) > 0 /\ Len(t) \in Nat
      /\ \A i \in 1..Len(t) : t[i] = q[i + 1]
      /\ f = q[1] /\ f \in Frame
  OBVIOUS
<1>2. \A i \in 1..Len(t) : i + 1 \in 1..Len(q)
  BY <1>1
<1>3. \A i \in 1..Len(q) : i = 1 \/ (i - 1 \in 1..Len(t) /\ i = (i - 1) + 1)
  BY <1>1
<1> HIDE DEF t, f
<1>4. QueueIsRising(t)
  <2> SUFFICES ASSUME NEW i \in 1..Len(t), NEW j \in 1..Len(t), i < j,
                      t[i].kind = "data", t[j].kind = "data"
               PROVE  t[i].n < t[j].n
    BY DEF QueueIsRising
  <2>1. t[i] = q[i + 1] /\ t[j] = q[j + 1] /\ i + 1 \in 1..Len(q) /\ j + 1 \in 1..Len(q) /\ i + 1 < j + 1
    BY <1>1, <1>2
  <2> QED
    BY <2>1 DEF QueueIsRising
<1>5. \A m : m \in QueueNumbers(t) <=> \E i \in 1..Len(t) : t[i].kind = "data" /\ t[i].n = m
  BY <1>1, QueueNumbersMeans
<1>6. \A m : m \in QueueNumbers(q) <=> \E i \in 1..Len(q) : q[i].kind = "data" /\ q[i].n = m
  BY QueueNumbersMeans
<1>7. ASSUME NEW m \in QueueNumbers(t)
      PROVE  m \in QueueNumbers(q) /\ (f.kind = "data" => m > f.n)
  <2>1. PICK i \in 1..Len(t) : t[i].kind = "data" /\ t[i].n = m
    BY <1>5
  <2>2. t[i] = q[i + 1] /\ i + 1 \in 1..Len(q) /\ q[i + 1] \in Frame
    BY <1>1, <1>2
  <2>3. m \in QueueNumbers(q)
    BY <1>6, <2>1, <2>2
  <2>4. ASSUME f.kind = "data" PROVE m > f.n
    <3>1. 1 \in 1..Len(q) /\ 1 < i + 1
      BY <1>1
    <3>2. q[1].n < q[i + 1].n
      BY <1>1, <2>1, <2>2, <2>4, <3>1 DEF QueueIsRising
    <3>3. q[1].n \in Nat /\ q[i + 1].n \in Nat
      BY <1>1, <2>2 DEF Frame
    <3> QED
      BY <1>1, <2>1, <2>2, <3>2, <3>3
  <2> QED
    BY <2>3, <2>4
<1>8. ASSUME NEW m \in QueueNumbers(q)
      PROVE  m \in QueueNumbers(t) \/ (f.kind = "data" /\ m = f.n)
  <2>1. PICK i \in 1..Len(q) : q[i].kind = "data" /\ q[i].n = m
    BY <1>6
  <2>2. CASE i - 1 \in 1..Len(t) /\ i = (i - 1) + 1
    <3>1. t[i - 1] = q[i]
      BY <1>1, <2>2
    <3> QED
      BY <1>5, <2>1, <2>2, <3>1
  <2> QED
    BY <1>1, <1>3, <2>1, <2>2
<1>9. f.kind = "data" => f.n \in QueueNumbers(q)
  <2>1. 1 \in 1..Len(q)
    BY <1>1
  <2> QED
    BY <1>1, <1>6, <2>1
<1> QED
  BY <1>1, <1>4, <1>7, <1>8, <1>9 DEF t, f

(* The numbers in the hand.                                                 *)
LEMMA HandNumbers ==
    /\ \A m : m \notin Numbers(<<>>)
    /\ \A f \in Frame : \A m : m \in Numbers(Pieces(f)) <=> f.kind = "data" /\ m = f.n
<1>1. \A m : m \notin Numbers(<<>>)
  BY DEF Numbers
<1>2. ASSUME NEW f \in Frame, NEW m
      PROVE  m \in Numbers(Pieces(f)) <=> f.kind = "data" /\ m = f.n
  <2>1. m \in Numbers(Pieces(f)) <=>
           \E i \in 1..Len(Pieces(f)) : IsData(Pieces(f)[i]) /\ Pieces(f)[i].frame.n = m
    BY PiecesShape, NumbersMeans
  <2>2. Len(Pieces(f)) = 2 /\ 1..2 = {1, 2}
    BY PiecesShape
  <2>3. Pieces(f)[1].frame = f /\ Pieces(f)[2].frame = f
    BY PiecesShape
  <2> QED
    BY <2>1, <2>2, <2>3 DEF IsData
<1> QED
  BY <1>1, <1>2

-----------------------------------------------------------------------------
(* The steps, as far as frames are concerned.                               *)

Rest(e, next) ==
    At(e, next) /\ UNCHANGED <<cut, sendq, hand, pipe, part, recvq, got, sent>>
Stops(e) == Rest(e, "dead")
Turns(e) == io[e] = "poll" /\ sendq[e] # <<>> /\ Rest(e, "loop")
Puts(e, f) == Put(e, f) /\ UNCHANGED <<cut, io, hand, pipe, part, recvq, got, sent>>
Sends(e) ==
    /\ sent' = [sent EXCEPT ![e] = @ + 1] /\ Put(e, Data(sent[e] + 1))
    /\ UNCHANGED <<cut, io, hand, pipe, part, recvq, got>>

(* What the steps of one end do to the frames.                              *)
LEMMA StepSplit ==
    ASSUME WireType, [Next]_vars
    PROVE  \/ UNCHANGED <<cut, sendq, io, hand, pipe, part, recvq, got, sent>>
           \/ CutPath
           \/ \E x \in End :
                 \/ Stops(x) \/ Turns(x) \/ Puts(x, Ping) \/ Puts(x, Close) \/ Sends(x)
                 \/ Receive(x) \/ TakeFrame(x) \/ WriteFrame(x) \/ ReadPiece(x)
                 \/ Decode(x) \/ Deliver(x)
<1>1. CASE UNCHANGED vars
  BY <1>1 DEF vars
<1>2. ASSUME NEW x \in End, Io(x) \/ ReadTimeout(x)
      PROVE  \/ Stops(x) \/ Turns(x) \/ TakeFrame(x) \/ WriteFrame(x) \/ ReadPiece(x)
             \/ Decode(x) \/ Deliver(x)
  <2>1. CASE WriteFails(x) \/ ReadEof(x)
    BY <2>1 DEF WriteFails, ReadEof, Fails, IoSame, Stops, Rest
  <2>2. CASE ReadTimeout(x)
    BY <2>2 DEF ReadTimeout, IoSame, Stops, Turns, Rest
  <2> QED
    BY <1>2, <2>1, <2>2 DEF Io
<1>3. ASSUME NEW x \in End, Sender(x) \/ Receiver(x) \/ SendPing(x) \/ ClockGap(x)
      PROVE  \/ UNCHANGED <<cut, sendq, io, hand, pipe, part, recvq, got, sent>>
             \/ Puts(x, Ping) \/ Puts(x, Close) \/ Sends(x) \/ Receive(x)
  <2>1. CASE SendFrame(x)
    BY <2>1 DEF SendFrame, AppSame, Sends
  <2>2. CASE Timeout(x, "snd") \/ Timeout(x, "rcv")
    BY <2>2 DEF Timeout, AppSame, Puts
  <2>3. CASE Follow(x)
    BY <2>3 DEF Follow, AppSame
  <2>4. CASE Shutdown(x)
    <3>1. CASE io[x] = "dead"
      <4>1. sendq' = [sendq EXCEPT ![x] = @]
        BY <2>4, <3>1 DEF Shutdown
      <4> QED
        BY <2>4, <4>1 DEF Shutdown, AppSame, WireType
    <3>2. CASE io[x] # "dead"
      BY <2>4, <3>2 DEF Shutdown, AppSame, Puts, Put
    <3> QED
      BY <3>1, <3>2
  <2>5. CASE RecvEnds(x) \/ ClockGap(x)
    BY <2>5 DEF RecvEnds, ClockGap, AppSame
  <2>6. CASE SendPing(x)
    BY <2>6 DEF SendPing, AppSame, Puts
  <2> QED
    BY <1>3, <2>1, <2>2, <2>3, <2>4, <2>5, <2>6 DEF Sender, Receiver
<1> QED
  BY <1>1, <1>2, <1>3 DEF Next

(* The two ends.                                                            *)
LEMMA Ends ==
    /\ \A e \in End : Other(e) \in End /\ Other(e) # e /\ Other(Other(e)) = e
    /\ \A e, x \in End : e = x \/ e = Other(x)
BY DEF End, Other

(* What is not disturbed stays so: the hand, ...                            *)
LEMMA KeepHand ==
    ASSUME NEW e \in End, HandShape(e), hand'[e] = hand[e], io'[e] = io[e], sendq'[e] = sendq[e]
    PROVE  HandShape(e)'
BY DEF HandShape

(* ... the pieces on the wire, ...                                         *)
LEMMA KeepWire ==
    ASSUME NEW e \in End, WireShape(e), part'[e] = part[e], pipe'[e] = pipe[e], cut' = cut
    PROVE  WireShape(e)' /\ Wire(e)' = Wire(e)
BY DEF WireShape, Wire

(* ... the send queue, ...                                                  *)
LEMMA KeepQueue ==
    ASSUME NEW e \in End, QueueShape(e), sendq'[e] = sendq[e], sent'[e] = sent[e]
    PROVE  QueueShape(e)'
BY DEF QueueShape

(* ... the receive queue, ...                                               *)
LEMMA KeepOrder ==
    ASSUME NEW e \in End, InOrder(e), recvq'[e] = recvq[e], got'[e] = got[e],
           sent'[Other(e)] = sent[Other(e)]
    PROVE  InOrder(e)' /\ Delivered(e)' = Delivered(e)
BY DEF InOrder, Delivered

(* ... and the numbers between the two ends.                                *)
LEMMA KeepFlow ==
    ASSUME NEW e \in End, Flow(e), io'[e] # "dead" => io[e] # "dead", cut' = cut,
           Delivered(e)' = Delivered(e), Wire(e)' = Wire(e),
           hand'[Other(e)] = hand[Other(e)], sendq'[Other(e)] = sendq[Other(e)],
           sent'[Other(e)] = sent[Other(e)]
    PROVE  Flow(e)'
<1>1. ASSUME NEW a \in Nat, NEW b \in Nat, FlowAt(e, a, b)
      PROVE  FlowAt(e, a, b)'
  BY <1>1 DEF FlowAt
<1> QED
  BY <1>1 DEF Flow

(* The types of what one end holds.                                         *)
LEMMA TypesAt ==
    ASSUME WireType, NEW e \in End
    PROVE  /\ sendq[e] \in Seq(Frame) /\ hand[e] \in Seq(Piece) /\ pipe[e] \in Seq(Piece)
           /\ part[e] \in Seq(Piece) /\ Wire(e) \in Seq(Piece)
           /\ recvq[e] \in Seq(Nat) /\ got[e] \in Nat /\ sent[e] \in Nat /\ Delivered(e) \in Nat
BY DEF WireType, Wire, Delivered

(* The threads of the session: a frame that is no data is queued, ...       *)
LEMMA PutsStep ==
    ASSUME WInv, NEW x \in End, NEW f \in Frame, f.kind # "data", Puts(x, f)
    PROVE  WInv'
<1> DEFINE y == Other(x)
<1>1. y \in End /\ y # x /\ Other(y) = x /\ \A e \in End : e = x \/ e = y
  BY Ends
<1>2. WireType /\ Parts(x) /\ Parts(y)
  BY <1>1 DEF WInv
<1> HIDE DEF y
<1>3. /\ sendq'[x] = Append(sendq[x], f) /\ sendq'[y] = sendq[y]
      /\ UNCHANGED <<cut, io, hand, pipe, part, recvq, got, sent>>
  BY <1>1, <1>2 DEF Puts, Put, WireType
<1>4. WireType'
  BY <1>2 DEF Puts, Put, WireType
<1>5. sendq[x] \in Seq(Frame)
  BY <1>2, TypesAt
<1>6. /\ QueueIsRising(Append(sendq[x], f)) /\ Append(sendq[x], f) # <<>>
      /\ \A m : m \in QueueNumbers(Append(sendq[x], f)) <=> m \in QueueNumbers(sendq[x])
  BY <1>2, <1>5, QueueGrows DEF Parts, QueueShape
<1>7. Parts(y)'
  <2>1. HandShape(y)' /\ WireShape(y)' /\ Wire(y)' = Wire(y) /\ QueueShape(y)'
    BY <1>1, <1>2, <1>3, KeepHand, KeepWire, KeepQueue DEF Parts
  <2>2. InOrder(y)' /\ Delivered(y)' = Delivered(y)
    BY <1>1, <1>2, <1>3, KeepOrder DEF Parts
  <2>3. Flow(y)'
    <3>1. ASSUME NEW a \in Nat, NEW b \in Nat, FlowAt(y, a, b)
          PROVE  FlowAt(y, a, b)'
      BY <1>1, <1>3, <1>6, <2>1, <2>2, <3>1 DEF FlowAt
    <3> QED
      BY <1>2, <1>3, <3>1 DEF Flow, Parts
  <2> QED
    BY <2>1, <2>2, <2>3 DEF Parts
<1>8. Parts(x)'
  <2>1. HandShape(x)'
    BY <1>2, <1>3, <1>6 DEF HandShape, Parts
  <2>2. WireShape(x)' /\ Wire(x)' = Wire(x) /\ InOrder(x)' /\ Delivered(x)' = Delivered(x)
    BY <1>1, <1>2, <1>3, KeepWire, KeepOrder DEF Parts
  <2>3. QueueShape(x)'
    BY <1>2, <1>3, <1>6 DEF QueueShape, Parts
  <2>4. Flow(x)'
    BY <1>1, <1>2, <1>3, <2>2, KeepFlow DEF Parts, y
  <2> QED
    BY <2>1, <2>2, <2>3, <2>4 DEF Parts
<1> QED
  BY <1>1, <1>4, <1>7, <1>8 DEF WInv

(* ... data is queued, ...                                                  *)
LEMMA SendsStep ==
    ASSUME WInv, NEW x \in End, Sends(x)
    PROVE  WInv'
<1> DEFINE y == Other(x)
           f == Data(sent[x] + 1)
<1>1. y \in End /\ y # x /\ Other(y) = x /\ \A e \in End : e = x \/ e = y
  BY Ends
<1>2. WireType /\ Parts(x) /\ Parts(y)
  BY <1>1 DEF WInv
<1>0. /\ sendq[x] \in Seq(Frame) /\ sent[x] \in Nat /\ Delivered(y) \in Nat
      /\ f \in Frame /\ f.kind = "data" /\ f.n = sent[x] + 1
  BY <1>1, <1>2, TypesAt, FrameTypes
<1> HIDE DEF y, f
<1>3. /\ sendq'[x] = Append(sendq[x], f) /\ sendq'[y] = sendq[y]
      /\ sent'[x] = sent[x] + 1 /\ sent'[y] = sent[y]
      /\ UNCHANGED <<cut, io, hand, pipe, part, recvq, got>>
  BY <1>1, <1>2 DEF Sends, Put, WireType, f
<1>4. WireType'
  BY <1>0, <1>2 DEF Sends, Put, WireType, f
<1>5. \A m \in QueueNumbers(sendq[x]) : m \in Nat /\ m <= sent[x]
  <2>1. \A m \in QueueNumbers(sendq[x]) : m \in Nat
    <3> SUFFICES ASSUME NEW m \in QueueNumbers(sendq[x]) PROVE m \in Nat
      OBVIOUS
    <3>1. PICK i \in 1..Len(sendq[x]) : sendq[x][i].kind = "data" /\ sendq[x][i].n = m
      BY <1>0, QueueNumbersMeans
    <3>2. sendq[x][i] \in Frame
      BY <1>0
    <3> QED
      BY <3>1, <3>2 DEF Frame
  <2> QED
    BY <1>2, <2>1 DEF Parts, QueueShape
<1>6. /\ QueueIsRising(Append(sendq[x], f)) /\ Append(sendq[x], f) # <<>>
      /\ \A m : m \in QueueNumbers(Append(sendq[x], f)) <=> m \in QueueNumbers(sendq[x]) \/ m = sent[x] + 1
  <2>1. \A m \in QueueNumbers(sendq[x]) : m < f.n
    BY <1>0, <1>5
  <2> QED
    BY <1>0, <1>2, <2>1, QueueGrows DEF Parts, QueueShape
<1>7. Parts(y)'
  <2>1. HandShape(y)' /\ WireShape(y)' /\ Wire(y)' = Wire(y) /\ QueueShape(y)'
    BY <1>1, <1>2, <1>3, KeepHand, KeepWire, KeepQueue DEF Parts
  <2>2. InOrder(y)' /\ Delivered(y)' = Delivered(y)
    <3>1. Delivered(y)' = Delivered(y)
      BY <1>3 DEF Delivered
    <3> QED
      BY <1>0, <1>1, <1>2, <1>3, <3>1 DEF InOrder, Parts
  <2>3. Flow(y)'
    <3>1. ASSUME NEW a \in Nat, NEW b \in Nat, FlowAt(y, a, b)
          PROVE  FlowAt(y, a, b)'
      <4>1. Delivered(y) <= a /\ a <= b /\ b <= sent[x] + 1
        BY <1>0, <1>1, <3>1 DEF FlowAt
      <4>2. ~cut => \A m \in Nat : m \in QueueNumbers(sendq'[x]) <=> b < m /\ m <= sent[x] + 1
        BY <1>0, <1>1, <1>3, <1>6, <3>1, <4>1 DEF FlowAt
      <4>3. \A m \in Nat : m \in Numbers(Wire(y)) <=> Delivered(y) < m /\ m <= a
        BY <3>1 DEF FlowAt
      <4>4. ~cut => \A m \in Nat : m \in Numbers(hand[x]) <=> a < m /\ m <= b
        BY <1>1, <3>1 DEF FlowAt
      <4> QED
        BY <1>1, <1>3, <2>1, <2>2, <4>1, <4>2, <4>3, <4>4 DEF FlowAt
    <3> QED
      BY <1>2, <1>3, <3>1 DEF Flow, Parts
  <2> QED
    BY <2>1, <2>2, <2>3 DEF Parts
<1>8. Parts(x)'
  <2>1. HandShape(x)'
    BY <1>2, <1>3, <1>6 DEF HandShape, Parts
  <2>2. WireShape(x)' /\ Wire(x)' = Wire(x) /\ InOrder(x)' /\ Delivered(x)' = Delivered(x)
    BY <1>1, <1>2, <1>3, KeepWire, KeepOrder DEF Parts, y
  <2>3. QueueShape(x)'
    <3>1. \A m \in QueueNumbers(sendq'[x]) : m <= sent[x] + 1
      BY <1>0, <1>3, <1>5, <1>6
    <3> QED
      BY <1>3, <1>6, <3>1 DEF QueueShape
  <2>4. Flow(x)'
    BY <1>1, <1>2, <1>3, <2>2, KeepFlow DEF Parts, y
  <2> QED
    BY <2>1, <2>2, <2>3, <2>4 DEF Parts
<1> QED
  BY <1>1, <1>4, <1>7, <1>8 DEF WInv

(* ... and what was delivered is received.                                  *)
LEMMA ReceiveStep ==
    ASSUME WInv, NEW x \in End, Receive(x)
    PROVE  WInv'
<1> DEFINE y == Other(x)
           q == recvq[x]
<1>1. y \in End /\ y # x /\ Other(y) = x /\ \A e \in End : e = x \/ e = y
  BY Ends
<1>2. WireType /\ Parts(x) /\ Parts(y)
  BY <1>1 DEF WInv
<1>3. /\ recvq'[x] = Tail(q) /\ got'[x] = Head(q) /\ recvq'[y] = recvq[y] /\ got'[y] = got[y] /\ q # <<>>
      /\ UNCHANGED <<cut, io, hand, pipe, part, sendq, sent>>
  BY <1>1, <1>2 DEF Receive, AppSame, WireType
<1>4. /\ q \in Seq(Nat) /\ Len(q) \in Nat /\ Len(q) > 0 /\ Head(q) = q[1] /\ Tail(q) \in Seq(Nat)
      /\ Len(Tail(q)) = Len(q) - 1 /\ got[x] \in Nat
      /\ \A i \in 1..Len(Tail(q)) : Tail(q)[i] = q[i + 1] /\ i + 1 \in 1..Len(q)
  BY <1>2, <1>3, TypesAt
<1>5. \A i \in 1..Len(q) : q[i] = got[x] + i
  BY <1>2 DEF Parts, InOrder
<1>6. Head(q) = got[x] + 1
  BY <1>4, <1>5
<1>7. WireType'
  <2>1. Head(q) \in Nat
    BY <1>4, <1>6
  <2> QED
    BY <1>2, <1>4, <2>1 DEF Receive, AppSame, WireType
<1>8. Delivered(x)' = Delivered(x) /\ Delivered(y)' = Delivered(y)
  <2>1. Delivered(y)' = Delivered(y)
    BY <1>3 DEF Delivered
  <2>2. Delivered(x)' = got'[x] + Len(recvq'[x]) /\ Delivered(x) = got[x] + Len(q)
    BY DEF Delivered
  <2>3. got'[x] + Len(recvq'[x]) = (got[x] + 1) + (Len(q) - 1)
    BY <1>3, <1>4, <1>6
  <2>4. (got[x] + 1) + (Len(q) - 1) = got[x] + Len(q)
    BY <1>4
  <2> QED
    BY <2>1, <2>2, <2>3, <2>4
<1>9. InOrder(x)'
  <2>1. ASSUME NEW i \in 1..Len(Tail(q)) PROVE Tail(q)[i] = got'[x] + i
    <3>1. Tail(q)[i] = got[x] + (i + 1)
      BY <1>4, <1>5
    <3>2. i \in Int /\ got[x] \in Int /\ got'[x] = got[x] + 1
      BY <1>3, <1>4, <1>6
    <3> QED
      BY <3>1, <3>2
  <2>2. Delivered(x) <= sent[y]
    BY <1>2 DEF Parts, InOrder
  <2> QED
    BY <1>3, <1>8, <2>1, <2>2 DEF InOrder
<1> HIDE DEF y, q
<1>10. ASSUME NEW e \in End PROVE HandShape(e)' /\ WireShape(e)' /\ QueueShape(e)' /\ Flow(e)'
  <2>1. Parts(e) /\ Delivered(e)' = Delivered(e)
    BY <1>1, <1>2, <1>8
  <2>2. HandShape(e)' /\ WireShape(e)' /\ Wire(e)' = Wire(e) /\ QueueShape(e)'
    BY <1>3, <2>1, KeepHand, KeepWire, KeepQueue DEF Parts
  <2> QED
    BY <1>3, <2>1, <2>2, KeepFlow DEF Parts
<1>11. InOrder(y)'
  BY <1>1, <1>2, <1>3, KeepOrder DEF Parts
<1> QED
  BY <1>1, <1>7, <1>9, <1>10, <1>11 DEF WInv, Parts

(* The I/O thread: it ends or goes on to write, ...                         *)
LEMMA RestStep ==
    ASSUME WInv, NEW x \in End, Stops(x) \/ Turns(x)
    PROVE  WInv'
<1> DEFINE y == Other(x)
<1>1. y \in End /\ y # x /\ Other(y) = x /\ \A e \in End : e = x \/ e = y
  BY Ends
<1>2. WireType /\ Parts(x) /\ Parts(y)
  BY <1>1 DEF WInv
<1> HIDE DEF y
<1>3. /\ io'[y] = io[y] /\ (io'[x] = "dead" \/ (io'[x] = "loop" /\ io[x] = "poll" /\ sendq[x] # <<>>))
      /\ UNCHANGED <<cut, sendq, hand, pipe, part, recvq, got, sent>>
  BY <1>1, <1>2 DEF Stops, Turns, Rest, At, WireType
<1>4. WireType'
  BY <1>2 DEF Stops, Turns, Rest, At, WireType
<1>5. HandShape(x)' /\ HandShape(y)'
  BY <1>2, <1>3 DEF HandShape, Parts
<1>6. ASSUME NEW e \in End PROVE WireShape(e)' /\ QueueShape(e)' /\ InOrder(e)' /\ Flow(e)'
  <2>1. Parts(e) /\ (io'[e] # "dead" => io[e] # "dead")
    BY <1>1, <1>2, <1>3
  <2>2. WireShape(e)' /\ Wire(e)' = Wire(e) /\ QueueShape(e)'
    BY <1>3, <2>1, KeepWire, KeepQueue DEF Parts
  <2>3. InOrder(e)' /\ Delivered(e)' = Delivered(e)
    BY <1>3, <2>1, KeepOrder DEF Parts
  <2> QED
    BY <1>3, <2>1, <2>2, <2>3, KeepFlow DEF Parts
<1> QED
  BY <1>1, <1>4, <1>5, <1>6 DEF WInv, Parts

(* ... takes a frame off the queue, ...                                     *)
LEMMA TakeFrameStep ==
    ASSUME WInv, NEW x \in End, TakeFrame(x)
    PROVE  WInv'
<1> DEFINE y == Other(x)
           q == sendq[x]
           f == Head(q)
<1>1. y \in End /\ y # x /\ Other(y) = x /\ \A e \in End : e = x \/ e = y
  BY Ends
<1>2. WireType /\ Parts(x) /\ Parts(y)
  BY <1>1 DEF WInv
<1>3. q # <<>> /\ hand[x] = <<>> /\ q \in Seq(Frame) /\ QueueIsRising(q)
  BY <1>2, TypesAt DEF TakeFrame, HandShape, QueueShape, Parts
<1>4. f \in Frame /\ Tail(q) \in Seq(Frame)
  BY <1>3
<1>5. /\ sendq'[x] = Tail(q) /\ sendq'[y] = sendq[y] /\ io'[y] = io[y] /\ hand'[y] = hand[y]
      /\ \/ f = Close /\ io'[x] = "dead" /\ hand'[x] = <<>>
         \/ io'[x] = "write" /\ hand'[x] = Pieces(f)
      /\ io[x] = "loop"
      /\ UNCHANGED <<cut, pipe, part, recvq, got, sent>>
  BY <1>1, <1>2, <1>3 DEF TakeFrame, At, IoSame, WireType
<1>6. WireType'
  <2>1. Pieces(f) \in Seq(Piece)
    BY <1>4, PiecesShape
  <2> QED
    BY <1>2, <1>4, <2>1 DEF TakeFrame, At, IoSame, WireType
<1>7. /\ QueueIsRising(Tail(q)) /\ \A m \in QueueNumbers(Tail(q)) : m \in QueueNumbers(q)
      /\ f.kind # "data" => \A m \in QueueNumbers(q) : m \in QueueNumbers(Tail(q))
      /\ f.kind = "data" =>
            /\ f.n \in QueueNumbers(q)
            /\ \A m \in QueueNumbers(q) : m = f.n \/ m \in QueueNumbers(Tail(q))
            /\ \A m \in QueueNumbers(Tail(q)) : m > f.n
  BY <1>3, QueueShrinks
<1>8. \A m : m \in Numbers(hand'[x]) <=> f.kind = "data" /\ m = f.n
  BY <1>4, <1>5, HandNumbers, FrameTypes
<1> HIDE DEF y, q, f
<1>9. HandShape(x)' /\ HandShape(y)'
  BY <1>1, <1>2, <1>4, <1>5, KeepHand DEF HandShape, Parts
<1>10. ASSUME NEW e \in End
       PROVE  /\ WireShape(e)' /\ Wire(e)' = Wire(e) /\ InOrder(e)' /\ Delivered(e)' = Delivered(e)
  BY <1>1, <1>2, <1>5, KeepWire, KeepOrder DEF Parts
<1>11. QueueShape(x)' /\ QueueShape(y)'
  BY <1>1, <1>2, <1>5, <1>7, KeepQueue DEF QueueShape, Parts, q
<1>12. Flow(x)'
  BY <1>1, <1>2, <1>5, <1>10, KeepFlow DEF Parts, y
<1>13. Flow(y)'
  <2> SUFFICES ASSUME io[y] # "dead" PROVE \E a, b \in Nat : FlowAt(y, a, b)'
    BY <1>5 DEF Flow
  <2>1. PICK a \in Nat, b \in Nat : FlowAt(y, a, b)
    BY <1>2 DEF Flow, Parts
  <2>2. /\ Delivered(y) <= a /\ a <= b /\ b <= sent[x] /\ sent[x] \in Nat /\ Delivered(y) \in Nat
        /\ \A m \in Nat : m \in Numbers(Wire(y)) <=> Delivered(y) < m /\ m <= a
        /\ ~cut => \A m \in Nat : m \in Numbers(hand[x]) <=> a < m /\ m <= b
        /\ ~cut => \A m \in Nat : m \in QueueNumbers(q) <=> b < m /\ m <= sent[x]
    BY <1>1, <1>2, <2>1, TypesAt DEF FlowAt, q
  <2>3. CASE cut
    <3>1. FlowAt(y, a, b)'
      BY <1>1, <1>5, <1>10, <2>2, <2>3 DEF FlowAt
    <3> QED
      BY <3>1
  <2>4. CASE ~cut /\ f.kind # "data"
    <3>1. \A m \in Nat : m \in Numbers(hand'[x]) <=> a < m /\ m <= b
      BY <1>3, <1>8, <2>2, <2>4, HandNumbers
    <3>2. \A m \in Nat : m \in QueueNumbers(sendq'[x]) <=> b < m /\ m <= sent[x]
      BY <1>5, <1>7, <2>2, <2>4
    <3>3. FlowAt(y, a, b)'
      BY <1>1, <1>5, <1>10, <2>2, <3>1, <3>2 DEF FlowAt
    <3> QED
      BY <3>3
  <2>5. CASE ~cut /\ f.kind = "data"
    <3>1. a = b
      <4>1. \A m \in Nat : ~(a < m /\ m <= b)
        BY <1>3, <2>2, <2>5, HandNumbers
      <4> QED
        BY <2>2, <4>1
    <3>2. f.n \in Nat /\ b < f.n /\ f.n <= sent[x]
      BY <1>4, <1>7, <2>2, <2>5 DEF Frame
    <3>3. f.n = b + 1
      <4>1. b + 1 \in Nat /\ b + 1 \in QueueNumbers(q)
        BY <2>2, <2>5, <3>2
      <4>2. b + 1 = f.n \/ b + 1 > f.n
        BY <1>7, <2>5, <4>1
      <4> QED
        BY <3>2, <4>2
    <3>4. \A m \in Nat : m \in Numbers(hand'[x]) <=> a < m /\ m <= b + 1
      BY <1>8, <2>5, <3>1, <3>3
    <3>5. \A m \in Nat : m \in QueueNumbers(sendq'[x]) <=> b + 1 < m /\ m <= sent[x]
      <4> SUFFICES ASSUME NEW m \in Nat
                   PROVE  m \in QueueNumbers(Tail(q)) <=> b + 1 < m /\ m <= sent[x]
        BY <1>5
      <4>1. m \in QueueNumbers(q) <=> b < m /\ m <= sent[x]
        BY <2>2, <2>5
      <4>2. m \in QueueNumbers(Tail(q)) => m \in QueueNumbers(q) /\ m > b + 1
        BY <1>7, <2>5, <3>3
      <4>3. m \in QueueNumbers(q) => m = b + 1 \/ m \in QueueNumbers(Tail(q))
        BY <1>7, <2>5, <3>3
      <4> QED
        BY <2>2, <4>1, <4>2, <4>3
    <3>6. FlowAt(y, a, b + 1)'
      BY <1>1, <1>5, <1>10, <2>2, <3>1, <3>2, <3>3, <3>4, <3>5 DEF FlowAt
    <3> QED
      BY <3>6
  <2> QED
    BY <2>3, <2>4, <2>5
<1> QED
  BY <1>1, <1>6, <1>9, <1>10, <1>11, <1>12, <1>13 DEF WInv, Parts

(* ... writes it, ...                                                       *)
LEMMA WriteFrameStep ==
    ASSUME WInv, NEW x \in End, WriteFrame(x)
    PROVE  WInv'
<1> DEFINE y == Other(x)
<1>1. y \in End /\ y # x /\ Other(y) = x /\ \A e \in End : e = x \/ e = y
  BY Ends
<1>2. WireType /\ Parts(x) /\ Parts(y)
  BY <1>1 DEF WInv
<1> HIDE DEF y
<1>3. PICK f \in Frame : hand[x] = Pieces(f)
  BY <1>2 DEF WriteFrame, HandShape, Parts
<1>4. /\ pipe'[y] = pipe[y] \o Pieces(f) /\ pipe'[x] = pipe[x] /\ hand'[x] = <<>> /\ hand'[y] = hand[y]
      /\ io'[y] = io[y] /\ io[y] # "dead" /\ io[x] = "write"
      /\ \/ io'[x] = "poll"
         \/ io'[x] = "loop" /\ sendq[x] # <<>>
      /\ ~cut /\ UNCHANGED <<cut, sendq, part, recvq, got, sent>>
  BY <1>1, <1>2, <1>3 DEF WriteFrame, At, Again, IoSame, WireType, y
<1>5. WireType'
  <2>1. pipe[y] \o hand[x] \in Seq(Piece)
    BY <1>1, <1>2, TypesAt, Concat
  <2>2. pipe' \in [End -> Seq(Piece)]
    BY <1>2, <2>1 DEF WriteFrame, WireType, y
  <2>3. hand' \in [End -> Seq(Piece)]
    BY <1>2 DEF WriteFrame, WireType
  <2>4. io' \in [End -> {"loop", "write", "poll", "dead"}]
    BY <1>2 DEF WriteFrame, At, Again, WireType
  <2> QED
    BY <1>2, <1>4, <2>2, <2>3, <2>4 DEF WireType
<1>6. HandShape(x)' /\ HandShape(y)'
  BY <1>2, <1>4 DEF HandShape, Parts
<1>7. QueueShape(x)' /\ QueueShape(y)'
  BY <1>1, <1>2, <1>4, KeepQueue DEF Parts
<1>8. ASSUME NEW e \in End PROVE InOrder(e)' /\ Delivered(e)' = Delivered(e)
  BY <1>1, <1>2, <1>4, KeepOrder DEF Parts
<1>9. WireShape(x)' /\ Wire(x)' = Wire(x)
  BY <1>2, <1>4, KeepWire DEF Parts
<1>10. Flow(x)'
  BY <1>1, <1>2, <1>4, <1>8, <1>9, KeepFlow DEF Parts, y
<1>11. PICK a \in Nat, b \in Nat : FlowAt(y, a, b)
  BY <1>2, <1>4 DEF Flow, Parts
<1>12. /\ Delivered(y) <= a /\ a <= b /\ b <= sent[x] /\ sent[x] \in Nat /\ Delivered(y) \in Nat
       /\ \A m \in Nat : m \in Numbers(Wire(y)) <=> Delivered(y) < m /\ m <= a
       /\ \A m \in Nat : m \in Numbers(hand[x]) <=> a < m /\ m <= b
       /\ \A m \in Nat : m \in QueueNumbers(sendq[x]) <=> b < m /\ m <= sent[x]
  BY <1>1, <1>2, <1>4, <1>11, TypesAt DEF FlowAt
<1>13. Wire(y)' = Wire(y) \o Pieces(f) /\ Wire(y) \in Seq(Piece)
  <2>1. part[y] \in Seq(Piece) /\ pipe[y] \in Seq(Piece) /\ Wire(y) \in Seq(Piece)
    BY <1>1, <1>2, TypesAt
  <2>2. Pieces(f) \in Seq(Piece)
    BY PiecesShape
  <2>3. part[y] \o (pipe[y] \o Pieces(f)) = (part[y] \o pipe[y]) \o Pieces(f)
    BY <2>1, <2>2, WriteExtends
  <2> QED
    BY <1>4, <2>1, <2>3 DEF Wire
<1>14. \A m : m \in Numbers(hand[x]) <=> f.kind = "data" /\ m = f.n
  BY <1>3, HandNumbers
<1>15. ASSUME f.kind = "data", NEW m \in Numbers(Wire(y)) PROVE m < f.n
  <2>1. f.n \in Nat /\ a < f.n
    BY <1>12, <1>14, <1>15 DEF Frame
  <2>2. PICK i \in 1..Len(Wire(y)) : IsData(Wire(y)[i]) /\ Wire(y)[i].frame.n = m
    BY <1>13, <1>15, NumbersMeans
  <2>3. Wire(y)[i] \in Piece
    BY <1>13
  <2>4. m \in Nat
    BY <2>2, <2>3, PieceType
  <2> QED
    BY <1>12, <1>15, <2>1, <2>4
<1>16. /\ Paired(Wire(y)') /\ Rising(Wire(y)') /\ Whole(Wire(y)')
       /\ \A m : m \in Numbers(Wire(y)') <=> m \in Numbers(Wire(y)) \/ (f.kind = "data" /\ m = f.n)
  BY <1>2, <1>4, <1>13, <1>15, WireGrows DEF WireShape, Parts
<1>17. WireShape(y)'
  BY <1>2, <1>4, <1>16 DEF WireShape, Parts
<1>18. Flow(y)'
  <2>1. \A m \in Nat : m \in Numbers(Wire(y)') <=> Delivered(y) < m /\ m <= b
    BY <1>12, <1>14, <1>16
  <2>2. \A m \in Nat : m \in Numbers(hand'[x]) <=> b < m /\ m <= b
    BY <1>4, HandNumbers
  <2>3. FlowAt(y, b, b)'
    BY <1>1, <1>4, <1>8, <1>12, <2>1, <2>2 DEF FlowAt
  <2> QED
    BY <2>3 DEF Flow
<1> QED
  BY <1>1, <1>5, <1>6, <1>7, <1>8, <1>9, <1>10, <1>17, <1>18 DEF WInv, Parts

(* ... reads a piece, ...                                                   *)
LEMMA ReadPieceStep ==
    ASSUME WInv, NEW x \in End, ReadPiece(x)
    PROVE  WInv'
<1> DEFINE y == Other(x)
<1>1. y \in End /\ y # x /\ Other(y) = x /\ \A e \in End : e = x \/ e = y
  BY Ends
<1>2. WireType /\ Parts(x) /\ Parts(y)
  BY <1>1 DEF WInv
<1> HIDE DEF y
<1>3. /\ part'[x] = Append(part[x], Head(pipe[x])) /\ pipe'[x] = Tail(pipe[x])
      /\ part'[y] = part[y] /\ pipe'[y] = pipe[y] /\ pipe[x] # <<>> /\ Len(part[x]) < 2
      /\ UNCHANGED <<cut, sendq, io, hand, recvq, got, sent>>
  BY <1>1, <1>2 DEF ReadPiece, IoSame, WireType
<1>4. part[x] \in Seq(Piece) /\ pipe[x] \in Seq(Piece) /\ Head(pipe[x]) \in Piece
  BY <1>2, <1>3, TypesAt
<1>5. WireType'
  BY <1>2, <1>4 DEF ReadPiece, IoSame, WireType
<1>6. Wire(x)' = Wire(x)
  BY <1>3, <1>4, ReadMoves DEF Wire
<1>7. WireShape(x)'
  <2>1. Len(part[x]) \in {0, 1}
    <3>1. Len(part[x]) \in {0, 1, 2}
      BY <1>2 DEF WireShape, Parts
    <3>2. Len(part[x]) < 2 /\ ~(2 < 2)
      BY <1>3
    <3> QED
      BY <3>1, <3>2
  <2>2. Len(part'[x]) \in {0, 1, 2}
    BY <1>3, <1>4, <2>1
  <2>3. ~cut /\ ~cut'
    BY <1>2, <1>3 DEF WireShape, Parts
  <2> QED
    BY <1>2, <1>6, <2>2, <2>3 DEF WireShape, Parts
<1>8. WireShape(y)' /\ Wire(y)' = Wire(y)
  BY <1>1, <1>2, <1>3, KeepWire DEF Parts
<1>9. ASSUME NEW e \in End PROVE HandShape(e)' /\ QueueShape(e)' /\ InOrder(e)' /\ Flow(e)'
  <2>1. Parts(e) /\ Wire(e)' = Wire(e)
    BY <1>1, <1>2, <1>6, <1>8
  <2>2. HandShape(e)' /\ QueueShape(e)' /\ InOrder(e)' /\ Delivered(e)' = Delivered(e)
    BY <1>3, <2>1, KeepHand, KeepQueue, KeepOrder DEF Parts
  <2> QED
    BY <1>3, <2>1, <2>2, KeepFlow DEF Parts
<1> QED
  BY <1>1, <1>5, <1>7, <1>8, <1>9 DEF WInv, Parts

(* A frame that was read leaves the wire.                                   *)
LEMMA FrameLeaves ==
    ASSUME WInv, NEW x \in End, Len(part[x]) = 2, part'[x] = <<>>, pipe'[x] = pipe[x], cut' = cut
    PROVE  /\ WireShape(x)'
           /\ part[x][1] \in Piece
           /\ part[x][1].frame.kind # "data" => \A m : m \in Numbers(Wire(x)') <=> m \in Numbers(Wire(x))
           /\ part[x][1].frame.kind = "data" =>
                 /\ part[x][1].frame.n \in Numbers(Wire(x))
                 /\ \A m \in Numbers(Wire(x)) : m = part[x][1].frame.n \/ m > part[x][1].frame.n
                 /\ \A m : m \in Numbers(Wire(x)') <=> m \in Numbers(Wire(x)) /\ m # part[x][1].frame.n
<1>1. WireType /\ WireShape(x)
  BY DEF WInv, Parts
<1>2. part[x] \in Seq(Piece) /\ pipe[x] \in Seq(Piece) /\ Wire(x) \in Seq(Piece)
  BY <1>1, TypesAt
<1>3. Wire(x)' = pipe[x]
  BY <1>2 DEF Wire
<1>4. Len(Wire(x)) = 2 + Len(pipe[x]) /\ Len(pipe[x]) \in Nat
  <2>1. Len(part[x] \o pipe[x]) = Len(part[x]) + Len(pipe[x]) /\ Len(pipe[x]) \in Nat
    BY <1>2, Concat
  <2> QED
    BY <2>1 DEF Wire
<1>5. ASSUME NEW i \in 1..Len(pipe[x]) PROVE pipe[x][i] = Wire(x)[i + 2]
  <2>1. (part[x] \o pipe[x])[Len(part[x]) + i] = pipe[x][i]
    BY <1>2, Concat
  <2>2. Len(part[x]) + i = i + 2
    OBVIOUS
  <2> QED
    BY <2>1, <2>2 DEF Wire
<1>6. Wire(x)[1] = part[x][1] /\ part[x][1] \in Piece
  <2>1. 1 \in 1..Len(part[x])
    OBVIOUS
  <2>2. (part[x] \o pipe[x])[1] = part[x][1]
    BY <1>2, <2>1, Concat
  <2>3. part[x][1] \in Piece
    BY <1>2, <2>1
  <2> QED
    BY <2>2, <2>3 DEF Wire
<1>7. Len(Wire(x)) >= 2 /\ Len(pipe[x]) = Len(Wire(x)) - 2
  BY <1>4
<1>8. Paired(Wire(x)) /\ Rising(Wire(x))
  BY <1>1 DEF WireShape
<1>9. /\ Paired(pipe[x]) /\ Rising(pipe[x]) /\ (Whole(Wire(x)) => Whole(pipe[x]))
      /\ part[x][1].frame.kind # "data" => \A m : m \in Numbers(pipe[x]) <=> m \in Numbers(Wire(x))
      /\ part[x][1].frame.kind = "data" =>
            /\ part[x][1].frame.n \in Numbers(Wire(x))
            /\ \A m \in Numbers(Wire(x)) : m = part[x][1].frame.n \/ m > part[x][1].frame.n
            /\ \A m : m \in Numbers(pipe[x]) <=> m \in Numbers(Wire(x)) /\ m # part[x][1].frame.n
  <2> DEFINE s == Wire(x)
             t == pipe[x]
  <2>1. s \in Seq(Piece) /\ t \in Seq(Piece) /\ Paired(s) /\ Rising(s) /\ Len(s) >= 2 /\ Len(t) = Len(s) - 2
    BY <1>2, <1>7, <1>8
  <2>2. \A i \in 1..Len(t) : t[i] = s[i + 2]
    BY <1>5
  <2>3. part[x][1] = s[1]
    BY <1>6
  <2> HIDE DEF s, t
  <2>4. /\ Paired(t) /\ Rising(t) /\ (Whole(s) => Whole(t))
        /\ s[1].frame.kind # "data" => \A m : m \in Numbers(t) <=> m \in Numbers(s)
        /\ s[1].frame.kind = "data" =>
              /\ s[1].frame.n \in Numbers(s)
              /\ \A m \in Numbers(s) : m = s[1].frame.n \/ m > s[1].frame.n
              /\ \A m : m \in Numbers(t) <=> m \in Numbers(s) /\ m # s[1].frame.n
    BY <2>1, <2>2, WireShrinks
  <2> QED
    BY <2>3, <2>4 DEF s, t
<1>10. WireShape(x)'
  <2>1. Len(part'[x]) \in {0, 1, 2}
    OBVIOUS
  <2> QED
    BY <1>1, <1>3, <1>9, <2>1 DEF WireShape
<1> QED
  BY <1>3, <1>6, <1>9, <1>10

(* ... answers a ping, ...                                                  *)
LEMMA DecodeStep ==
    ASSUME WInv, NEW x \in End, Decode(x)
    PROVE  WInv'
<1> DEFINE y == Other(x)
<1>1. y \in End /\ y # x /\ Other(y) = x /\ \A e \in End : e = x \/ e = y
  BY Ends
<1>2. WireType /\ Parts(x) /\ Parts(y)
  BY <1>1 DEF WInv
<1> HIDE DEF y
<1>3. /\ part'[x] = <<>> /\ part'[y] = part[y] /\ io'[y] = io[y] /\ hand'[y] = hand[y]
      /\ io[x] = "poll" /\ Len(part[x]) = 2 /\ part[x][1].frame.kind # "data"
      /\ \/ io'[x] = "write" /\ hand'[x] = Pieces(Pong)
         \/ io'[x] = "poll" /\ hand'[x] = hand[x]
         \/ io'[x] = "loop" /\ hand'[x] = hand[x] /\ sendq[x] # <<>>
      /\ UNCHANGED <<cut, sendq, pipe, recvq, got, sent>>
  BY <1>1, <1>2 DEF Decode, At, Again, IoSame, WireType
<1>4. WireType'
  <2>1. Pieces(Pong) \in Seq(Piece) /\ <<>> \in Seq(Piece)
    BY FrameTypes, PiecesShape
  <2>2. part' \in [End -> Seq(Piece)]
    BY <1>2 DEF Decode, WireType
  <2>3. hand' \in [End -> Seq(Piece)]
    BY <1>2, <2>1 DEF Decode, WireType
  <2>4. io' \in [End -> {"loop", "write", "poll", "dead"}]
    BY <1>2 DEF Decode, At, Again, WireType
  <2> QED
    BY <1>2, <1>3, <2>2, <2>3, <2>4 DEF WireType
<1>5. hand[x] = <<>>
  BY <1>2, <1>3 DEF HandShape, Parts
<1>6. HandShape(x)' /\ HandShape(y)'
  BY <1>1, <1>2, <1>3, <1>5, FrameTypes, KeepHand DEF HandShape, Parts
<1>7. QueueShape(x)' /\ QueueShape(y)'
  BY <1>1, <1>2, <1>3, KeepQueue DEF Parts
<1>8. ASSUME NEW e \in End PROVE InOrder(e)' /\ Delivered(e)' = Delivered(e)
  BY <1>1, <1>2, <1>3, KeepOrder DEF Parts
<1>9. WireShape(y)' /\ Wire(y)' = Wire(y)
  BY <1>1, <1>2, <1>3, KeepWire DEF Parts
<1>10. WireShape(x)' /\ \A m : m \in Numbers(Wire(x)') <=> m \in Numbers(Wire(x))
  BY <1>3, FrameLeaves
<1>11. \A m : m \in Numbers(hand'[x]) <=> m \in Numbers(hand[x])
  BY <1>3, <1>5, HandNumbers, FrameTypes
<1>12. Flow(x)'
  <2>1. ASSUME NEW a \in Nat, NEW b \in Nat, FlowAt(x, a, b)
        PROVE  FlowAt(x, a, b)'
    BY <1>1, <1>3, <1>8, <1>10, <2>1 DEF FlowAt, y
  <2> QED
    BY <1>2, <1>3, <2>1 DEF Flow, Parts
<1>13. Flow(y)'
  <2>1. ASSUME NEW a \in Nat, NEW b \in Nat, FlowAt(y, a, b)
        PROVE  FlowAt(y, a, b)'
    BY <1>1, <1>3, <1>8, <1>9, <1>11, <2>1 DEF FlowAt
  <2> QED
    BY <1>2, <1>3, <2>1 DEF Flow, Parts
<1> QED
  BY <1>1, <1>4, <1>6, <1>7, <1>8, <1>9, <1>10, <1>12, <1>13 DEF WInv, Parts

(* ... and hands data to the application.                                   *)
LEMMA DeliverStep ==
    ASSUME WInv, NEW x \in End, Deliver(x)
    PROVE  WInv'
<1> DEFINE y == Other(x)
           n == part[x][1].frame.n
<1>1. y \in End /\ y # x /\ Other(y) = x /\ \A e \in End : e = x \/ e = y
  BY Ends
<1>2. WireType /\ Parts(x) /\ Parts(y)
  BY <1>1 DEF WInv
<1> HIDE DEF y
<1>3. /\ part'[x] = <<>> /\ part'[y] = part[y] /\ io'[y] = io[y] /\ recvq'[y] = recvq[y]
      /\ io[x] = "poll" /\ Len(part[x]) = 2 /\ part[x][1].frame.kind = "data"
      /\ \/ io'[x] = "dead" /\ recvq'[x] = recvq[x]
         \/ io'[x] = "poll" /\ recvq'[x] = Append(recvq[x], n)
         \/ io'[x] = "loop" /\ recvq'[x] = Append(recvq[x], n) /\ sendq[x] # <<>>
      /\ UNCHANGED <<cut, sendq, pipe, hand, got, sent>>
  BY <1>1, <1>2 DEF Deliver, At, Again, IoSame, WireType
<1>4. /\ WireShape(x)' /\ part[x][1] \in Piece /\ n \in Numbers(Wire(x))
      /\ \A m \in Numbers(Wire(x)) : m = n \/ m > n
      /\ \A m : m \in Numbers(Wire(x)') <=> m \in Numbers(Wire(x)) /\ m # n
  BY <1>3, FrameLeaves
<1>5. n \in Nat
  BY <1>4, PieceType
<1> HIDE DEF n
<1>6. WireType'
  <2>1. part' \in [End -> Seq(Piece)]
    BY <1>2 DEF Deliver, WireType
  <2>2. recvq' \in [End -> Seq(Nat)]
    <3>1. Append(recvq[x], n) \in Seq(Nat)
      BY <1>2, <1>5, TypesAt
    <3> QED
      BY <1>2, <3>1 DEF Deliver, WireType, n
  <2>3. io' \in [End -> {"loop", "write", "poll", "dead"}]
    BY <1>2 DEF Deliver, At, Again, WireType
  <2> QED
    BY <1>2, <1>3, <2>1, <2>2, <2>3 DEF WireType
<1>7. HandShape(x)' /\ HandShape(y)'
  BY <1>1, <1>2, <1>3, KeepHand DEF HandShape, Parts
<1>8. QueueShape(x)' /\ QueueShape(y)'
  BY <1>1, <1>2, <1>3, KeepQueue DEF Parts
<1>9. InOrder(y)' /\ Delivered(y)' = Delivered(y) /\ WireShape(y)' /\ Wire(y)' = Wire(y)
  BY <1>1, <1>2, <1>3, KeepOrder, KeepWire DEF Parts
<1>10. Flow(y)'
  BY <1>1, <1>2, <1>3, <1>9, KeepFlow DEF Parts
<1>11. PICK a \in Nat, b \in Nat : FlowAt(x, a, b)
  BY <1>2, <1>3 DEF Flow, Parts
<1>12. /\ Delivered(x) <= a /\ a <= b /\ b <= sent[y] /\ sent[y] \in Nat /\ Delivered(x) \in Nat
       /\ \A m \in Nat : m \in Numbers(Wire(x)) <=> Delivered(x) < m /\ m <= a
  BY <1>1, <1>2, <1>11, TypesAt DEF FlowAt, y
<1>13. n = Delivered(x) + 1 /\ n <= a
  <2>1. Delivered(x) < n /\ n <= a
    BY <1>4, <1>5, <1>12
  <2>2. Delivered(x) + 1 \in Nat /\ Delivered(x) + 1 \in Numbers(Wire(x))
    BY <1>5, <1>12, <2>1
  <2>3. Delivered(x) + 1 = n \/ Delivered(x) + 1 > n
    BY <1>4, <2>2
  <2> QED
    BY <1>5, <1>12, <2>1, <2>3
<1>14. ASSUME recvq'[x] = Append(recvq[x], n), io'[x] # "dead"
       PROVE  InOrder(x)' /\ Flow(x)'
  <2>1. recvq[x] \in Seq(Nat) /\ Len(recvq[x]) \in Nat /\ got[x] \in Nat
    BY <1>2, TypesAt
  <2>2. Len(recvq'[x]) = Len(recvq[x]) + 1 /\ recvq'[x][Len(recvq[x]) + 1] = n
        /\ \A i \in 1..Len(recvq[x]) : recvq'[x][i] = recvq[x][i]
    BY <1>5, <1>14, <2>1
  <2>3. Delivered(x)' = Delivered(x) + 1
    BY <1>3, <2>1, <2>2 DEF Delivered
  <2>4. n = got[x] + (Len(recvq[x]) + 1)
    BY <1>13, <2>1 DEF Delivered
  <2>5. \A i \in 1..Len(recvq'[x]) : recvq'[x][i] = got[x] + i
    <3> SUFFICES ASSUME NEW i \in 1..(Len(recvq[x]) + 1)
                 PROVE  recvq'[x][i] = got[x] + i
      BY <2>2
    <3>1. CASE i \in 1..Len(recvq[x])
      BY <1>2, <2>2, <3>1 DEF InOrder, Parts
    <3>2. CASE i = Len(recvq[x]) + 1
      BY <2>2, <2>4, <3>2
    <3>3. i \in 1..Len(recvq[x]) \/ i = Len(recvq[x]) + 1
      BY <2>1
    <3> QED
      BY <3>1, <3>2, <3>3
  <2>6. InOrder(x)'
    <3>1. Delivered(x) + 1 <= sent[y]
      BY <1>12, <1>13
    <3> QED
      BY <1>3, <2>3, <2>5, <3>1 DEF InOrder, y
  <2>7. \A m \in Nat : m \in Numbers(Wire(x)') <=> Delivered(x) + 1 < m /\ m <= a
    BY <1>4, <1>12, <1>13
  <2>8. FlowAt(x, a, b)'
    <3>1. /\ Delivered(x) + 1 <= a
          /\ ~cut => \A m \in Nat : m \in Numbers(hand[y]) <=> a < m /\ m <= b
          /\ ~cut => \A m \in Nat : m \in QueueNumbers(sendq[y]) <=> b < m /\ m <= sent[y]
      BY <1>11, <1>12, <1>13 DEF FlowAt, y
    <3> QED
      BY <1>3, <1>12, <2>3, <2>7, <3>1 DEF FlowAt, y
  <2> QED
    BY <2>6, <2>8 DEF Flow
<1>15. ASSUME recvq'[x] = recvq[x], io'[x] = "dead"
       PROVE  InOrder(x)' /\ Flow(x)'
  <2>1. InOrder(x)'
    BY <1>2, <1>3, <1>15, KeepOrder DEF Parts
  <2> QED
    BY <1>15, <2>1 DEF Flow
<1>16. InOrder(x)' /\ Flow(x)'
  BY <1>3, <1>14, <1>15
<1> QED
  BY <1>1, <1>4, <1>6, <1>7, <1>8, <1>9, <1>10, <1>16 DEF WInv, Parts

(* The path is cut: each end keeps what it has read.                        *)
LEMMA CutPathStep ==
    ASSUME WInv, CutPath
    PROVE  WInv'
<1>1. WireType
  BY DEF WInv
<1>2. WireType'
  BY <1>1 DEF CutPath, WireType
<1>3. ASSUME NEW x \in End PROVE Parts(x)'
  <2> DEFINE s == Wire(x)
             t == part[x]
  <2>1. /\ pipe'[x] = <<>> /\ part'[x] = t /\ ~cut /\ cut'
        /\ UNCHANGED <<sendq, io, hand, recvq, got, sent>>
    BY DEF CutPath
  <2>2. Parts(x) /\ Other(x) \in End
    BY Ends DEF WInv
  <2>3. HandShape(x)' /\ QueueShape(x)' /\ InOrder(x)' /\ Delivered(x)' = Delivered(x)
    BY <2>1, <2>2, KeepHand, KeepQueue, KeepOrder DEF Parts
  <2>4. s \in Seq(Piece) /\ t \in Seq(Piece) /\ pipe[x] \in Seq(Piece)
    BY <1>1, TypesAt
  <2>5. Wire(x)' = t
    BY <2>1, <2>4 DEF Wire
  <2>6. Len(t) <= Len(s) /\ \A i \in 1..Len(t) : t[i] = s[i]
    <3>1. /\ Len(t \o pipe[x]) = Len(t) + Len(pipe[x]) /\ Len(t) \in Nat /\ Len(pipe[x]) \in Nat
          /\ \A i \in 1..Len(t) : (t \o pipe[x])[i] = t[i]
      BY <2>4, Concat
    <3>2. s = t \o pipe[x]
      BY DEF Wire
    <3> HIDE DEF s, t
    <3> QED
      BY <3>1, <3>2
  <2>7. Paired(s) /\ Rising(s) /\ Len(t) \in {0, 1, 2}
    BY <2>2 DEF WireShape, Parts
  <2> HIDE DEF s, t
  <2>8. /\ Paired(t) /\ Rising(t)
        /\ \/ \A m : m \notin Numbers(t)
           \/ /\ s[1].frame.n \in Numbers(s)
              /\ \A m \in Numbers(s) : m = s[1].frame.n \/ m > s[1].frame.n
              /\ \A m : m \in Numbers(t) <=> m = s[1].frame.n
    BY <2>4, <2>6, <2>7, WireIsCut
  <2>9. WireShape(x)'
    BY <2>1, <2>5, <2>7, <2>8 DEF WireShape
  <2>10. Flow(x)'
    <3> SUFFICES ASSUME io[x] # "dead" PROVE \E a, b \in Nat : FlowAt(x, a, b)'
      BY <2>1 DEF Flow
    <3>1. PICK a \in Nat, b \in Nat : FlowAt(x, a, b)
      BY <2>2 DEF Flow, Parts
    <3>2. /\ Delivered(x) <= a /\ a <= b /\ b <= sent[Other(x)] /\ sent[Other(x)] \in Nat
          /\ Delivered(x) \in Nat
          /\ \A m \in Nat : m \in Numbers(s) <=> Delivered(x) < m /\ m <= a
      BY <1>1, <2>2, <3>1, TypesAt DEF FlowAt, s
    <3>3. CASE \A m : m \notin Numbers(t)
      <4>1. FlowAt(x, Delivered(x), b)'
        <5>1. \A m \in Nat : m \in Numbers(t) <=> Delivered(x) < m /\ m <= Delivered(x)
          BY <3>2, <3>3
        <5>2. Delivered(x) <= Delivered(x) /\ Delivered(x) <= b /\ b <= sent[Other(x)]
          BY <3>2
        <5> QED
          BY <2>1, <2>3, <2>5, <5>1, <5>2 DEF FlowAt
      <4> QED
        BY <2>3, <3>2, <4>1
    <3>4. ASSUME s[1].frame.n \in Numbers(s),
                 \A m \in Numbers(s) : m = s[1].frame.n \/ m > s[1].frame.n,
                 \A m : m \in Numbers(t) <=> m = s[1].frame.n
          PROVE  \E c, d \in Nat : FlowAt(x, c, d)'
      <4>1. s[1].frame.n \in Nat
        <5>1. PICK i \in 1..Len(s) : IsData(s[i]) /\ s[i].frame.n = s[1].frame.n
          BY <2>4, <3>4, NumbersMeans
        <5>2. s[i] \in Piece
          BY <2>4
        <5> QED
          BY <5>1, <5>2, PieceType
      <4>2. Delivered(x) < s[1].frame.n /\ s[1].frame.n <= a
        BY <3>2, <3>4, <4>1
      <4>3. Delivered(x) + 1 \in Nat /\ Delivered(x) + 1 \in Numbers(s)
        BY <3>2, <4>1, <4>2
      <4>4. s[1].frame.n = Delivered(x) + 1
        <5>1. Delivered(x) + 1 = s[1].frame.n \/ Delivered(x) + 1 > s[1].frame.n
          BY <3>4, <4>3
        <5> QED
          BY <3>2, <4>1, <4>2, <5>1
      <4>5. \A m \in Nat : m \in Numbers(t) <=> Delivered(x) < m /\ m <= Delivered(x) + 1
        BY <3>2, <3>4, <4>4
      <4>6. Delivered(x) <= Delivered(x) + 1 /\ Delivered(x) + 1 <= b /\ b <= sent[Other(x)]
        BY <3>2, <4>2, <4>4
      <4>7. FlowAt(x, Delivered(x) + 1, b)'
        BY <2>1, <2>3, <2>5, <4>5, <4>6 DEF FlowAt
      <4> QED
        BY <2>3, <4>3, <4>7
    <3> QED
      BY <2>8, <3>3, <3>4
  <2> QED
    BY <2>3, <2>9, <2>10 DEF Parts
<1> QED
  BY <1>2, <1>3 DEF WInv

-----------------------------------------------------------------------------
(* At the start nothing is on its way.                                      *)
LEMMA InitWInv == Init => WInv
<1> SUFFICES ASSUME Init PROVE WInv
  OBVIOUS
<1>1. WireType
  <2>0. cut \in BOOLEAN
    BY DEF Init
  <2>4. sendq \in [End -> Seq(Frame)]
    BY DEF Init
  <2>1. hand \in [End -> Seq(Piece)] /\ pipe \in [End -> Seq(Piece)] /\ part \in [End -> Seq(Piece)]
    BY DEF Init
  <2>2. recvq \in [End -> Seq(Nat)] /\ got \in [End -> Nat] /\ sent \in [End -> Nat]
    BY DEF Init
  <2>3. io \in [End -> {"loop", "write", "poll", "dead"}]
    BY DEF Init
  <2> QED
    BY <2>0, <2>1, <2>2, <2>3, <2>4 DEF WireType
<1>2. ASSUME NEW e \in End PROVE Parts(e)
  <2>1. /\ part[e] = <<>> /\ pipe[e] = <<>> /\ hand[e] = <<>> /\ sendq[e] = <<>> /\ recvq[e] = <<>>
        /\ io[e] = "poll" /\ got[e] = 0 /\ sent[e] = 0 /\ ~cut
    BY DEF Init
  <2>2. hand[Other(e)] = <<>> /\ sendq[Other(e)] = <<>> /\ sent[Other(e)] = 0
    BY Ends DEF Init
  <2>3. Wire(e) = <<>> /\ Delivered(e) = 0
    BY <2>1 DEF Wire, Delivered
  <2>4. HandShape(e)
    BY <2>1 DEF HandShape
  <2>5. WireShape(e)
    BY <2>1, <2>3 DEF WireShape, Paired, Rising, Whole
  <2>6. \A m : m \notin QueueNumbers(<<>>)
    BY DEF QueueNumbers
  <2>7. QueueShape(e)
    BY <2>1, <2>6 DEF QueueShape, QueueIsRising
  <2>8. InOrder(e)
    BY <2>1, <2>2, <2>3 DEF InOrder
  <2>9. FlowAt(e, 0, 0)
    BY <2>2, <2>3, <2>6, HandNumbers DEF FlowAt
  <2> QED
    BY <2>4, <2>5, <2>7, <2>8, <2>9 DEF Parts, Flow
<1> QED
  BY <1>1, <1>2 DEF WInv

(* Every step keeps the invariant.                                          *)
LEMMA WInvStep == WInv /\ [Next]_vars => WInv'
<1> SUFFICES ASSUME WInv, [Next]_vars PROVE WInv'
  OBVIOUS
<1>1. CASE UNCHANGED <<cut, sendq, io, hand, pipe, part, recvq, got, sent>>
  <2>1. WireType'
    BY <1>1 DEF WInv, WireType
  <2>2. ASSUME NEW e \in End PROVE Parts(e)'
    <3>1. Parts(e)
      BY DEF WInv
    <3>2. /\ HandShape(e)' /\ QueueShape(e)' /\ InOrder(e)' /\ Delivered(e)' = Delivered(e)
          /\ WireShape(e)' /\ Wire(e)' = Wire(e)
      BY <1>1, <3>1, KeepHand, KeepQueue, KeepOrder, KeepWire DEF Parts
    <3>3. Flow(e)'
      BY <1>1, <3>1, <3>2, KeepFlow DEF Parts
    <3> QED
      BY <3>2, <3>3 DEF Parts
  <2> QED
    BY <2>1, <2>2 DEF WInv
<1>2. CASE CutPath
  BY <1>2, CutPathStep
<1>3. ASSUME NEW x \in End, Stops(x) \/ Turns(x) PROVE WInv'
  BY <1>3, RestStep
<1>4. ASSUME NEW x \in End, Puts(x, Ping) \/ Puts(x, Close) PROVE WInv'
  BY <1>4, PutsStep, FrameTypes
<1>5. ASSUME NEW x \in End, Sends(x) \/ Receive(x) PROVE WInv'
  BY <1>5, SendsStep, ReceiveStep
<1>6. ASSUME NEW x \in End, TakeFrame(x) \/ WriteFrame(x) \/ ReadPiece(x) PROVE WInv'
  BY <1>6, TakeFrameStep, WriteFrameStep, ReadPieceStep
<1>7. ASSUME NEW x \in End, Decode(x) \/ Deliver(x) PROVE WInv'
  BY <1>7, DecodeStep, DeliverStep
<1>8. WireType
  BY DEF WInv
<1> QED
  BY <1>1, <1>2, <1>3, <1>4, <1>5, <1>6, <1>7, <1>8, StepSplit

(* What the application receives follows from the invariant.                *)
LEMMA WInvMeans == WInv => FramesIntact
<1> SUFFICES ASSUME WInv, NEW e \in End
             PROVE  /\ \A i \in DOMAIN part[e] : part[e][i].k = i /\ part[e][i].frame = part[e][1].frame
                    /\ \A i \in DOMAIN recvq[e] : recvq[e][i] = got[e] + i
                    /\ got[e] <= sent[Other(e)]
  BY DEF FramesIntact
<1>1. WireType /\ WireShape(e) /\ InOrder(e) /\ Other(e) \in End
  BY Ends DEF WInv, Parts
<1>2. /\ part[e] \in Seq(Piece) /\ pipe[e] \in Seq(Piece) /\ Wire(e) \in Seq(Piece)
      /\ recvq[e] \in Seq(Nat) /\ got[e] \in Nat /\ sent[Other(e)] \in Nat
  BY <1>1, TypesAt
<1>3. \A i \in DOMAIN recvq[e] : recvq[e][i] = got[e] + i
  <2>1. DOMAIN recvq[e] = 1..Len(recvq[e])
    BY <1>2
  <2> QED
    BY <1>1, <2>1 DEF InOrder
<1>4. got[e] <= sent[Other(e)]
  BY <1>1, <1>2 DEF InOrder, Delivered
<1>5. \A i \in DOMAIN part[e] : part[e][i].k = i /\ part[e][i].frame = part[e][1].frame
  <2> DEFINE p == part[e]
             s == Wire(e)
  <2>1. /\ Len(s) = Len(p) + Len(pipe[e]) /\ Len(p) \in Nat /\ Len(pipe[e]) \in Nat
        /\ \A i \in 1..Len(p) : s[i] = p[i]
    BY <1>2, Concat DEF Wire
  <2>2. Paired(s) /\ Len(p) \in {0, 1, 2}
    BY <1>1 DEF WireShape
  <2>3. CASE Len(p) = 0
    BY <1>2, <2>3
  <2>4. ASSUME Len(p) = 1 \/ Len(p) = 2 PROVE p[1].k = 1
    <3>0. Len(s) # 0 /\ 1 \in 1..Len(p)
      <4>1. \A k, l, m \in Nat : (k = 1 \/ k = 2) /\ l = k + m => l # 0 /\ 1 \in 1..k
        OBVIOUS
      <4>2. Len(s) \in Nat
        BY <1>2
      <4> HIDE DEF p, s
      <4> QED
        BY <2>1, <2>4, <4>1, <4>2
    <3>1. 1 \in 1..Len(p) /\ s # <<>>
      BY <3>0
    <3> QED
      BY <2>1, <2>2, <3>1 DEF Paired
  <2>5. CASE Len(p) = 1
    <3>1. DOMAIN p = {1}
      BY <1>2, <2>5
    <3> QED
      BY <2>4, <2>5, <3>1
  <2>6. CASE Len(p) = 2
    <3>1. DOMAIN p = {1, 2} /\ 1 \in 1..Len(p) /\ 2 \in 1..Len(p) /\ 1 \in 1..Len(s) /\ 1 < Len(s)
      BY <1>2, <2>1, <2>6
    <3>2. p[1].k = 1 /\ s[1] = p[1] /\ s[2] = p[2]
      BY <2>1, <2>4, <2>6, <3>1
    <3>3. s[1 + 1].k = 2 /\ s[1 + 1].frame = s[1].frame
      BY <2>2, <3>1, <3>2 DEF Paired
    <3> QED
      BY <3>1, <3>2, <3>3
  <2> QED
    BY <2>2, <2>3, <2>5, <2>6
<1> QED
  BY <1>3, <1>4, <1>5

(* Wherever reads time out and whichever end writes first, the reader holds *)
(* the beginning of one frame, and the application receives the frames of   *)
(* the other end in order, each once and none skipped.                      *)
THEOREM FramesStayIntact == Spec => []FramesIntact
<1>1. Init => WInv
  BY InitWInv
<1>2. WInv /\ [Next]_vars => WInv'
  BY WInvStep
<1>3. WInv => FramesIntact
  BY WInvMeans
<1> QED
  BY <1>1, <1>2, <1>3, PTL DEF Spec

-----------------------------------------------------------------------------
(* The registry of the apps: its inductive invariant.                       *)

RegType ==
    /\ status \in {"running", "stopped", "failed", "gone"}
    /\ up \in BOOLEAN /\ overlap \in BOOLEAN /\ result \in [Admin -> BOOLEAN]
    /\ pc \in [Admin -> {"idle", "read", "wire", "start", "write"}]

(* While no start has overlapped another start or a stop: the slot of an    *)
(* app that is being started does not say running, and the request that     *)
(* starts it knows whether it is up.                                        *)
Starting(a) ==
    /\ status \in {"stopped", "failed"}
    /\ pc[a] \in {"wire", "start"} => ~up
    /\ pc[a] = "write" => (up <=> result[a])

Truthful ==
    /\ \A a, b \in Admin : Registry!InStart(a) /\ Registry!InStart(b) => a = b
    /\ \A a \in Admin : Registry!InStart(a) => Starting(a)
    /\ (\A a \in Admin : ~Registry!InStart(a)) => (status = "running" <=> up)
    /\ serving # {} => up

RegInv == RegType /\ (~overlap => Truthful)

(* stop_app and stop_all: nobody is inside the app, and no start is under   *)
(* way, or the stop overlaps it.                                            *)
LEMMA StopKeepsTruth ==
    ASSUME RegInv, NEW a \in Admin, NEW next \in {"idle", "read"},
           pc[a] = "idle", Registry!stop_app(a, next)
    PROVE  RegInv'
<1> USE DEF RegInv
<1>1. /\ pc' = [pc EXCEPT ![a] = next] /\ serving = {} /\ serving' = {} /\ result' = result
  BY DEF Registry!stop_app, Registry!WriteLock
<1>2. /\ pc' \in [Admin -> {"idle", "read", "wire", "start", "write"}]
      /\ \A b \in Admin : (Registry!InStart(b))' <=> Registry!InStart(b)
      /\ \A b \in Admin : Registry!InStart(b) => pc'[b] = pc[b]
  BY <1>1 DEF RegType, Registry!InStart
<1>3. CASE UNCHANGED <<status, up, overlap>>
  <2>1. RegType'
    BY <1>1, <1>2, <1>3 DEF RegType
  <2>2. ASSUME Truthful PROVE Truthful'
    BY <1>1, <1>2, <1>3, <2>2 DEF Truthful, Starting
  <2> QED BY <1>3, <2>1, <2>2
<1>4. CASE /\ up' = FALSE /\ status' = "stopped"
           /\ overlap' = (overlap \/ \E b \in Admin : Registry!InStart(b))
  <2>1. RegType'
    BY <1>1, <1>2, <1>4 DEF RegType
  <2>2. ASSUME ~overlap' PROVE Truthful'
    <3>1. \A b \in Admin : ~Registry!InStart(b)
      BY <1>4, <2>2
    <3>2. \A b \in Admin : ~(Registry!InStart(b))'
      BY <1>2, <3>1
    <3> QED BY <1>1, <1>4, <3>2 DEF Truthful
  <2> QED BY <2>1, <2>2
<1> QED BY <1>3, <1>4 DEF Registry!stop_app

(* start_app reads the slot.                                                *)
LEMMA ReadKeepsTruth ==
    ASSUME RegInv, NEW a \in Admin, Registry!StartRead(a)
    PROVE  RegInv'
<1> USE DEF RegInv
<1>1. /\ pc[a] \in {"idle", "read"} /\ UNCHANGED <<status, up, result, serving>>
      /\ ~Registry!InStart(a)
  BY DEF Registry!StartRead, Registry!InStart
<1>2. CASE pc' = [pc EXCEPT ![a] = "idle"] /\ overlap' = overlap
  <2>1. /\ pc' \in [Admin -> {"idle", "read", "wire", "start", "write"}]
        /\ \A b \in Admin : (Registry!InStart(b))' <=> Registry!InStart(b)
        /\ \A b \in Admin : Registry!InStart(b) => pc'[b] = pc[b]
    BY <1>1, <1>2 DEF RegType, Registry!InStart
  <2>2. RegType'
    BY <1>1, <1>2, <2>1 DEF RegType
  <2>3. ASSUME Truthful PROVE Truthful'
    BY <1>1, <2>1, <2>3 DEF Truthful, Starting
  <2> QED BY <1>2, <2>2, <2>3
<1>3. CASE /\ status \notin {"running", "gone"} /\ pc' = [pc EXCEPT ![a] = "wire"]
           /\ overlap' = (overlap \/ \E b \in Admin : Registry!InStart(b))
  <2>1. /\ pc' \in [Admin -> {"idle", "read", "wire", "start", "write"}] /\ pc'[a] = "wire"
        /\ \A b \in Admin : b # a => ((Registry!InStart(b))' <=> Registry!InStart(b))
    BY <1>1, <1>3 DEF RegType, Registry!InStart
  <2>2. RegType'
    BY <1>1, <1>3, <2>1 DEF RegType
  <2>3. ASSUME ~overlap' PROVE Truthful'
    <3>1. Truthful /\ \A b \in Admin : ~Registry!InStart(b)
      BY <1>3, <2>3 DEF RegType
    <3>2. ~up
      BY <1>3, <3>1 DEF Truthful
    <3>3. status \in {"stopped", "failed"}
      BY <1>3 DEF RegType
    <3> QED BY <1>1, <2>1, <3>1, <3>2, <3>3 DEF Truthful, Starting, Registry!InStart
  <2> QED BY <2>2, <2>3
<1> QED BY <1>2, <1>3 DEF Registry!StartRead

(* wire_subscriptions, app.start and the write of the slot.                 *)
LEMMA StartKeepsTruth ==
    ASSUME RegInv, NEW a \in Admin,
           Registry!Wire(a) \/ Registry!StartApp(a) \/ Registry!WriteSlot(a)
    PROVE  RegInv'
<1> USE DEF RegInv
<1>1. Registry!InStart(a) /\ overlap' = overlap /\ serving' = serving
  BY DEF Registry!Wire, Registry!StartApp, Registry!WriteSlot, Registry!InStart
<1>2. ASSUME ~overlap
      PROVE  Starting(a) /\ \A b \in Admin : b # a => ~Registry!InStart(b)
  BY <1>1, <1>2 DEF Truthful
<1>3. CASE Registry!Wire(a)
  <2>1. /\ pc' \in [Admin -> {"idle", "read", "wire", "start", "write"}] /\ pc'[a] = "start"
        /\ \A b \in Admin : b # a => pc'[b] = pc[b]
        /\ pc[a] = "wire" /\ UNCHANGED <<status, up, result>>
    BY <1>3 DEF RegType, Registry!Wire
  <2>2. RegType'
    BY <1>1, <2>1 DEF RegType
  <2>3. ASSUME ~overlap PROVE Truthful'
    BY <1>1, <1>2, <2>1, <2>3 DEF Truthful, Starting, Registry!InStart
  <2> QED BY <1>1, <2>2, <2>3
<1>4. CASE Registry!StartApp(a)
  <2>1. PICK ok \in BOOLEAN : result' = [result EXCEPT ![a] = ok] /\ up' = (up \/ ok)
    BY <1>4 DEF Registry!StartApp
  <2>2. /\ pc' \in [Admin -> {"idle", "read", "wire", "start", "write"}] /\ pc'[a] = "write"
        /\ \A b \in Admin : b # a => pc'[b] = pc[b]
        /\ pc[a] = "start" /\ status' = status
    BY <1>4 DEF RegType, Registry!StartApp
  <2>3. result' \in [Admin -> BOOLEAN] /\ result'[a] = ok /\ up' \in BOOLEAN
    BY <2>1 DEF RegType
  <2>4. RegType'
    BY <1>1, <2>2, <2>3 DEF RegType
  <2>5. ASSUME ~overlap PROVE Truthful'
    <3>1. ~up /\ status \in {"stopped", "failed"}
      BY <1>2, <2>2, <2>5 DEF Starting
    <3>2. up' <=> result'[a]
      BY <2>1, <2>3, <3>1
    <3>3. serving = {}
      BY <2>5, <3>1 DEF Truthful
    <3>4. Starting(a)'
      BY <2>2, <3>1, <3>2 DEF Starting
    <3>5. (Registry!InStart(a))' /\ \A b \in Admin : b # a => ~(Registry!InStart(b))'
      BY <1>2, <2>2, <2>5 DEF Registry!InStart
    <3> QED BY <1>1, <3>3, <3>4, <3>5 DEF Truthful
  <2> QED BY <1>1, <2>4, <2>5
<1>5. CASE Registry!WriteSlot(a)
  <2>1. /\ pc' \in [Admin -> {"idle", "read", "wire", "start", "write"}] /\ pc'[a] = "idle"
        /\ \A b \in Admin : b # a => pc'[b] = pc[b]
        /\ pc[a] = "write" /\ up' = up
        /\ result' \in [Admin -> BOOLEAN]
        /\ status' = IF status = "gone" THEN "gone" ELSE IF result[a] THEN "running" ELSE "failed"
    BY <1>5 DEF RegType, Registry!WriteSlot, Registry!Returns
  <2>2. RegType'
    BY <1>1, <2>1 DEF RegType
  <2>3. ASSUME ~overlap PROVE Truthful'
    <3>1. (up <=> result[a]) /\ status # "gone"
      BY <1>2, <2>1, <2>3 DEF Starting
    <3>2. status' = "running" <=> up'
      BY <2>1, <3>1
    <3>3. \A b \in Admin : ~(Registry!InStart(b))'
      BY <1>2, <2>1, <2>3 DEF Registry!InStart
    <3>4. serving' # {} => up'
      BY <1>1, <2>1, <2>3 DEF Truthful
    <3> QED BY <3>2, <3>3, <3>4 DEF Truthful
  <2> QED BY <1>1, <2>2, <2>3
<1> QED BY <1>3, <1>4, <1>5

(* stop_all clears the slots.                                               *)
LEMMA EndKeepsTruth ==
    ASSUME RegInv, Registry!stop_all
    PROVE  RegInv'
<1> USE DEF RegInv
<1>1. /\ serving = {} /\ UNCHANGED <<serving, pc, result>> /\ status' = "gone"
      /\ up' = (up /\ status # "running")
      /\ overlap' = (overlap \/ \E a \in Admin : Registry!InStart(a))
  BY DEF Registry!stop_all, Registry!WriteLock
<1>2. RegType'
  BY <1>1 DEF RegType
<1>3. ASSUME ~overlap' PROVE Truthful'
  <2>1. Truthful /\ \A a \in Admin : ~Registry!InStart(a)
    BY <1>1, <1>3 DEF RegType
  <2>2. \A a \in Admin : ~(Registry!InStart(a))'
    BY <1>1, <2>1 DEF Registry!InStart
  <2>3. ~up'
    BY <1>1, <2>1 DEF Truthful
  <2> QED BY <1>1, <2>2, <2>3 DEF Truthful
<1> QED BY <1>2, <1>3

(* A request of route_http enters an app whose slot says running.           *)
LEMMA RouteKeepsTruth ==
    ASSUME RegInv, NEW a \in Admin, Registry!RouteBegin(a) \/ Registry!RouteEnd(a)
    PROVE  RegInv'
<1> USE DEF RegInv
<1>1. /\ UNCHANGED <<status, up, pc, result, overlap>>
      /\ serving' # {} => serving # {} \/ status = "running"
  BY DEF Registry!RouteBegin, Registry!RouteEnd
<1>2. RegType'
  BY <1>1 DEF RegType
<1>3. ASSUME Truthful PROVE Truthful'
  <2>1. status = "running" => up
    BY <1>3 DEF Truthful, Starting
  <2> QED BY <1>1, <1>3, <2>1 DEF Truthful, Starting, Registry!InStart
<1> QED BY <1>1, <1>2, <1>3

(* Every step keeps the invariant of the registry.                          *)
LEMMA RegStep == RegInv /\ [Registry!Next]_Registry!vars => RegInv'
<1> SUFFICES ASSUME RegInv, [Registry!Next]_Registry!vars PROVE RegInv'
  OBVIOUS
<1>1. ASSUME UNCHANGED <<status, up, pc, result, overlap, serving>> PROVE RegInv'
  BY <1>1 DEF RegInv, RegType, Truthful, Starting, Registry!InStart
<1>2. ASSUME NEW a \in Admin, Registry!update_config(a) PROVE RegInv'
  BY <1>1, <1>2 DEF Registry!update_config
<1>3. ASSUME NEW g \in Registry!Chan, NEW w \in Worker, Registry!WorkerEnds(g, w) PROVE RegInv'
  BY <1>1, <1>3 DEF Registry!WorkerEnds
<1>4. ASSUME UNCHANGED Registry!vars PROVE RegInv'
  BY <1>1, <1>4 DEF Registry!vars
<1>5. ASSUME NEW a \in Admin, Registry!Stop(a) \/ Registry!Restart(a) PROVE RegInv'
  BY <1>5, StopKeepsTruth DEF Registry!Stop, Registry!Restart
<1> QED
  BY <1>2, <1>3, <1>4, <1>5, ReadKeepsTruth, StartKeepsTruth, EndKeepsTruth, RouteKeepsTruth
  DEF Registry!Next

(* For any number of requests to start, stop, restart and configure an app  *)
(* at once: as long as no start overlaps another start or a stop, the       *)
(* status in the slot is the truth between requests, and route_http lets    *)
(* nobody into an app that is not started (registry.rs).                    *)
THEOREM StatusStaysTrue == Registry!Spec => []StatusIsTrue
<1>1. Registry!Init => RegInv
  BY DEF Registry!Init, RegInv, RegType, Truthful, Registry!InStart
<1>2. RegInv => StatusIsTrue
  BY DEF RegInv, Truthful, StatusIsTrue, Registry!StatusIsTrue, Registry!Busy, Registry!InStart
<1> QED
  BY <1>1, <1>2, RegStep, PTL DEF Registry!Spec
=============================================================================
