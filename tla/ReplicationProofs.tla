------------------------- MODULE ReplicationProofs -------------------------
(* Proofs about Replication: what happens to a file, for any clients and    *)
(* however many user actions and lost connections.  MCSync instantiates it  *)
(* as Files, with changes that do not overlap.                              *)
EXTENDS MCSync, SequenceTheorems, TLAPS

-----------------------------------------------------------------------------
(* The values of the model.                                                 *)

(* The ledger of the one path: its tombstone and its live record.           *)
DeadAt(l) == l.entries[Files!File]
LiveAt(l) == l.alive[Files!File]

(* Ledgers, and below what is on a disk, nodes and messages.                *)
LedgerT == [entries : [Files!Path -> Int], alive : [Files!Path -> Nat]]

(* A tombstone is newer than the live record.                               *)
WellFormed(l) ==
    l \in LedgerT /\ DeadAt(l) >= -1 /\ (DeadAt(l) = -1 \/ DeadAt(l) > LiveAt(l))

FileT == {Files!NoFile} \cup [v : Nat \ {0}, m : Nat \ {0}]

NodeT == [disk : FileT, mani : FileT, ledger : LedgerT, prev : FileT, saved : SUBSET Nat]

(* A node whose stamps are not of the future.                               *)
NodeOK(nd, u) ==
    /\ nd \in NodeT
    /\ WellFormed(nd.ledger)
    /\ LiveAt(nd.ledger) <= u /\ DeadAt(nd.ledger) <= u
    /\ nd.disk.m <= u /\ nd.mani.m <= u

MsgT == [op : {"file"}, v : Nat \ {0}, m : Nat \ {0}, at : Nat]
           \cup [op : {"delete"}, v : {0}, m : {0}, at : Nat \ {0}]

(* A message has a stamp, which is at least the mtime of the file.          *)
MsgOK(msg, u) == msg \in MsgT /\ msg.m <= msg.at /\ msg.at <= u

(* One message, or two, wait.                                               *)
OneMsg(q, u) == Len(q) = 1 /\ q = <<q[1]>> /\ MsgOK(q[1], u)
TwoMsgs(q, u) == Len(q) = 2 /\ q = <<q[1], q[2]>> /\ MsgOK(q[1], u) /\ MsgOK(q[2], u)

-----------------------------------------------------------------------------
(* The ledger of one path is its two stamps.                                *)
LEMMA LedgerEq ==
    ASSUME NEW l \in LedgerT, NEW k \in LedgerT, DeadAt(l) = DeadAt(k), LiveAt(l) = LiveAt(k)
    PROVE  l = k
<1>1. l.entries = k.entries /\ l.alive = k.alive
  BY DEF LedgerT, DeadAt, LiveAt, Files!Path
<1> QED BY <1>1 DEF LedgerT

(* record_alive raises the live record and ends the tombstones it outlives. *)
LEMMA RecordAlive ==
    ASSUME NEW l, WellFormed(l), NEW a \in Nat, a > 0
    PROVE  LET r == Files!L!record_alive(l, Files!File, a)
           IN  /\ WellFormed(r)
               /\ LiveAt(r) = IF LiveAt(l) >= a THEN LiveAt(l) ELSE a
               /\ DeadAt(r) = IF DeadAt(l) <= a THEN -1 ELSE DeadAt(l)
BY DEF WellFormed, LedgerT, DeadAt, LiveAt, Files!L!record_alive, Files!L!MaxOf, Files!L!NoStamp,
       Files!Path

(* record keeps the newer tombstone, and none that is superseded.           *)
LEMMA RecordDead ==
    ASSUME NEW l, WellFormed(l), NEW d \in Nat, d > 0
    PROVE  LET r == Files!L!record(l, Files!File, d)
           IN  /\ WellFormed(r)
               /\ LiveAt(r) = LiveAt(l)
               /\ d <= LiveAt(l) => r = l
               /\ d > LiveAt(l) => DeadAt(r) = IF DeadAt(l) >= d THEN DeadAt(l) ELSE d
BY DEF WellFormed, LedgerT, DeadAt, LiveAt, Files!L!record, Files!L!is_superseded, Files!Path

(* A write is vetoed by a newer tombstone.                                  *)
LEMMA Vetoed ==
    ASSUME NEW l, WellFormed(l), NEW at \in Nat, NEW m
    PROVE  Files!L!veto_for(l, Files!File, at, m) <=> DeadAt(l) > at
<1> DEFINE a == Files!L!Applicable(l, Files!File)
<1>1. Files!Ancestors[Files!File] = <<Files!File>>
  BY DEF Files!Ancestors, Files!Path
<1>2. CASE DeadAt(l) = -1
  <2>1. a = {}
    BY <1>1, <1>2 DEF Files!L!Applicable, DeadAt, Files!L!NoStamp
  <2> QED BY <2>1, <1>2 DEF Files!L!veto_for, Files!L!covering_tombstone, Files!L!Comparand, Files!L!NoStamp
<1>3. CASE DeadAt(l) # -1
  <2>1. a = {1}
    <3>1. DeadAt(l) > LiveAt(l) /\ DeadAt(l) \in Int /\ LiveAt(l) \in Nat
      BY <1>3 DEF WellFormed, LedgerT, DeadAt, LiveAt, Files!Path
    <3> QED BY <1>1, <1>3, <3>1 DEF Files!L!Applicable, DeadAt, LiveAt, Files!L!NoStamp
  <2>2. (CHOOSE i \in a : \A j \in a : i <= j) = 1
    BY <2>1
  <2>3. Files!L!covering_tombstone(l, Files!File) = DeadAt(l)
    BY <1>1, <2>1, <2>2 DEF Files!L!covering_tombstone, DeadAt
  <2> QED BY <2>3 DEF Files!L!veto_for, Files!L!Comparand, Files!L!NoStamp
<1> QED BY <1>2, <1>3

(* A write that is admitted leaves a live record and no tombstone.          *)
LEMMA Admitted ==
    ASSUME NEW l, WellFormed(l), NEW at \in Nat, NEW m, DeadAt(l) <= at
    PROVE  LET r == Files!L!admit_record(l, Files!File, at, m)
           IN  /\ WellFormed(r)
               /\ LiveAt(r) = IF LiveAt(l) >= at THEN LiveAt(l) ELSE at
               /\ DeadAt(r) = -1
<1>0. LiveAt(l) \in Nat /\ DeadAt(l) \in Int
  BY DEF WellFormed, LedgerT, DeadAt, LiveAt, Files!Path
<1>1. at # Files!L!NoStamp
  BY DEF Files!L!NoStamp
<1>2. CASE Files!L!alive_record_needed(l, Files!File, at)
  <2>1. at > 0
    BY <1>2 DEF Files!L!alive_record_needed
  <2> QED BY <1>0, <1>1, <1>2, <2>1, RecordAlive DEF Files!L!admit_record
<1>3. CASE ~Files!L!alive_record_needed(l, Files!File, at)
  <2>1. DeadAt(l) = -1 /\ LiveAt(l) >= at
    BY <1>0, <1>3 DEF Files!L!alive_record_needed, WellFormed, DeadAt, LiveAt, Files!L!NoStamp
  <2> QED BY <1>0, <1>1, <1>3, <2>1 DEF Files!L!admit_record
<1> QED BY <1>2, <1>3

(* ... and an applied file is what the message says.                        *)
LEMMA ApplyFile ==
    ASSUME NEW u \in Nat, NEW nd, NodeOK(nd, u), NEW msg, MsgOK(msg, u), msg.op = "file"
    PROVE  LET r == Files!apply_msg(nd, msg)
           IN  /\ NodeOK(r, u)
               /\ DeadAt(nd.ledger) > msg.at => r = nd
               /\ DeadAt(nd.ledger) <= msg.at =>
                     /\ r.disk = [v |-> msg.v, m |-> msg.m] /\ r.mani = r.disk
                     /\ LiveAt(r.ledger) = IF LiveAt(nd.ledger) >= msg.at THEN LiveAt(nd.ledger) ELSE msg.at
                     /\ DeadAt(r.ledger) = -1
<1> DEFINE l == nd.ledger
           k == Files!L!admit_record(l, Files!File, msg.at, msg.m)
           f == [v |-> msg.v, m |-> msg.m]
           r == Files!apply_msg(nd, msg)
<1>1. /\ msg.at \in Nat /\ msg.v \in Nat \ {0} /\ msg.m \in Nat \ {0} /\ msg.m <= msg.at
      /\ msg.at <= u
  BY DEF MsgOK, MsgT
<1>2. WellFormed(l) /\ LiveAt(l) \in Nat /\ DeadAt(l) \in Int /\ LiveAt(l) <= u /\ nd \in NodeT
  BY DEF NodeOK, WellFormed, LedgerT, DeadAt, LiveAt, Files!Path
<1>3. r = Files!apply_bundle(nd, msg)
  BY DEF Files!apply_msg
<1>4. Files!L!veto_for(l, Files!File, msg.at, msg.m) <=> DeadAt(l) > msg.at
  BY <1>1, <1>2, Vetoed
<1>5. CASE DeadAt(l) > msg.at
  BY <1>1, <1>2, <1>3, <1>4, <1>5 DEF Files!apply_bundle
<1>6. CASE DeadAt(l) <= msg.at
  <2>1. /\ WellFormed(k) /\ DeadAt(k) = -1
        /\ LiveAt(k) = IF LiveAt(l) >= msg.at THEN LiveAt(l) ELSE msg.at
    BY <1>1, <1>2, <1>6, Admitted
  <2>2. ~Files!L!veto_for(l, Files!File, msg.at, msg.m)
    BY <1>1, <1>2, <1>4, <1>6
  <2> HIDE DEF k
  <2>3. PICK s : r = [nd EXCEPT !.ledger = k, !.saved = s, !.disk = f, !.mani = f]
                 /\ (s = nd.saved \/ s = nd.saved \cup {nd.disk.v})
    BY <1>3, <2>2 DEF Files!apply_bundle, k
  <2>4. r.ledger = k /\ r.disk = f /\ r.mani = f /\ r.saved = s /\ r.prev = nd.prev
    BY <2>3, <1>2 DEF NodeT
  <2>5. f \in FileT /\ s \in SUBSET Nat /\ f.m <= u
    BY <1>1, <1>2, <2>3 DEF FileT, NodeT, Files!NoFile
  <2>6. r \in NodeT
    BY <1>2, <2>1, <2>3, <2>5 DEF NodeT, WellFormed
  <2>7. LiveAt(k) <= u /\ DeadAt(k) <= u
    BY <1>1, <1>2, <2>1
  <2>8. NodeOK(r, u)
    BY <2>1, <2>4, <2>5, <2>6, <2>7 DEF NodeOK
  <2> QED BY <1>1, <1>2, <1>6, <2>1, <2>4, <2>8
<1> QED BY <1>1, <1>2, <1>5, <1>6

(* A tombstone is recorded, unless a live record is as new.                 *)
LEMMA Recorded ==
    ASSUME NEW u \in Nat, NEW nd, NodeOK(nd, u), NEW at \in Nat, at > 0, at <= u
    PROVE  LET q == Files!record(nd, at)
           IN  /\ NodeOK(q, u)
               /\ q.disk = nd.disk /\ q.mani = nd.mani
               /\ LiveAt(q.ledger) = LiveAt(nd.ledger)
               /\ at <= LiveAt(nd.ledger) => q.ledger = nd.ledger
               /\ at > LiveAt(nd.ledger) =>
                     DeadAt(q.ledger) = IF DeadAt(nd.ledger) >= at THEN DeadAt(nd.ledger) ELSE at
<1> DEFINE l == nd.ledger
           k == Files!L!record(l, Files!File, at)
           q == Files!record(nd, at)
<1>1. /\ WellFormed(l) /\ LiveAt(l) \in Nat /\ DeadAt(l) \in Int /\ LiveAt(l) <= u /\ DeadAt(l) <= u
      /\ nd \in NodeT /\ nd.disk.m <= u /\ nd.mani.m <= u
  BY DEF NodeOK, WellFormed, LedgerT, DeadAt, LiveAt, Files!Path
<1>2. /\ WellFormed(k) /\ LiveAt(k) = LiveAt(l)
      /\ at <= LiveAt(l) => k = l
      /\ at > LiveAt(l) => DeadAt(k) = IF DeadAt(l) >= at THEN DeadAt(l) ELSE at
  BY <1>1, RecordDead
<1> HIDE DEF k
<1>3. PICK p \in FileT : q = [nd EXCEPT !.ledger = k, !.prev = p]
  BY <1>1 DEF Files!record, k, NodeT
<1>4. q.ledger = k /\ q.disk = nd.disk /\ q.mani = nd.mani /\ q \in NodeT
  BY <1>1, <1>2, <1>3 DEF NodeT, WellFormed
<1> HIDE DEF q
<1>5. LiveAt(k) <= u /\ DeadAt(k) <= u
  BY <1>1, <1>2
<1>6. NodeOK(q, u)
  BY <1>1, <1>2, <1>4, <1>5 DEF NodeOK
<1> QED BY <1>2, <1>4, <1>6 DEF q

(* A delete no live record is as new as removes the file; another changes   *)
(* nothing.                                                                 *)
LEMMA ApplyDelete ==
    ASSUME NEW u \in Nat, NEW nd, NodeOK(nd, u), NEW at \in Nat, at > 0, at <= u
    PROVE  LET r == Files!apply_deletes(nd, at)
           IN  /\ NodeOK(r, u)
               /\ LiveAt(r.ledger) = LiveAt(nd.ledger)
               /\ at <= LiveAt(nd.ledger) =>
                     r.disk = nd.disk /\ r.mani = nd.mani /\ r.ledger = nd.ledger
               /\ at > LiveAt(nd.ledger) =>
                     /\ r.disk = Files!NoFile /\ r.mani = Files!NoFile
                     /\ DeadAt(r.ledger) = IF DeadAt(nd.ledger) >= at THEN DeadAt(nd.ledger) ELSE at
<1> DEFINE l == nd.ledger
           q == Files!record(nd, at)
           r == Files!apply_deletes(nd, at)
<1>1. LiveAt(l) \in Nat
  BY DEF NodeOK, WellFormed, LedgerT, LiveAt, Files!Path
<1>2. /\ NodeOK(q, u) /\ q.disk = nd.disk /\ q.mani = nd.mani
      /\ LiveAt(q.ledger) = LiveAt(l)
      /\ at <= LiveAt(l) => q.ledger = l
      /\ at > LiveAt(l) => DeadAt(q.ledger) = IF DeadAt(l) >= at THEN DeadAt(l) ELSE at
  BY Recorded
<1> HIDE DEF q
<1>3. CASE at <= LiveAt(l)
  <2>1. Files!alive(nd) > 0 /\ Files!alive(nd) >= at
    BY <1>1, <1>3 DEF Files!alive, LiveAt
  <2>2. r = q
    BY <2>1 DEF Files!apply_deletes, q
  <2> QED BY <1>1, <1>2, <1>3, <2>2
<1>4. CASE at > LiveAt(l)
  <2>1. ~(Files!alive(nd) > 0 /\ Files!alive(nd) >= at)
    BY <1>1, <1>4 DEF Files!alive, LiveAt
  <2>2. r = [q EXCEPT !.disk = Files!NoFile, !.mani = Files!NoFile]
    BY <2>1 DEF Files!apply_deletes, q
  <2>3. q \in NodeT
    BY <1>2 DEF NodeOK
  <2>4. r \in NodeT /\ r.ledger = q.ledger /\ r.disk = Files!NoFile /\ r.mani = Files!NoFile
    BY <2>2, <2>3 DEF NodeT, FileT
  <2>5. Files!NoFile.m <= u
    BY DEF Files!NoFile
  <2>6. NodeOK(r, u)
    BY <1>2, <2>4, <2>5 DEF NodeOK
  <2> QED BY <1>1, <1>2, <1>4, <2>4, <2>6
<1> QED BY <1>1, <1>3, <1>4

(* The node after its own tombstone has removed the file.                   *)
LEMMA Cleaned ==
    ASSUME NEW u \in Nat, NEW nd, NodeOK(nd, u), DeadAt(nd.ledger) # -1
    PROVE  LET r == Files!apply_deletes(nd, DeadAt(nd.ledger))
           IN  /\ NodeOK(r, u) /\ r.ledger = nd.ledger
               /\ r.disk = Files!NoFile /\ r.mani = Files!NoFile
<1> DEFINE d == DeadAt(nd.ledger)
           r == Files!apply_deletes(nd, d)
<1>1. d \in Nat /\ d > 0 /\ d <= u /\ d > LiveAt(nd.ledger) /\ LiveAt(nd.ledger) \in Nat
  BY DEF NodeOK, WellFormed, LedgerT, DeadAt, LiveAt, Files!Path
<1> HIDE DEF d
<1>2. /\ NodeOK(r, u) /\ r.disk = Files!NoFile /\ r.mani = Files!NoFile
      /\ LiveAt(r.ledger) = LiveAt(nd.ledger)
      /\ DeadAt(r.ledger) = IF DeadAt(nd.ledger) >= d THEN DeadAt(nd.ledger) ELSE d
  BY <1>1, ApplyDelete
<1>3. DeadAt(r.ledger) = DeadAt(nd.ledger)
  BY <1>1, <1>2 DEF d
<1> HIDE DEF r
<1>4. r.ledger = nd.ledger
  BY <1>2, <1>3, LedgerEq DEF NodeOK, WellFormed
<1> QED BY <1>2, <1>4 DEF d, r

-----------------------------------------------------------------------------
(* What relates a client to the server.                                     *)

(* The ledger k knows all that l knows.                                     *)
Upto(l, k) ==
    /\ LiveAt(l) <= LiveAt(k)
    /\ DeadAt(l) <= DeadAt(k) \/ DeadAt(l) <= LiveAt(k)

(* A file has a live record; on the server, also one the manifest lists,    *)
(* and the tombstone of a file that is there is gone.                       *)
Stamped(nd) == nd.disk # Files!NoFile => LiveAt(nd.ledger) >= nd.disk.m

SrvOK(nd) ==
    /\ nd.disk # Files!NoFile => LiveAt(nd.ledger) >= nd.disk.m /\ DeadAt(nd.ledger) = -1
    /\ nd.mani # Files!NoFile => LiveAt(nd.ledger) >= nd.mani.m

Same(nd, s) == nd.ledger = s.ledger
Scanned(nd) == nd.mani = nd.disk

(* A client agrees with the server: one ledger, and the same content unless *)
(* it missed a delete or a rescan will find the difference.                 *)
Agrees(nd, s) ==
    /\ nd.ledger = s.ledger
    /\ \/ nd.disk.v = s.disk.v
       \/ nd.disk # Files!NoFile /\ DeadAt(nd.ledger) # -1
       \/ Files!Differs(s) \/ Files!Differs(nd)

(* The parts of a node and their types.                                     *)
LEMMA NodeFacts ==
    ASSUME NEW u \in Nat, NEW nd, NodeOK(nd, u)
    PROVE  /\ LiveAt(nd.ledger) \in Nat /\ DeadAt(nd.ledger) \in Int /\ DeadAt(nd.ledger) >= -1
           /\ DeadAt(nd.ledger) # -1 => DeadAt(nd.ledger) > LiveAt(nd.ledger)
           /\ nd.disk \in FileT /\ nd.mani \in FileT /\ nd.prev \in FileT
           /\ LiveAt(nd.ledger) <= u /\ DeadAt(nd.ledger) <= u /\ nd.disk.m <= u /\ nd.mani.m <= u
           /\ nd.ledger \in LedgerT /\ WellFormed(nd.ledger)
BY DEF NodeOK, WellFormed, LedgerT, NodeT, DeadAt, LiveAt, Files!Path

(* A file has a version and an mtime; version 0 means there is none.        *)
LEMMA FileFacts ==
    ASSUME NEW f \in FileT
    PROVE  f.v \in Nat /\ f.m \in Nat /\ (f = Files!NoFile <=> f.v = 0) /\ (f # Files!NoFile => f.m > 0)
BY DEF FileT, Files!NoFile

(* Upto is transitive,                                                      *)
LEMMA UptoTrans ==
    ASSUME NEW a \in LedgerT, NEW b \in LedgerT, NEW c \in LedgerT, Upto(a, b), Upto(b, c)
    PROVE  Upto(a, c)
BY DEF Upto, LedgerT, LiveAt, DeadAt, Files!Path

(* and reflexive.                                                           *)
LEMMA UptoRefl == ASSUME NEW a \in LedgerT PROVE Upto(a, a)
BY DEF Upto, LedgerT, LiveAt, DeadAt, Files!Path

(* What a message does to the node it is applied to.                        *)
LEMMA Applied ==
    ASSUME NEW u \in Nat, NEW nd, NodeOK(nd, u), NEW msg, MsgOK(msg, u)
    PROVE  LET r == Files!apply_msg(nd, msg)
           IN  /\ NodeOK(r, u)
               /\ Upto(nd.ledger, r.ledger)
               /\ Stamped(nd) => Stamped(r)
               /\ SrvOK(nd) => SrvOK(r)
<1> DEFINE r == Files!apply_msg(nd, msg)
<1>1. CASE msg.op = "file"
  <2>1. /\ NodeOK(r, u)
        /\ DeadAt(nd.ledger) > msg.at => r = nd
        /\ DeadAt(nd.ledger) <= msg.at =>
              /\ r.disk = [v |-> msg.v, m |-> msg.m] /\ r.mani = r.disk
              /\ LiveAt(r.ledger) = IF LiveAt(nd.ledger) >= msg.at THEN LiveAt(nd.ledger) ELSE msg.at
              /\ DeadAt(r.ledger) = -1
    BY <1>1, ApplyFile
  <2>2. msg.at \in Nat /\ msg.m \in Nat /\ msg.m <= msg.at
    BY <1>1 DEF MsgOK, MsgT
  <2> HIDE DEF r
  <2>3. CASE DeadAt(nd.ledger) > msg.at
    BY <2>1, <2>3, NodeFacts, UptoRefl DEF r
  <2>4. CASE DeadAt(nd.ledger) <= msg.at
    <3>1. r.disk.m = msg.m /\ r.mani.m = msg.m
      BY <2>1, <2>4
    <3>2. LiveAt(r.ledger) >= msg.at /\ LiveAt(r.ledger) >= LiveAt(nd.ledger) /\ LiveAt(r.ledger) \in Nat
      BY <2>1, <2>2, <2>4, NodeFacts
    <3>3. LiveAt(r.ledger) >= msg.m
      BY <2>2, <3>2
    <3>4. Upto(nd.ledger, r.ledger)
      BY <2>1, <2>2, <2>4, <3>2, NodeFacts DEF Upto
    <3> QED BY <2>1, <2>4, <3>1, <3>3, <3>4 DEF Stamped, SrvOK, r
  <2> QED BY <2>2, <2>3, <2>4, NodeFacts
<1>2. CASE msg.op = "delete"
  <2>0. msg.at \in Nat /\ msg.at > 0 /\ msg.at <= u
    BY <1>2 DEF MsgOK, MsgT
  <2>1. r = Files!apply_deletes(nd, msg.at)
    BY <1>2 DEF Files!apply_msg
  <2>2. /\ NodeOK(r, u)
        /\ LiveAt(r.ledger) = LiveAt(nd.ledger)
        /\ msg.at <= LiveAt(nd.ledger) =>
              r.disk = nd.disk /\ r.mani = nd.mani /\ r.ledger = nd.ledger
        /\ msg.at > LiveAt(nd.ledger) =>
              /\ r.disk = Files!NoFile /\ r.mani = Files!NoFile
              /\ DeadAt(r.ledger) = IF DeadAt(nd.ledger) >= msg.at THEN DeadAt(nd.ledger) ELSE msg.at
    BY <2>0, <2>1, ApplyDelete
  <2> HIDE DEF r
  <2>3. CASE msg.at <= LiveAt(nd.ledger)
    BY <2>2, <2>3, NodeFacts, UptoRefl DEF Stamped, SrvOK, r
  <2>4. CASE msg.at > LiveAt(nd.ledger)
    <3>1. Upto(nd.ledger, r.ledger)
      BY <2>0, <2>2, <2>4, NodeFacts DEF Upto
    <3> QED BY <2>2, <2>4, <3>1 DEF Stamped, SrvOK, r
  <2> QED BY <2>0, <2>3, <2>4, NodeFacts
<1> QED BY <1>1, <1>2 DEF MsgOK, MsgT

(* A message keeps two equal ledgers equal, and leaves client and server    *)
(* with the same content, or as they were.                                  *)
LEMMA SameStep ==
    ASSUME NEW u \in Nat, NEW nd, NodeOK(nd, u), NEW s, NodeOK(s, u), NEW msg, MsgOK(msg, u),
           nd.ledger = s.ledger
    PROVE  LET r == Files!apply_msg(nd, msg)
               k == Files!apply_msg(s, msg)
           IN  /\ r.ledger = k.ledger
               /\ Agrees(nd, s) => Agrees(r, k)
<1> DEFINE r == Files!apply_msg(nd, msg)
           k == Files!apply_msg(s, msg)
<1>0. NodeOK(r, u) /\ NodeOK(k, u)
  BY Applied
<1>1. CASE msg.op = "file"
  <2>1. /\ DeadAt(nd.ledger) > msg.at => r = nd
        /\ DeadAt(nd.ledger) <= msg.at =>
              /\ r.disk = [v |-> msg.v, m |-> msg.m]
              /\ LiveAt(r.ledger) = IF LiveAt(nd.ledger) >= msg.at THEN LiveAt(nd.ledger) ELSE msg.at
              /\ DeadAt(r.ledger) = -1
    BY <1>1, ApplyFile
  <2>2. /\ DeadAt(s.ledger) > msg.at => k = s
        /\ DeadAt(s.ledger) <= msg.at =>
              /\ k.disk = [v |-> msg.v, m |-> msg.m]
              /\ LiveAt(k.ledger) = IF LiveAt(s.ledger) >= msg.at THEN LiveAt(s.ledger) ELSE msg.at
              /\ DeadAt(k.ledger) = -1
    BY <1>1, ApplyFile
  <2>3. msg.at \in Nat
    BY <1>1 DEF MsgOK, MsgT
  <2> HIDE DEF r, k
  <2>4. CASE DeadAt(nd.ledger) > msg.at
    BY <2>1, <2>2, <2>4 DEF r, k
  <2>5. CASE DeadAt(nd.ledger) <= msg.at
    <3>1. r.ledger = k.ledger
      BY <1>0, <2>1, <2>2, <2>5, LedgerEq, NodeFacts
    <3>2. r.disk.v = k.disk.v
      BY <2>1, <2>2, <2>5
    <3> QED BY <3>1, <3>2 DEF Agrees, r, k
  <2> QED BY <2>3, <2>4, <2>5, NodeFacts
<1>2. CASE msg.op = "delete"
  <2>0. msg.at \in Nat /\ msg.at > 0 /\ msg.at <= u
    BY <1>2 DEF MsgOK, MsgT
  <2>1. r = Files!apply_deletes(nd, msg.at) /\ k = Files!apply_deletes(s, msg.at)
    BY <1>2 DEF Files!apply_msg
  <2>2. /\ LiveAt(r.ledger) = LiveAt(nd.ledger)
        /\ msg.at <= LiveAt(nd.ledger) =>
              r.disk = nd.disk /\ r.mani = nd.mani /\ r.ledger = nd.ledger
        /\ msg.at > LiveAt(nd.ledger) =>
              /\ r.disk = Files!NoFile
              /\ DeadAt(r.ledger) = IF DeadAt(nd.ledger) >= msg.at THEN DeadAt(nd.ledger) ELSE msg.at
    BY <2>0, <2>1, ApplyDelete
  <2>3. /\ LiveAt(k.ledger) = LiveAt(s.ledger)
        /\ msg.at <= LiveAt(s.ledger) =>
              k.disk = s.disk /\ k.mani = s.mani /\ k.ledger = s.ledger
        /\ msg.at > LiveAt(s.ledger) =>
              /\ k.disk = Files!NoFile
              /\ DeadAt(k.ledger) = IF DeadAt(s.ledger) >= msg.at THEN DeadAt(s.ledger) ELSE msg.at
    BY <2>0, <2>1, ApplyDelete
  <2> HIDE DEF r, k
  <2>4. CASE msg.at <= LiveAt(nd.ledger)
    <3>1. /\ r.disk = nd.disk /\ r.mani = nd.mani /\ r.ledger = nd.ledger
          /\ k.disk = s.disk /\ k.mani = s.mani /\ k.ledger = s.ledger
      BY <2>2, <2>3, <2>4
    <3> QED BY <3>1 DEF Agrees, Files!Differs, r, k
  <2>5. CASE msg.at > LiveAt(nd.ledger)
    <3>1. DeadAt(r.ledger) = DeadAt(k.ledger) /\ LiveAt(r.ledger) = LiveAt(k.ledger)
      BY <2>2, <2>3, <2>5
    <3>2. r.ledger = k.ledger
      BY <1>0, <3>1, LedgerEq, NodeFacts
    <3>3. r.disk.v = k.disk.v
      BY <2>2, <2>3, <2>5
    <3> QED BY <3>2, <3>3 DEF Agrees, r, k
  <2> QED BY <2>0, <2>4, <2>5, NodeFacts
<1> QED BY <1>1, <1>2 DEF MsgOK, MsgT

(* A ledger that knows less becomes the other by a merge, which adds        *)
(* nothing to the other.                                                    *)
LEMMA Merged ==
    ASSUME NEW l, NEW k, WellFormed(l), WellFormed(k), Upto(l, k)
    PROVE  Files!L!merge_ledger(l, k) = k
<1> DEFINE a == Files!L!merge_alive(l, k.alive)
           r == Files!L!merge_remote(a, k.entries)
<1>0. /\ LiveAt(l) \in Nat /\ DeadAt(l) \in Int /\ LiveAt(k) \in Nat /\ DeadAt(k) \in Int
      /\ DeadAt(l) >= -1 /\ DeadAt(k) >= -1 /\ LiveAt(l) <= LiveAt(k)
      /\ DeadAt(k) = -1 \/ DeadAt(k) > LiveAt(k)
      /\ DeadAt(l) = -1 \/ DeadAt(l) > LiveAt(l)
      /\ DeadAt(l) <= DeadAt(k) \/ DeadAt(l) <= LiveAt(k)
      /\ l \in LedgerT /\ k \in LedgerT
  BY DEF WellFormed, LedgerT, DeadAt, LiveAt, Files!Path, Upto
<1>1. /\ a \in LedgerT /\ LiveAt(a) = LiveAt(k)
      /\ DeadAt(a) = IF LiveAt(k) > 0 /\ DeadAt(l) <= LiveAt(k) THEN -1 ELSE DeadAt(l)
  BY <1>0 DEF LedgerT, DeadAt, LiveAt, Files!Path, Files!L!merge_alive, Files!L!MaxOf, Files!L!NoStamp
<1> HIDE DEF a
<1>2. /\ r \in LedgerT /\ LiveAt(r) = LiveAt(a)
      /\ DeadAt(r) = IF DeadAt(k) = -1 \/ (LiveAt(a) > 0 /\ DeadAt(k) <= LiveAt(a)) \/ DeadAt(a) >= DeadAt(k)
                     THEN DeadAt(a) ELSE DeadAt(k)
  BY <1>0, <1>1 DEF LedgerT, DeadAt, LiveAt, Files!Path, Files!L!merge_remote, Files!L!is_superseded, Files!L!NoStamp
<1> HIDE DEF r
<1>3. LiveAt(r) = LiveAt(k) /\ DeadAt(r) = DeadAt(k)
  BY <1>0, <1>1, <1>2
<1>4. r = k
  BY <1>0, <1>2, <1>3, LedgerEq
<1> QED BY <1>4 DEF Files!L!merge_ledger, a, r

-----------------------------------------------------------------------------
(* The initial sync.                                                        *)

(* A file older than its tombstone is vetoed, or sent for the other side to *)
(* veto; without a tombstone it is sent.                                    *)
LEMMA Filtered ==
    ASSUME NEW u \in Nat, NEW nd, NodeOK(nd, u), NEW f \in FileT, f.m <= LiveAt(nd.ledger)
    PROVE  /\ DeadAt(nd.ledger) = -1 => Files!filter_resurrected(nd, f) = "send"
           /\ Files!filter_resurrected(nd, f) \in {"send", "veto"}
<1>1. f.m \in Nat
  BY FileFacts
<1>2. Files!tombstone(nd) = DeadAt(nd.ledger)
  BY DEF Files!tombstone, DeadAt
<1>3. DeadAt(nd.ledger) # -1 => ~(f.m > DeadAt(nd.ledger))
  <2>1. /\ DeadAt(nd.ledger) \in Int /\ LiveAt(nd.ledger) \in Nat
        /\ DeadAt(nd.ledger) # -1 => DeadAt(nd.ledger) > LiveAt(nd.ledger)
    BY NodeFacts
  <2> QED BY <1>1, <2>1
<1> QED BY <1>2, <1>3 DEF Files!filter_resurrected, Files!L!NoStamp

(* The three ways one side's part goes: first, a push with nothing after   *)
(* it.                                                                      *)
LEMMA PushAlone ==
    ASSUME NEW nd, NEW g, NEW d
    PROVE  LET p == Files!compute_deletes_to_push(nd, g, d) IN p \o <<>> = p
<1>1. <<Files!DeleteMsg(d)>> \o <<>> = <<Files!DeleteMsg(d)>> /\ <<>> \o <<>> = <<>>
  OBVIOUS
<1> QED BY <1>1 DEF Files!compute_deletes_to_push

(* Nothing is on the send list: the phase changes nothing and only tells    *)
(* of a delete (compute_deletes_to_push).                                   *)
LEMMA PhaseIdle ==
    ASSUME NEW nd, NEW f, NEW g, NEW b \in BOOLEAN, ~Files!compute_send_list(f, g, b)
    PROVE  LET s == Files!SyncPhase(nd, f, g, b)
           IN  /\ s.node = nd
               /\ s.send = Files!compute_deletes_to_push(nd, g, DeadAt(nd.ledger))
<1> DEFINE s == Files!SyncPhase(nd, f, g, b)
<1>1. s.node = nd /\ s.send = Files!compute_deletes_to_push(nd, g, DeadAt(nd.ledger)) \o <<>>
  BY DEF Files!SyncPhase, Files!tombstone, DeadAt
<1> HIDE DEF s
<1>2. s.send = Files!compute_deletes_to_push(nd, g, DeadAt(nd.ledger))
  BY <1>1, PushAlone
<1> QED BY <1>1, <1>2 DEF s

(* The file is on the send list and no tombstone forbids it: it is          *)
(* streamed with the stamp wire_action_stamp gives it.                      *)
LEMMA PhaseSend ==
    ASSUME NEW nd, NEW f, NEW g, NEW b \in BOOLEAN, Files!compute_send_list(f, g, b),
           Files!filter_resurrected(nd, f) = "send"
    PROVE  LET s == Files!SyncPhase(nd, f, g, b)
           IN  /\ s.node = nd
               /\ s.send = Files!compute_deletes_to_push(nd, g, DeadAt(nd.ledger))
                              \o Files!stream(nd, Files!wire_action_stamp(nd))
BY DEF Files!SyncPhase, Files!tombstone, DeadAt

(* A tombstone forbids the file on the send list: it is deleted here, and   *)
(* the delete told to the peer that lists it.                               *)
LEMMA PhaseVeto ==
    ASSUME NEW nd, NEW f, NEW g, NEW b \in BOOLEAN, Files!compute_send_list(f, g, b),
           Files!filter_resurrected(nd, f) = "veto"
    PROVE  LET s == Files!SyncPhase(nd, f, g, b)
               r == Files!apply_deletes(nd, DeadAt(nd.ledger))
           IN  /\ s.node = r
               /\ s.send = Files!compute_deletes_to_push(r, g, DeadAt(nd.ledger))
<1> DEFINE s == Files!SyncPhase(nd, f, g, b)
           r == Files!apply_deletes(nd, DeadAt(nd.ledger))
<1>1. s.node = r /\ s.send = Files!compute_deletes_to_push(r, g, DeadAt(nd.ledger)) \o <<>>
  BY DEF Files!SyncPhase, Files!tombstone, DeadAt
<1> HIDE DEF s, r
<1>2. s.send = Files!compute_deletes_to_push(r, g, DeadAt(nd.ledger))
  BY <1>1, PushAlone
<1> QED BY <1>1, <1>2 DEF s, r

(* What is streamed carries the live record of the file.                    *)
LEMMA Streamed ==
    ASSUME NEW u \in Nat, NEW nd, NodeOK(nd, u), Stamped(nd)
    PROVE  /\ nd.disk = Files!NoFile => Files!stream(nd, Files!wire_action_stamp(nd)) = <<>>
           /\ nd.disk # Files!NoFile =>
                 LET msg == Files!FileMsg(nd.disk, LiveAt(nd.ledger))
                 IN  /\ Files!stream(nd, Files!wire_action_stamp(nd)) = <<msg>>
                     /\ MsgOK(msg, u)
<1>1. CASE nd.disk = Files!NoFile
  BY <1>1 DEF Files!stream
<1>2. CASE nd.disk # Files!NoFile
  <2>1. /\ nd.disk.m \in Nat /\ nd.disk.m > 0 /\ LiveAt(nd.ledger) >= nd.disk.m
        /\ LiveAt(nd.ledger) \in Nat /\ LiveAt(nd.ledger) <= u /\ nd.disk.v \in Nat /\ nd.disk.v # 0
    BY <1>2, NodeFacts, FileFacts DEF Stamped
  <2>2. Files!wire_action_stamp(nd) = LiveAt(nd.ledger)
    BY <2>1 DEF Files!wire_action_stamp, Files!alive, LiveAt, Files!L!MaxOf
  <2>3. MsgOK(Files!FileMsg(nd.disk, LiveAt(nd.ledger)), u)
    BY <2>1 DEF MsgOK, MsgT, Files!FileMsg
  <2> QED BY <1>2, <2>2, <2>3 DEF Files!stream
<1> QED BY <1>1, <1>2

(* The push of a delete.                                                    *)
LEMMA PushedDelete ==
    ASSUME NEW u \in Nat, NEW nd, NodeOK(nd, u), NEW g \in FileT, g.m <= LiveAt(nd.ledger)
    PROVE  LET d == DeadAt(nd.ledger)
               p == Files!compute_deletes_to_push(nd, g, d)
           IN  IF d # -1 /\ nd.mani = Files!NoFile /\ g # Files!NoFile
               THEN p = <<Files!DeleteMsg(d)>> /\ MsgOK(Files!DeleteMsg(d), u)
               ELSE p = <<>>
<1> DEFINE d == DeadAt(nd.ledger)
<1>1. g.m \in Nat /\ d \in Int /\ d <= u
  BY FileFacts, NodeFacts
<1>2. CASE d # -1
  <2>1. d > g.m /\ d > 0
    BY <1>1, <1>2, NodeFacts
  <2>2. MsgOK(Files!DeleteMsg(d), u)
    BY <1>1, <2>1 DEF MsgOK, MsgT, Files!DeleteMsg
  <2> QED BY <1>2, <2>1, <2>2 DEF Files!compute_deletes_to_push, Files!L!NoStamp
<1>3. CASE d = -1
  BY <1>3 DEF Files!compute_deletes_to_push, Files!L!NoStamp
<1> QED BY <1>2, <1>3

(* The end of the initial sync, once the client has what the server sent.   *)
SyncDone(nd, f, g, s, u) ==
    LET p == Files!SyncPhase(nd, f, g, FALSE)
        k == Files!ApplyAll(s, p.send)
    IN  /\ NodeOK(p.node, u) /\ Stamped(p.node)
        /\ p.send = <<>> \/ OneMsg(p.send, u)
        /\ k.ledger = s.ledger
        /\ Agrees(p.node, k)

(* A message alone in its queue,                                            *)
LEMMA MadeOne ==
    ASSUME NEW u, NEW msg, MsgOK(msg, u)
    PROVE  OneMsg(<<msg>>, u)
<1>1. Len(<<msg>>) = 1 /\ <<msg>>[1] = msg
  OBVIOUS
<1> QED BY <1>1 DEF OneMsg

(* and what becomes of a node that applies it.                              *)
LEMMA SingleMessage ==
    ASSUME NEW s, NEW msg
    PROVE  /\ Files!ApplyAll(s, <<>>) = s
           /\ Files!ApplyAll(s, <<msg>>) = Files!apply_msg(s, msg)
<1>1. <<msg>> # <<>> /\ Len(<<msg>>) = 1 /\ <<msg>>[1] = msg
  OBVIOUS
<1> QED BY <1>1 DEF Files!ApplyAll

(* ... when it has nothing to send.                                         *)
LEMMA DoneIdle ==
    ASSUME NEW u \in Nat, NEW nd, NodeOK(nd, u), Stamped(nd), NEW s, NodeOK(s, u),
           SrvOK(s), Agrees(nd, s),
           NEW f, NEW g \in FileT, g.m <= LiveAt(s.ledger),
           ~Files!compute_send_list(f, g, FALSE),
           DeadAt(s.ledger) # -1 /\ nd.mani = Files!NoFile /\ g # Files!NoFile => nd.disk = Files!NoFile
    PROVE  SyncDone(nd, f, g, s, u)
<1> DEFINE d == DeadAt(nd.ledger)
           msg == Files!DeleteMsg(d)
           p == Files!SyncPhase(nd, f, g, FALSE)
<1>0. g.m <= LiveAt(nd.ledger) /\ d = DeadAt(s.ledger)
  BY DEF Agrees
<1>1. p.node = nd /\ p.send = Files!compute_deletes_to_push(nd, g, d)
  BY PhaseIdle
<1>2. IF d # -1 /\ nd.mani = Files!NoFile /\ g # Files!NoFile
      THEN Files!compute_deletes_to_push(nd, g, d) = <<msg>> /\ MsgOK(msg, u)
      ELSE Files!compute_deletes_to_push(nd, g, d) = <<>>
  BY <1>0, PushedDelete
<1>4. CASE d # -1 /\ nd.mani = Files!NoFile /\ g # Files!NoFile
  <2>1. p.send = <<msg>> /\ MsgOK(msg, u) /\ msg.op = "delete" /\ msg.at = d
    BY <1>1, <1>2, <1>4 DEF Files!DeleteMsg
  <2> HIDE DEF p, msg
  <2>2. Files!ApplyAll(s, p.send) = Files!apply_deletes(s, DeadAt(s.ledger))
    BY <1>0, <2>1, SingleMessage DEF Files!apply_msg
  <2>3. DeadAt(s.ledger) # -1
    BY <1>0, <1>4
  <2> DEFINE k == Files!apply_deletes(s, DeadAt(s.ledger))
  <2>4. k.ledger = s.ledger /\ k.disk = Files!NoFile
    BY <2>3, Cleaned
  <2>5. nd.disk = Files!NoFile
    BY <1>4, <2>3
  <2> HIDE DEF k
  <2>6. Agrees(nd, k)
    BY <2>4, <2>5 DEF Agrees
  <2> QED BY <1>1, <2>1, <2>2, <2>4, <2>6, MadeOne DEF SyncDone, p, k
<1>5. CASE ~(d # -1 /\ nd.mani = Files!NoFile /\ g # Files!NoFile)
  <2>1. p.send = <<>>
    BY <1>1, <1>2, <1>5
  <2>2. Files!ApplyAll(s, p.send) = s
    BY <2>1, SingleMessage
  <2> QED BY <1>1, <2>1, <2>2, MadeOne DEF SyncDone
<1> QED BY <1>4, <1>5

(* ... when it offers its file.                                             *)
LEMMA DoneListed ==
    ASSUME NEW u \in Nat, NEW nd, NodeOK(nd, u), Stamped(nd), NEW s, NodeOK(s, u), SrvOK(s),
           Same(nd, s),
           nd.disk # Files!NoFile, Scanned(nd),
           NEW g \in FileT, g.m <= LiveAt(s.ledger),
           Files!compute_send_list(nd.disk, g, FALSE)
    PROVE  SyncDone(nd, nd.disk, g, s, u)
<1> DEFINE d == DeadAt(nd.ledger)
           f == nd.disk
           p == Files!SyncPhase(nd, f, g, FALSE)
           k == Files!ApplyAll(s, p.send)
           c == Files!apply_deletes(nd, d)
<1>0. /\ f \in FileT /\ f.m <= LiveAt(nd.ledger) /\ g.m <= LiveAt(nd.ledger)
      /\ LiveAt(s.ledger) \in Nat /\ d \in Int
  BY NodeFacts DEF Stamped, Same
<1>1. /\ d = -1 => Files!filter_resurrected(nd, f) = "send"
      /\ Files!filter_resurrected(nd, f) \in {"send", "veto"}
  BY <1>0, Filtered
<1>2. s.ledger = nd.ledger
  BY DEF Same
<1>3. CASE Files!filter_resurrected(nd, f) = "send"
  <2> DEFINE msg == Files!FileMsg(f, LiveAt(nd.ledger))
  <2>1. p.node = nd /\ p.send = Files!compute_deletes_to_push(nd, g, d)
                                   \o Files!stream(nd, Files!wire_action_stamp(nd))
    BY <1>3, PhaseSend
  <2>2. Files!compute_deletes_to_push(nd, g, d) = <<>>
    BY DEF Files!compute_deletes_to_push, Scanned
  <2>3. Files!stream(nd, Files!wire_action_stamp(nd)) = <<msg>> /\ MsgOK(msg, u)
    BY Streamed
  <2>4. msg.op = "file" /\ msg.at = LiveAt(nd.ledger) /\ msg.v = f.v
    BY DEF Files!FileMsg
  <2> HIDE DEF msg
  <2>5. <<>> \o <<msg>> = <<msg>>
    OBVIOUS
  <2>6. p.send = <<msg>>
    BY <2>1, <2>2, <2>3, <2>5
  <2> HIDE DEF p
  <2>7. k = Files!apply_msg(s, msg)
    BY <2>6, SingleMessage
  <2>8. NodeOK(k, u)
    BY <2>3, <2>7, Applied
  <2> HIDE DEF k
  <2>9. /\ DeadAt(s.ledger) > msg.at => k = s
        /\ DeadAt(s.ledger) <= msg.at =>
              /\ k.disk = [v |-> msg.v, m |-> msg.m]
              /\ LiveAt(k.ledger) = IF LiveAt(s.ledger) >= msg.at THEN LiveAt(s.ledger) ELSE msg.at
              /\ DeadAt(k.ledger) = -1
    BY <2>3, <2>4, <2>7, ApplyFile
  <2>10. CASE d # -1
    <3>1. DeadAt(s.ledger) > msg.at
      BY <1>2, <2>4, <2>10, NodeFacts
    <3>2. k = s
      BY <2>9, <3>1
    <3>3. Agrees(nd, k)
      BY <1>2, <2>10, <3>2 DEF Agrees
    <3> QED BY <2>1, <2>3, <2>6, <3>2, <3>3, MadeOne DEF SyncDone, p, k
  <2>11. CASE d = -1
    <3>1. DeadAt(s.ledger) <= msg.at /\ DeadAt(s.ledger) = -1
      BY <1>0, <1>2, <2>4, <2>11
    <3>2. LiveAt(k.ledger) = LiveAt(s.ledger) /\ DeadAt(k.ledger) = DeadAt(s.ledger)
      BY <1>0, <1>2, <2>4, <2>9, <3>1
    <3>3. k.ledger = s.ledger
      BY <2>8, <3>2, LedgerEq, NodeFacts
    <3>4. k.disk.v = nd.disk.v
      BY <2>4, <2>9, <3>1
    <3>5. Agrees(nd, k)
      BY <1>2, <3>3, <3>4 DEF Agrees
    <3> QED BY <2>1, <2>3, <2>6, <3>3, <3>5, MadeOne DEF SyncDone, p, k
  <2> QED BY <2>10, <2>11
<1>4. CASE Files!filter_resurrected(nd, f) = "veto"
  <2>0. d # -1
    BY <1>1, <1>4
  <2>1. p.node = c /\ p.send = Files!compute_deletes_to_push(c, g, d)
    BY <1>4, PhaseVeto
  <2>2. /\ NodeOK(c, u) /\ c.ledger = nd.ledger
        /\ c.disk = Files!NoFile /\ c.mani = Files!NoFile
    BY <2>0, Cleaned
  <2>3. s.disk = Files!NoFile
    BY <1>2, <2>0 DEF SrvOK
  <2> DEFINE msg == Files!DeleteMsg(d)
             r == Files!apply_deletes(s, DeadAt(s.ledger))
  <2> HIDE DEF c
  <2>4. IF d # -1 /\ c.mani = Files!NoFile /\ g # Files!NoFile
        THEN Files!compute_deletes_to_push(c, g, d) = <<msg>> /\ MsgOK(msg, u)
        ELSE Files!compute_deletes_to_push(c, g, d) = <<>>
    BY <1>0, <2>2, PushedDelete
  <2>5. r.ledger = s.ledger /\ r.disk = Files!NoFile
    BY <1>2, <2>0, Cleaned
  <2>6. Stamped(c)
    BY <2>2 DEF Stamped
  <2>7. msg.op = "delete" /\ msg.at = DeadAt(s.ledger)
    BY <1>2 DEF Files!DeleteMsg
  <2> HIDE DEF msg
  <2>8. Files!apply_msg(s, msg) = r
    BY <2>7 DEF Files!apply_msg
  <2> HIDE DEF p, r
  <2>9. CASE g # Files!NoFile
    <3>1. p.send = <<msg>> /\ MsgOK(msg, u)
      BY <2>0, <2>1, <2>2, <2>4, <2>9
    <3>2. k = r
      BY <2>8, <3>1, SingleMessage
    <3>3. Agrees(c, k)
      BY <1>2, <2>2, <2>5, <3>2 DEF Agrees
    <3> QED BY <2>1, <2>2, <2>5, <2>6, <3>1, <3>2, <3>3, MadeOne DEF SyncDone, p
  <2>10. CASE g = Files!NoFile
    <3>1. p.send = <<>>
      BY <2>1, <2>4, <2>10
    <3>2. k = s
      BY <3>1, SingleMessage
    <3>3. Agrees(c, k)
      BY <1>2, <2>2, <2>3, <3>2 DEF Agrees
    <3> QED BY <2>1, <2>2, <2>6, <3>1, <3>2, <3>3, MadeOne DEF SyncDone, p
  <2> QED BY <2>9, <2>10
<1> QED BY <1>1, <1>3, <1>4

(* ... when the server has had its file deleted.                            *)
LEMMA DoneGone ==
    ASSUME NEW u \in Nat, NEW nd, NodeOK(nd, u), NEW s, NodeOK(s, u), SrvOK(s),
           Same(nd, s),
           DeadAt(nd.ledger) # -1,
           nd.disk = Files!NoFile, nd.mani = Files!NoFile,
           NEW f \in FileT, f.m <= LiveAt(nd.ledger),
           Files!compute_send_list(f, Files!NoFile, FALSE)
    PROVE  SyncDone(nd, f, Files!NoFile, s, u)
<1> DEFINE d == DeadAt(nd.ledger)
           g == Files!NoFile
           p == Files!SyncPhase(nd, f, g, FALSE)
           k == Files!ApplyAll(s, p.send)
           c == Files!apply_deletes(nd, d)
<1>1. Files!filter_resurrected(nd, f) \in {"send", "veto"}
  BY Filtered
<1>2. s.ledger = nd.ledger
  BY DEF Same
<1>3. s.disk = Files!NoFile
  BY <1>2 DEF SrvOK
<1>4. \A n : Files!compute_deletes_to_push(n, g, d) = <<>>
  BY DEF Files!compute_deletes_to_push
<1>5. /\ NodeOK(c, u) /\ c.ledger = nd.ledger
      /\ c.disk = Files!NoFile /\ c.mani = Files!NoFile
  BY Cleaned
<1>6. (p.node = nd \/ p.node = c) /\ p.send = <<>>
  <2>1. CASE Files!filter_resurrected(nd, f) = "send"
    <3>1. p.node = nd /\ p.send = Files!compute_deletes_to_push(nd, g, d)
                                     \o Files!stream(nd, Files!wire_action_stamp(nd))
      BY <2>1, PhaseSend
    <3>2. Files!stream(nd, Files!wire_action_stamp(nd)) = <<>>
      BY DEF Files!stream
    <3>3. <<>> \o <<>> = <<>>
      OBVIOUS
    <3> QED BY <1>4, <3>1, <3>2, <3>3
  <2>2. CASE Files!filter_resurrected(nd, f) = "veto"
    <3>1. p.node = c /\ p.send = Files!compute_deletes_to_push(c, g, d)
      BY <2>2, PhaseVeto
    <3> QED BY <1>4, <3>1
  <2> QED BY <1>1, <2>1, <2>2
<1> HIDE DEF c, p
<1>7. /\ NodeOK(p.node, u) /\ p.node.ledger = s.ledger /\ p.node.disk = Files!NoFile
  BY <1>2, <1>5, <1>6
<1>8. k = s
  BY <1>6, SingleMessage
<1>9. Stamped(p.node) /\ Agrees(p.node, s)
  BY <1>3, <1>7 DEF Stamped, Agrees
<1> QED BY <1>6, <1>7, <1>8, <1>9, MadeOne DEF SyncDone, p

(* A rescan makes the manifest say what is on disk and keeps the rest.      *)
LEMMA ScanFacts ==
    ASSUME NEW u \in Nat, NEW nd, NodeOK(nd, u)
    PROVE  LET n == Files!scan(nd)
           IN  /\ NodeOK(n, u) /\ Scanned(n) /\ Same(n, nd)
               /\ n.disk = nd.disk /\ n.mani = nd.disk /\ n.ledger = nd.ledger
               /\ Stamped(nd) => Stamped(n)
<1> DEFINE n == Files!scan(nd)
<1>1. /\ nd \in NodeT /\ WellFormed(nd.ledger) /\ LiveAt(nd.ledger) <= u /\ DeadAt(nd.ledger) <= u
      /\ nd.disk.m <= u /\ nd.mani.m <= u
  BY DEF NodeOK
<1>2. n.disk = nd.disk /\ n.mani = nd.disk /\ n.ledger = nd.ledger /\ n \in NodeT
  BY <1>1 DEF Files!scan, NodeT
<1> HIDE DEF n
<1>3. NodeOK(n, u)
  BY <1>1, <1>2 DEF NodeOK
<1> QED BY <1>2, <1>3 DEF Scanned, Same, Stamped, n

(* The message the server sends in the initial sync, if any, applied to the *)
(* client that has scanned.                                                 *)
Told(nd, q) == IF q = <<>> THEN nd ELSE Files!apply_msg(nd, q[1])

(* What the exchange of the manifests promises: the server's part keeps its *)
(* ledger, and what is left to do ends in agreement.                        *)
Exchanged(nd, s, u) ==
    LET p == Files!SyncPhase(s, s.mani, nd.disk, TRUE)
        n == Files!scan(nd)
        r == Told(n, p.send)
    IN  /\ NodeOK(p.node, u) /\ SrvOK(p.node) /\ Same(p.node, s)
        /\ \/ p.node = s
           \/ DeadAt(s.ledger) # -1 /\ s.disk = Files!NoFile /\ p.node.disk = Files!NoFile
        /\ p.send = <<>> \/ OneMsg(p.send, u)
        /\ Same(r, p.node)
        /\ SyncDone(r, nd.disk, s.mani, p.node, u)

(* The server offers nothing.                                               *)
LEMMA ExchangeIdle ==
    ASSUME NEW u \in Nat, NEW nd, NodeOK(nd, u), Stamped(nd), NEW s, NodeOK(s, u), SrvOK(s),
           Same(nd, s), ~Files!compute_send_list(s.mani, nd.disk, TRUE)
    PROVE  Exchanged(nd, s, u)
<1> DEFINE D == nd.disk
           M == s.mani
           d == DeadAt(s.ledger)
           msg == Files!DeleteMsg(d)
           p == Files!SyncPhase(s, M, D, TRUE)
           n == Files!scan(nd)
           r == Told(n, p.send)
<1>1. /\ D \in FileT /\ M \in FileT /\ D.m <= LiveAt(s.ledger) /\ M.m <= LiveAt(s.ledger)
      /\ LiveAt(s.ledger) \in Nat
  <2>1. LiveAt(s.ledger) \in Nat /\ D \in FileT /\ M \in FileT
    BY NodeFacts
  <2>2. D.m <= LiveAt(s.ledger)
    BY <2>1 DEF Stamped, Same, Files!NoFile
  <2>3. M.m <= LiveAt(s.ledger)
    BY <2>1 DEF SrvOK, Files!NoFile
  <2> QED BY <2>1, <2>2, <2>3
<1>2. p.node = s /\ p.send = Files!compute_deletes_to_push(s, D, d)
  <2>1. ASSUME NEW b \in BOOLEAN, b = TRUE, NEW f, f = D, NEW g, g = M
        PROVE  LET q == Files!SyncPhase(s, g, f, b)
               IN  q.node = s /\ q.send = Files!compute_deletes_to_push(s, f, d)
    <3>1. ~Files!compute_send_list(g, f, b)
      BY <2>1
    <3> QED BY <3>1, PhaseIdle
  <2> QED BY <2>1
<1>3. IF d # -1 /\ M = Files!NoFile /\ D # Files!NoFile
      THEN Files!compute_deletes_to_push(s, D, d) = <<msg>> /\ MsgOK(msg, u)
      ELSE Files!compute_deletes_to_push(s, D, d) = <<>>
  BY <1>1, PushedDelete
<1>4. /\ NodeOK(n, u) /\ Scanned(n) /\ Same(n, s) /\ Stamped(n)
      /\ n.disk = D /\ n.mani = D /\ n.ledger = s.ledger
  BY ScanFacts DEF Same
<1> HIDE DEF p, n
<1>5. CASE d # -1 /\ M = Files!NoFile /\ D # Files!NoFile
  <2>1. p.send = <<msg>> /\ MsgOK(msg, u) /\ msg.op = "delete" /\ msg.at = DeadAt(n.ledger)
    BY <1>2, <1>3, <1>4, <1>5 DEF Files!DeleteMsg
  <2> HIDE DEF msg
  <2>2. p.send # <<>> /\ p.send[1] = msg
    BY <2>1
  <2>3. r = Files!apply_deletes(n, DeadAt(n.ledger))
    BY <2>1, <2>2 DEF Told, Files!apply_msg
  <2>4. /\ NodeOK(r, u) /\ r.ledger = n.ledger /\ r.disk = Files!NoFile /\ r.mani = Files!NoFile
    BY <1>4, <1>5, <2>3, Cleaned
  <2> HIDE DEF r
  <2>5. Same(r, s) /\ DeadAt(r.ledger) # -1 /\ D.m <= LiveAt(r.ledger)
    BY <1>1, <1>4, <1>5, <2>4 DEF Same
  <2>6. Files!compute_send_list(D, Files!NoFile, FALSE)
    BY <1>5 DEF Files!compute_send_list
  <2>7. SyncDone(r, D, Files!NoFile, s, u)
    BY <1>1, <2>4, <2>5, <2>6, DoneGone
  <2>8. SyncDone(r, D, M, s, u)
    BY <1>5, <2>7
  <2> QED BY <1>2, <2>1, <2>5, <2>8, MadeOne DEF Exchanged, Same, p, n, r
<1>6. CASE ~(d # -1 /\ M = Files!NoFile /\ D # Files!NoFile)
  <2>1. p.send = <<>>
    BY <1>2, <1>3, <1>6
  <2>2. r = n
    BY <2>1 DEF Told
  <2>3. SyncDone(n, D, M, s, u)
    <3>1. CASE Files!compute_send_list(D, M, FALSE)
      <4>1. n.disk # Files!NoFile /\ Files!compute_send_list(n.disk, M, FALSE)
        BY <1>4, <3>1 DEF Files!compute_send_list
      <4>2. SyncDone(n, n.disk, M, s, u)
        BY <1>1, <1>4, <4>1, DoneListed
      <4> QED BY <1>4, <4>2
    <3>2. CASE ~Files!compute_send_list(D, M, FALSE)
      <4>1. D.v = M.v
        BY <1>1, <3>2, FileFacts DEF Files!compute_send_list
      <4>2. Agrees(n, s)
        BY <1>4, <4>1 DEF Agrees, Files!Differs
      <4>3. n.mani = Files!NoFile => n.disk = Files!NoFile
        BY <1>4
      <4> QED BY <1>1, <1>4, <3>2, <4>2, <4>3, DoneIdle
    <3> QED BY <3>1, <3>2
  <2> QED BY <1>2, <1>4, <2>1, <2>2, <2>3, MadeOne DEF Exchanged, Same, p, n
<1> QED BY <1>5, <1>6

(* The server offers its file.                                              *)
LEMMA ExchangeListed ==
    ASSUME NEW u \in Nat, NEW nd, NodeOK(nd, u), Stamped(nd), NEW s, NodeOK(s, u), SrvOK(s),
           Same(nd, s), Files!compute_send_list(s.mani, nd.disk, TRUE)
    PROVE  Exchanged(nd, s, u)
<1> DEFINE D == nd.disk
           M == s.mani
           d == DeadAt(s.ledger)
           p == Files!SyncPhase(s, M, D, TRUE)
           n == Files!scan(nd)
           r == Told(n, p.send)
<1>1. /\ D \in FileT /\ M \in FileT /\ D.m <= LiveAt(s.ledger) /\ M.m <= LiveAt(s.ledger)
      /\ LiveAt(s.ledger) \in Nat
  <2>1. LiveAt(s.ledger) \in Nat /\ D \in FileT /\ M \in FileT
    BY NodeFacts
  <2>2. D.m <= LiveAt(s.ledger)
    BY <2>1 DEF Stamped, Same, Files!NoFile
  <2>3. M.m <= LiveAt(s.ledger)
    BY <2>1 DEF SrvOK, Files!NoFile
  <2> QED BY <2>1, <2>2, <2>3
<1>2. M # Files!NoFile /\ M.v # 0 /\ ~Files!compute_send_list(D, M, FALSE)
  BY <1>1, FileFacts DEF Files!compute_send_list
<1>3. /\ d = -1 => Files!filter_resurrected(s, M) = "send"
      /\ Files!filter_resurrected(s, M) \in {"send", "veto"}
  BY <1>1, Filtered
<1>4. /\ NodeOK(n, u) /\ Scanned(n) /\ Same(n, s) /\ Stamped(n)
      /\ n.disk = D /\ n.mani = D /\ n.ledger = s.ledger
  BY ScanFacts DEF Same
<1>5. n.mani = Files!NoFile => n.disk = Files!NoFile
  BY <1>4
<1>6. CASE Files!filter_resurrected(s, M) = "send"
  <2>1. p.node = s /\ p.send = Files!compute_deletes_to_push(s, D, d)
                                  \o Files!stream(s, Files!wire_action_stamp(s))
    <3>1. ASSUME NEW b \in BOOLEAN, b = TRUE, NEW f, f = D, NEW g, g = M
          PROVE  LET q == Files!SyncPhase(s, g, f, b)
                 IN  q.node = s /\ q.send = Files!compute_deletes_to_push(s, f, d)
                                               \o Files!stream(s, Files!wire_action_stamp(s))
      <4>1. Files!compute_send_list(g, f, b) /\ Files!filter_resurrected(s, g) = "send"
        BY <1>6, <3>1
      <4> QED BY <4>1, PhaseSend
    <3> QED BY <3>1
  <2>2. Files!compute_deletes_to_push(s, D, d) = <<>>
    BY <1>2 DEF Files!compute_deletes_to_push
  <2>3. Stamped(s)
    BY DEF Stamped, SrvOK
  <2> HIDE DEF p, n
  <2>4. CASE s.disk = Files!NoFile
    <3>1. p.send = <<>>
      <4>1. Files!stream(s, Files!wire_action_stamp(s)) = <<>>
        BY <2>4 DEF Files!stream
      <4>2. <<>> \o <<>> = <<>>
        OBVIOUS
      <4> QED BY <2>1, <2>2, <4>1, <4>2
    <3>2. r = n
      BY <3>1 DEF Told
    <3>3. Files!Differs(s)
      BY <1>2, <2>4 DEF Files!Differs, Files!NoFile
    <3>4. Agrees(n, s)
      BY <1>4, <3>3 DEF Agrees
    <3>5. SyncDone(n, D, M, s, u)
      BY <1>1, <1>2, <1>4, <1>5, <3>4, DoneIdle
    <3> QED BY <1>4, <2>1, <3>1, <3>2, <3>5, MadeOne DEF Exchanged, Same, p, n
  <2>5. CASE s.disk # Files!NoFile
    <3> DEFINE msg == Files!FileMsg(s.disk, LiveAt(s.ledger))
    <3>1. Files!stream(s, Files!wire_action_stamp(s)) = <<msg>> /\ MsgOK(msg, u)
      BY <2>3, <2>5, Streamed
    <3>2. msg.op = "file" /\ msg.at = LiveAt(s.ledger) /\ msg.v = s.disk.v
      BY DEF Files!FileMsg
    <3> HIDE DEF msg
    <3>3. <<>> \o <<msg>> = <<msg>> /\ <<msg>>[1] = msg /\ <<msg>> # <<>>
      OBVIOUS
    <3>4. p.send = <<msg>>
      BY <2>1, <2>2, <3>1, <3>3
    <3>5. r = Files!apply_msg(n, msg)
      BY <3>3, <3>4 DEF Told
    <3>6. d = -1 /\ DeadAt(n.ledger) <= msg.at
      BY <1>1, <1>4, <2>5, <3>2 DEF SrvOK
    <3> HIDE DEF d
    <3>7. /\ NodeOK(r, u) /\ Stamped(r)
          /\ r.disk = [v |-> msg.v, m |-> msg.m]
          /\ LiveAt(r.ledger) = IF LiveAt(n.ledger) >= msg.at THEN LiveAt(n.ledger) ELSE msg.at
          /\ DeadAt(r.ledger) = -1
      BY <1>4, <3>1, <3>2, <3>5, <3>6, ApplyFile, Applied
    <3> HIDE DEF r
    <3>8. LiveAt(r.ledger) = LiveAt(s.ledger) /\ DeadAt(r.ledger) = DeadAt(s.ledger)
      BY <1>1, <1>4, <3>2, <3>6, <3>7 DEF d
    <3>9. r.ledger = s.ledger
      BY <3>7, <3>8, LedgerEq, NodeFacts
    <3>10. r.disk.v = s.disk.v
      BY <3>2, <3>7
    <3>11. Agrees(r, s)
      BY <3>9, <3>10 DEF Agrees
    <3>12. ~(DeadAt(s.ledger) # -1)
      BY <3>6 DEF d
    <3>13. SyncDone(r, D, M, s, u)
      BY <1>1, <1>2, <3>7, <3>11, <3>12, DoneIdle
    <3> QED BY <2>1, <3>1, <3>4, <3>9, <3>13, MadeOne DEF Exchanged, Same, p, n, r
  <2> QED BY <2>4, <2>5
<1>7. CASE Files!filter_resurrected(s, M) = "veto"
  <2> DEFINE c == Files!apply_deletes(s, d)
             msg == Files!DeleteMsg(d)
  <2>0. d # -1
    BY <1>3, <1>7
  <2>1. p.node = c /\ p.send = Files!compute_deletes_to_push(c, D, d)
    <3>1. ASSUME NEW b \in BOOLEAN, b = TRUE, NEW f, f = D, NEW g, g = M
          PROVE  LET q == Files!SyncPhase(s, g, f, b)
                 IN  q.node = c /\ q.send = Files!compute_deletes_to_push(c, f, d)
      <4>1. Files!compute_send_list(g, f, b) /\ Files!filter_resurrected(s, g) = "veto"
        BY <1>7, <3>1
      <4> QED BY <4>1, PhaseVeto
    <3> QED BY <3>1
  <2>2. /\ NodeOK(c, u) /\ c.ledger = s.ledger
        /\ c.disk = Files!NoFile /\ c.mani = Files!NoFile
    BY <2>0, Cleaned
  <2>3. SrvOK(c) /\ Same(c, s) /\ s.disk = Files!NoFile
    BY <2>0, <2>2 DEF SrvOK, Same
  <2> HIDE DEF c, p, n
  <2>4. IF d # -1 /\ c.mani = Files!NoFile /\ D # Files!NoFile
        THEN Files!compute_deletes_to_push(c, D, d) = <<msg>> /\ MsgOK(msg, u)
        ELSE Files!compute_deletes_to_push(c, D, d) = <<>>
    BY <1>1, <2>2, PushedDelete
  <2>5. p.send = <<>> \/ (MsgOK(msg, u) /\ p.send = <<msg>>)
    BY <2>1, <2>4
  <2>6. /\ NodeOK(r, u) /\ r.ledger = s.ledger /\ r.disk = Files!NoFile
    <3>1. CASE D # Files!NoFile
      <4>1. p.send = <<msg>> /\ msg.op = "delete" /\ msg.at = DeadAt(n.ledger)
        BY <1>4, <2>0, <2>1, <2>2, <2>4, <3>1 DEF Files!DeleteMsg
      <4> HIDE DEF msg
      <4>2. p.send # <<>> /\ p.send[1] = msg
        BY <4>1
      <4>3. r = Files!apply_deletes(n, DeadAt(n.ledger))
        BY <4>1, <4>2 DEF Told, Files!apply_msg
      <4> QED BY <1>4, <2>0, <4>3, Cleaned
    <3>2. CASE D = Files!NoFile
      BY <1>4, <2>1, <2>4, <3>2 DEF Told
    <3> QED BY <3>1, <3>2
  <2> HIDE DEF r
  <2>7. Agrees(r, c) /\ Stamped(r)
    BY <2>2, <2>6 DEF Agrees, Stamped
  <2>8. M.m <= LiveAt(c.ledger)
    BY <1>1, <2>2
  <2>9. SyncDone(r, D, M, c, u)
    BY <1>1, <1>2, <2>2, <2>3, <2>6, <2>7, <2>8, DoneIdle
  <2>10. Same(r, c)
    BY <2>2, <2>6 DEF Same
  <2> QED BY <2>0, <2>1, <2>2, <2>3, <2>5, <2>9, <2>10, MadeOne DEF Exchanged, p, n, r
<1> QED BY <1>3, <1>6, <1>7

-----------------------------------------------------------------------------
(* The inductive invariant.                                                 *)

srv == node[Files!Server]

(* The types, with the stamps no newer than the clock.                      *)
RType ==
    /\ node \in [Files!Node -> NodeT] /\ \A n \in Files!Node : NodeOK(node[n], now)
    /\ journal \in [Client -> [op : {"none", "upsert", "delete"}, at : Nat]]
    /\ pend \in [file : {"none", "ready", "delete"}, live : Nat]
    /\ conn \in [Client -> {"down", "drain", "sync", "sent", "live"}]
    /\ DOMAIN snap = Client /\ DOMAIN queue = Client
    /\ now \in Nat /\ ops \in Nat

(* A journal has the user action of the file as it is.                      *)
JournalAt(c) ==
    /\ journal[c].at <= now
    /\ journal[c].op = "none" => journal[c] = Files!NoAction /\ Stamped(node[c])
    /\ journal[c].op = "upsert" =>
          node[c].disk # Files!NoFile /\ node[c].disk.m <= journal[c].at /\ journal[c].at > 0
    /\ journal[c].op = "delete" => node[c].disk = Files!NoFile /\ journal[c].at > 0

(* So have the pending changes of the server, whose files have live records *)
(* but for the one a user has just written.                                 *)
PendOK ==
    /\ pend.live = 0 => SrvOK(srv)
    /\ srv.mani # Files!NoFile => LiveAt(srv.ledger) >= srv.mani.m
    /\ pend.file = "none" => pend = Files!NoPending
    /\ pend.file = "ready" => srv.disk # Files!NoFile
    /\ pend.file = "delete" => srv.disk = Files!NoFile /\ pend.live = 0
    /\ pend.live > 0 => pend.live = now /\ srv.disk.m = now /\ last # 0

(* Changes do not overlap: one client at a time is in a session's set-up or *)
(* has something to drain while connected, none while the server has.       *)
Acting(c) ==
    \/ conn[c] \in {"drain", "sync", "sent"}
    \/ conn[c] = "live" /\ journal[c] # Files!NoAction

(* One client acts at a time, and the server flushes when none does.        *)
Turns ==
    /\ \A c, d \in Client : Acting(c) /\ Acting(d) => c = d
    /\ pend # Files!NoPending => \A c \in Client : ~Acting(c) /\ queue[c] = <<>>
    /\ \A c \in Client : conn[c] # "down" /\ journal[c] # Files!NoAction =>
          \A d \in Client : queue[d] = <<>>
    /\ (\E d \in Client : conn[d] \in {"drain", "sync"}) =>
          \A c \in Client : conn[c] = "live" => Len(queue[c]) < 2

(* What may wait in a queue.                                                *)
SyncQueue(q, u) ==
    \/ q = <<Files!CompleteMsg>>
    \/ Len(q) = 2 /\ q = <<q[1], Files!CompleteMsg>> /\ MsgOK(q[1], u)

QueueAt(c) ==
    /\ conn[c] \in {"down", "drain", "sent"} => queue[c] = <<>>
    /\ conn[c] \in {"sync", "sent"} => journal[c] = Files!NoAction
    /\ conn[c] = "sync" => SyncQueue(queue[c], now)
    /\ conn[c] = "live" => queue[c] = <<>> \/ OneMsg(queue[c], now) \/ TwoMsgs(queue[c], now)

(* A client of an initial sync once it has what the server sent.            *)
Heard(nd, q) == IF Len(q) = 2 THEN Files!apply_msg(nd, q[1]) ELSE nd

(* The server's ledger knows all that a client's knows; a client that is    *)
(* connected has, or is about to have, the same, unless its entry among the *)
(* peers is gone.                                                           *)
Hears(c) == conn[c] = "live" /\ c \notin unlisted

LedgerAt(c) ==
    /\ Upto(node[c].ledger, srv.ledger)
    /\ conn[c] \in {"drain", "sent"} => Same(node[c], srv)
    /\ conn[c] = "sync" => Same(Heard(node[c], queue[c]), srv)
    /\ conn[c] = "live" => Upto(Files!ApplyAll(node[c], queue[c]).ledger, srv.ledger)
    /\ Hears(c) => Same(Files!ApplyAll(node[c], queue[c]), srv)
    /\ conn[c] = "live" /\ journal[c] # Files!NoAction =>
          journal[c].at > LiveAt(srv.ledger) /\ journal[c].at > DeadAt(srv.ledger)

(* And its content agrees, or will.                                         *)
AgreeAt(c) ==
    /\ conn[c] = "sync" =>
          SyncDone(Heard(node[c], queue[c]), snap[c].local, snap[c].remote, srv, now)
    /\ conn[c] = "sent" => Agrees(node[c], srv)
    /\ Hears(c) /\ journal[c] = Files!NoAction /\ pend = Files!NoPending =>
          Agrees(Files!ApplyAll(node[c], queue[c]), srv)

(* When the last action is a delete, it is newer than every live record, and *)
(* the server or a journal knows it.                                        *)
Newest(d) ==
    /\ d > LiveAt(srv.ledger)
    /\ \A c \in Client : journal[c].op = "upsert" => journal[c].at < d

DeleteOK ==
    last = 0 =>
        \/ LiveAt(srv.ledger) = 0 /\ \A c \in Client : journal[c].op # "upsert"
        \/ pend.file = "delete"
        \/ Newest(DeadAt(srv.ledger))
        \/ \E c \in Client : journal[c].op = "delete" /\ Newest(journal[c].at)

(* What holds of each client.                                               *)
ClientOK(c) == JournalAt(c) /\ QueueAt(c) /\ LedgerAt(c) /\ AgreeAt(c)

(* The inductive invariant.                                                 *)
RInv == RType /\ PendOK /\ Turns /\ DeleteOK /\ \A c \in Client : ClientOK(c)

-----------------------------------------------------------------------------
(* Time goes on, and the stamps stay in the past.                           *)
LEMMA NodeLater ==
    ASSUME NEW u \in Nat, NEW w \in Nat, u <= w, NEW nd, NodeOK(nd, u)
    PROVE  NodeOK(nd, w)
<1>1. nd.disk.m \in Nat /\ nd.mani.m \in Nat
  BY NodeFacts, FileFacts
<1> QED BY <1>1, NodeFacts DEF NodeOK

(* Short sequences.                                                         *)
LEMMA Pair ==
    ASSUME NEW a, NEW b
    PROVE  /\ <<a>> \o <<b>> = <<a, b>> /\ Len(<<a, b>>) = 2 /\ <<a, b>> # <<>>
           /\ <<a, b>>[1] = a /\ <<a, b>>[2] = b
           /\ Head(<<a, b>>) = a /\ Tail(<<a, b>>) = <<b>>
<1> DEFINE S == {a, b}
           s == <<a>> \o <<b>>
           t == <<a, b>>
<1>1. <<a>> \in Seq(S) /\ <<b>> \in Seq(S) /\ t \in Seq(S) /\ Len(t) = 2 /\ t[1] = a /\ t[2] = b
  OBVIOUS
<1>2. s \in Seq(S) /\ Len(s) = 2 /\ s[1] = a /\ s[2] = b
  BY <1>1
<1>3. Head(t) = a /\ Tail(t) = <<b>> /\ t # <<>>
  <2>1. Tail(t) \in Seq(S) /\ Len(Tail(t)) = 1 /\ Tail(t)[1] = b /\ Len(<<b>>) = 1 /\ <<b>>[1] = b
    BY <1>1
  <2>2. \A i \in 1..Len(Tail(t)) : Tail(t)[i] = <<b>>[i]
    BY <2>1
  <2>3. Tail(t) = <<b>>
    BY <1>1, <2>1, <2>2, SeqEqual
  <2> QED BY <1>1, <2>3
<1> HIDE DEF s, t, S
<1>4. \A i \in 1..2 : s[i] = t[i]
  BY <1>1, <1>2
<1>5. s = t
  BY <1>1, <1>2, <1>4, SeqEqual
<1> QED BY <1>1, <1>3, <1>5 DEF s, t

(* A short queue taken from its first to its last message is the queue.     *)
LEMMA Whole ==
    ASSUME NEW a, NEW b
    PROVE  /\ SubSeq(<<>>, 1, Len(<<>>)) = <<>> /\ SubSeq(<<a>>, 1, Len(<<a>>)) = <<a>>
           /\ SubSeq(<<a, b>>, 1, Len(<<a, b>>)) = <<a, b>>
<1>1. <<>> \in Seq({a, b}) /\ <<a>> \in Seq({a, b}) /\ <<a, b>> \in Seq({a, b})
  OBVIOUS
<1>2. \A s \in Seq({a, b}) : SubSeq(s, 1, Len(s)) = s
  BY SubSeqFull
<1> QED BY <1>1, <1>2

(* A queue with at most one message.                                        *)
Short(q, u) == q = <<>> \/ OneMsg(q, u)

(* The queue r is q with the message as its last.                           *)
Extends(r, q, msg) == r = q \o <<msg>>

(* A queue with room for it takes the message as its last.                  *)
LEMMA Taken ==
    ASSUME NEW u, NEW q, Short(q, u), NEW msg, MsgOK(msg, u), NEW nd,
           NEW r, Extends(r, q, msg)
    PROVE  /\ q = <<>> => OneMsg(r, u) /\ Len(r) < 2
           /\ q # <<>> => TwoMsgs(r, u)
           /\ Len(r) <= 2 /\ SubSeq(r, 1, Len(r)) = r
           /\ Files!ApplyAll(nd, r) = Files!apply_msg(Files!ApplyAll(nd, q), msg)
<1>1. CASE q = <<>>
  <2>1. r = <<msg>>
    BY <1>1 DEF Extends
  <2>2. Len(<<msg>>) = 1 /\ SubSeq(<<msg>>, 1, Len(<<msg>>)) = <<msg>>
    BY Whole
  <2> QED BY <1>1, <2>1, <2>2, MadeOne, SingleMessage
<1>2. CASE q # <<>>
  <2> DEFINE m == q[1]
             t == <<m, msg>>
  <2>0. q = <<m>> /\ MsgOK(m, u)
    BY <1>2 DEF OneMsg, Short
  <2> HIDE DEF m
  <2>1. /\ <<m>> \o <<msg>> = t /\ Len(t) = 2 /\ t[1] = m /\ t[2] = msg /\ t # <<>>
        /\ SubSeq(t, 1, Len(t)) = t
    BY Pair, Whole
  <2>2. r = t
    BY <2>0, <2>1 DEF Extends
  <2>3. TwoMsgs(t, u)
    BY <2>0, <2>1 DEF TwoMsgs
  <2>4. Files!ApplyAll(nd, q) = Files!apply_msg(nd, m)
    BY <2>0, SingleMessage
  <2> HIDE DEF t
  <2>5. Files!ApplyAll(nd, t) = Files!apply_msg(Files!apply_msg(nd, m), msg)
    BY <2>1 DEF Files!ApplyAll
  <2>6. Len(t) <= 2 /\ SubSeq(t, 1, Len(t)) = t
    BY <2>1
  <2> QED BY <1>2, <2>2, <2>3, <2>4, <2>5, <2>6, Zenon
<1> QED BY <1>1, <1>2

(* What is broadcast: a message to those who are connected ...              *)
LEMMA Broadcasts ==
    ASSUME NEW d \in Client, NEW u, Short(queue[d], u), NEW sender,
           Hears(d), d # sender, NEW msg, MsgOK(msg, u)
    PROVE  Extends(Files!broadcast_to_others(queue, sender, <<msg>>)[d], queue[d], msg)
<1> DEFINE r == queue[d] \o <<msg>>
<1>0. QueueDepth \in Nat /\ QueueDepth >= 2
  BY DepthAssumption
<1>1. Extends(r, queue[d], msg)
  BY DEF Extends
<1>2. Len(queue[d]) \in Nat
  BY DEF OneMsg, Short
<1> HIDE DEF r
<1>3. Len(r) <= 2 /\ SubSeq(r, 1, Len(r)) = r
  BY <1>1, Taken
<1>4. Len(r) <= Files!L!MaxOf(Len(queue[d]), QueueDepth)
  BY <1>0, <1>2, <1>3 DEF Files!L!MaxOf
<1>5. Files!broadcast_to_others(queue, sender, <<msg>>)[d] = r
  BY <1>3, <1>4 DEF Files!broadcast_to_others, r, Hears
<1> QED BY <1>1, <1>5

(* ... or nothing.                                                          *)
LEMMA BroadcastsNot ==
    ASSUME NEW d \in Client, NEW u, Short(queue[d], u), NEW sender, NEW send,
           send = <<>> \/ ~Hears(d) \/ d = sender
    PROVE  Files!broadcast_to_others(queue, sender, send)[d] = queue[d]
<1>1. CASE send = <<>>
  <2>0. QueueDepth \in Nat
    BY DepthAssumption
  <2>1. queue[d] \o <<>> = queue[d] /\ SubSeq(queue[d], 1, Len(queue[d])) = queue[d] /\ Len(queue[d]) \in Nat
    <3>1. CASE queue[d] = <<>>
      <4>1. <<>> \o <<>> = <<>> /\ SubSeq(<<>>, 1, Len(<<>>)) = <<>> /\ Len(<<>>) \in Nat
        OBVIOUS
      <4> QED BY <3>1, <4>1
    <3>2. CASE OneMsg(queue[d], u)
      <4> DEFINE m == queue[d][1]
      <4>1. queue[d] = <<m>>
        BY <3>2 DEF OneMsg
      <4> HIDE DEF m
      <4>2. <<m>> \o <<>> = <<m>> /\ Len(<<m>>) \in Nat
        OBVIOUS
      <4> QED BY <4>1, <4>2, Whole
    <3> QED BY <3>1, <3>2 DEF Short
  <2>2. Len(queue[d]) <= Files!L!MaxOf(Len(queue[d]), QueueDepth)
    BY <2>0, <2>1 DEF Files!L!MaxOf
  <2> QED BY <1>1, <2>1, <2>2 DEF Files!broadcast_to_others
<1>2. CASE send # <<>>
  BY <1>2 DEF Files!broadcast_to_others, Hears
<1> QED BY <1>1, <1>2

-----------------------------------------------------------------------------
(* The server is a node of its own.                                         *)
LEMMA Nodes ==
    /\ Files!Server \notin Client /\ Files!Server \in Files!Node
    /\ \A c \in Client : c \in Files!Node /\ c # Files!Server
    /\ \A n \in Files!Node : n \in Client \/ n = Files!Server
BY ClientAssumption DEF Files!Server, Files!Node

(* The parts of the invariant.                                              *)
LEMMA Parts ==
    ASSUME RInv
    PROVE  /\ now \in Nat /\ ops \in Nat
           /\ NodeOK(srv, now) /\ \A c \in Client : NodeOK(node[c], now)
           /\ \A c \in Client : journal[c] \in [op : {"none", "upsert", "delete"}, at : Nat]
           /\ \A c \in Client : conn[c] \in {"down", "drain", "sync", "sent", "live"}
           /\ \A c \in Client : ClientOK(c)
BY Nodes DEF RInv, RType, srv

(* An empty queue brings nothing.                                           *)
LEMMA EmptyQueue ==
    ASSUME NEW nd
    PROVE  Files!ApplyAll(nd, <<>>) = nd /\ Len(<<>>) = 0
BY DEF Files!ApplyAll

(* A user, or the rescan of a client, changes the file of a client.         *)
LEMMA ClientChanges ==
    ASSUME RInv, Files!Calm,
           NEW c \in Client, NEW nd, NodeOK(nd, now + 1), Same(nd, node[c]),
           NEW op \in {"upsert", "delete"}, op = "upsert" <=> nd.disk # Files!NoFile,
           node' = [node EXCEPT ![c] = nd],
           journal' = [journal EXCEPT ![c] = [op |-> op, at |-> now + 1]],
           now' = now + 1, ops' \in Nat, last' = 0 => op = "delete",
           UNCHANGED <<pend, conn, snap, queue, unlisted>>
    PROVE  RInv'
<1>0. /\ now \in Nat /\ NodeOK(srv, now) /\ \A d \in Client : NodeOK(node[d], now)
      /\ \A d \in Client : journal[d] \in [op : {"none", "upsert", "delete"}, at : Nat]
      /\ \A d \in Client : ClientOK(d)
  BY Parts
<1>1. /\ RType /\ PendOK /\ Turns
  BY DEF RInv
<1>2. /\ pend = Files!NoPending
      /\ \A d \in Client : queue[d] = <<>> /\ conn[d] \in {"down", "live"}
      /\ \A d \in Client : conn[d] = "live" => journal[d] = Files!NoAction
  BY DEF Files!Calm
<1>3. /\ node'[c] = nd /\ srv' = srv /\ \A d \in Client : d # c => node'[d] = node[d]
      /\ journal'[c] = [op |-> op, at |-> now + 1] /\ \A d \in Client : d # c => journal'[d] = journal[d]
  BY <1>1, Nodes DEF srv, RType
<1>4. journal'[c].op = op /\ journal'[c].at = now + 1 /\ journal'[c] # Files!NoAction
  BY <1>3 DEF Files!NoAction
<1>5. RType'
  <2>1. node' \in [Files!Node -> NodeT]
    BY <1>1 DEF RType, NodeOK
  <2>2. \A n \in Files!Node : NodeOK(node[n], now)'
    BY <1>0, <1>3, Nodes, NodeLater DEF srv
  <2>3. journal' \in [Client -> [op : {"none", "upsert", "delete"}, at : Nat]]
    BY <1>0, <1>1 DEF RType
  <2> QED BY <1>0, <1>1, <2>1, <2>2, <2>3 DEF RType
<1>6. PendOK'
  BY <1>1, <1>2, <1>3 DEF PendOK, Files!NoPending
<1>7. Turns'
  BY <1>1, <1>2, <1>3, <1>4 DEF Turns, Acting
<1>8. DeleteOK'
  <2> SUFFICES ASSUME last' = 0 PROVE Newest(journal[c].at)' /\ journal'[c].op = "delete"
    BY DEF DeleteOK
  <2>1. journal'[c].op = "delete"
    BY <1>4
  <2>2. now + 1 > LiveAt(srv.ledger)
    BY <1>0, NodeFacts
  <2>3. \A d \in Client : d # c => journal[d].at < now + 1
    BY <1>0 DEF ClientOK, JournalAt
  <2>4. Newest(journal[c].at)'
    BY <1>3, <1>4, <2>1, <2>2, <2>3 DEF Newest
  <2> QED BY <2>1, <2>4
<1>9. ASSUME NEW d \in Client PROVE ClientOK(d)'
  <2>1. CASE d # c
    <3>1. JournalAt(d)'
      <4>1. journal[d].at <= now + 1
        BY <1>0 DEF ClientOK, JournalAt
      <4> QED BY <1>0, <1>3, <2>1, <4>1 DEF ClientOK, JournalAt
    <3>2. QueueAt(d)'
      BY <1>0, <1>2, <1>3, <2>1 DEF ClientOK, QueueAt
    <3>3. LedgerAt(d)' /\ AgreeAt(d)'
      BY <1>0, <1>2, <1>3, <2>1 DEF ClientOK, LedgerAt, AgreeAt, Hears
    <3> QED BY <3>1, <3>2, <3>3 DEF ClientOK
  <2>2. CASE d = c
    <3>1. JournalAt(c)'
      <4>1. nd.disk.m <= now + 1 /\ now + 1 > 0 /\ now + 1 <= now + 1
        BY <1>0 DEF NodeOK
      <4> QED BY <1>0, <1>3, <1>4, <4>1 DEF JournalAt
    <3>2. QueueAt(c)'
      BY <1>2 DEF QueueAt
    <3>3. LedgerAt(c)'
      <4>1. now + 1 > LiveAt(srv.ledger) /\ now + 1 > DeadAt(srv.ledger)
        BY <1>0, NodeFacts
      <4>2. nd.ledger = node[c].ledger
        BY DEF Same
      <4>3. Hears(c) => Same(Files!ApplyAll(node[c], queue[c]), srv)
        BY <1>0 DEF ClientOK, LedgerAt
      <4>4. Hears(c) => Same(nd, srv)
        BY <1>2, <4>2, <4>3, EmptyQueue DEF Same
      <4>5. Upto(nd.ledger, srv.ledger)
        BY <1>0, <4>2 DEF ClientOK, LedgerAt
      <4> HIDE DEF Same
      <4> QED BY <1>2, <1>3, <1>4, <4>1, <4>4, <4>5, EmptyQueue DEF LedgerAt, Hears
    <3>4. AgreeAt(c)'
      BY <1>2, <1>4 DEF AgreeAt, Hears
    <3> QED BY <2>2, <3>1, <3>2, <3>3, <3>4 DEF ClientOK
  <2> QED BY <2>1, <2>2
<1> QED BY <1>5, <1>6, <1>7, <1>8, <1>9 DEF RInv

(* A user or the rescan changes the file, or the manifest, of the server.   *)
LEMMA ServerChanges ==
    ASSUME RInv, Files!Calm,
           NEW nd, NodeOK(nd, now'), Same(nd, srv),
           node' = [node EXCEPT ![Files!Server] = nd],
           now' \in Nat, now' >= now, ops' \in Nat,
           pend' \in [file : {"ready", "delete"}, live : Nat],
           PendOK', DeleteOK',
           UNCHANGED <<journal, conn, snap, queue, unlisted>>
    PROVE  RInv'
<1>0. /\ now \in Nat /\ \A d \in Client : NodeOK(node[d], now)
      /\ \A d \in Client : journal[d] \in [op : {"none", "upsert", "delete"}, at : Nat]
      /\ \A d \in Client : ClientOK(d)
  BY Parts
<1>1. /\ RType /\ Turns
  BY DEF RInv
<1>2. /\ \A d \in Client : queue[d] = <<>> /\ conn[d] \in {"down", "live"}
      /\ \A d \in Client : conn[d] = "live" => journal[d] = Files!NoAction
  BY DEF Files!Calm
<1>3. srv' = nd /\ \A d \in Client : node'[d] = node[d]
  BY <1>1, Nodes DEF srv, RType
<1>4. pend' # Files!NoPending
  BY DEF Files!NoPending
<1>5. RType'
  <2>1. node' \in [Files!Node -> NodeT]
    BY <1>1 DEF RType, NodeOK
  <2>2. \A n \in Files!Node : NodeOK(node[n], now)'
    BY <1>0, <1>3, Nodes, NodeLater DEF srv
  <2> QED BY <1>1, <2>1, <2>2 DEF RType
<1>6. Turns'
  BY <1>1, <1>2, <1>3 DEF Turns, Acting
<1>7. ASSUME NEW d \in Client PROVE ClientOK(d)'
  <2>1. JournalAt(d)'
    <3>1. journal[d].at <= now'
      BY <1>0 DEF ClientOK, JournalAt
    <3> QED BY <1>0, <1>3, <3>1 DEF ClientOK, JournalAt
  <2>2. QueueAt(d)'
    BY <1>0, <1>2, <1>3 DEF ClientOK, QueueAt
  <2>3. LedgerAt(d)'
    <3>1. nd.ledger = srv.ledger
      BY DEF Same
    <3>2. Upto(node[d].ledger, nd.ledger)
      BY <1>0, <3>1 DEF ClientOK, LedgerAt
    <3>3. Hears(d) => Same(Files!ApplyAll(node[d], queue[d]), nd)
      BY <1>0, <3>1 DEF ClientOK, LedgerAt, Same
    <3>4. conn[d] = "live" => Upto(Files!ApplyAll(node[d], queue[d]).ledger, nd.ledger)
      BY <1>0, <3>1 DEF ClientOK, LedgerAt
    <3> QED BY <1>0, <1>2, <1>3, <3>2, <3>3, <3>4 DEF ClientOK, LedgerAt, Hears
  <2>4. AgreeAt(d)'
    BY <1>2, <1>4 DEF AgreeAt, Hears
  <2> QED BY <2>1, <2>2, <2>3, <2>4 DEF ClientOK
<1> QED BY <1>5, <1>6, <1>7 DEF RInv

(* A node whose disk is changed.                                            *)
LEMMA DiskChanges ==
    ASSUME NEW u \in Nat, NEW nd, NodeOK(nd, u), NEW f \in FileT, f.m <= u
    PROVE  LET r == [nd EXCEPT !.disk = f]
           IN  NodeOK(r, u) /\ r.disk = f /\ r.mani = nd.mani /\ Same(r, nd)
<1> DEFINE r == [nd EXCEPT !.disk = f]
<1>1. nd \in NodeT
  BY DEF NodeOK
<1>2. r \in NodeT /\ r.disk = f /\ r.mani = nd.mani /\ r.ledger = nd.ledger
  BY <1>1 DEF NodeT
<1> HIDE DEF r
<1>3. NodeOK(r, u)
  BY <1>2 DEF NodeOK
<1> QED BY <1>2, <1>3 DEF r, Same

(* A user writes the file                                                   *)
LEMMA UserWriteStep ==
    ASSUME RInv, NEW n \in Files!Node, Files!UserWrite(n), ~lapsed'
    PROVE  RInv'
<1> DEFINE f == [v |-> ops + 1, m |-> now + 1]
           nd == [node[n] EXCEPT !.disk = f]
<1>0. now \in Nat /\ ops \in Nat /\ NodeOK(node[n], now) /\ RType /\ PendOK
  BY Parts DEF RInv, RType
<1>1. f \in FileT /\ f # Files!NoFile /\ f.m = now + 1
  BY <1>0 DEF FileT, Files!NoFile
<1>2. /\ Files!Calm /\ now' = now + 1 /\ ops' = ops + 1 /\ node' = [node EXCEPT ![n] = nd]
      /\ last' = ops + 1 /\ UNCHANGED <<conn, snap, queue, unlisted>>
      /\ journal' = IF n \in Client THEN [journal EXCEPT ![n] = [op |-> "upsert", at |-> now + 1]]
                    ELSE journal
      /\ pend' = IF n = Files!Server THEN [file |-> "ready", live |-> now + 1] ELSE pend
  BY DEF Files!UserWrite, Files!User, Files!May, Files!capture_fs_event, Files!collect_event,
         Files!Dropped
<1> HIDE DEF f
<1>3. NodeOK(nd, now + 1) /\ Same(nd, node[n]) /\ nd.disk = f /\ nd.mani = node[n].mani
  <2>1. now + 1 \in Nat /\ now <= now + 1 /\ f.m <= now + 1
    BY <1>0, <1>1
  <2>2. NodeOK(node[n], now + 1)
    BY <1>0, <2>1, NodeLater
  <2> QED BY <1>1, <2>1, <2>2, DiskChanges
<1> HIDE DEF nd
<1>4. ops' \in Nat /\ last' # 0 /\ now' \in Nat /\ now' >= now
  BY <1>0, <1>2
<1>5. CASE n \in Client
  <2>1. /\ journal' = [journal EXCEPT ![n] = [op |-> "upsert", at |-> now + 1]] /\ UNCHANGED pend
    BY <1>2, <1>5, Nodes
  <2>2. "upsert" \in {"upsert", "delete"} /\ ("upsert" = "upsert" <=> nd.disk # Files!NoFile)
    BY <1>1, <1>3
  <2> QED BY <1>2, <1>3, <1>4, <1>5, <2>1, <2>2, ClientChanges
<1>6. CASE n = Files!Server
  <2>1. /\ UNCHANGED journal /\ pend' = [file |-> "ready", live |-> now + 1]
    BY <1>2, <1>6, Nodes
  <2>2. srv' = nd /\ node[n] = srv /\ node' = [node EXCEPT ![Files!Server] = nd]
    BY <1>0, <1>2, <1>6, Nodes DEF srv, RType
  <2>3. DeleteOK'
    BY <1>4 DEF DeleteOK
  <2>4. PendOK'
    <3>1. pend'.live = now + 1 /\ pend'.file = "ready" /\ pend'.live # 0
      BY <1>0, <2>1
    <3>2. nd.mani # Files!NoFile => LiveAt(nd.ledger) >= nd.mani.m
      BY <1>0, <1>3, <2>2 DEF PendOK, Same
    <3> QED BY <1>1, <1>2, <1>3, <1>4, <2>2, <3>1, <3>2 DEF PendOK
  <2>5. pend' \in [file : {"ready", "delete"}, live : Nat]
    BY <1>0, <2>1
  <2>6. NodeOK(nd, now') /\ Same(nd, srv)
    BY <1>2, <1>3, <2>2
  <2> QED BY <1>2, <1>4, <2>1, <2>2, <2>3, <2>4, <2>5, <2>6, ServerChanges
<1> QED BY <1>5, <1>6, Nodes

(* or deletes it.                                                           *)
LEMMA UserDeleteStep ==
    ASSUME RInv, NEW n \in Files!Node, Files!UserDelete(n), ~lapsed'
    PROVE  RInv'
<1> DEFINE nd == [node[n] EXCEPT !.disk = Files!NoFile]
<1>0. now \in Nat /\ ops \in Nat /\ NodeOK(node[n], now) /\ RType /\ PendOK
  BY Parts DEF RInv, RType
<1>1. Files!NoFile \in FileT /\ Files!NoFile.m <= now + 1
  BY <1>0 DEF FileT, Files!NoFile
<1>2. /\ Files!Calm /\ now' = now + 1 /\ ops' = ops + 1 /\ node' = [node EXCEPT ![n] = nd]
      /\ last' = 0 /\ UNCHANGED <<conn, snap, queue, unlisted>>
      /\ journal' = IF n \in Client THEN [journal EXCEPT ![n] = [op |-> "delete", at |-> now + 1]]
                    ELSE journal
      /\ pend' = IF n = Files!Server THEN [file |-> "delete", live |-> pend.live] ELSE pend
  BY DEF Files!UserDelete, Files!User, Files!May, Files!capture_fs_event, Files!collect_event,
         Files!Dropped
<1>3. NodeOK(nd, now + 1) /\ Same(nd, node[n]) /\ nd.disk = Files!NoFile /\ nd.mani = node[n].mani
  <2>1. now + 1 \in Nat /\ now <= now + 1 /\ Files!NoFile.m <= now + 1
    BY <1>0, <1>1
  <2>2. NodeOK(node[n], now + 1)
    BY <1>0, <2>1, NodeLater
  <2> QED BY <1>1, <2>1, <2>2, DiskChanges
<1> HIDE DEF nd
<1>4. ops' \in Nat /\ now' \in Nat /\ now' >= now
  BY <1>0, <1>2
<1>5. CASE n \in Client
  <2>1. /\ journal' = [journal EXCEPT ![n] = [op |-> "delete", at |-> now + 1]] /\ UNCHANGED pend
    BY <1>2, <1>5, Nodes
  <2>2. "delete" \in {"upsert", "delete"} /\ ("delete" = "upsert" <=> nd.disk # Files!NoFile)
    BY <1>1, <1>3
  <2> QED BY <1>2, <1>3, <1>4, <1>5, <2>1, <2>2, ClientChanges
<1>6. CASE n = Files!Server
  <2>1. /\ UNCHANGED journal /\ pend' = [file |-> "delete", live |-> 0]
    BY <1>2, <1>6, Nodes DEF Files!Calm, Files!NoPending
  <2>2. srv' = nd /\ node[n] = srv /\ node' = [node EXCEPT ![Files!Server] = nd]
    BY <1>0, <1>2, <1>6, Nodes DEF srv, RType
  <2>3. DeleteOK'
    BY <2>1 DEF DeleteOK
  <2>4. PendOK'
    <3>1. pend'.live = 0 /\ pend'.file = "delete"
      BY <2>1
    <3>2. nd.mani # Files!NoFile => LiveAt(nd.ledger) >= nd.mani.m
      BY <1>0, <1>3, <2>2 DEF PendOK, Same
    <3> QED BY <1>3, <2>2, <3>1, <3>2 DEF PendOK, SrvOK
  <2>5. pend' \in [file : {"ready", "delete"}, live : Nat]
    BY <2>1
  <2>6. NodeOK(nd, now') /\ Same(nd, srv)
    BY <1>2, <1>3, <2>2
  <2> QED BY <1>2, <1>4, <2>1, <2>2, <2>3, <2>4, <2>5, <2>6, ServerChanges
<1> QED BY <1>5, <1>6, Nodes

(* The rescan of a client.                                                  *)
LEMMA RescanClientStep ==
    ASSUME RInv, NEW c \in Client, Files!RescanClient(c), ~lapsed'
    PROVE  RInv'
<1> DEFINE nd == Files!scan(node[c])
           op == IF node[c].disk = Files!NoFile THEN "delete" ELSE "upsert"
<1>0. now \in Nat /\ ops \in Nat /\ NodeOK(node[c], now) /\ RType
  BY Parts DEF RInv
<1>1. /\ Files!Calm /\ now' = now + 1 /\ UNCHANGED ops /\ node' = [node EXCEPT ![c] = nd]
      /\ last' = node[c].disk.v /\ UNCHANGED <<pend, conn, snap, queue, unlisted>>
      /\ journal' = [journal EXCEPT ![c] = [op |-> op, at |-> now + 1]]
  BY DEF Files!RescanClient, Files!May, Files!Dropped
<1>2. NodeOK(nd, now + 1) /\ Same(nd, node[c]) /\ nd.disk = node[c].disk
  BY <1>0, ScanFacts, NodeLater
<1>3. op \in {"upsert", "delete"} /\ (op = "upsert" <=> nd.disk # Files!NoFile)
  BY <1>2
<1>4. last' = 0 => op = "delete"
  BY <1>0, <1>1, NodeFacts, FileFacts
<1> HIDE DEF nd, op
<1> QED BY <1>0, <1>1, <1>2, <1>3, <1>4, ClientChanges

(* ... and the rescan of the server.                                        *)
LEMMA RescanServerStep ==
    ASSUME RInv, Files!RescanServer
    PROVE  RInv'
<1> DEFINE nd == Files!scan(srv)
           file == IF srv.disk = Files!NoFile THEN "delete" ELSE "ready"
<1>0. now \in Nat /\ ops \in Nat /\ NodeOK(srv, now) /\ RType /\ PendOK /\ DeleteOK
  BY Parts DEF RInv
<1>1. /\ Files!Calm /\ node' = [node EXCEPT ![Files!Server] = nd] /\ UNCHANGED <<journal, conn, snap, queue, unlisted>>
      /\ UNCHANGED <<now, ops, last>> /\ pend = Files!NoPending
      /\ pend' = [file |-> file, live |-> 0]
  BY DEF Files!RescanServer, Files!May, Files!Calm, Files!NoPending, srv
<1>2. /\ NodeOK(nd, now) /\ Same(nd, srv) /\ nd.disk = srv.disk /\ nd.mani = srv.disk
      /\ nd.ledger = srv.ledger
  BY <1>0, ScanFacts
<1>3. pend'.file = file /\ pend'.live = 0 /\ pend' \in [file : {"ready", "delete"}, live : Nat]
  BY <1>1
<1> HIDE DEF nd
<1>4. srv' = nd
  BY <1>0, <1>1, Nodes DEF srv, RType
<1>5. SrvOK(srv)
  BY <1>0, <1>1 DEF PendOK, Files!NoPending
<1>6. SrvOK(nd)
  BY <1>2, <1>5 DEF SrvOK
<1>7. PendOK'
  BY <1>2, <1>3, <1>4, <1>6 DEF PendOK, SrvOK
<1>8. DeleteOK'
  <2> HIDE DEF file
  <2>1. pend.file # "delete"
    BY <1>1 DEF Files!NoPending
  <2> QED BY <1>0, <1>1, <1>2, <1>4, <2>1 DEF DeleteOK, Newest
<1>9. now' \in Nat /\ now' >= now /\ ops' \in Nat /\ NodeOK(nd, now')
  BY <1>0, <1>1, <1>2
<1> QED BY <1>1, <1>2, <1>3, <1>7, <1>8, <1>9, ServerChanges

(* The session is set up: nobody but its client is concerned.               *)
LEMMA ConnectStep ==
    ASSUME RInv, NEW c \in Client, Files!Connect(c)
    PROVE  RInv'
<1> DEFINE nd == Files!merge_ledger(node[c], srv)
<1>0. /\ now \in Nat /\ NodeOK(node[c], now) /\ NodeOK(srv, now) /\ RType /\ PendOK /\ Turns /\ DeleteOK
      /\ \A d \in Client : ClientOK(d)
  BY Parts DEF RInv
<1>1. /\ Files!Calm /\ conn[c] = "down" /\ conn' = [conn EXCEPT ![c] = "drain"]
      /\ node' = [node EXCEPT ![c] = nd, ![Files!Server] = Files!merge_ledger(srv, nd)]
      /\ UNCHANGED <<journal, pend, snap, queue, unlisted, now, ops, last>>
  BY Nodes DEF Files!Connect, Files!May, srv
<1>2. /\ pend = Files!NoPending
      /\ \A d \in Client : queue[d] = <<>> /\ conn[d] \in {"down", "live"}
      /\ \A d \in Client : conn[d] = "live" => journal[d] = Files!NoAction
  BY <1>1 DEF Files!Calm
<1>3. Upto(node[c].ledger, srv.ledger)
  BY <1>0 DEF ClientOK, LedgerAt
<1>4. /\ nd \in NodeT /\ nd.ledger = srv.ledger /\ nd.disk = node[c].disk /\ nd.mani = node[c].mani
  <2>1. Files!L!merge_ledger(node[c].ledger, srv.ledger) = srv.ledger
    BY <1>0, <1>3, Merged, NodeFacts
  <2>2. node[c] \in NodeT /\ srv \in NodeT
    BY <1>0 DEF NodeOK
  <2>3. PICK p \in FileT : nd = [node[c] EXCEPT !.ledger = srv.ledger, !.prev = p]
    BY <2>1, <2>2 DEF Files!merge_ledger, NodeT
  <2> QED BY <2>2, <2>3 DEF NodeT
<1>5. Files!merge_ledger(srv, nd) = srv
  <2>1. Files!L!merge_ledger(srv.ledger, srv.ledger) = srv.ledger
    BY <1>0, Merged, NodeFacts, UptoRefl
  <2>2. srv \in NodeT
    BY <1>0 DEF NodeOK
  <2> HIDE DEF nd
  <2>3. Files!merge_ledger(srv, nd) = [srv EXCEPT !.ledger = srv.ledger, !.prev = srv.prev]
    BY <1>4, <2>1 DEF Files!merge_ledger
  <2> QED BY <2>2, <2>3 DEF NodeT
<1> HIDE DEF nd
<1>6. NodeOK(nd, now) /\ Same(nd, srv) /\ (Stamped(node[c]) => Stamped(nd))
  <2>1. WellFormed(srv.ledger) /\ LiveAt(srv.ledger) <= now /\ DeadAt(srv.ledger) <= now
    BY <1>0 DEF NodeOK
  <2>2. nd.disk.m <= now /\ nd.mani.m <= now
    BY <1>0, <1>4 DEF NodeOK
  <2>3. LiveAt(node[c].ledger) <= LiveAt(srv.ledger) /\ LiveAt(node[c].ledger) \in Nat /\ LiveAt(srv.ledger) \in Nat
    BY <1>0, <1>3, NodeFacts DEF Upto
  <2>4. nd.disk.m \in Nat
    BY <1>0, <1>4, NodeFacts, FileFacts
  <2>5. NodeOK(nd, now)
    BY <1>4, <2>1, <2>2 DEF NodeOK
  <2>6. Stamped(node[c]) => Stamped(nd)
    BY <1>4, <2>3, <2>4 DEF Stamped
  <2> QED BY <1>4, <2>5, <2>6 DEF Same
<1>7. /\ node'[c] = nd /\ srv' = srv /\ conn'[c] = "drain"
      /\ \A d \in Client : d # c => node'[d] = node[d] /\ conn'[d] = conn[d]
  BY <1>0, <1>1, <1>5, Nodes DEF srv, RType
<1>8. RType'
  <2>1. node' \in [Files!Node -> NodeT]
    BY <1>0, <1>1, <1>4, <1>5, Nodes DEF RType, NodeOK
  <2>2. \A n \in Files!Node : NodeOK(node[n], now)'
    BY <1>0, <1>1, <1>6, <1>7, Nodes DEF srv, RType
  <2> QED BY <1>0, <1>1, <2>1, <2>2 DEF RType
<1>9. PendOK' /\ DeleteOK'
  BY <1>0, <1>1, <1>7 DEF PendOK, DeleteOK, Newest
<1>10. Turns'
  <2>1. Len(<<>>) < 2
    BY EmptyQueue
  <2> QED BY <1>0, <1>1, <1>2, <1>7, <2>1 DEF Turns, Acting
<1>11. ASSUME NEW d \in Client PROVE ClientOK(d)'
  <2>1. CASE d # c
    BY <1>0, <1>1, <1>7, <2>1 DEF ClientOK, JournalAt, QueueAt, LedgerAt, AgreeAt, Hears
  <2>2. CASE d = c
    <3>1. JournalAt(c)'
      BY <1>0, <1>1, <1>4, <1>6, <1>7 DEF ClientOK, JournalAt
    <3>2. QueueAt(c)' /\ AgreeAt(c)'
      BY <1>1, <1>2, <1>7 DEF QueueAt, AgreeAt, Hears
    <3>3. LedgerAt(c)'
      <4>1. Upto(nd.ledger, srv.ledger)
        BY <1>0, <1>4, UptoRefl, NodeFacts
      <4> QED BY <1>6, <1>7, <4>1 DEF LedgerAt, Hears
    <3> QED BY <2>2, <3>1, <3>2, <3>3 DEF ClientOK
  <2> QED BY <2>1, <2>2
<1> QED BY <1>8, <1>9, <1>10, <1>11 DEF RInv

(* The server makes the client a peer (insert_peer).                        *)
LEMMA InsertPeerStep ==
    ASSUME RInv, NEW c \in Client, Files!InsertPeer(c)
    PROVE  RInv'
<1>0. /\ RType /\ PendOK /\ Turns /\ DeleteOK /\ \A d \in Client : ClientOK(d)
  BY DEF RInv
<1>1. /\ conn[c] = "sent" /\ conn' = [conn EXCEPT ![c] = "live"]
      /\ unlisted' = unlisted \ {c} /\ UNCHANGED <<node, journal, pend, snap, queue, now, ops, last>>
  BY DEF Files!InsertPeer
<1>2. conn'[c] = "live" /\ srv' = srv /\ \A d \in Client : d # c => conn'[d] = conn[d]
  BY <1>0, <1>1 DEF RType, srv
<1>3. queue[c] = <<>> /\ journal[c] = Files!NoAction /\ Same(node[c], srv) /\ Agrees(node[c], srv)
  BY <1>0, <1>1 DEF ClientOK, QueueAt, LedgerAt, AgreeAt
<1>4. RType' /\ PendOK' /\ DeleteOK'
  BY <1>0, <1>1, <1>2 DEF RType, PendOK, DeleteOK, Newest
<1>5. Turns'
  <2>1. Len(queue[c]) < 2
    BY <1>3, EmptyQueue
  <2> QED BY <1>0, <1>1, <1>2, <1>3, <2>1 DEF Turns, Acting
<1>6. ASSUME NEW d \in Client PROVE ClientOK(d)'
  <2>1. CASE d # c
    BY <1>0, <1>1, <1>2, <2>1 DEF ClientOK, JournalAt, QueueAt, LedgerAt, AgreeAt, Hears
  <2>2. CASE d = c
    <3>1. JournalAt(c)' /\ QueueAt(c)'
      BY <1>0, <1>1, <1>2, <1>3 DEF ClientOK, JournalAt, QueueAt
    <3>2. LedgerAt(c)' /\ AgreeAt(c)'
      BY <1>0, <1>1, <1>2, <1>3, EmptyQueue DEF ClientOK, LedgerAt, AgreeAt, Hears
    <3> QED BY <2>2, <3>1, <3>2 DEF ClientOK
  <2> QED BY <2>1, <2>2
<1> QED BY <1>4, <1>5, <1>6 DEF RInv

(* A connection is lost, and with it what was on the way.                   *)
LEMMA DisconnectStep ==
    ASSUME RInv, NEW c \in Client, Files!Disconnect(c)
    PROVE  RInv'
<1>0. /\ RType /\ PendOK /\ Turns /\ DeleteOK /\ \A d \in Client : ClientOK(d)
  BY DEF RInv
<1>1. /\ conn' = [conn EXCEPT ![c] = "down"] /\ queue' = [queue EXCEPT ![c] = <<>>]
      /\ DOMAIN snap' = DOMAIN snap /\ (\A d \in Client : d # c => snap'[d] = snap[d])
      /\ unlisted' = unlisted \ {c} /\ UNCHANGED <<node, journal, pend, now, ops, last>>
  BY <1>0 DEF Files!Disconnect, RType
<1>2. /\ conn'[c] = "down" /\ queue'[c] = <<>> /\ srv' = srv
      /\ \A d \in Client : d # c => conn'[d] = conn[d] /\ queue'[d] = queue[d]
  BY <1>0, <1>1 DEF RType, srv
<1>3. RType' /\ PendOK' /\ DeleteOK'
  BY <1>0, <1>1, <1>2 DEF RType, PendOK, DeleteOK, Newest
<1>4. Turns'
  BY <1>0, <1>1, <1>2 DEF Turns, Acting
<1>5. ASSUME NEW d \in Client PROVE ClientOK(d)'
  <2>1. CASE d # c
    BY <1>0, <1>1, <1>2, <2>1 DEF ClientOK, JournalAt, QueueAt, LedgerAt, AgreeAt, Hears
  <2>2. CASE d = c
    BY <1>0, <1>1, <1>2, <2>2 DEF ClientOK, JournalAt, QueueAt, LedgerAt, AgreeAt, Hears
  <2> QED BY <2>1, <2>2
<1> QED BY <1>3, <1>4, <1>5 DEF RInv

(* The handler of a lost connection takes an entry out.                     *)
LEMMA LateHandlerStep ==
    ASSUME RInv, NEW c \in Client, Files!LateHandler(c)
    PROVE  RInv'
<1>1. /\ UNCHANGED <<node, journal, pend, conn, snap, queue, now, ops, last>>
      /\ unlisted \subseteq unlisted'
  BY DEF Files!LateHandler
<1>2. srv' = srv
  BY <1>1 DEF srv
<1>3. RType' /\ PendOK' /\ DeleteOK' /\ Turns'
  BY <1>1, <1>2 DEF RInv, RType, PendOK, DeleteOK, Newest, Turns, Acting
<1>4. ASSUME NEW d \in Client PROVE ClientOK(d)'
  <2>1. Hears(d)' => Hears(d)
    BY <1>1 DEF Hears
  <2>2. ClientOK(d)
    BY DEF RInv
  <2> HIDE DEF Hears
  <2> QED BY <1>1, <1>2, <2>1, <2>2 DEF ClientOK, JournalAt, QueueAt, LedgerAt, AgreeAt
<1> QED BY <1>3, <1>4 DEF RInv

-----------------------------------------------------------------------------
(* While a client is acting the others are away or live, and have nothing   *)
(* to do but receive.                                                       *)
LEMMA Others ==
    ASSUME RInv, NEW c \in Client, Acting(c)
    PROVE  /\ pend = Files!NoPending /\ SrvOK(srv)
           /\ \A d \in Client : d # c =>
                 /\ conn[d] \in {"down", "live"} /\ ~Acting(d)
                 /\ conn[d] = "down" => queue[d] = <<>>
                 /\ conn[d] = "live" =>
                       /\ journal[d] = Files!NoAction
                       /\ Upto(Files!ApplyAll(node[d], queue[d]).ledger, srv.ledger)
                 /\ Hears(d) =>
                       /\ Same(Files!ApplyAll(node[d], queue[d]), srv)
                       /\ Agrees(Files!ApplyAll(node[d], queue[d]), srv)
<1>1. RType /\ PendOK /\ Turns /\ \A d \in Client : ClientOK(d)
  BY DEF RInv
<1>2. pend = Files!NoPending
  BY <1>1 DEF Turns
<1>3. SrvOK(srv)
  BY <1>1, <1>2 DEF PendOK, Files!NoPending
<1>4. ASSUME NEW d \in Client, d # c
      PROVE  conn[d] \in {"down", "live"} /\ ~Acting(d) /\ (conn[d] = "live" => journal[d] = Files!NoAction)
  <2>1. ~Acting(d)
    BY <1>1, <1>4 DEF Turns
  <2>2. conn[d] \in {"down", "drain", "sync", "sent", "live"}
    BY <1>1 DEF RType
  <2> QED BY <2>1, <2>2 DEF Acting
<1>5. ASSUME NEW d \in Client, d # c
      PROVE  /\ conn[d] = "down" => queue[d] = <<>>
             /\ conn[d] = "live" => Upto(Files!ApplyAll(node[d], queue[d]).ledger, srv.ledger)
             /\ Hears(d) =>
                   /\ Same(Files!ApplyAll(node[d], queue[d]), srv)
                   /\ Agrees(Files!ApplyAll(node[d], queue[d]), srv)
  BY <1>1, <1>2, <1>4, <1>5 DEF ClientOK, QueueAt, LedgerAt, AgreeAt, Hears
<1> QED BY <1>2, <1>3, <1>4, <1>5

(* A client that has applied what waits.                                    *)
LEMMA Waiting ==
    ASSUME NEW u \in Nat, NEW nd, NodeOK(nd, u), NEW q, Short(q, u)
    PROVE  NodeOK(Files!ApplyAll(nd, q), u)
<1>1. CASE q = <<>>
  BY <1>1, EmptyQueue
<1>2. CASE q # <<>>
  <2> DEFINE m == q[1]
  <2>1. q = <<m>> /\ MsgOK(m, u)
    BY <1>2 DEF OneMsg, Short
  <2> HIDE DEF m
  <2>2. Files!ApplyAll(nd, q) = Files!apply_msg(nd, m)
    BY <2>1, SingleMessage
  <2> QED BY <2>1, <2>2, Applied
<1> QED BY <1>1, <1>2

(* What the server makes of what a client sends.                            *)
LEMMA ServerApplies ==
    ASSUME NEW u \in Nat, NEW s, NodeOK(s, u), SrvOK(s), NEW q, Short(q, u)
    PROVE  LET k == Files!ApplyAll(s, q) IN NodeOK(k, u) /\ SrvOK(k) /\ Upto(s.ledger, k.ledger)
<1>1. CASE q = <<>>
  <2>1. Upto(s.ledger, s.ledger)
    BY UptoRefl, NodeFacts
  <2> QED BY <1>1, <2>1, EmptyQueue
<1>2. CASE q # <<>>
  <2> DEFINE m == q[1]
  <2>1. q = <<m>> /\ MsgOK(m, u)
    BY <1>2 DEF OneMsg, Short
  <2> HIDE DEF m
  <2>2. Files!ApplyAll(s, q) = Files!apply_msg(s, m)
    BY <2>1, SingleMessage
  <2> QED BY <2>1, <2>2, Applied
<1> QED BY <1>1, <1>2

(* What one client sends is applied by the server and relayed to the        *)
(* others, who come to agree with the server again.                         *)
LEMMA Relayed ==
    ASSUME RInv, NEW c \in Client, Acting(c),
           \A d \in Client : conn[d] = "live" => Len(queue[d]) < 2,
           NEW send, Short(send, now),
           srv' = Files!ApplyAll(srv, send), now' = now, pend' = pend,
           NEW d \in Client, d # c,
           node'[d] = node[d], journal'[d] = journal[d], conn'[d] = conn[d], snap'[d] = snap[d],
           UNCHANGED unlisted, queue'[d] = Files!broadcast_to_others(queue, c, send)[d]
    PROVE  /\ ClientOK(d)'
           /\ conn[d] = "down" => queue'[d] = <<>>
           /\ queue[d] = <<>> => Len(queue'[d]) < 2
<1>0. now \in Nat /\ NodeOK(srv, now) /\ NodeOK(node[d], now) /\ ClientOK(d)
  BY Parts
<1>1. /\ conn[d] \in {"down", "live"} /\ pend = Files!NoPending /\ SrvOK(srv)
      /\ conn[d] = "down" => queue[d] = <<>>
      /\ conn[d] = "live" =>
            /\ journal[d] = Files!NoAction
            /\ Upto(Files!ApplyAll(node[d], queue[d]).ledger, srv.ledger)
      /\ Hears(d) =>
            /\ Same(Files!ApplyAll(node[d], queue[d]), srv)
            /\ Agrees(Files!ApplyAll(node[d], queue[d]), srv)
  BY Others
<1>2. Short(queue[d], now)
  <2>1. CASE conn[d] = "down"
    BY <1>1, <2>1 DEF Short
  <2>2. CASE conn[d] = "live"
    <3>1. Len(queue[d]) < 2
      BY <2>2
    <3> QED BY <1>0, <2>2, <3>1 DEF ClientOK, QueueAt, TwoMsgs, Short
  <2> QED BY <1>1, <2>1, <2>2
<1>3. /\ Upto(node[d].ledger, srv'.ledger)
      /\ conn[d] = "live" => Upto(Files!ApplyAll(node[d], queue[d]).ledger, srv'.ledger)
  <2>1. /\ Upto(node[d].ledger, srv.ledger)
        /\ conn[d] = "live" => Upto(Files!ApplyAll(node[d], queue[d]).ledger, srv.ledger)
    BY <1>0, <1>1 DEF ClientOK, LedgerAt
  <2>2. Upto(srv.ledger, srv'.ledger) /\ NodeOK(srv', now)
    BY <1>0, <1>1, ServerApplies
  <2>3. node[d].ledger \in LedgerT /\ srv.ledger \in LedgerT /\ srv'.ledger \in LedgerT
    BY <1>0, <2>2, NodeFacts
  <2>4. Files!ApplyAll(node[d], queue[d]).ledger \in LedgerT
    BY <1>0, <1>2, Waiting, NodeFacts
  <2> QED BY <2>1, <2>2, <2>3, <2>4, UptoTrans
<1>4. JournalAt(d)'
  BY <1>0 DEF ClientOK, JournalAt
<1>5. CASE send = <<>> \/ ~Hears(d)
  <2>1. queue'[d] = queue[d]
    BY <1>1, <1>2, <1>5, BroadcastsNot
  <2>2. (Hears(d) => srv' = srv) /\ (Hears(d)' <=> Hears(d))
    BY <1>5, EmptyQueue DEF Hears
  <2>3. QueueAt(d)'
    BY <1>0, <2>1 DEF ClientOK, QueueAt
  <2>4. LedgerAt(d)' /\ AgreeAt(d)'
    BY <1>1, <1>3, <2>1, <2>2 DEF LedgerAt, AgreeAt
  <2>5. queue[d] = <<>> => Len(queue'[d]) < 2
    BY <2>1, EmptyQueue
  <2> QED BY <1>1, <1>4, <2>1, <2>3, <2>4, <2>5 DEF ClientOK
<1>6. CASE send # <<>> /\ Hears(d)
  <2> DEFINE m == send[1]
             x == Files!ApplyAll(node[d], queue[d])
  <2>1. send = <<m>> /\ MsgOK(m, now)
    BY <1>6 DEF OneMsg, Short
  <2> HIDE DEF m
  <2>2. Extends(queue'[d], queue[d], m)
    <3>1. Extends(Files!broadcast_to_others(queue, c, <<m>>)[d], queue[d], m)
      BY <1>2, <1>6, <2>1, Broadcasts
    <3> QED BY <2>1, <3>1
  <2>3. /\ queue[d] = <<>> => OneMsg(queue'[d], now) /\ Len(queue'[d]) < 2
        /\ queue[d] # <<>> => TwoMsgs(queue'[d], now)
        /\ Files!ApplyAll(node[d], queue'[d]) = Files!apply_msg(x, m)
    <3>1. ASSUME NEW r, Extends(r, queue[d], m)
          PROVE  /\ queue[d] = <<>> => OneMsg(r, now) /\ Len(r) < 2
                 /\ queue[d] # <<>> => TwoMsgs(r, now)
                 /\ Files!ApplyAll(node[d], r) = Files!apply_msg(x, m)
      BY <1>2, <2>1, <3>1, Taken
    <3> QED BY <2>2, <3>1
  <2>4. srv' = Files!apply_msg(srv, m)
    BY <2>1, SingleMessage
  <2>5. NodeOK(x, now)
    BY <1>0, <1>2, Waiting
  <2>6. x.ledger = srv.ledger /\ Agrees(x, srv)
    BY <1>1, <1>6 DEF Same
  <2> HIDE DEF x
  <2>7. Files!apply_msg(x, m).ledger = Files!apply_msg(srv, m).ledger
        /\ Agrees(Files!apply_msg(x, m), Files!apply_msg(srv, m))
    BY <1>0, <2>1, <2>5, <2>6, SameStep
  <2>8. Same(Files!ApplyAll(node[d], queue'[d]), srv') /\ Agrees(Files!ApplyAll(node[d], queue'[d]), srv')
    BY <2>3, <2>4, <2>7 DEF Same
  <2>9. QueueAt(d)'
    BY <1>6, <2>3 DEF QueueAt, Hears
  <2>10. Upto(Files!ApplyAll(node[d], queue'[d]).ledger, srv'.ledger)
    <3>1. NodeOK(srv', now)
      BY <1>0, <2>1, <2>4, Applied
    <3> QED BY <1>0, <2>8, <3>1, UptoRefl, NodeFacts DEF Same
  <2>11. conn[d] = "live"
    BY <1>6 DEF Hears
  <2>12. LedgerAt(d)' /\ AgreeAt(d)'
    BY <1>1, <1>3, <2>8, <2>10, <2>11 DEF LedgerAt, AgreeAt
  <2> QED BY <1>4, <2>3, <2>9, <2>11, <2>12 DEF ClientOK
<1> QED BY <1>1, <1>5, <1>6

(* A client takes the first message.                                        *)
LEMMA ReceiveStep ==
    ASSUME RInv, NEW c \in Client, Files!Receive(c)
    PROVE  RInv'
<1> DEFINE q == queue[c]
           m == q[1]
           nd == Files!apply_msg(node[c], m)
<1>0. /\ now \in Nat /\ NodeOK(node[c], now) /\ NodeOK(srv, now) /\ RType /\ PendOK /\ Turns /\ DeleteOK
      /\ \A d \in Client : ClientOK(d)
  BY Parts DEF RInv
<1>1. /\ q # <<>> /\ Head(q).op # "complete"
      /\ node' = [node EXCEPT ![c] = Files!apply_msg(@, Head(q))] /\ queue' = [queue EXCEPT ![c] = Tail(@)]
      /\ UNCHANGED <<journal, pend, conn, snap, unlisted, now, ops, last>>
  BY DEF Files!Receive
<1>2. /\ conn[c] \in {"sync", "live"} /\ journal[c] = Files!NoAction /\ pend = Files!NoPending
      /\ \A d \in Client : conn[d] = "down" \/ journal[d] = Files!NoAction
  <2>1. conn[c] \in {"sync", "live"}
    BY <1>0, <1>1 DEF ClientOK, QueueAt, RType
  <2> QED BY <1>0, <1>1, <2>1 DEF Turns
<1>3. /\ Head(q) = m /\ MsgOK(m, now) /\ Len(Tail(q)) < 2
      /\ conn[c] = "sync" => Tail(q) = <<Files!CompleteMsg>> /\ Len(q) = 2
      /\ conn[c] = "live" =>
            \/ Tail(q) = <<>> /\ q = <<m>>
            \/ OneMsg(Tail(q), now) /\ Len(q) = 2 /\ Tail(q)[1] = q[2]
  <2>1. CASE conn[c] = "sync"
    <3>1. SyncQueue(q, now)
      BY <1>0, <2>1 DEF ClientOK, QueueAt
    <3>2. q # <<Files!CompleteMsg>>
      <4>1. Head(<<Files!CompleteMsg>>).op = "complete"
        BY DEF Files!CompleteMsg
      <4> QED BY <1>1, <4>1
    <3>3. Len(q) = 2 /\ q = <<m, Files!CompleteMsg>> /\ MsgOK(m, now)
      BY <3>1, <3>2 DEF SyncQueue
    <3> HIDE DEF m, q
    <3>4. Head(q) = m /\ Tail(q) = <<Files!CompleteMsg>>
      BY <3>3, Pair
    <3>5. Len(<<Files!CompleteMsg>>) = 1
      OBVIOUS
    <3> QED BY <2>1, <3>3, <3>4, <3>5
  <2>2. CASE conn[c] = "live"
    <3>1. OneMsg(q, now) \/ TwoMsgs(q, now)
      BY <1>0, <1>1, <2>2 DEF ClientOK, QueueAt
    <3>2. CASE OneMsg(q, now)
      <4>1. q = <<m>> /\ MsgOK(m, now) /\ Len(q) = 1
        BY <3>2 DEF OneMsg
      <4> HIDE DEF m, q
      <4>2. Head(<<m>>) = m /\ Tail(<<m>>) = <<>> /\ Len(<<>>) = 0
        OBVIOUS
      <4> QED BY <2>2, <4>1, <4>2
    <3>3. CASE TwoMsgs(q, now)
      <4> DEFINE b == q[2]
      <4>1. q = <<m, b>> /\ MsgOK(m, now) /\ MsgOK(b, now) /\ Len(q) = 2
        BY <3>3 DEF TwoMsgs
      <4> HIDE DEF m, q, b
      <4>2. Head(q) = m /\ Tail(q) = <<b>>
        BY <4>1, Pair
      <4>3. OneMsg(<<b>>, now) /\ Len(<<b>>) = 1 /\ <<b>>[1] = b
        BY <4>1, MadeOne
      <4>4. Tail(q)[1] = q[2]
        BY <4>2, <4>3 DEF b
      <4>5. OneMsg(Tail(q), now) /\ Len(Tail(q)) = 1
        BY <4>2, <4>3
      <4> QED BY <2>2, <4>1, <4>2, <4>4, <4>5
    <3> QED BY <3>1, <3>2, <3>3
  <2> QED BY <1>2, <2>1, <2>2
<1>4. /\ node'[c] = nd /\ srv' = srv /\ queue'[c] = Tail(q)
      /\ \A d \in Client : d # c => node'[d] = node[d] /\ queue'[d] = queue[d]
  BY <1>0, <1>1, <1>3, Nodes DEF srv, RType
<1> HIDE DEF m, q
<1>5. /\ NodeOK(nd, now) /\ Upto(node[c].ledger, nd.ledger) /\ (Stamped(node[c]) => Stamped(nd))
  BY <1>0, <1>3, Applied
<1>6. RType'
  <2>1. node' \in [Files!Node -> NodeT]
    BY <1>0, <1>1, <1>3, <1>5 DEF RType, NodeOK
  <2>2. \A n \in Files!Node : NodeOK(node[n], now)'
    BY <1>0, <1>1, <1>4, <1>5, Nodes DEF srv, RType
  <2> QED BY <1>0, <1>1, <2>1, <2>2 DEF RType
<1>7. PendOK' /\ DeleteOK'
  BY <1>0, <1>1, <1>4 DEF PendOK, DeleteOK, Newest
<1>8. Turns'
  <2>1. Len(queue'[c]) < 2
    BY <1>3, <1>4, Zenon
  <2> QED BY <1>0, <1>1, <1>2, <1>4, <2>1 DEF Turns, Acting
<1> HIDE DEF nd
<1>9. ClientOK(c)'
  <2>1. JournalAt(c)'
    BY <1>0, <1>1, <1>2, <1>4, <1>5 DEF ClientOK, JournalAt, Files!NoAction
  <2>2. CASE conn[c] = "sync"
    <3>1. queue'[c] = <<Files!CompleteMsg>> /\ Heard(node[c], queue[c]) = nd
      BY <1>3, <1>4, <2>2 DEF Heard, nd, q, m
    <3>2. Heard(nd, <<Files!CompleteMsg>>) = nd
      <4>1. Len(<<Files!CompleteMsg>>) = 1
        OBVIOUS
      <4> QED BY <4>1 DEF Heard
    <3>3. QueueAt(c)'
      BY <1>1, <1>2, <2>2, <3>1 DEF QueueAt, SyncQueue
    <3>4. Same(nd, srv) /\ SyncDone(nd, snap[c].local, snap[c].remote, srv, now)
      BY <1>0, <2>2, <3>1 DEF ClientOK, LedgerAt, AgreeAt
    <3>5. Upto(nd.ledger, srv.ledger)
      BY <1>0, <3>4, UptoRefl, NodeFacts DEF Same
    <3>6. LedgerAt(c)' /\ AgreeAt(c)'
      BY <1>1, <1>4, <2>2, <3>1, <3>2, <3>4, <3>5 DEF LedgerAt, AgreeAt, Hears
    <3> QED BY <2>1, <3>3, <3>6 DEF ClientOK
  <2>3. CASE conn[c] = "live"
    <3>1. /\ Upto(Files!ApplyAll(node[c], q).ledger, srv.ledger)
          /\ Hears(c) => /\ Same(Files!ApplyAll(node[c], q), srv)
                         /\ Agrees(Files!ApplyAll(node[c], q), srv)
      BY <1>0, <1>2, <2>3 DEF ClientOK, LedgerAt, AgreeAt, q
    <3>2. Files!ApplyAll(nd, Tail(q)) = Files!ApplyAll(node[c], q)
      <4>1. CASE Tail(q) = <<>> /\ q = <<m>>
        BY <4>1, SingleMessage DEF nd
      <4>2. CASE OneMsg(Tail(q), now) /\ Len(q) = 2 /\ Tail(q)[1] = q[2]
        <5>1. q # <<>> /\ Files!ApplyAll(node[c], q) = Files!apply_msg(nd, q[2])
          BY <1>1, <4>2 DEF Files!ApplyAll, nd, m
        <5> DEFINE b == q[2]
        <5>2. Tail(q) = <<b>>
          BY <4>2 DEF OneMsg
        <5> HIDE DEF b
        <5>3. Files!ApplyAll(nd, Tail(q)) = Files!apply_msg(nd, b)
          BY <5>2, SingleMessage
        <5> QED BY <5>1, <5>3 DEF b
      <4> QED BY <1>3, <2>3, <4>1, <4>2
    <3>3. QueueAt(c)'
      BY <1>1, <1>3, <1>4, <2>3 DEF QueueAt
    <3>4. Upto(nd.ledger, srv.ledger)
      <4> DEFINE y == Files!ApplyAll(nd, Tail(q))
      <4>1. Upto(y.ledger, srv.ledger) /\ nd.ledger \in LedgerT /\ srv.ledger \in LedgerT
        BY <1>0, <1>5, <3>1, <3>2, NodeFacts
      <4>2. Upto(nd.ledger, y.ledger)
        <5>1. CASE Tail(q) = <<>>
          BY <1>0, <1>5, <5>1, EmptyQueue, UptoRefl, NodeFacts
        <5>2. CASE OneMsg(Tail(q), now)
          <6> DEFINE b == Tail(q)[1]
          <6>1. Tail(q) = <<b>> /\ MsgOK(b, now)
            BY <5>2 DEF OneMsg
          <6> HIDE DEF b
          <6>2. y = Files!apply_msg(nd, b)
            BY <6>1, SingleMessage
          <6> QED BY <1>0, <1>5, <6>1, <6>2, Applied
        <5> QED BY <1>3, <2>3, <5>1, <5>2
      <4>3. y.ledger \in LedgerT
        <5>1. Short(Tail(q), now)
          BY <1>3, <2>3 DEF Short
        <5> QED BY <1>0, <1>5, <5>1, Waiting, NodeFacts
      <4> HIDE DEF y
      <4> QED BY <4>1, <4>2, <4>3, UptoTrans
    <3>5. LedgerAt(c)' /\ AgreeAt(c)'
      BY <1>1, <1>2, <1>4, <2>3, <3>1, <3>2, <3>4 DEF LedgerAt, AgreeAt, Hears
    <3> QED BY <2>1, <3>3, <3>5 DEF ClientOK
  <2> QED BY <1>2, <2>2, <2>3
<1>10. ASSUME NEW d \in Client, d # c PROVE ClientOK(d)'
  BY <1>0, <1>1, <1>4, <1>10 DEF ClientOK, JournalAt, QueueAt, LedgerAt, AgreeAt, Hears
<1> QED BY <1>6, <1>7, <1>8, <1>9, <1>10 DEF RInv

(* The manifests are exchanged and the server sends its part.               *)
LEMMA ExchangeStep ==
    ASSUME RInv, NEW c \in Client, Files!ExchangeManifests(c)
    PROVE  RInv'
<1> DEFINE p == Files!SyncPhase(srv, srv.mani, node[c].disk, TRUE)
           n == Files!scan(node[c])
           q == p.send \o <<Files!CompleteMsg>>
<1>0. /\ now \in Nat /\ NodeOK(node[c], now) /\ NodeOK(srv, now) /\ RType /\ PendOK /\ Turns /\ DeleteOK
      /\ \A d \in Client : ClientOK(d)
  BY Parts DEF RInv
<1>1. /\ conn[c] = "drain" /\ journal[c] = Files!NoAction
      /\ node' = [node EXCEPT ![c] = n, ![Files!Server] = p.node]
      /\ queue' = [queue EXCEPT ![c] = q]
      /\ snap' = [snap EXCEPT ![c] = [local |-> node[c].disk, remote |-> srv.mani]]
      /\ conn' = [conn EXCEPT ![c] = "sync"]
      /\ UNCHANGED <<journal, pend, unlisted, now, ops, last>>
  BY DEF Files!ExchangeManifests, srv
<1>2. Acting(c)
  BY <1>1 DEF Acting
<1>3. /\ pend = Files!NoPending /\ SrvOK(srv)
      /\ \A d \in Client : d # c =>
            /\ conn[d] \in {"down", "live"} /\ ~Acting(d)
            /\ conn[d] = "live" => Upto(Files!ApplyAll(node[d], queue[d]).ledger, srv.ledger)
            /\ Hears(d) =>
                  /\ Same(Files!ApplyAll(node[d], queue[d]), srv)
                  /\ Agrees(Files!ApplyAll(node[d], queue[d]), srv)
  BY <1>2, Others
<1>4. Same(node[c], srv) /\ Stamped(node[c])
  BY <1>0, <1>1 DEF ClientOK, LedgerAt, JournalAt, Files!NoAction
<1>5. Exchanged(node[c], srv, now)
  BY <1>0, <1>3, <1>4, ExchangeIdle, ExchangeListed
<1>6. /\ NodeOK(p.node, now) /\ SrvOK(p.node) /\ Same(p.node, srv)
      /\ \/ p.node = srv
         \/ DeadAt(srv.ledger) # -1 /\ srv.disk = Files!NoFile /\ p.node.disk = Files!NoFile
      /\ Short(p.send, now) /\ Same(Told(n, p.send), p.node)
      /\ SyncDone(Told(n, p.send), node[c].disk, srv.mani, p.node, now)
  BY <1>5 DEF Exchanged, Short
<1>7. NodeOK(n, now) /\ Same(n, node[c]) /\ Stamped(n)
  BY <1>0, <1>4, ScanFacts
<1>8. SyncQueue(q, now) /\ Heard(n, q) = Told(n, p.send)
  <2> HIDE DEF n, p
  <2>1. CASE p.send = <<>>
    <3>1. q = <<Files!CompleteMsg>> /\ Len(q) # 2
      BY <2>1
    <3> HIDE DEF q
    <3>2. Heard(n, q) = n
      BY <3>1, Zenon DEF Heard
    <3>3. Told(n, p.send) = n
      BY <2>1 DEF Told
    <3> QED BY <3>1, <3>2, <3>3 DEF SyncQueue
  <2>2. CASE p.send # <<>>
    <3> DEFINE m == p.send[1]
    <3>1. p.send = <<m>> /\ MsgOK(m, now)
      BY <1>6, <2>2 DEF Short, OneMsg
    <3>2. Told(n, p.send) = Files!apply_msg(n, m)
      BY <2>2 DEF Told
    <3> HIDE DEF m
    <3>3. q = <<m, Files!CompleteMsg>> /\ Len(q) = 2 /\ q[1] = m
      BY <3>1, Pair
    <3> HIDE DEF q
    <3>4. Heard(n, q) = Files!apply_msg(n, m)
      BY <3>3 DEF Heard
    <3> QED BY <3>1, <3>2, <3>3, <3>4 DEF SyncQueue
  <2> QED BY <2>1, <2>2
<1> HIDE DEF p, n, q
<1>9. /\ node'[c] = n /\ srv' = p.node /\ queue'[c] = q /\ conn'[c] = "sync"
      /\ snap'[c] = [local |-> node[c].disk, remote |-> srv.mani]
      /\ \A d \in Client : d # c => /\ node'[d] = node[d] /\ queue'[d] = queue[d]
                                    /\ conn'[d] = conn[d] /\ snap'[d] = snap[d]
  BY <1>0, <1>1, Nodes DEF srv, RType
<1>10. srv'.ledger = srv.ledger
  BY <1>6, <1>9 DEF Same
<1>11. RType'
  <2>1. node' \in [Files!Node -> NodeT]
    BY <1>0, <1>1, <1>6, <1>7 DEF RType, NodeOK
  <2>2. \A k \in Files!Node : NodeOK(node[k], now)'
    BY <1>0, <1>1, <1>6, <1>7, <1>9, Nodes DEF srv, RType
  <2> QED BY <1>0, <1>1, <2>1, <2>2 DEF RType
<1>12. PendOK'
  BY <1>1, <1>3, <1>6, <1>9 DEF PendOK, SrvOK, Files!NoPending
<1>13. DeleteOK'
  BY <1>0, <1>1, <1>10 DEF DeleteOK, Newest
<1>14. Turns'
  <2>1. \A d \in Client : conn[d] = "live" => Len(queue[d]) < 2
    BY <1>0, <1>1 DEF Turns
  <2>2. \A d \in Client : conn[d] # "down" => journal[d] = Files!NoAction
    BY <1>1, <1>3 DEF Acting
  <2> QED BY <1>0, <1>1, <1>2, <1>3, <1>9, <2>1, <2>2 DEF Turns, Acting
<1>15. ClientOK(c)'
  <2>1. JournalAt(c)'
    BY <1>0, <1>1, <1>7, <1>9 DEF ClientOK, JournalAt, Files!NoAction
  <2>2. QueueAt(c)'
    BY <1>1, <1>8, <1>9 DEF QueueAt
  <2>3. Upto(n.ledger, srv'.ledger)
    BY <1>0, <1>4, <1>7, <1>10, UptoRefl, NodeFacts DEF Same
  <2>4. LedgerAt(c)'
    BY <1>6, <1>8, <1>9, <2>3 DEF LedgerAt, Hears
  <2>5. AgreeAt(c)'
    BY <1>1, <1>6, <1>8, <1>9 DEF AgreeAt, Hears
  <2> QED BY <2>1, <2>2, <2>4, <2>5 DEF ClientOK
<1>16. ASSUME NEW d \in Client, d # c PROVE ClientOK(d)'
  <2> DEFINE x == Files!ApplyAll(node[d], queue[d])
  <2>0. /\ node'[d] = node[d] /\ queue'[d] = queue[d] /\ conn'[d] = conn[d]
        /\ journal'[d] = journal[d] /\ now' = now
    BY <1>1, <1>9, <1>16
  <2>1. JournalAt(d)' /\ QueueAt(d)'
    BY <1>0, <2>0 DEF ClientOK, JournalAt, QueueAt
  <2>2. Upto(node[d].ledger, srv'.ledger)
    BY <1>0, <1>10 DEF ClientOK, LedgerAt
  <2>3. (Hears(d) => Same(x, srv')) /\ (conn[d] = "live" => Upto(x.ledger, srv'.ledger))
    BY <1>3, <1>10, <1>16 DEF Same
  <2>4. Hears(d) => Agrees(x, srv')
    <3> SUFFICES ASSUME Hears(d) PROVE Agrees(x, srv')
      OBVIOUS
    <3> HIDE DEF x
    <3>1. Agrees(x, srv) /\ x.ledger = srv.ledger
      BY <1>3, <1>16 DEF Same, x
    <3>2. CASE p.node = srv
      BY <1>9, <3>1, <3>2
    <3>3. CASE DeadAt(srv.ledger) # -1 /\ p.node.disk = Files!NoFile
      BY <1>9, <1>10, <3>1, <3>3 DEF Agrees
    <3> QED BY <1>6, <3>2, <3>3
  <2> HIDE DEF x
  <2>5. LedgerAt(d)' /\ AgreeAt(d)'
    BY <1>1, <1>3, <1>9, <1>16, <2>2, <2>3, <2>4 DEF LedgerAt, AgreeAt, Acting, Hears, x
  <2> QED BY <2>1, <2>5 DEF ClientOK
<1> QED BY <1>11, <1>12, <1>13, <1>14, <1>15, <1>16 DEF RInv

(* At SyncComplete the client sends its part.                               *)
LEMMA SendInitialStep ==
    ASSUME RInv, NEW c \in Client, Files!SendInitial(c)
    PROVE  RInv'
<1> DEFINE p == Files!SyncPhase(node[c], snap[c].local, snap[c].remote, FALSE)
           k == Files!ApplyAll(srv, p.send)
<1>0. /\ now \in Nat /\ NodeOK(node[c], now) /\ NodeOK(srv, now) /\ RType /\ PendOK /\ Turns /\ DeleteOK
      /\ \A d \in Client : ClientOK(d)
  BY Parts DEF RInv
<1>1. /\ queue[c] # <<>> /\ Head(queue[c]).op = "complete"
      /\ node' = [node EXCEPT ![c] = p.node, ![Files!Server] = k]
      /\ queue' = [Files!broadcast_to_others(queue, c, p.send) EXCEPT ![c] = Tail(@)]
      /\ conn' = [conn EXCEPT ![c] = "sent"]
      /\ DOMAIN snap' = DOMAIN snap /\ (\A d \in Client : d # c => snap'[d] = snap[d])
      /\ UNCHANGED <<journal, pend, unlisted, now, ops, last>>
  BY <1>0, Nodes DEF Files!SendInitial, Files!Delivered, srv, RType
<1>2. conn[c] = "sync" /\ queue[c] = <<Files!CompleteMsg>>
  <2>1. ASSUME NEW m, NEW x, MsgOK(m, now), queue[c] = <<m>> \/ queue[c] = <<m, x>> PROVE FALSE
    <3>1. m.op # "complete"
      BY <2>1 DEF MsgOK, MsgT
    <3>2. Head(<<m>>) = m /\ Head(<<m, x>>) = m
      BY Pair
    <3> QED BY <1>1, <2>1, <3>1, <3>2
  <2>2. conn[c] # "live"
    <3> SUFFICES ASSUME conn[c] = "live" PROVE FALSE
      OBVIOUS
    <3>1. OneMsg(queue[c], now) \/ TwoMsgs(queue[c], now)
      BY <1>0, <1>1 DEF ClientOK, QueueAt
    <3> QED BY <2>1, <3>1 DEF OneMsg, TwoMsgs
  <2>3. conn[c] = "sync"
    BY <1>0, <1>1, <2>2 DEF ClientOK, QueueAt, RType
  <2>4. SyncQueue(queue[c], now)
    BY <1>0, <2>3 DEF ClientOK, QueueAt
  <2> QED BY <2>1, <2>3, <2>4 DEF SyncQueue
<1>3. Acting(c) /\ \A d \in Client : conn[d] = "live" => Len(queue[d]) < 2
  BY <1>0, <1>2 DEF Acting, Turns
<1>4. /\ pend = Files!NoPending /\ SrvOK(srv)
      /\ \A d \in Client : d # c =>
            /\ conn[d] \in {"down", "live"} /\ ~Acting(d)
            /\ conn[d] = "down" => queue[d] = <<>>
  BY <1>3, Others
<1>5. journal[c] = Files!NoAction /\ SyncDone(node[c], snap[c].local, snap[c].remote, srv, now)
  <2>1. Heard(node[c], queue[c]) = node[c]
    <3>1. Len(<<Files!CompleteMsg>>) = 1
      OBVIOUS
    <3> QED BY <1>2, <3>1 DEF Heard
  <2> QED BY <1>0, <1>2, <2>1 DEF ClientOK, QueueAt, AgreeAt
<1>6. /\ NodeOK(p.node, now) /\ Stamped(p.node) /\ Short(p.send, now) /\ k.ledger = srv.ledger
      /\ Agrees(p.node, k)
  BY <1>5 DEF SyncDone, Short
<1> HIDE DEF p
<1>7. NodeOK(k, now) /\ SrvOK(k)
  BY <1>0, <1>4, <1>6, ServerApplies
<1> HIDE DEF k
<1>8. /\ node'[c] = p.node /\ srv' = k /\ queue'[c] = <<>> /\ conn'[c] = "sent"
      /\ \A d \in Client : d # c => /\ node'[d] = node[d] /\ conn'[d] = conn[d]
                                    /\ queue'[d] = Files!broadcast_to_others(queue, c, p.send)[d]
  <2>1. Files!broadcast_to_others(queue, c, p.send)[c] = queue[c]
    BY DEF Files!broadcast_to_others
  <2>2. DOMAIN Files!broadcast_to_others(queue, c, p.send) = Client
    BY DEF Files!broadcast_to_others
  <2>3. Tail(<<Files!CompleteMsg>>) = <<>>
    OBVIOUS
  <2>4. queue'[c] = <<>>
    BY <1>1, <1>2, <2>1, <2>2, <2>3
  <2> QED BY <1>0, <1>1, <2>2, <2>4, Nodes DEF srv, RType
<1>9. RType'
  <2>1. node' \in [Files!Node -> NodeT]
    BY <1>0, <1>1, <1>6, <1>7 DEF RType, NodeOK
  <2>2. \A n \in Files!Node : NodeOK(node[n], now)'
    BY <1>0, <1>1, <1>6, <1>7, <1>8, Nodes DEF srv, RType
  <2>3. DOMAIN queue' = Client
    BY <1>1 DEF Files!broadcast_to_others
  <2> QED BY <1>0, <1>1, <2>1, <2>2, <2>3 DEF RType
<1>10. PendOK'
  BY <1>1, <1>4, <1>7, <1>8 DEF PendOK, SrvOK, Files!NoPending
<1>11. DeleteOK'
  BY <1>0, <1>1, <1>6, <1>8 DEF DeleteOK, Newest
<1>12. Turns'
  BY <1>1, <1>3, <1>4, <1>5, <1>8 DEF Turns, Acting
<1>13. ClientOK(c)'
  <2>0. journal'[c] = Files!NoAction /\ now' = now /\ node'[c] = p.node
    BY <1>1, <1>5, <1>8
  <2>1. JournalAt(c)'
    BY <1>0, <1>6, <2>0 DEF JournalAt, Files!NoAction
  <2>2. QueueAt(c)'
    BY <1>1, <1>5, <1>8 DEF QueueAt
  <2>3. Same(p.node, k)
    BY <1>6 DEF Agrees, Same
  <2>4. Upto(p.node.ledger, k.ledger)
    BY <1>0, <1>6, <1>7, <2>3, UptoRefl, NodeFacts DEF Same
  <2>5. LedgerAt(c)' /\ AgreeAt(c)'
    BY <1>6, <1>8, <2>3, <2>4 DEF LedgerAt, AgreeAt, Hears
  <2> QED BY <2>1, <2>2, <2>5 DEF ClientOK
<1>14. ASSUME NEW d \in Client, d # c PROVE ClientOK(d)'
  <2>1. srv' = Files!ApplyAll(srv, p.send) /\ now' = now /\ pend' = pend
    BY <1>1, <1>8 DEF k
  <2>2. /\ node'[d] = node[d] /\ journal'[d] = journal[d] /\ conn'[d] = conn[d] /\ snap'[d] = snap[d]
        /\ queue'[d] = Files!broadcast_to_others(queue, c, p.send)[d]
    BY <1>1, <1>8, <1>14
  <2>3. UNCHANGED unlisted
    BY <1>1
  <2> QED BY <1>3, <1>6, <1>14, <2>1, <2>2, <2>3, Relayed
<1> QED BY <1>9, <1>10, <1>11, <1>12, <1>13, <1>14 DEF RInv

(* The fate of a journal entry: client and server end with one ledger, and, *)
(* when the action is the newest, with one content.                         *)
LEMMA DecidedDelete ==
    ASSUME NEW u \in Nat, NEW nd, NodeOK(nd, u), NEW s, NodeOK(s, u), Same(nd, s),
           NEW e, e.op = "delete", e.at \in Nat, e.at > 0, e.at <= u, nd.disk = Files!NoFile
    PROVE  LET r == Files!Decided(nd, e)
               k == Files!ApplyAll(s, r.send)
           IN  /\ NodeOK(r.node, u) /\ Stamped(r.node) /\ Short(r.send, u) /\ Same(r.node, k)
               /\ e.at > LiveAt(s.ledger) => Agrees(r.node, k)
               /\ r.node.disk = Files!NoFile
               /\ LiveAt(k.ledger) = LiveAt(s.ledger)
               /\ e.at <= LiveAt(s.ledger) => k.ledger = s.ledger
               /\ e.at > LiveAt(s.ledger) =>
                     DeadAt(k.ledger) = IF DeadAt(s.ledger) >= e.at THEN DeadAt(s.ledger) ELSE e.at
<1> DEFINE r == Files!Decided(nd, e)
           msg == Files!DeleteMsg(e.at)
           q == Files!record(nd, e.at)
           k == Files!apply_deletes(s, e.at)
<1>1. r.node = q /\ r.send = <<msg>>
  BY DEF Files!Decided
<1>2. MsgOK(msg, u) /\ msg.op = "delete" /\ msg.at = e.at
  BY DEF MsgOK, MsgT, Files!DeleteMsg
<1>3. nd.ledger = s.ledger
  BY DEF Same
<1>4. /\ NodeOK(q, u) /\ q.disk = nd.disk
      /\ LiveAt(q.ledger) = LiveAt(nd.ledger)
      /\ e.at <= LiveAt(nd.ledger) => q.ledger = nd.ledger
      /\ e.at > LiveAt(nd.ledger) =>
            DeadAt(q.ledger) = IF DeadAt(nd.ledger) >= e.at THEN DeadAt(nd.ledger) ELSE e.at
  BY Recorded
<1>5. /\ NodeOK(k, u)
      /\ LiveAt(k.ledger) = LiveAt(s.ledger)
      /\ e.at <= LiveAt(s.ledger) => k.ledger = s.ledger
      /\ e.at > LiveAt(s.ledger) =>
            /\ k.disk = Files!NoFile
            /\ DeadAt(k.ledger) = IF DeadAt(s.ledger) >= e.at THEN DeadAt(s.ledger) ELSE e.at
  BY ApplyDelete
<1> HIDE DEF q, k, msg, r
<1>6. q.ledger = k.ledger
  <2>1. CASE e.at <= LiveAt(s.ledger)
    BY <1>3, <1>4, <1>5, <2>1
  <2>2. CASE e.at > LiveAt(s.ledger)
    <3>1. DeadAt(q.ledger) = DeadAt(k.ledger) /\ LiveAt(q.ledger) = LiveAt(k.ledger)
      BY <1>3, <1>4, <1>5, <2>2
    <3> QED BY <1>4, <1>5, <3>1, LedgerEq, NodeFacts
  <2> QED BY <2>1, <2>2, NodeFacts
<1>7. Files!ApplyAll(s, r.send) = k
  BY <1>1, <1>2, SingleMessage DEF Files!apply_msg, k
<1>8. q.disk = Files!NoFile /\ Stamped(q)
  BY <1>4 DEF Stamped
<1>9. e.at > LiveAt(s.ledger) => Agrees(q, k)
  BY <1>5, <1>6, <1>8 DEF Agrees
<1>10. Short(r.send, u)
  BY <1>1, <1>2, MadeOne DEF Short
<1> QED BY <1>1, <1>4, <1>5, <1>6, <1>7, <1>8, <1>9, <1>10 DEF Same, r

(* ... and a write.                                                         *)
LEMMA DecidedUpsert ==
    ASSUME NEW u \in Nat, NEW nd, NodeOK(nd, u), NEW s, NodeOK(s, u), Same(nd, s),
           NEW e, e.op = "upsert", e.at \in Nat, e.at > 0, e.at <= u,
           nd.disk # Files!NoFile, nd.disk.m <= e.at
    PROVE  LET r == Files!Decided(nd, e)
               k == Files!ApplyAll(s, r.send)
           IN  /\ NodeOK(r.node, u) /\ Stamped(r.node) /\ Short(r.send, u) /\ Same(r.node, k)
               /\ e.at > DeadAt(s.ledger) => Agrees(r.node, k)
               /\ DeadAt(s.ledger) > e.at => k.ledger = s.ledger
               /\ LiveAt(k.ledger) = LiveAt(s.ledger) \/ LiveAt(k.ledger) = e.at
<1> DEFINE r == Files!Decided(nd, e)
           l == nd.ledger
           k == Files!ApplyAll(s, r.send)
           t == DeadAt(nd.ledger)
<1>1. nd.ledger = s.ledger /\ Files!tombstone(nd) = t
  BY DEF Same, Files!tombstone, DeadAt
<1>2. t \in Int /\ LiveAt(l) \in Nat /\ WellFormed(l) /\ LiveAt(l) <= u /\ t <= u
  BY NodeFacts
<1>3. CASE t > e.at
  <2> DEFINE c == Files!apply_deletes(nd, DeadAt(nd.ledger))
  <2>1. r.node = c /\ r.send = <<>>
    BY <1>1, <1>3 DEF Files!Decided
  <2>2. t # -1
    BY <1>3
  <2>3. NodeOK(c, u) /\ c.ledger = nd.ledger /\ c.disk = Files!NoFile
    BY <2>2, Cleaned
  <2> HIDE DEF c, r
  <2>4. k = s
    BY <2>1, EmptyQueue
  <2>5. Same(c, s) /\ Stamped(c) /\ Short(<<>>, u)
    BY <1>1, <2>3 DEF Same, Stamped, Short
  <2>6. ~(e.at > DeadAt(s.ledger))
    BY <1>1, <1>2, <1>3
  <2> QED BY <2>1, <2>3, <2>4, <2>5, <2>6 DEF r
<1>4. CASE t <= e.at
  <2> DEFINE msg == Files!FileMsg(nd.disk, e.at)
             a == Files!L!admit_record(l, Files!File, e.at, nd.disk.m)
             x == r.node
  <2>1. a = IF Files!L!alive_record_needed(l, Files!File, e.at)
            THEN Files!L!record_alive(l, Files!File, e.at) ELSE l
    BY DEF Files!L!admit_record, Files!L!NoStamp
  <2>2. r.send = <<msg>> /\ r.node = [nd EXCEPT !.ledger = a]
    <3>1. nd \in NodeT
      BY DEF NodeOK
    <3>2. nd = [nd EXCEPT !.ledger = l]
      BY <3>1 DEF NodeT
    <3> QED BY <1>1, <1>2, <1>4, <2>1, <3>2 DEF Files!Decided
  <2>3. /\ WellFormed(a) /\ DeadAt(a) = -1
        /\ LiveAt(a) = IF LiveAt(l) >= e.at THEN LiveAt(l) ELSE e.at
    BY <1>2, <1>4, Admitted
  <2>4. /\ nd.disk.m \in Nat /\ nd.disk.m > 0 /\ nd.disk.v \in Nat /\ nd.disk.v # 0
    BY NodeFacts, FileFacts
  <2>5. MsgOK(msg, u) /\ msg.op = "file" /\ msg.at = e.at /\ msg.v = nd.disk.v
    BY <2>4 DEF MsgOK, MsgT, Files!FileMsg
  <2> HIDE DEF a
  <2>6. x \in NodeT /\ x.ledger = a /\ x.disk = nd.disk /\ x.mani = nd.mani
    BY <2>2, <2>3 DEF NodeOK, NodeT, WellFormed
  <2> HIDE DEF msg, x, r
  <2>7. NodeOK(x, u) /\ Stamped(x)
    <3>1. nd.disk.m <= u /\ nd.mani.m <= u
      BY DEF NodeOK
    <3>2. LiveAt(a) <= u /\ DeadAt(a) <= u /\ LiveAt(a) >= nd.disk.m
      BY <1>2, <2>3, <2>4
    <3> QED BY <2>3, <2>6, <3>1, <3>2 DEF NodeOK, Stamped
  <2>8. k = Files!apply_msg(s, msg)
    BY <2>2, SingleMessage
  <2>9. DeadAt(s.ledger) <= msg.at
    BY <1>1, <1>4, <2>5
  <2>10. /\ NodeOK(k, u)
         /\ k.disk = [v |-> msg.v, m |-> msg.m]
         /\ LiveAt(k.ledger) = IF LiveAt(s.ledger) >= msg.at THEN LiveAt(s.ledger) ELSE msg.at
         /\ DeadAt(k.ledger) = -1
    BY <2>5, <2>8, <2>9, ApplyFile
  <2> HIDE DEF k
  <2>11. DeadAt(x.ledger) = DeadAt(k.ledger) /\ LiveAt(x.ledger) = LiveAt(k.ledger)
    BY <1>1, <2>3, <2>5, <2>6, <2>10
  <2>12. x.ledger = k.ledger
    BY <2>7, <2>10, <2>11, LedgerEq, NodeFacts
  <2>13. x.disk.v = k.disk.v
    BY <2>5, <2>6, <2>10
  <2>14. Same(x, k) /\ Agrees(x, k) /\ Short(r.send, u)
    BY <2>2, <2>5, <2>12, <2>13, MadeOne DEF Same, Agrees, Short
  <2>15. ~(DeadAt(s.ledger) > e.at)
    BY <1>1, <1>2, <1>4
  <2>16. LiveAt(k.ledger) = LiveAt(s.ledger) \/ LiveAt(k.ledger) = e.at
    BY <2>5, <2>10
  <2> QED BY <2>7, <2>14, <2>15, <2>16 DEF x, k, r
<1> QED BY <1>2, <1>3, <1>4

(* A client without an entry may not know all that the server does; what    *)
(* its user does while connected is newer.                                  *)
LEMMA DecidedNewest ==
    ASSUME NEW u \in Nat, NEW nd, NodeOK(nd, u), NEW s, NodeOK(s, u), Upto(nd.ledger, s.ledger),
           NEW e, e.op \in {"upsert", "delete"}, e.at \in Nat, e.at > 0, e.at <= u,
           e.at > LiveAt(s.ledger), e.at > DeadAt(s.ledger),
           e.op = "upsert" => nd.disk # Files!NoFile /\ nd.disk.m <= e.at,
           e.op = "delete" => nd.disk = Files!NoFile
    PROVE  LET r == Files!Decided(nd, e)
               k == Files!ApplyAll(s, r.send)
           IN  /\ NodeOK(r.node, u) /\ Stamped(r.node) /\ Short(r.send, u)
               /\ Upto(r.node.ledger, k.ledger)
               /\ e.op = "delete" => /\ LiveAt(k.ledger) = LiveAt(s.ledger)
                                     /\ DeadAt(k.ledger) = e.at
               /\ e.op = "upsert" => LiveAt(k.ledger) = e.at
<1> DEFINE r == Files!Decided(nd, e)
           l == nd.ledger
           k == Files!ApplyAll(s, r.send)
           t == DeadAt(nd.ledger)
<1>1. /\ t \in Int /\ LiveAt(l) \in Nat /\ WellFormed(l) /\ LiveAt(l) <= u /\ t <= u
      /\ LiveAt(s.ledger) \in Nat /\ DeadAt(s.ledger) \in Int
  BY NodeFacts
<1>2. t < e.at /\ LiveAt(l) < e.at /\ LiveAt(l) <= LiveAt(s.ledger)
  BY <1>1 DEF Upto
<1>3. CASE e.op = "delete"
  <2> DEFINE msg == Files!DeleteMsg(e.at)
             q == Files!record(nd, e.at)
             b == Files!apply_deletes(s, e.at)
  <2>1. r.node = q /\ r.send = <<msg>>
    BY <1>3 DEF Files!Decided
  <2>2. MsgOK(msg, u) /\ msg.op = "delete" /\ msg.at = e.at
    BY DEF MsgOK, MsgT, Files!DeleteMsg
  <2>3. /\ NodeOK(q, u) /\ q.disk = nd.disk /\ LiveAt(q.ledger) = LiveAt(l)
        /\ e.at > LiveAt(l) => DeadAt(q.ledger) = IF t >= e.at THEN t ELSE e.at
    BY Recorded
  <2>4. /\ NodeOK(b, u) /\ LiveAt(b.ledger) = LiveAt(s.ledger)
        /\ e.at > LiveAt(s.ledger) =>
              DeadAt(b.ledger) = IF DeadAt(s.ledger) >= e.at THEN DeadAt(s.ledger) ELSE e.at
    BY ApplyDelete
  <2> HIDE DEF q, b, msg, r
  <2>5. k = b
    BY <2>1, <2>2, SingleMessage DEF Files!apply_msg, b
  <2>6. DeadAt(q.ledger) = e.at /\ DeadAt(b.ledger) = e.at
    BY <1>1, <1>2, <2>3, <2>4
  <2>7. Upto(q.ledger, b.ledger)
    BY <1>1, <1>2, <2>3, <2>4, <2>6 DEF Upto
  <2>8. Stamped(q) /\ Short(r.send, u)
    BY <1>3, <2>1, <2>2, <2>3, MadeOne DEF Stamped, Short
  <2> HIDE DEF k
  <2> QED BY <1>3, <2>1, <2>3, <2>4, <2>5, <2>6, <2>7, <2>8 DEF k, r
<1>4. CASE e.op = "upsert"
  <2> DEFINE msg == Files!FileMsg(nd.disk, e.at)
             a == Files!L!admit_record(l, Files!File, e.at, nd.disk.m)
             x == r.node
  <2>0. Files!tombstone(nd) = t
    BY DEF Files!tombstone, DeadAt
  <2>1. a = IF Files!L!alive_record_needed(l, Files!File, e.at)
            THEN Files!L!record_alive(l, Files!File, e.at) ELSE l
    BY DEF Files!L!admit_record, Files!L!NoStamp
  <2>2. r.send = <<msg>> /\ r.node = [nd EXCEPT !.ledger = a]
    <3>1. nd \in NodeT
      BY DEF NodeOK
    <3>2. nd = [nd EXCEPT !.ledger = l]
      BY <3>1 DEF NodeT
    <3>3. ~(Files!tombstone(nd) > e.at)
      BY <1>1, <1>2, <2>0
    <3> QED BY <1>4, <2>1, <3>2, <3>3 DEF Files!Decided
  <2>3. /\ WellFormed(a) /\ DeadAt(a) = -1
        /\ LiveAt(a) = IF LiveAt(l) >= e.at THEN LiveAt(l) ELSE e.at
    <3>1. t <= e.at
      BY <1>1, <1>2
    <3> QED BY <1>1, <3>1, Admitted
  <2>4. /\ nd.disk.m \in Nat /\ nd.disk.m > 0 /\ nd.disk.v \in Nat /\ nd.disk.v # 0
    BY <1>4, NodeFacts, FileFacts
  <2>5. MsgOK(msg, u) /\ msg.op = "file" /\ msg.at = e.at
    BY <1>4, <2>4 DEF MsgOK, MsgT, Files!FileMsg
  <2> HIDE DEF a
  <2>6. x \in NodeT /\ x.ledger = a /\ x.disk = nd.disk /\ x.mani = nd.mani
    BY <2>2, <2>3 DEF NodeOK, NodeT, WellFormed
  <2> HIDE DEF msg, x, r
  <2>7. NodeOK(x, u) /\ Stamped(x)
    <3>1. nd.disk.m <= u /\ nd.mani.m <= u
      BY DEF NodeOK
    <3>2. LiveAt(a) <= u /\ DeadAt(a) <= u /\ LiveAt(a) >= nd.disk.m
      BY <1>1, <1>4, <2>3, <2>4
    <3> QED BY <2>3, <2>6, <3>1, <3>2 DEF NodeOK, Stamped
  <2>8. k = Files!apply_msg(s, msg)
    BY <2>2, SingleMessage
  <2>9. DeadAt(s.ledger) <= msg.at
    BY <1>1, <2>5
  <2> DEFINE b == Files!apply_msg(s, msg)
  <2>10. /\ NodeOK(b, u)
         /\ b.disk = [v |-> msg.v, m |-> msg.m]
         /\ LiveAt(b.ledger) = IF LiveAt(s.ledger) >= msg.at THEN LiveAt(s.ledger) ELSE msg.at
         /\ DeadAt(b.ledger) = -1
    BY <2>5, <2>9, ApplyFile
  <2> HIDE DEF k, b
  <2>11. LiveAt(k.ledger) = e.at /\ LiveAt(a) = e.at
    BY <1>1, <1>2, <2>3, <2>5, <2>8, <2>10 DEF b
  <2>12. Upto(x.ledger, k.ledger)
    BY <1>1, <2>3, <2>6, <2>8, <2>10, <2>11 DEF Upto, b
  <2>13. Short(r.send, u)
    BY <2>2, <2>5, MadeOne DEF Short
  <2> QED BY <1>4, <2>7, <2>11, <2>12, <2>13 DEF x, k, r
<1> QED BY <1>3, <1>4

(* A journal is drained.                                                    *)
LEMMA DrainStep ==
    ASSUME RInv, NEW c \in Client, Files!Drain(c)
    PROVE  RInv'
<1> DEFINE e == journal[c]
           r == Files!Decided(node[c], e)
           k == Files!ApplyAll(srv, r.send)
<1>0. /\ now \in Nat /\ NodeOK(node[c], now) /\ NodeOK(srv, now) /\ RType /\ PendOK /\ Turns /\ DeleteOK
      /\ \A d \in Client : ClientOK(d)
      /\ \A d \in Client : journal[d] \in [op : {"none", "upsert", "delete"}, at : Nat]
  BY Parts DEF RInv
<1>1. /\ conn[c] \in {"drain", "live"} /\ e # Files!NoAction
      /\ node' = [node EXCEPT ![c] = r.node, ![Files!Server] = k]
      /\ queue' = Files!broadcast_to_others(queue, c, r.send)
      /\ journal' = [journal EXCEPT ![c] = Files!NoAction]
      /\ UNCHANGED <<pend, conn, snap, unlisted, now, ops, last>>
  BY Nodes DEF Files!Drain, Files!Delivered, srv
<1>2. Acting(c) /\ \A d \in Client : queue[d] = <<>>
  BY <1>0, <1>1 DEF Acting, Turns
<1>3. /\ pend = Files!NoPending /\ SrvOK(srv)
      /\ \A d \in Client : d # c =>
            /\ conn[d] \in {"down", "live"} /\ ~Acting(d)
  BY <1>2, Others
<1>4. Same(node[c], srv) \/ (conn[c] = "live" /\ ~Hears(c) /\ Upto(node[c].ledger, srv.ledger))
  BY <1>0, <1>1, <1>2, EmptyQueue DEF ClientOK, LedgerAt, Hears
<1>5. /\ e.op \in {"upsert", "delete"} /\ e.at \in Nat /\ e.at > 0 /\ e.at <= now
      /\ e.op = "upsert" => node[c].disk # Files!NoFile /\ node[c].disk.m <= e.at
      /\ e.op = "delete" => node[c].disk = Files!NoFile
  <2>1. e \in [op : {"none", "upsert", "delete"}, at : Nat] /\ JournalAt(c)
    BY <1>0 DEF ClientOK
  <2> QED BY <1>1, <2>1 DEF JournalAt
<1>6. conn[c] = "live" => e.at > LiveAt(srv.ledger) /\ e.at > DeadAt(srv.ledger)
  BY <1>0, <1>1 DEF ClientOK, LedgerAt
<1> HIDE DEF e
<1>7. /\ NodeOK(r.node, now) /\ Stamped(r.node) /\ Short(r.send, now)
      /\ Same(r.node, k) \/ (conn[c] = "live" /\ ~Hears(c) /\ Upto(r.node.ledger, k.ledger))
      /\ Hears(c) => Agrees(r.node, k)
  <2>0. Hears(c) => conn[c] = "live"
    BY DEF Hears
  <2>1. CASE Same(node[c], srv) /\ e.op = "delete"
    BY <1>0, <1>5, <1>6, <2>0, <2>1, DecidedDelete
  <2>2. CASE Same(node[c], srv) /\ e.op = "upsert"
    BY <1>0, <1>5, <1>6, <2>0, <2>2, DecidedUpsert
  <2>3. CASE conn[c] = "live" /\ ~Hears(c) /\ Upto(node[c].ledger, srv.ledger)
    BY <1>0, <1>5, <1>6, <2>3, DecidedNewest
  <2> QED BY <1>4, <1>5, <2>1, <2>2, <2>3
<1>8. /\ e.op = "delete" =>
            /\ LiveAt(k.ledger) = LiveAt(srv.ledger)
            /\ e.at <= LiveAt(srv.ledger) => k.ledger = srv.ledger
            /\ e.at > LiveAt(srv.ledger) =>
                  DeadAt(k.ledger) = IF DeadAt(srv.ledger) >= e.at THEN DeadAt(srv.ledger) ELSE e.at
      /\ e.op = "upsert" =>
            /\ DeadAt(srv.ledger) > e.at => k.ledger = srv.ledger
            /\ LiveAt(k.ledger) = LiveAt(srv.ledger) \/ LiveAt(k.ledger) = e.at
  <2>1. CASE Same(node[c], srv) /\ e.op = "delete"
    BY <1>0, <1>5, <2>1, DecidedDelete
  <2>2. CASE Same(node[c], srv) /\ e.op = "upsert"
    BY <1>0, <1>5, <2>2, DecidedUpsert
  <2>3. CASE conn[c] = "live" /\ ~Hears(c) /\ Upto(node[c].ledger, srv.ledger)
    <3>1. e.at > LiveAt(srv.ledger) /\ e.at > DeadAt(srv.ledger)
      BY <1>6, <2>3
    <3>2. /\ e.op = "delete" => LiveAt(k.ledger) = LiveAt(srv.ledger) /\ DeadAt(k.ledger) = e.at
          /\ e.op = "upsert" => LiveAt(k.ledger) = e.at
      BY <1>0, <1>5, <2>3, <3>1, DecidedNewest
    <3>3. LiveAt(srv.ledger) \in Nat /\ DeadAt(srv.ledger) \in Int
      BY <1>0, NodeFacts
    <3> HIDE DEF k
    <3> QED BY <1>5, <3>1, <3>2, <3>3
  <2> QED BY <1>4, <1>5, <2>1, <2>2, <2>3
<1> HIDE DEF r
<1>9. NodeOK(k, now) /\ SrvOK(k) /\ Upto(srv.ledger, k.ledger)
  BY <1>0, <1>3, <1>7, ServerApplies
<1>10. /\ node'[c] = r.node /\ srv' = k /\ journal'[c] = Files!NoAction /\ queue'[c] = <<>>
       /\ \A d \in Client : d # c => node'[d] = node[d] /\ journal'[d] = journal[d]
  <2>1. Files!broadcast_to_others(queue, c, r.send)[c] = queue[c]
    BY DEF Files!broadcast_to_others
  <2>2. queue'[c] = <<>>
    BY <1>1, <1>2, <2>1
  <2> HIDE DEF k
  <2> QED BY <1>0, <1>1, <2>2, Nodes DEF srv, RType
<1>11. ASSUME NEW d \in Client, d # c
       PROVE  /\ ClientOK(d)' /\ Len(queue'[d]) < 2
              /\ conn[d] = "down" => queue'[d] = <<>>
  <2>1. \A x \in Client : conn[x] = "live" => Len(queue[x]) < 2
    BY <1>2, EmptyQueue
  <2>2. srv' = Files!ApplyAll(srv, r.send) /\ now' = now /\ pend' = pend
    BY <1>1, <1>10
  <2>3. /\ node'[d] = node[d] /\ journal'[d] = journal[d] /\ conn'[d] = conn[d] /\ snap'[d] = snap[d]
        /\ queue'[d] = Files!broadcast_to_others(queue, c, r.send)[d]
    BY <1>1, <1>10, <1>11
  <2>4. queue[d] = <<>> /\ UNCHANGED unlisted
    BY <1>1, <1>2
  <2> QED BY <1>2, <1>7, <1>11, <2>1, <2>2, <2>3, <2>4, Relayed
<1> HIDE DEF k
<1>12. RType'
  <2>1. node' \in [Files!Node -> NodeT]
    BY <1>0, <1>1, <1>7, <1>9 DEF RType, NodeOK
  <2>2. \A n \in Files!Node : NodeOK(node[n], now)'
    BY <1>0, <1>1, <1>7, <1>9, <1>10, Nodes DEF srv, RType
  <2>3. DOMAIN queue' = Client
    BY <1>1 DEF Files!broadcast_to_others
  <2>4. journal' \in [Client -> [op : {"none", "upsert", "delete"}, at : Nat]]
    BY <1>0, <1>1 DEF RType, Files!NoAction
  <2> QED BY <1>0, <1>1, <2>1, <2>2, <2>3, <2>4 DEF RType
<1>13. PendOK'
  BY <1>1, <1>3, <1>9, <1>10 DEF PendOK, SrvOK, Files!NoPending
<1>14. Turns'
  <2>1. \A d \in Client : Len(queue'[d]) < 2
    BY <1>10, <1>11, EmptyQueue
  <2>2. \A d \in Client : d # c => ~Acting(d)'
    BY <1>1, <1>3, <1>10 DEF Acting
  <2>3. \A d \in Client : conn'[d] # "down" => journal'[d] = Files!NoAction
    BY <1>1, <1>3, <1>10 DEF Acting
  <2> QED BY <1>1, <1>3, <2>1, <2>2, <2>3 DEF Turns
<1>15. DeleteOK'
  <2> SUFFICES ASSUME last = 0 PROVE DeleteOK'
    BY <1>1 DEF DeleteOK
  <2>0. journal'[c].op = "none" /\ pend.file # "delete"
    BY <1>3, <1>10 DEF Files!NoAction, Files!NoPending
  <2>1. /\ LiveAt(srv.ledger) \in Nat /\ DeadAt(srv.ledger) \in Int
        /\ LiveAt(k.ledger) \in Nat /\ DeadAt(k.ledger) \in Int
    BY <1>0, <1>9, NodeFacts
  <2>2. \A d \in Client : journal[d].at \in Nat
    BY <1>0
  <2>3. CASE LiveAt(srv.ledger) = 0 /\ \A d \in Client : journal[d].op # "upsert"
    <3>1. e.op = "delete"
      BY <1>5, <2>3 DEF e
    <3>2. LiveAt(srv.ledger)' = 0 /\ \A d \in Client : journal'[d].op # "upsert"
      BY <1>8, <1>10, <2>0, <2>3, <3>1
    <3> QED BY <3>2 DEF DeleteOK
  <2>4. CASE Newest(DeadAt(srv.ledger))
    <3>1. DeadAt(k.ledger) >= DeadAt(srv.ledger) /\ LiveAt(k.ledger) = LiveAt(srv.ledger)
      <4>1. CASE e.op = "upsert"
        <5>1. DeadAt(srv.ledger) > e.at
          BY <1>5, <2>1, <2>4, <4>1 DEF Newest, e
        <5> QED BY <1>8, <2>1, <4>1, <5>1
      <4>2. CASE e.op = "delete"
        BY <1>5, <1>8, <2>1, <4>2
      <4> QED BY <1>5, <4>1, <4>2
    <3>2. Newest(DeadAt(srv.ledger))'
      BY <1>10, <2>0, <2>1, <2>2, <2>4, <3>1 DEF Newest
    <3> QED BY <3>2 DEF DeleteOK
  <2>5. ASSUME NEW d \in Client, journal[d].op = "delete", Newest(journal[d].at) PROVE DeleteOK'
    <3>1. CASE d # c
      <4>1. LiveAt(k.ledger) < journal[d].at
        <5>1. LiveAt(srv.ledger) < journal[d].at
          BY <2>1, <2>2, <2>5 DEF Newest
        <5>2. e.op = "upsert" => e.at < journal[d].at
          BY <2>5 DEF Newest, e
        <5> QED BY <1>5, <1>8, <5>1, <5>2
      <4>2. Newest(journal[d].at)' /\ journal'[d].op = "delete"
        BY <1>10, <2>0, <2>1, <2>2, <2>5, <3>1, <4>1 DEF Newest
      <4> QED BY <4>2 DEF DeleteOK
    <3>2. CASE d = c
      <4>1. e.op = "delete" /\ e.at > LiveAt(srv.ledger)
        BY <2>5, <3>2 DEF Newest, e
      <4>2. DeadAt(k.ledger) >= e.at /\ LiveAt(k.ledger) = LiveAt(srv.ledger)
        BY <1>5, <1>8, <2>1, <4>1
      <4>3. Newest(DeadAt(srv.ledger))'
        <5>1. DeadAt(k.ledger) > LiveAt(k.ledger)
          BY <1>5, <2>1, <4>1, <4>2
        <5>2. \A x \in Client : x # c /\ journal[x].op = "upsert" => journal[x].at < DeadAt(k.ledger)
          BY <1>5, <2>1, <2>2, <2>5, <3>2, <4>2 DEF Newest, e
        <5> QED BY <1>10, <2>0, <5>1, <5>2 DEF Newest
      <4> QED BY <4>3 DEF DeleteOK
    <3> QED BY <3>1, <3>2
  <2> QED BY <1>0, <2>0, <2>3, <2>4, <2>5 DEF DeleteOK
<1>16. ClientOK(c)'
  <2>0. journal'[c] = Files!NoAction /\ now' = now /\ node'[c] = r.node /\ queue'[c] = <<>>
    BY <1>1, <1>10
  <2>1. JournalAt(c)'
    BY <1>0, <1>7, <2>0 DEF JournalAt, Files!NoAction
  <2>2. QueueAt(c)'
    BY <1>1, <2>0 DEF QueueAt
  <2>3. Upto(r.node.ledger, k.ledger)
    BY <1>0, <1>7, <1>9, UptoRefl, NodeFacts DEF Same
  <2>4. LedgerAt(c)' /\ AgreeAt(c)'
    <3>1. (Hears(c)' <=> Hears(c)) /\ conn'[c] = conn[c] /\ conn[c] \in {"drain", "live"}
      BY <1>1 DEF Hears
    <3>2. /\ Hears(c) => Same(r.node, k) /\ Agrees(r.node, k)
          /\ conn[c] = "drain" => Same(r.node, k)
      BY <1>7
    <3> QED BY <1>10, <2>0, <2>3, <3>1, <3>2, EmptyQueue DEF LedgerAt, AgreeAt
  <2> QED BY <2>1, <2>2, <2>4 DEF ClientOK
<1> QED BY <1>11, <1>12, <1>13, <1>14, <1>15, <1>16 DEF RInv

-----------------------------------------------------------------------------
(* The server offers a change of its own: it becomes k, and the message     *)
(* makes every client that had its ledger agree with it.                    *)
Offers(s, k, msg, u, w) ==
    /\ NodeOK(k, w) /\ SrvOK(k) /\ MsgOK(msg, w) /\ Upto(s.ledger, k.ledger)
    /\ \A nd : NodeOK(nd, u) /\ Same(nd, s) =>
          Same(Files!apply_msg(nd, msg), k) /\ Agrees(Files!apply_msg(nd, msg), k)

(* ... a file, with the live record the server has for it.                  *)
LEMMA OffersFile ==
    ASSUME NEW u \in Nat, NEW s, NodeOK(s, u), NEW k, NodeOK(k, u), SrvOK(k), Upto(s.ledger, k.ledger),
           k.disk # Files!NoFile, DeadAt(s.ledger) <= LiveAt(k.ledger)
    PROVE  Offers(s, k, Files!FileMsg(k.disk, LiveAt(k.ledger)), u, u)
<1> DEFINE msg == Files!FileMsg(k.disk, LiveAt(k.ledger))
<1>0. Stamped(k)
  BY DEF SrvOK, Stamped
<1>1. MsgOK(msg, u)
  BY <1>0, Streamed
<1>2. msg.op = "file" /\ msg.v = k.disk.v /\ msg.at = LiveAt(k.ledger)
  BY DEF Files!FileMsg
<1> HIDE DEF msg
<1>3. ASSUME NEW nd, NodeOK(nd, u), Same(nd, s)
      PROVE  Same(Files!apply_msg(nd, msg), k) /\ Agrees(Files!apply_msg(nd, msg), k)
  <2> DEFINE r == Files!apply_msg(nd, msg)
  <2>1. DeadAt(nd.ledger) <= msg.at /\ nd.ledger = s.ledger
    BY <1>2, <1>3 DEF Same
  <2>2. /\ NodeOK(r, u)
        /\ r.disk = [v |-> msg.v, m |-> msg.m]
        /\ LiveAt(r.ledger) = IF LiveAt(nd.ledger) >= msg.at THEN LiveAt(nd.ledger) ELSE msg.at
        /\ DeadAt(r.ledger) = -1
    BY <1>1, <1>2, <1>3, <2>1, ApplyFile
  <2> HIDE DEF r
  <2>3. LiveAt(r.ledger) = LiveAt(k.ledger)
    <3>1. LiveAt(s.ledger) <= LiveAt(k.ledger) /\ LiveAt(s.ledger) \in Nat /\ LiveAt(k.ledger) \in Nat
      BY NodeFacts DEF Upto
    <3>2. LiveAt(nd.ledger) = LiveAt(s.ledger)
      BY <2>1
    <3> QED BY <1>2, <2>2, <3>1, <3>2
  <2>4. DeadAt(r.ledger) = DeadAt(k.ledger)
    BY <2>2 DEF SrvOK
  <2>5. r.ledger = k.ledger
    BY <2>2, <2>3, <2>4, LedgerEq, NodeFacts
  <2>6. r.disk.v = k.disk.v
    BY <1>2, <2>2
  <2> QED BY <2>5, <2>6 DEF Same, Agrees, r
<1> QED BY <1>1, <1>3 DEF Offers, msg

(* ... a delete, of this moment.                                            *)
LEMMA OffersDelete ==
    ASSUME NEW u \in Nat, NEW s, NodeOK(s, u), SrvOK(s), s.disk = Files!NoFile
    PROVE  /\ Offers(s, Files!record(s, u + 1), Files!DeleteMsg(u + 1), u, u + 1)
           /\ DeadAt(Files!record(s, u + 1).ledger) = u + 1
           /\ LiveAt(Files!record(s, u + 1).ledger) = LiveAt(s.ledger)
<1> DEFINE w == u + 1
           k == Files!record(s, w)
           msg == Files!DeleteMsg(w)
<1>0. w \in Nat /\ w > 0 /\ u <= w /\ w <= w
  OBVIOUS
<1>1. LiveAt(s.ledger) < w /\ DeadAt(s.ledger) < w /\ LiveAt(s.ledger) \in Nat /\ DeadAt(s.ledger) \in Int
  BY NodeFacts
<1> HIDE DEF w
<1>2. NodeOK(s, w)
  BY <1>0, NodeLater
<1>3. /\ NodeOK(k, w) /\ k.disk = s.disk /\ k.mani = s.mani /\ LiveAt(k.ledger) = LiveAt(s.ledger)
      /\ w > LiveAt(s.ledger) =>
            DeadAt(k.ledger) = IF DeadAt(s.ledger) >= w THEN DeadAt(s.ledger) ELSE w
  BY <1>0, <1>2, Recorded
<1>4. MsgOK(msg, w) /\ msg.op = "delete" /\ msg.at = w
  BY <1>0 DEF MsgOK, MsgT, Files!DeleteMsg
<1> HIDE DEF k, msg
<1>5. DeadAt(k.ledger) = w
  BY <1>0, <1>1, <1>3
<1>6. Upto(s.ledger, k.ledger)
  BY <1>0, <1>1, <1>3, <1>5 DEF Upto
<1>7. SrvOK(k)
  BY <1>3 DEF SrvOK
<1>8. ASSUME NEW nd, NodeOK(nd, u), Same(nd, s)
      PROVE  Same(Files!apply_msg(nd, msg), k) /\ Agrees(Files!apply_msg(nd, msg), k)
  <2> DEFINE r == Files!apply_deletes(nd, w)
  <2>1. NodeOK(nd, w)
    BY <1>0, <1>8, NodeLater
  <2>2. /\ NodeOK(r, w)
        /\ LiveAt(r.ledger) = LiveAt(nd.ledger)
        /\ w > LiveAt(nd.ledger) =>
              /\ r.disk = Files!NoFile
              /\ DeadAt(r.ledger) = IF DeadAt(nd.ledger) >= w THEN DeadAt(nd.ledger) ELSE w
    BY <1>0, <2>1, ApplyDelete
  <2> HIDE DEF r
  <2>3. nd.ledger = s.ledger
    BY <1>8 DEF Same
  <2>4. r.disk = Files!NoFile /\ DeadAt(r.ledger) = DeadAt(k.ledger) /\ LiveAt(r.ledger) = LiveAt(k.ledger)
    BY <1>0, <1>1, <1>3, <1>5, <2>2, <2>3
  <2>5. r.ledger = k.ledger
    BY <1>0, <1>3, <2>2, <2>4, LedgerEq, NodeFacts
  <2>6. Files!apply_msg(nd, msg) = r
    BY <1>4 DEF Files!apply_msg, r
  <2> QED BY <1>3, <2>4, <2>5, <2>6 DEF Same, Agrees
<1> QED BY <1>3, <1>4, <1>5, <1>6, <1>7, <1>8 DEF Offers, k, msg, w

(* What flush_local_changes offers.                                         *)
LEMMA FlushOffers ==
    ASSUME RInv, Files!FlushLocalChanges
    PROVE  \E k, msg :
              /\ node' = [node EXCEPT ![Files!Server] = k]
              /\ queue' = Files!broadcast_to_others(queue, Files!Server, <<msg>>)
              /\ Offers(srv, k, msg, now, now')
              /\ now' \in Nat /\ now' >= now
              /\ last = 0 => \/ pend.file = "delete" /\ DeadAt(k.ledger) = now + 1
                                /\ LiveAt(k.ledger) = LiveAt(srv.ledger)
                             \/ pend.file # "delete" /\ k.ledger = srv.ledger
<1> DEFINE lived == IF pend.live > 0
                    THEN [srv EXCEPT !.ledger = Files!L!record_alive(@, Files!File, pend.live)]
                    ELSE srv
<1>0. /\ now \in Nat /\ NodeOK(srv, now) /\ RType /\ PendOK
  BY Parts DEF RInv
<1>1. /\ pend # Files!NoPending
      /\ node' = [node EXCEPT ![Files!Server] = IF pend.file = "delete" THEN Files!record(lived, now + 1) ELSE lived]
      /\ queue' = Files!broadcast_to_others(queue, Files!Server,
                     IF pend.file = "ready" THEN Files!stream(lived, Files!wire_action_stamp(lived))
                     ELSE IF pend.file = "delete" THEN <<Files!DeleteMsg(now + 1)>> ELSE <<>>)
      /\ now' = IF pend.file = "delete" THEN now + 1 ELSE now
  BY DEF Files!FlushLocalChanges, srv
<1>2. pend.file \in {"ready", "delete"} /\ pend.live \in Nat
  BY <1>0, <1>1 DEF RType, PendOK
<1>3. CASE pend.file = "delete"
  <2>1. pend.live = 0 /\ SrvOK(srv) /\ srv.disk = Files!NoFile
    BY <1>0, <1>3 DEF PendOK
  <2>2. lived = srv
    BY <2>1
  <2> DEFINE k == Files!record(srv, now + 1)
             msg == Files!DeleteMsg(now + 1)
  <2>3. Offers(srv, k, msg, now, now + 1) /\ DeadAt(k.ledger) = now + 1 /\ LiveAt(k.ledger) = LiveAt(srv.ledger)
    BY <1>0, <2>1, OffersDelete
  <2>4. now' = now + 1 /\ now' \in Nat /\ now' >= now
    BY <1>0, <1>1, <1>3
  <2>5. node' = [node EXCEPT ![Files!Server] = k]
        /\ queue' = Files!broadcast_to_others(queue, Files!Server, <<msg>>)
    BY <1>1, <1>3, <2>2
  <2> HIDE DEF k, msg
  <2> QED BY <1>3, <2>3, <2>4, <2>5
<1>4. CASE pend.file = "ready"
  <2>1. srv.disk # Files!NoFile /\ now' = now
    BY <1>0, <1>1, <1>4 DEF PendOK
  <2>2. /\ NodeOK(lived, now) /\ SrvOK(lived) /\ lived.disk = srv.disk
        /\ Upto(srv.ledger, lived.ledger) /\ DeadAt(srv.ledger) <= LiveAt(lived.ledger)
        /\ last = 0 => lived.ledger = srv.ledger
    <3>1. CASE pend.live = 0
      <4>1. SrvOK(srv) /\ lived = srv
        BY <1>0, <3>1 DEF PendOK
      <4>2. DeadAt(srv.ledger) = -1 /\ LiveAt(srv.ledger) \in Nat
        BY <1>0, <2>1, <4>1, NodeFacts DEF SrvOK
      <4>3. Upto(srv.ledger, srv.ledger)
        BY <1>0, UptoRefl, NodeFacts
      <4>4. DeadAt(srv.ledger) <= LiveAt(srv.ledger)
        BY <4>2
      <4> HIDE DEF lived
      <4> QED BY <1>0, <4>1, <4>3, <4>4
    <3>2. CASE pend.live # 0
      <4>1. pend.live > 0 /\ pend.live = now /\ srv.disk.m = now /\ last # 0
        BY <1>0, <1>2, <3>2 DEF PendOK
      <4> DEFINE l == srv.ledger
                 a == Files!L!record_alive(l, Files!File, now)
      <4>2. /\ WellFormed(l) /\ LiveAt(l) <= now /\ DeadAt(l) <= now /\ LiveAt(l) \in Nat
            /\ DeadAt(l) \in Int /\ srv \in NodeT /\ srv.mani.m <= now /\ srv.mani \in FileT
        BY <1>0, NodeFacts DEF NodeOK
      <4>3. /\ WellFormed(a) /\ LiveAt(a) = IF LiveAt(l) >= now THEN LiveAt(l) ELSE now
            /\ DeadAt(a) = IF DeadAt(l) <= now THEN -1 ELSE DeadAt(l)
        BY <1>0, <4>1, <4>2, RecordAlive
      <4> HIDE DEF a
      <4>4. LiveAt(a) = now /\ DeadAt(a) = -1
        BY <1>0, <4>2, <4>3
      <4>5. lived = [srv EXCEPT !.ledger = a]
        BY <4>1 DEF a
      <4>6. /\ lived \in NodeT /\ lived.ledger = a /\ lived.disk = srv.disk /\ lived.mani = srv.mani
        BY <4>2, <4>3, <4>5 DEF NodeT, WellFormed
      <4> HIDE DEF lived
      <4>7. NodeOK(lived, now)
        BY <1>0, <4>1, <4>2, <4>3, <4>4, <4>6 DEF NodeOK
      <4>8. SrvOK(lived)
        BY <1>0, <4>1, <4>2, <4>4, <4>6 DEF SrvOK
      <4>9. Upto(l, lived.ledger)
        BY <4>2, <4>4, <4>6 DEF Upto
      <4> QED BY <4>1, <4>2, <4>4, <4>6, <4>7, <4>8, <4>9
    <3> QED BY <3>1, <3>2
  <2> DEFINE msg == Files!FileMsg(lived.disk, LiveAt(lived.ledger))
  <2>3. /\ node' = [node EXCEPT ![Files!Server] = lived]
        /\ queue' = Files!broadcast_to_others(queue, Files!Server, Files!stream(lived, Files!wire_action_stamp(lived)))
    BY <1>1, <1>4
  <2> HIDE DEF lived
  <2>4. Stamped(lived) /\ lived.disk # Files!NoFile
    BY <2>1, <2>2 DEF SrvOK, Stamped
  <2>5. Files!stream(lived, Files!wire_action_stamp(lived)) = <<msg>>
    BY <1>0, <2>2, <2>4, Streamed
  <2>6. Offers(srv, lived, msg, now, now)
    BY <1>0, <2>2, <2>4, OffersFile
  <2> HIDE DEF msg
  <2>7. Offers(srv, lived, msg, now, now') /\ now' \in Nat /\ now' >= now
    BY <1>0, <2>1, <2>6
  <2>8. queue' = Files!broadcast_to_others(queue, Files!Server, <<msg>>)
    BY <2>3, <2>5
  <2>9. pend.file # "delete"
    BY <1>4
  <2> QED BY <2>2, <2>3, <2>7, <2>8, <2>9
<1> QED BY <1>2, <1>3, <1>4

(* The server broadcasts what its users did (flush_local_changes).          *)
LEMMA FlushStep ==
    ASSUME RInv, Files!FlushLocalChanges
    PROVE  RInv'
<1>0. /\ now \in Nat /\ NodeOK(srv, now) /\ RType /\ PendOK /\ Turns /\ DeleteOK
      /\ \A d \in Client : ClientOK(d) /\ NodeOK(node[d], now)
      /\ \A d \in Client : conn[d] \in {"down", "drain", "sync", "sent", "live"}
      /\ \A d \in Client : journal[d] \in [op : {"none", "upsert", "delete"}, at : Nat]
  BY Parts DEF RInv
<1>1. pend # Files!NoPending /\ pend' = Files!NoPending /\ UNCHANGED <<journal, conn, snap, unlisted, ops, last>>
  BY DEF Files!FlushLocalChanges
<1>2. PICK k, msg :
         /\ node' = [node EXCEPT ![Files!Server] = k]
         /\ queue' = Files!broadcast_to_others(queue, Files!Server, <<msg>>)
         /\ Offers(srv, k, msg, now, now')
         /\ now' \in Nat /\ now' >= now
         /\ last = 0 => \/ pend.file = "delete" /\ DeadAt(k.ledger) = now + 1
                           /\ LiveAt(k.ledger) = LiveAt(srv.ledger)
                        \/ pend.file # "delete" /\ k.ledger = srv.ledger
  BY FlushOffers
<1>3. /\ NodeOK(k, now') /\ SrvOK(k) /\ MsgOK(msg, now') /\ Upto(srv.ledger, k.ledger)
      /\ \A nd : NodeOK(nd, now) /\ Same(nd, srv) =>
            Same(Files!apply_msg(nd, msg), k) /\ Agrees(Files!apply_msg(nd, msg), k)
  BY <1>2 DEF Offers
<1>4. \A d \in Client : /\ queue[d] = <<>> /\ conn[d] \in {"down", "live"}
                        /\ conn[d] = "live" => journal[d] = Files!NoAction
  BY <1>0, <1>1 DEF Turns, Acting
<1>5. srv' = k /\ \A d \in Client : node'[d] = node[d]
  BY <1>0, <1>2, Nodes DEF srv, RType
<1>6. ASSUME NEW d \in Client
      PROVE  /\ ~Hears(d) => queue'[d] = <<>>
             /\ Hears(d) =>         /\ OneMsg(queue'[d], now') /\ Len(queue'[d]) < 2
                                    /\ Files!ApplyAll(node[d], queue'[d]) = Files!apply_msg(node[d], msg)
  <2>1. Short(queue[d], now') /\ d # Files!Server
    BY <1>4, Nodes DEF Short
  <2>2. CASE ~Hears(d)
    <3>1. Files!broadcast_to_others(queue, Files!Server, <<msg>>)[d] = queue[d]
      BY <2>1, <2>2, BroadcastsNot
    <3> QED BY <1>2, <1>4, <2>2, <3>1
  <2>3. CASE Hears(d)
    <3> DEFINE b == Files!broadcast_to_others(queue, Files!Server, <<msg>>)[d]
    <3>1. Extends(b, queue[d], msg)
      BY <1>3, <2>1, <2>3, Broadcasts
    <3>2. b = queue'[d]
      BY <1>2
    <3> HIDE DEF b
    <3>3. /\ queue[d] = <<>> => OneMsg(b, now') /\ Len(b) < 2
          /\ Files!ApplyAll(node[d], b) = Files!apply_msg(Files!ApplyAll(node[d], queue[d]), msg)
      BY <1>3, <2>1, <3>1, Taken
    <3>4. Files!ApplyAll(node[d], queue[d]) = node[d]
      BY <1>4, EmptyQueue
    <3> QED BY <1>4, <2>3, <3>2, <3>3, <3>4
  <2> QED BY <1>4, <2>2, <2>3
<1>7. RType'
  <2>1. node' \in [Files!Node -> NodeT]
    BY <1>0, <1>2, <1>3 DEF RType, NodeOK
  <2>2. \A n \in Files!Node : NodeOK(node[n], now)'
    BY <1>0, <1>2, <1>3, <1>5, Nodes, NodeLater DEF srv
  <2>3. DOMAIN queue' = Client
    BY <1>2 DEF Files!broadcast_to_others
  <2>4. pend' \in [file : {"none", "ready", "delete"}, live : Nat]
    BY <1>1 DEF Files!NoPending
  <2> QED BY <1>0, <1>1, <1>2, <2>1, <2>2, <2>3, <2>4 DEF RType
<1>8. PendOK'
  BY <1>1, <1>3, <1>5 DEF PendOK, SrvOK, Files!NoPending
<1>9. Turns'
  <2>1. \A d \in Client : Acting(d)' => FALSE
    BY <1>1, <1>4 DEF Acting
  <2>2. \A d \in Client : conn'[d] # "down" => journal'[d] = Files!NoAction
    BY <1>1, <1>4
  <2>3. \A d \in Client : conn'[d] \notin {"drain", "sync"}
    BY <1>1, <1>4
  <2> QED BY <1>1, <2>1, <2>2, <2>3 DEF Turns
<1>10. DeleteOK'
  <2> SUFFICES ASSUME last = 0 PROVE DeleteOK'
    BY <1>1 DEF DeleteOK
  <2>1. CASE pend.file = "delete"
    <3>1. DeadAt(k.ledger) = now + 1 /\ LiveAt(k.ledger) = LiveAt(srv.ledger)
      BY <1>2, <2>1
    <3>2. LiveAt(srv.ledger) < now + 1
      BY <1>0, NodeFacts
    <3>3. \A d \in Client : journal[d].at < now + 1
      BY <1>0 DEF ClientOK, JournalAt
    <3>4. Newest(DeadAt(srv.ledger))'
      BY <1>0, <1>1, <1>5, <3>1, <3>2, <3>3 DEF Newest
    <3> QED BY <3>4 DEF DeleteOK
  <2>2. CASE pend.file # "delete"
    BY <1>0, <1>1, <1>2, <1>5, <2>2 DEF DeleteOK, Newest
  <2> QED BY <2>1, <2>2
<1>11. ASSUME NEW d \in Client PROVE ClientOK(d)'
  <2>1. JournalAt(d)'
    <3>1. journal[d].at <= now'
      BY <1>0, <1>2 DEF ClientOK, JournalAt
    <3> QED BY <1>0, <1>1, <1>5, <3>1 DEF ClientOK, JournalAt
  <2>2. QueueAt(d)'
    BY <1>1, <1>4, <1>6 DEF QueueAt, Hears
  <2>3. Upto(node[d].ledger, k.ledger)
    <3>1. Upto(node[d].ledger, srv.ledger)
      BY <1>0 DEF ClientOK, LedgerAt
    <3>2. node[d].ledger \in LedgerT /\ srv.ledger \in LedgerT /\ k.ledger \in LedgerT
      BY <1>0, <1>2, <1>3, NodeFacts
    <3> QED BY <1>3, <3>1, <3>2, UptoTrans
  <2>4. Hears(d) => Same(node[d], srv)
    BY <1>0, <1>4, EmptyQueue DEF ClientOK, LedgerAt
  <2>5. Hears(d) =>
           /\ Same(Files!ApplyAll(node[d], queue'[d]), k)
           /\ Agrees(Files!ApplyAll(node[d], queue'[d]), k)
    BY <1>0, <1>3, <1>6, <2>4
  <2>6. conn[d] = "live" => Upto(Files!ApplyAll(node[d], queue'[d]).ledger, k.ledger)
    <3>1. CASE Hears(d)
      BY <1>2, <1>3, <2>5, <3>1, UptoRefl, NodeFacts DEF Same
    <3>2. CASE ~Hears(d)
      BY <1>6, <2>3, <3>2, EmptyQueue
    <3> QED BY <3>1, <3>2
  <2>7. (Hears(d)' <=> Hears(d)) /\ conn'[d] = conn[d] /\ conn[d] \in {"down", "live"}
    BY <1>1, <1>4 DEF Hears
  <2>8. LedgerAt(d)' /\ AgreeAt(d)'
    BY <1>1, <1>4, <1>5, <2>3, <2>5, <2>6, <2>7 DEF LedgerAt, AgreeAt
  <2> QED BY <2>1, <2>2, <2>8 DEF ClientOK
<1> QED BY <1>7, <1>8, <1>9, <1>10, <1>11 DEF RInv

-----------------------------------------------------------------------------
(* The invariant holds at the start,                                        *)
LEMMA RInvInit ==
    ASSUME Files!Init
    PROVE  RInv
<1> DEFINE l == Files!L!EmptyLedger
           nd == [disk |-> Files!NoFile, mani |-> Files!NoFile, ledger |-> l,
                  prev |-> Files!NoFile, saved |-> {}]
<1>0. now = 0 /\ ops = 0 /\ last = 0 /\ pend = Files!NoPending
  BY DEF Files!Init
<1>1. \A n \in Files!Node : node[n] = nd
  BY DEF Files!Init
<1>2. l \in LedgerT /\ LiveAt(l) = 0 /\ DeadAt(l) = -1
  BY DEF Files!L!EmptyLedger, Files!L!NoStamp, LedgerT, LiveAt, DeadAt, Files!Path
<1> HIDE DEF l
<1>3. /\ nd \in NodeT /\ nd.disk = Files!NoFile /\ nd.mani = Files!NoFile /\ nd.ledger = l
      /\ Files!NoFile.m = 0
  BY <1>2 DEF NodeT, FileT, Files!NoFile
<1>4. node \in [Files!Node -> NodeT]
  BY <1>3 DEF Files!Init, l
<1> HIDE DEF nd
<1>5. NodeOK(nd, 0) /\ Stamped(nd) /\ SrvOK(nd)
  BY <1>2, <1>3 DEF NodeOK, WellFormed, Stamped, SrvOK
<1>6. /\ \A c \in Client : /\ journal[c] = Files!NoAction /\ conn[c] = "down" /\ queue[c] = <<>>
      /\ journal \in [Client -> [op : {"none", "upsert", "delete"}, at : Nat]]
      /\ conn \in [Client -> {"down", "drain", "sync", "sent", "live"}]
      /\ DOMAIN snap = Client /\ DOMAIN queue = Client
  BY DEF Files!Init, Files!NoAction
<1>7. srv = nd
  BY <1>1, Nodes DEF srv
<1>8. RType
  BY <1>0, <1>1, <1>4, <1>5, <1>6 DEF RType, Files!NoPending
<1>9. PendOK
  BY <1>0, <1>3, <1>5, <1>7 DEF PendOK, Files!NoPending
<1>10. Turns
  BY <1>0, <1>6 DEF Turns, Acting
<1>11. DeleteOK
  BY <1>2, <1>3, <1>6, <1>7 DEF DeleteOK, Files!NoAction
<1>12. ASSUME NEW c \in Client PROVE ClientOK(c)
  <2>1. node[c] = nd
    BY <1>1, Nodes
  <2>2. JournalAt(c)
    BY <1>0, <1>5, <1>6, <2>1 DEF JournalAt, Files!NoAction
  <2>3. QueueAt(c) /\ AgreeAt(c)
    BY <1>6 DEF QueueAt, AgreeAt, Hears
  <2>4. LedgerAt(c)
    BY <1>2, <1>3, <1>6, <1>7, <2>1, UptoRefl DEF LedgerAt, Hears
  <2> QED BY <2>2, <2>3, <2>4 DEF ClientOK
<1> QED BY <1>8, <1>9, <1>10, <1>11, <1>12 DEF RInv

(* every step that leaves no change uncaptured keeps it,                    *)
LEMMA RInvNext ==
    ASSUME RInv, [Files!Next]_(Files!vars), ~lapsed'
    PROVE  RInv'
<1>1. CASE Files!Users
  BY <1>1, UserWriteStep, UserDeleteStep DEF Files!Users
<1>2. CASE Files!System
  BY <1>2, ConnectStep, DrainStep, ExchangeStep, ReceiveStep, SendInitialStep, InsertPeerStep,
     RescanClientStep, LateHandlerStep, FlushStep, RescanServerStep DEF Files!System
<1>3. CASE \E c \in Client : Files!Disconnect(c)
  BY <1>3, DisconnectStep
<1>4. CASE UNCHANGED Files!vars
  <2>1. UNCHANGED <<node, journal, pend, conn, snap, queue, unlisted, now, ops, last>>
    BY <1>4 DEF Files!vars
  <2> QED BY <2>1 DEF RInv, RType, PendOK, Turns, Acting, DeleteOK, Newest, ClientOK, JournalAt,
                      QueueAt, LedgerAt, AgreeAt, Hears, srv
<1> QED BY <1>1, <1>2, <1>3, <1>4 DEF Files!Next

(* and one that was not captured stays so,                                  *)
LEMMA LapsedStays ==
    ASSUME [Files!Next]_(Files!vars)
    PROVE  lapsed' = lapsed \/ lapsed' = TRUE
BY DEF Files!Next, Files!Users, Files!System, Files!UserWrite, Files!UserDelete, Files!Seen,
       Files!Dropped, Files!Connect, Files!Drain, Files!ExchangeManifests, Files!Receive,
       Files!SendInitial, Files!InsertPeer, Files!Disconnect, Files!LateHandler,
       Files!FlushLocalChanges, Files!RescanServer, Files!RescanClient, Files!vars

(* so that it holds for as long as every change is captured,                *)
Captured == ~lapsed => RInv

LEMMA CapturedNext ==
    ASSUME Captured, [Files!Next]_(Files!vars)
    PROVE  Captured'
<1> SUFFICES ASSUME ~lapsed' PROVE RInv'
  BY DEF Captured
<1>1. ~lapsed
  BY LapsedStays
<1> QED BY <1>1, RInvNext DEF Captured

(* and it implies that the clients agree with the server                    *)
LEMMA RInvAgrees ==
    ASSUME Captured
    PROVE  ReplicasAgree
<1> SUFFICES ASSUME ~lapsed, NEW c \in Client, Files!SettledWith(c), ~Files!Missed(c)
             PROVE  node[c].disk.v = srv.disk.v
  BY DEF ReplicasAgree, Files!ReplicasAgree, srv
<1>1. /\ pend = Files!NoPending /\ queue[c] = <<>> /\ journal[c] = Files!NoAction /\ conn[c] = "live"
      /\ ~Files!Differs(srv) /\ ~Files!Differs(node[c]) /\ Hears(c)
  BY DEF Files!SettledWith, Files!Calm, Hears, srv
<1>0. RInv
  BY DEF Captured
<1>2. Agrees(Files!ApplyAll(node[c], queue[c]), srv)
  BY <1>0, <1>1 DEF RInv, ClientOK, AgreeAt
<1>3. Agrees(node[c], srv)
  BY <1>1, <1>2, EmptyQueue
<1> QED BY <1>1, <1>3 DEF Agrees, Files!Missed, Files!tombstone, DeadAt, Files!L!NoStamp

(* and that the newest delete stands.                                       *)
LEMMA RInvDeletes ==
    ASSUME Captured
    PROVE  LastDeleteWins
<1> SUFFICES ASSUME ~lapsed, last = 0, Files!Calm, \A c \in Client : Files!SettledWith(c)
             PROVE  /\ srv.disk = Files!NoFile
                    /\ \A c \in Client : ~Files!Missed(c) => node[c].disk = Files!NoFile
  BY DEF LastDeleteWins, Files!LastDeleteWins, srv
<1>a. RInv
  BY DEF Captured
<1>0. now \in Nat /\ NodeOK(srv, now) /\ \A c \in Client : NodeOK(node[c], now)
  BY <1>a, Parts
<1>1. /\ pend = Files!NoPending /\ \A c \in Client : journal[c] = Files!NoAction
  BY DEF Files!SettledWith, Files!Calm
<1>2. SrvOK(srv)
  BY <1>a, <1>1 DEF RInv, PendOK, Files!NoPending
<1>3. LiveAt(srv.ledger) = 0 \/ DeadAt(srv.ledger) > LiveAt(srv.ledger)
  BY <1>a, <1>1 DEF RInv, DeleteOK, Newest, Files!NoPending, Files!NoAction
<1>4. /\ LiveAt(srv.ledger) \in Nat /\ srv.disk \in FileT
  BY <1>0, NodeFacts
<1>5. srv.disk = Files!NoFile
  BY <1>2, <1>3, <1>4, FileFacts DEF SrvOK
<1>6. ASSUME NEW c \in Client, ~Files!Missed(c) PROVE node[c].disk = Files!NoFile
  <2>1. node[c].disk.v = srv.disk.v
    BY <1>6, RInvAgrees DEF ReplicasAgree, Files!ReplicasAgree, srv
  <2>2. node[c].disk \in FileT
    BY <1>0, NodeFacts
  <2> QED BY <1>4, <1>5, <2>1, <2>2, FileFacts
<1> QED BY <1>5, <1>6

(* For any clients, and however many user actions and lost connections:     *)
(* as long as every change is captured, a connected client that is listed   *)
(* as a peer and missed no delete of the server has the content of the      *)
(* server once nothing is left to do (handle_client, the relay and the      *)
(* initial sync).                                                           *)
THEOREM ConnectedClientsAgree == Files!Spec => []ReplicasAgree
<1>1. Captured => ReplicasAgree
  BY RInvAgrees
<1>2. Files!Init => Captured
  BY RInvInit DEF Captured
<1> QED BY <1>1, <1>2, CapturedNext, PTL DEF Files!Spec

(* As long as every change is captured, a delete that is the newest action  *)
(* is never undone, for any clients, and however many user actions and lost *)
(* connections (the ledger's vetoes, in the drain, the initial sync and the *)
(* relay).                                                                  *)
THEOREM NewestDeleteStands == Files!Spec => []LastDeleteWins
<1>1. Captured => LastDeleteWins
  BY RInvDeletes
<1>2. Files!Init => Captured
  BY RInvInit DEF Captured
<1> QED BY <1>1, <1>2, CapturedNext, PTL DEF Files!Spec
=============================================================================
