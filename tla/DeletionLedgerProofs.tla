------------------------ MODULE DeletionLedgerProofs ------------------------
(* Proofs about DeletionLedger, for any nodes, paths, stamps and TTL.       *)
EXTENDS DeletionLedger, SequenceTheorems, WellFoundedInduction, TLAPS

SeenFn == [Path -> Seen]

-----------------------------------------------------------------------------
(* What each operation of the ledger returns: a ledger, with no superseded  *)
(* tombstone when its argument had none.                                    *)

LEMMA RecordAliveType ==
    ASSUME NEW l \in Ledger, NEW p \in Path, NEW s \in Stamp, LedgerOK(l)
    PROVE  record_alive(l, p, s) \in Ledger /\ LedgerOK(record_alive(l, p, s))
BY StampAssumption DEF record_alive, Ledger, LedgerOK, MaxOf, NoStamp

LEMMA RecordType ==
    ASSUME NEW l \in Ledger, NEW p \in Path, NEW s \in Stamp, LedgerOK(l)
    PROVE  record(l, p, s) \in Ledger /\ LedgerOK(record(l, p, s))
BY StampAssumption DEF record, is_superseded, Ledger, LedgerOK, NoStamp

LEMMA RemoveType ==
    ASSUME NEW l \in Ledger, NEW ps \in SUBSET Path, LedgerOK(l)
    PROVE  remove(l, ps) \in Ledger /\ LedgerOK(remove(l, ps))
BY StampAssumption DEF remove, Ledger, LedgerOK, NoStamp

LEMMA PruneType ==
    ASSUME NEW l \in Ledger, NEW now \in Stamp, LedgerOK(l)
    PROVE  prune(l, now) \in Ledger /\ LedgerOK(prune(l, now))
BY StampAssumption DEF prune, Kept, Ledger, LedgerOK, NoStamp

LEMMA MergeAliveType ==
    ASSUME NEW l \in Ledger, NEW r \in [Path -> {0} \cup Stamp], LedgerOK(l)
    PROVE  merge_alive(l, r) \in Ledger /\ LedgerOK(merge_alive(l, r))
BY StampAssumption DEF merge_alive, Ledger, LedgerOK, MaxOf, NoStamp

LEMMA MergeRemoteType ==
    ASSUME NEW l \in Ledger, NEW r \in [Path -> {NoStamp} \cup Stamp], LedgerOK(l)
    PROVE  merge_remote(l, r) \in Ledger /\ LedgerOK(merge_remote(l, r))
BY StampAssumption DEF merge_remote, is_superseded, Ledger, LedgerOK, NoStamp

LEMMA MergeLedgerType ==
    ASSUME NEW l \in Ledger, NEW r \in Ledger, LedgerOK(l)
    PROVE  merge_ledger(l, r) \in Ledger /\ LedgerOK(merge_ledger(l, r))
BY MergeAliveType, MergeRemoteType DEF merge_ledger, Ledger

LEMMA AdmitType ==
    ASSUME NEW l \in Ledger, NEW p \in Path, NEW act \in {NoStamp} \cup Stamp,
           NEW m \in Stamp, LedgerOK(l)
    PROVE  /\ admit_record(l, p, act, m) \in Ledger
           /\ LedgerOK(admit_record(l, p, act, m))
BY RecordAliveType DEF admit_record

-----------------------------------------------------------------------------
(* The inductive invariant: types, no superseded tombstone, and the ledger  *)
(* as a function of the stamps heard of.  The snapshots in flight are part  *)
(* of it: merging one is only sound because it was taken from such a ledger.*)

Good(l, s) == l \in Ledger /\ s \in SeenFn /\ LedgerOK(l) /\ Verdict(l, s)

LInv ==
    /\ ledger \in [Node -> Ledger]
    /\ seen \in [Node -> SeenFn]
    /\ wire \in Seq(Message)
    /\ \A n \in Node : Good(ledger[n], seen[n])
    /\ \A i \in 1..Len(wire) : Good(wire[i].dtos, wire[i].seen)

LEMMA SeenRange ==
    ASSUME NEW s \in SeenFn, NEW p \in Path
    PROVE  s[p].live \in Nat /\ s[p].del \in Int /\ s[p].del >= -1
<1>1. s[p] \in Seen
  BY DEF SeenFn
<1>2. s[p].live \in {0} \cup Stamp /\ s[p].del \in {NoStamp} \cup Stamp
  BY <1>1 DEF Seen
<1>3. \A x \in Stamp : x \in Nat
  BY StampAssumption
<1> QED BY <1>2, <1>3 DEF NoStamp

LEMMA LedgerRange ==
    ASSUME NEW l \in Ledger, NEW p \in Path
    PROVE  l.alive[p] \in Nat /\ l.entries[p] \in Int /\ l.entries[p] >= -1
<1>1. l.alive[p] \in {0} \cup Stamp /\ l.entries[p] \in {NoStamp} \cup Stamp
  BY DEF Ledger
<1>2. \A x \in Stamp : x \in Nat
  BY StampAssumption
<1> QED BY <1>1, <1>2 DEF NoStamp

LEMMA GoodEmpty ==
    Good(EmptyLedger, [p \in Path |-> [live |-> 0, del |-> NoStamp]])
BY DEF Good, EmptyLedger, Ledger, SeenFn, Seen, LedgerOK, Verdict, NoStamp

LEMMA GoodLive ==
    ASSUME NEW l, NEW s, Good(l, s), NEW p \in Path, NEW a \in Stamp
    PROVE  Good(record_alive(l, p, a), SeenLive(s, p, a))
<1>1. record_alive(l, p, a) \in Ledger /\ LedgerOK(record_alive(l, p, a))
  BY RecordAliveType DEF Good
<1>2. SeenLive(s, p, a) \in SeenFn
  BY StampAssumption DEF Good, SeenLive, SeenFn, Seen, MaxOf
<1>3. Verdict(record_alive(l, p, a), SeenLive(s, p, a))
  BY StampAssumption DEF Good, Verdict, record_alive, SeenLive, SeenFn, Seen, Ledger, MaxOf, NoStamp
<1> QED BY <1>1, <1>2, <1>3 DEF Good

LEMMA GoodDelete ==
    ASSUME NEW l, NEW s, Good(l, s), NEW p \in Path, NEW a \in Stamp
    PROVE  Good(record(l, p, a), SeenDel(s, p, a))
<1>1. record(l, p, a) \in Ledger /\ LedgerOK(record(l, p, a))
  BY RecordType DEF Good
<1>2. SeenDel(s, p, a) \in SeenFn
  BY StampAssumption DEF Good, SeenDel, SeenFn, Seen, MaxOf, NoStamp
<1>3. Verdict(record(l, p, a), SeenDel(s, p, a))
  BY StampAssumption
     DEF Good, Verdict, record, is_superseded, SeenDel, SeenFn, Seen, Ledger, MaxOf, NoStamp
<1> QED BY <1>1, <1>2, <1>3 DEF Good

LEMMA GoodAdmit ==
    ASSUME NEW l, NEW s, Good(l, s), NEW p \in Path,
           NEW act \in {NoStamp} \cup Stamp, NEW m \in Stamp
    PROVE  Good(admit_record(l, p, act, m),
                IF act # NoStamp \/ (l.entries[p] # NoStamp /\ m > l.entries[p])
                THEN SeenLive(s, p, Comparand(act, m)) ELSE s)
<1>1. CASE act # NoStamp
  <2>1. act \in Stamp
    BY <1>1
  <2>2. Good(record_alive(l, p, act), SeenLive(s, p, act))
    BY <2>1, GoodLive
  <2>3. Comparand(act, m) = act
    BY <1>1 DEF Comparand
  <2>4. CASE alive_record_needed(l, p, act)
    BY <1>1, <2>2, <2>3, <2>4 DEF admit_record
  <2>5. CASE ~alive_record_needed(l, p, act)
    <3>1. SeenLive(s, p, act) = s
      BY <2>1, <2>5, StampAssumption
         DEF Good, Verdict, alive_record_needed, SeenLive, SeenFn, Seen, Ledger, MaxOf, NoStamp
    <3> QED BY <1>1, <2>3, <2>5, <3>1 DEF admit_record
  <2> QED BY <2>4, <2>5
<1>2. CASE act = NoStamp
  <2>1. Comparand(act, m) = m
    BY <1>2 DEF Comparand
  <2> QED BY <1>2, <2>1, GoodLive DEF admit_record
<1> QED BY <1>1, <1>2

LEMMA GoodPrune ==
    ASSUME NEW l, NEW s, Good(l, s), NEW now \in Stamp
    PROVE  Good(prune(l, now),
                [p \in Path |-> [live |-> IF Kept(s[p].live, now) THEN s[p].live ELSE 0,
                                 del  |-> IF Kept(s[p].del, now) THEN s[p].del ELSE NoStamp]])
<1> DEFINE t == [p \in Path |-> [live |-> IF Kept(s[p].live, now) THEN s[p].live ELSE 0,
                                 del  |-> IF Kept(s[p].del, now) THEN s[p].del ELSE NoStamp]]
<1>1. prune(l, now) \in Ledger /\ LedgerOK(prune(l, now))
  BY PruneType DEF Good
<1>2. t \in SeenFn
  BY StampAssumption DEF Good, SeenFn, Seen, NoStamp
<1>3. Verdict(prune(l, now), t)
  <2>1. SUFFICES ASSUME NEW p \in Path
        PROVE  /\ prune(l, now).alive[p] = t[p].live
               /\ prune(l, now).entries[p] =
                    IF t[p].live > 0 /\ t[p].del <= t[p].live THEN NoStamp ELSE t[p].del
    BY DEF Verdict
  <2>2. /\ t[p].live = IF Kept(s[p].live, now) THEN s[p].live ELSE 0
        /\ t[p].del = IF Kept(s[p].del, now) THEN s[p].del ELSE NoStamp
    OBVIOUS
  <2>3. /\ prune(l, now).alive[p] = IF Kept(l.alive[p], now) THEN l.alive[p] ELSE 0
        /\ prune(l, now).entries[p] = IF Kept(l.entries[p], now) THEN l.entries[p] ELSE NoStamp
    BY DEF prune
  <2>4. s[p].live \in Nat /\ s[p].del \in Int /\ s[p].del >= -1
    BY SeenRange DEF Good
  <2>5. /\ l.alive[p] = s[p].live
        /\ l.entries[p] = IF s[p].live > 0 /\ s[p].del <= s[p].live THEN NoStamp ELSE s[p].del
    BY DEF Good, Verdict
  <2>6. now \in Nat /\ Ttl \in Nat
    BY StampAssumption
  <2> HIDE DEF t
  <2> QED BY <2>2, <2>3, <2>4, <2>5, <2>6 DEF Kept, NoStamp
<1> QED BY <1>1, <1>2, <1>3 DEF Good

LEMMA GoodClear ==
    ASSUME NEW l, NEW s, Good(l, s), NEW ps \in SUBSET Path
    PROVE  Good(remove(l, ps),
                [p \in Path |-> IF p \in ps THEN [s[p] EXCEPT !.del = NoStamp] ELSE s[p]])
<1> DEFINE t == [p \in Path |-> IF p \in ps THEN [s[p] EXCEPT !.del = NoStamp] ELSE s[p]]
<1>1. remove(l, ps) \in Ledger /\ LedgerOK(remove(l, ps))
  BY RemoveType DEF Good
<1>2. t \in SeenFn
  BY StampAssumption DEF Good, SeenFn, Seen, NoStamp
<1>3. Verdict(remove(l, ps), t)
  BY StampAssumption DEF Good, Verdict, remove, SeenFn, Seen, Ledger, NoStamp
<1> QED BY <1>1, <1>2, <1>3 DEF Good

(* What merging a ledger computes at one path.                              *)
LEMMA MergePointwise ==
    ASSUME NEW l \in Ledger, NEW r \in Ledger, NEW p \in Path, LedgerOK(l), LedgerOK(r)
    PROVE  LET m == merge_ledger(l, r)
               live == MaxOf(l.alive[p], r.alive[p])
               del  == MaxOf(l.entries[p], r.entries[p])
           IN  /\ m.alive[p] = live
               /\ m.entries[p] = IF live > 0 /\ del <= live THEN NoStamp ELSE del
BY StampAssumption
   DEF merge_ledger, merge_alive, merge_remote, is_superseded, Ledger, LedgerOK, MaxOf, NoStamp

LEMMA GoodMerge ==
    ASSUME NEW l, NEW s, Good(l, s), NEW r, NEW t, Good(r, t)
    PROVE  Good(merge_ledger(l, r), SeenJoin(s, t))
<1>1. merge_ledger(l, r) \in Ledger /\ LedgerOK(merge_ledger(l, r))
  BY MergeLedgerType DEF Good
<1>2. SeenJoin(s, t) \in SeenFn
  BY StampAssumption DEF Good, SeenJoin, SeenFn, Seen, MaxOf, NoStamp
<1>3. Verdict(merge_ledger(l, r), SeenJoin(s, t))
  <2>1. SUFFICES ASSUME NEW p \in Path
        PROVE  /\ merge_ledger(l, r).alive[p] = SeenJoin(s, t)[p].live
               /\ merge_ledger(l, r).entries[p] =
                    IF SeenJoin(s, t)[p].live > 0 /\ SeenJoin(s, t)[p].del <= SeenJoin(s, t)[p].live
                    THEN NoStamp ELSE SeenJoin(s, t)[p].del
    BY DEF Verdict
  <2>2. /\ SeenJoin(s, t)[p].live = MaxOf(s[p].live, t[p].live)
        /\ SeenJoin(s, t)[p].del = MaxOf(s[p].del, t[p].del)
    BY DEF SeenJoin
  <2>3. /\ s[p].live \in Nat /\ t[p].live \in Nat
        /\ s[p].del \in Int /\ t[p].del \in Int /\ s[p].del >= -1 /\ t[p].del >= -1
    BY SeenRange DEF Good
  <2>4. /\ l.alive[p] = s[p].live /\ r.alive[p] = t[p].live
        /\ l.entries[p] = IF s[p].live > 0 /\ s[p].del <= s[p].live THEN NoStamp ELSE s[p].del
        /\ r.entries[p] = IF t[p].live > 0 /\ t[p].del <= t[p].live THEN NoStamp ELSE t[p].del
    BY DEF Good, Verdict
  <2> QED BY <2>2, <2>3, <2>4, MergePointwise DEF Good, MaxOf, NoStamp
<1> QED BY <1>1, <1>2, <1>3 DEF Good

-----------------------------------------------------------------------------
(* One node's ledger and history change together; the others stay.          *)
LEMMA GoodUpdate ==
    ASSUME LInv, NEW n \in Node, NEW l, NEW s, Good(l, s),
           ledger' = [ledger EXCEPT ![n] = l], seen' = [seen EXCEPT ![n] = s]
    PROVE  /\ ledger' \in [Node -> Ledger] /\ seen' \in [Node -> SeenFn]
           /\ \A k \in Node : Good(ledger'[k], seen'[k])
BY DEF LInv, Good

LEMMA LInvInit == Init => LInv
BY GoodEmpty DEF Init, LInv, Good

LEMMA LInvNext == LInv /\ [Next]_vars => LInv'
<1> SUFFICES ASSUME LInv, [Next]_vars PROVE LInv'
  OBVIOUS
<1> DEFINE WireOK == wire \in Seq(Message) /\ \A i \in 1..Len(wire) : Good(wire[i].dtos, wire[i].seen)
<1>0. WireOK /\ \A n \in Node : Good(ledger[n], seen[n])
  BY DEF LInv
<1>1. ASSUME NEW n \in Node, NEW p \in Path, NEW d \in Stamp, RecordDelete(n, p, d)
      PROVE  LInv'
  <2>1. Good(record(ledger[n], p, d), SeenDel(seen[n], p, d))
    BY <1>0, GoodDelete
  <2> QED BY <1>0, <1>1, <2>1, GoodUpdate DEF RecordDelete, LInv
<1>2. ASSUME NEW n \in Node, NEW p \in Path, NEW a \in Stamp, RecordLive(n, p, a)
      PROVE  LInv'
  <2>1. Good(record_alive(ledger[n], p, a), SeenLive(seen[n], p, a))
    BY <1>0, GoodLive
  <2> QED BY <1>0, <1>2, <2>1, GoodUpdate DEF RecordLive, LInv
<1>3. ASSUME NEW n \in Node, NEW p \in Path, NEW act \in {NoStamp} \cup Stamp, NEW m \in Stamp,
             AdmitWrite(n, p, act, m)
      PROVE  LInv'
  <2> DEFINE heard == act # NoStamp \/ (ledger[n].entries[p] # NoStamp /\ m > ledger[n].entries[p])
             s == IF heard THEN SeenLive(seen[n], p, Comparand(act, m)) ELSE seen[n]
  <2>1. Good(admit_record(ledger[n], p, act, m), s)
    BY <1>0, GoodAdmit
  <2>2. seen' = [seen EXCEPT ![n] = s]
    BY <1>3 DEF AdmitWrite, LInv
  <2>3. ledger' = [ledger EXCEPT ![n] = admit_record(ledger[n], p, act, m)] /\ wire' = wire
    BY <1>3 DEF AdmitWrite
  <2> HIDE DEF s
  <2> QED BY <1>0, <2>1, <2>2, <2>3, GoodUpdate DEF LInv
<1>4. ASSUME NEW n \in Node, NEW m \in Node, SendLedger(n, m)
      PROVE  LInv'
  <2> DEFINE msg == [to |-> m, dtos |-> ledger[n], seen |-> seen[n]]
  <2>1. msg \in Message /\ Good(msg.dtos, msg.seen)
    BY <1>0 DEF LInv, Message, Good, SeenFn
  <2>2. wire' = Append(wire, msg) /\ ledger' = ledger /\ seen' = seen
    BY <1>4 DEF SendLedger
  <2> HIDE DEF msg
  <2>3. /\ wire' \in Seq(Message) /\ Len(wire') = Len(wire) + 1 /\ Len(wire) \in Nat
        /\ \A i \in 1..Len(wire') : wire'[i] = IF i = Len(wire) + 1 THEN msg ELSE wire[i]
    BY <1>0, <2>1, <2>2
  <2>4. \A i \in 1..Len(wire') : Good(wire'[i].dtos, wire'[i].seen)
    BY <1>0, <2>1, <2>3
  <2> QED BY <1>0, <2>2, <2>3, <2>4 DEF LInv
<1>5. ASSUME MergeLedger
      PROVE  LInv'
  <2> DEFINE msg == Head(wire)
             n == msg.to
  <2>1. wire # <<>> /\ wire \in Seq(Message)
    BY <1>5, <1>0 DEF MergeLedger
  <2>2. Len(wire) \in Nat /\ Len(wire) > 0 /\ msg = wire[1] /\ msg \in Message
    BY <2>1
  <2>3. n \in Node /\ Good(msg.dtos, msg.seen)
    BY <1>0, <2>2 DEF Message
  <2>4. Good(merge_ledger(ledger[n], msg.dtos), SeenJoin(seen[n], msg.seen))
    BY <1>0, <2>3, GoodMerge
  <2>5. /\ ledger' = [ledger EXCEPT ![n] = merge_ledger(ledger[n], msg.dtos)]
        /\ seen' = [seen EXCEPT ![n] = SeenJoin(seen[n], msg.seen)]
        /\ wire' = Tail(wire)
    BY <1>5 DEF MergeLedger
  <2>6. /\ wire' \in Seq(Message) /\ Len(wire') = Len(wire) - 1
        /\ \A i \in 1..Len(wire') : wire'[i] = wire[i + 1]
    BY <2>1, <2>5
  <2>7. \A i \in 1..Len(wire') : Good(wire'[i].dtos, wire'[i].seen)
    BY <1>0, <2>2, <2>6
  <2> HIDE DEF msg, n
  <2>8. /\ ledger' \in [Node -> Ledger] /\ seen' \in [Node -> SeenFn]
        /\ \A k \in Node : Good(ledger'[k], seen'[k])
    BY <2>3, <2>4, <2>5, GoodUpdate
  <2> QED BY <2>6, <2>7, <2>8 DEF LInv
<1>6. ASSUME DropWire
      PROVE  LInv'
  <2>1. wire' = <<>> /\ ledger' = ledger /\ seen' = seen
    BY <1>6 DEF DropWire
  <2> QED BY <1>0, <2>1 DEF LInv
<1>7. ASSUME NEW n \in Node, NEW now \in Stamp, PruneLedger(n, now)
      PROVE  LInv'
  <2> DEFINE t == [p \in Path |-> [live |-> IF Kept(seen[n][p].live, now) THEN seen[n][p].live ELSE 0,
                                   del  |-> IF Kept(seen[n][p].del, now) THEN seen[n][p].del ELSE NoStamp]]
  <2>1. Good(prune(ledger[n], now), t)
    BY <1>0, GoodPrune
  <2>2. ledger' = [ledger EXCEPT ![n] = prune(ledger[n], now)] /\ wire' = wire
        /\ seen' = [seen EXCEPT ![n] = t]
    BY <1>7 DEF PruneLedger
  <2> HIDE DEF t
  <2> QED BY <1>0, <2>1, <2>2, GoodUpdate DEF LInv
<1>8. ASSUME NEW n \in Node, NEW ps \in SUBSET Path, ClearTombstones(n, ps)
      PROVE  LInv'
  <2> DEFINE t == [p \in Path |-> IF p \in ps THEN [seen[n][p] EXCEPT !.del = NoStamp] ELSE seen[n][p]]
  <2>1. Good(remove(ledger[n], ps), t)
    BY <1>0, GoodClear
  <2>2. ledger' = [ledger EXCEPT ![n] = remove(ledger[n], ps)] /\ wire' = wire
        /\ seen' = [seen EXCEPT ![n] = t]
    BY <1>8 DEF ClearTombstones
  <2> HIDE DEF t
  <2> QED BY <1>0, <2>1, <2>2, GoodUpdate DEF LInv
<1>9. CASE UNCHANGED vars
  BY <1>9 DEF vars, LInv
<1> QED BY <1>1, <1>2, <1>3, <1>4, <1>5, <1>6, <1>7, <1>8, <1>9 DEF Next

LEMMA Invariance == Spec => []LInv
BY LInvInit, LInvNext, PTL DEF Spec

(* Type correctness of the replicated ledger.                               *)
THEOREM TypeCorrect == Spec => []TypeOK
<1>1. LInv => TypeOK
  BY DEF LInv, TypeOK, SeenFn
<1> QED BY <1>1, Invariance, PTL

(* The invariant ledger.rs documents holds of every node and every snapshot *)
(* in flight, for any number of nodes, paths and stamps.                    *)
THEOREM TombstonesAreLive == Spec => []SupersededNeverStored
<1>1. LInv => SupersededNeverStored
  <2>1. ASSUME LInv PROVE DOMAIN wire = 1..Len(wire)
    BY <2>1 DEF LInv
  <2> QED BY <2>1 DEF LInv, Good, SupersededNeverStored
<1> QED BY <1>1, Invariance, PTL

(* The ledger is a last-writer-wins register per path: its content depends  *)
(* only on the stamps heard of, never on the order they arrived in.         *)
THEOREM LastWriterWins == Spec => []VerdictIsNewest
<1>1. LInv => VerdictIsNewest
  <2>1. ASSUME LInv PROVE DOMAIN wire = 1..Len(wire)
    BY <2>1 DEF LInv
  <2> QED BY <2>1 DEF LInv, Good, VerdictIsNewest
<1> QED BY <1>1, Invariance, PTL

(* Merging in either direction gives the same ledger.                       *)
LEMMA MergeAgrees ==
    ASSUME NEW l \in Ledger, NEW r \in Ledger, LedgerOK(l), LedgerOK(r)
    PROVE  merge_ledger(l, merge_ledger(r, l)) = merge_ledger(r, l)
<1> DEFINE c == merge_ledger(r, l)
           b == merge_ledger(l, c)
<1>1. c \in Ledger /\ LedgerOK(c)
  BY MergeLedgerType
<1>2. b \in Ledger
  BY <1>1, MergeLedgerType
<1>3. ASSUME NEW p \in Path
      PROVE  b.alive[p] = c.alive[p] /\ b.entries[p] = c.entries[p]
  <2>1. /\ c.alive[p] = MaxOf(r.alive[p], l.alive[p])
        /\ c.entries[p] = IF MaxOf(r.alive[p], l.alive[p]) > 0
                             /\ MaxOf(r.entries[p], l.entries[p]) <= MaxOf(r.alive[p], l.alive[p])
                          THEN NoStamp ELSE MaxOf(r.entries[p], l.entries[p])
    BY MergePointwise
  <2>2. /\ b.alive[p] = MaxOf(l.alive[p], c.alive[p])
        /\ b.entries[p] = IF MaxOf(l.alive[p], c.alive[p]) > 0
                             /\ MaxOf(l.entries[p], c.entries[p]) <= MaxOf(l.alive[p], c.alive[p])
                          THEN NoStamp ELSE MaxOf(l.entries[p], c.entries[p])
    BY <1>1, MergePointwise
  <2>3. /\ l.alive[p] \in Nat /\ r.alive[p] \in Nat
        /\ l.entries[p] \in Int /\ r.entries[p] \in Int
        /\ l.entries[p] >= -1 /\ r.entries[p] >= -1
    BY LedgerRange
  <2>4. /\ l.alive[p] > 0 => ~(l.entries[p] # NoStamp /\ l.entries[p] <= l.alive[p])
        /\ r.alive[p] > 0 => ~(r.entries[p] # NoStamp /\ r.entries[p] <= r.alive[p])
    BY DEF LedgerOK
  <2> HIDE DEF b, c
  <2> QED BY <2>1, <2>2, <2>3, <2>4 DEF MaxOf, NoStamp
<1>4. b.alive = c.alive /\ b.entries = c.entries
  BY <1>1, <1>2, <1>3 DEF Ledger
<1> QED BY <1>1, <1>2, <1>4 DEF Ledger

(* A completed LedgerExchange leaves both sides with the same ledger.       *)
THEOREM ExchangeConverges == Spec => []ExchangeAgrees
<1>1. LInv => ExchangeAgrees
  BY MergeAgrees DEF LInv, Good, ExchangeAgrees
<1> QED BY <1>1, Invariance, PTL

Rises(l, m) == \A p \in Path : m.alive[p] >= l.alive[p] \/ m.alive[p] = 0

(* Recording a delete, a live action or an admitted write never lowers the  *)
(* live record.                                                             *)
LEMMA OpsRaise ==
    ASSUME NEW l \in Ledger, NEW p \in Path, NEW s \in Stamp, NEW act \in {NoStamp} \cup Stamp
    PROVE  /\ Rises(l, record_alive(l, p, s)) /\ Rises(l, record(l, p, s))
           /\ Rises(l, admit_record(l, p, act, s))
<1>0. \A q \in Path : l.alive[q] \in Nat
  BY LedgerRange
<1>1. \A t \in Stamp : Rises(l, record_alive(l, p, t))
  BY <1>0, StampAssumption DEF Rises, record_alive, MaxOf, Ledger
<1>2. Rises(l, l)
  BY <1>0 DEF Rises
<1>3. Rises(l, record(l, p, s))
  <2>1. record(l, p, s).alive = l.alive
    BY DEF record, Ledger
  <2> QED BY <1>0, <2>1 DEF Rises
<1>4. Rises(l, admit_record(l, p, act, s))
  BY <1>1, <1>2 DEF admit_record
<1> QED BY <1>1, <1>3, <1>4

LEMMA MergeRaises ==
    ASSUME NEW l \in Ledger, NEW r \in Ledger
    PROVE  Rises(l, merge_ledger(l, r))
<1> SUFFICES ASSUME NEW p \in Path PROVE merge_ledger(l, r).alive[p] >= l.alive[p]
  BY DEF Rises
<1>1. merge_ledger(l, r).alive[p] = MaxOf(l.alive[p], r.alive[p])
  BY DEF merge_ledger, merge_remote, merge_alive
<1>2. l.alive[p] \in Nat /\ r.alive[p] \in Nat
  BY LedgerRange
<1> QED BY <1>1, <1>2 DEF MaxOf

(* No step of any node replaces a live record by an older one.              *)
THEOREM LiveRecordsRise == Spec => AliveNeverRegresses
<1> DEFINE Step == \A n \in Node, p \in Path :
                      ledger'[n].alive[p] >= ledger[n].alive[p] \/ ledger'[n].alive[p] = 0
<1>1. LInv /\ [Next]_vars => [Step]_vars
  <2> SUFFICES ASSUME LInv, Next, NEW k \in Node PROVE Rises(ledger[k], ledger'[k])
    BY DEF Rises
  <2>0. ledger \in [Node -> Ledger] /\ ledger[k] \in Ledger
    BY DEF LInv
  <2>1. Rises(ledger[k], ledger[k])
    BY <2>0, LedgerRange DEF Rises
  <2>2. ASSUME NEW n \in Node, NEW m, Rises(ledger[n], m), ledger' = [ledger EXCEPT ![n] = m]
        PROVE  Rises(ledger[k], ledger'[k])
    BY <2>0, <2>1, <2>2
  <2>3. ASSUME NEW n \in Node, NEW p \in Path, NEW s \in Stamp, RecordDelete(n, p, s) \/ RecordLive(n, p, s)
        PROVE  Rises(ledger[k], ledger'[k])
    <3>1. Rises(ledger[n], record(ledger[n], p, s)) /\ Rises(ledger[n], record_alive(ledger[n], p, s))
      BY <2>0, OpsRaise DEF LInv
    <3> QED BY <2>2, <2>3, <3>1 DEF RecordDelete, RecordLive
  <2>4. ASSUME NEW n \in Node, NEW p \in Path, NEW act \in {NoStamp} \cup Stamp, NEW s \in Stamp,
               AdmitWrite(n, p, act, s)
        PROVE  Rises(ledger[k], ledger'[k])
    <3>1. Rises(ledger[n], admit_record(ledger[n], p, act, s))
      BY <2>0, OpsRaise DEF LInv
    <3> QED BY <2>2, <2>4, <3>1 DEF AdmitWrite
  <2>5. ASSUME NEW n \in Node, NEW m \in Node, SendLedger(n, m)
        PROVE  Rises(ledger[k], ledger'[k])
    BY <2>1, <2>5 DEF SendLedger
  <2>6. CASE MergeLedger
    <3> DEFINE msg == Head(wire)
    <3>1. msg \in Message
      BY <2>6 DEF MergeLedger, LInv
    <3>2. msg.to \in Node /\ msg.dtos \in Ledger
      BY <3>1 DEF Message
    <3>3. Rises(ledger[msg.to], merge_ledger(ledger[msg.to], msg.dtos))
      BY <2>0, <3>2, MergeRaises
    <3>4. ledger' = [ledger EXCEPT ![msg.to] = merge_ledger(ledger[msg.to], msg.dtos)]
      BY <2>6 DEF MergeLedger
    <3> HIDE DEF msg
    <3> QED BY <2>2, <3>2, <3>3, <3>4
  <2>7. ASSUME NEW n \in Node, NEW s \in Stamp, PruneLedger(n, s)
        PROVE  Rises(ledger[k], ledger'[k])
    <3>1. Rises(ledger[n], prune(ledger[n], s))
      BY <2>0, LedgerRange DEF LInv, Rises, prune
    <3> QED BY <2>2, <2>7, <3>1 DEF PruneLedger
  <2>8. ASSUME NEW n \in Node, NEW ps \in SUBSET Path, ClearTombstones(n, ps)
        PROVE  Rises(ledger[k], ledger'[k])
    <3>1. remove(ledger[n], ps).alive = ledger[n].alive
      BY DEF remove, LInv, Ledger
    <3>2. Rises(ledger[n], remove(ledger[n], ps))
      BY <2>0, <3>1, LedgerRange DEF LInv, Rises
    <3> QED BY <2>2, <2>8, <3>2 DEF ClearTombstones
  <2>9. CASE DropWire
    BY <2>1, <2>9 DEF DropWire
  <2> QED BY <2>3, <2>4, <2>5, <2>6, <2>7, <2>8, <2>9 DEF Next
<1> QED BY <1>1, Invariance, PTL DEF Spec, AliveNeverRegresses

-----------------------------------------------------------------------------
LEMMA SmallestExists ==
    ASSUME NEW T \in SUBSET Nat, T # {}
    PROVE  \E x \in T : \A y \in T : x <= y
<1>1. PICK x \in T : \A y \in T : ~(<<y, x>> \in OpToRel(<, Nat))
  BY NatLessThanWellFounded, WFMin, Zenon
<1>2. ASSUME NEW y \in T PROVE ~(y < x)
  BY <1>1 DEF OpToRel
<1> QED BY <1>2

(* What the walk up the ancestors finds: nothing when no tombstone on it    *)
(* applies to p, else one that does, and p's own whenever that one applies. *)
LEMMA CoveringApplies ==
    ASSUME NEW l \in Ledger, NEW p \in Path
    PROVE  /\ covering_tombstone(l, p) # NoStamp =>
                \E i \in Applicable(l, p) : covering_tombstone(l, p) = l.entries[Ancestors[p][i]]
           /\ 1 \in Applicable(l, p) => covering_tombstone(l, p) = l.entries[p]
<1> DEFINE a == Applicable(l, p)
           First == CHOOSE i \in a : \A j \in a : i <= j
<1>0. Ancestors[p] \in Seq(Path) /\ Len(Ancestors[p]) \in Nat /\ Ancestors[p][1] = p
  BY PathAssumption
<1>1. a \subseteq 1..Len(Ancestors[p])
  BY <1>0 DEF Applicable
<1>2. a \in SUBSET Nat
  BY <1>0, <1>1
<1>3. ASSUME a # {} PROVE First \in a /\ \A j \in a : First <= j
  <2>1. \E i \in a : \A j \in a : i <= j
    BY <1>2, <1>3, SmallestExists
  <2> QED BY <2>1
<1>4. covering_tombstone(l, p) = IF a = {} THEN NoStamp ELSE l.entries[Ancestors[p][First]]
  BY DEF covering_tombstone
<1> HIDE DEF First, a
<1>5. ASSUME 1 \in a PROVE First = 1
  <2>1. First \in 1..Len(Ancestors[p]) /\ First <= 1
    BY <1>1, <1>3, <1>5
  <2> QED BY <1>0, <2>1
<1>6. covering_tombstone(l, p) # NoStamp =>
        \E i \in a : covering_tombstone(l, p) = l.entries[Ancestors[p][i]]
  BY <1>3, <1>4
<1>7. 1 \in a => covering_tombstone(l, p) = l.entries[p]
  BY <1>0, <1>4, <1>5
<1> QED BY <1>6, <1>7 DEF a

(* For any shape of the tree: a write is refused when its own path was      *)
(* deleted after it, and only for a delete on its walk that is newer.       *)
THEOREM VetoesAreNewer == Spec => []VetoIsLastWriter
<1>1. ASSUME LInv, NEW n \in Node, NEW p \in Path, NEW act \in Stamp
      PROVE  /\ seen[n][p].del > MaxOf(seen[n][p].live, act) => veto_for(ledger[n], p, act, 0)
             /\ veto_for(ledger[n], p, act, 0) =>
                  \E i \in DOMAIN Ancestors[p] :
                      seen[n][Ancestors[p][i]].del > MaxOf(seen[n][p].live, act)
  <2> DEFINE l == ledger[n]
             s == seen[n]
             c == covering_tombstone(l, p)
  <2>1. l \in Ledger /\ s \in SeenFn /\ Verdict(l, s)
    BY <1>1 DEF LInv, Good
  <2>2. act \in Nat /\ Comparand(act, 0) = act
    BY StampAssumption DEF Comparand, NoStamp
  <2>3. veto_for(l, p, act, 0) <=> c > act
    BY <2>2 DEF veto_for
  <2>4. /\ Ancestors[p] \in Seq(Path) /\ 1 \in DOMAIN Ancestors[p] /\ Ancestors[p][1] = p
        /\ \A i \in DOMAIN Ancestors[p] : Ancestors[p][i] \in Path
    BY PathAssumption
  <2> HIDE DEF l, s
  <2>5. \A q \in Path : /\ s[q].live \in Nat /\ s[q].del \in Int /\ s[q].del >= -1
                        /\ l.alive[q] = s[q].live
                        /\ l.entries[q] = IF s[q].live > 0 /\ s[q].del <= s[q].live
                                          THEN NoStamp ELSE s[q].del
    BY <2>1, SeenRange DEF Verdict
  <2>6. ASSUME s[p].del > MaxOf(s[p].live, act) PROVE c > act
    <3>1. s[p].del > s[p].live /\ s[p].del > act
      BY <2>2, <2>5, <2>6 DEF MaxOf
    <3>2. l.entries[p] = s[p].del /\ l.entries[p] # NoStamp /\ ~(l.entries[p] <= l.alive[p])
      BY <2>5, <3>1 DEF NoStamp
    <3>3. 1 \in Applicable(l, p)
      BY <2>4, <3>2 DEF Applicable
    <3> QED BY <2>1, <3>1, <3>2, <3>3, CoveringApplies
  <2>7. ASSUME c > act PROVE \E i \in DOMAIN Ancestors[p] : s[Ancestors[p][i]].del > MaxOf(s[p].live, act)
    <3>1. c # NoStamp
      BY <2>2, <2>7 DEF NoStamp
    <3>2. PICK i \in Applicable(l, p) : c = l.entries[Ancestors[p][i]]
      BY <2>1, <3>1, CoveringApplies
    <3> DEFINE q == Ancestors[p][i]
    <3>3. i \in DOMAIN Ancestors[p] /\ ~(l.alive[p] > 0 /\ l.entries[q] <= l.alive[p])
      BY DEF Applicable
    <3>4. q \in Path
      BY <2>4, <3>3
    <3> HIDE DEF q, c
    <3>5. c = l.entries[q]
      BY <3>2 DEF q
    <3>6. s[q].del = c
      BY <2>5, <3>1, <3>4, <3>5
    <3>7. c > s[p].live \/ s[p].live = 0
      BY <2>5, <3>3, <3>4, <3>5, <3>6
    <3>8. s[q].del > MaxOf(s[p].live, act)
      BY <2>2, <2>5, <2>7, <3>4, <3>6, <3>7 DEF MaxOf
    <3> QED BY <3>3, <3>8 DEF q
  <2> QED BY <2>3, <2>6, <2>7 DEF l, s
<1>2. LInv => VetoIsLastWriter
  BY <1>1 DEF VetoIsLastWriter
<1> QED BY <1>2, Invariance, PTL

=============================================================================
