---- MODULE MCEngine ----
(***************************************************************************)
(* The engine of one node, checked in one run: what it applies, the large  *)
(* files it assembles, the directories it watches and the local changes it *)
(* tells its peers.  The parts share no state here: a behaviour is one of  *)
(* the four, and part says which.                                          *)
(***************************************************************************)
EXTENDS EngineApply

CONSTANTS LargeThread, LargeStamp, TotalChunks, MaxBegin,
          Name, MaxInode, LocalFile, Seeded, MaxOp, MaxMiss, MaxScan

(* A large file has a chunk at least; the stamps of its transfers.          *)
ASSUME TransferAssumption == TotalChunks \in Nat \ {0} /\ LargeStamp \in Nat

VARIABLES part,
          large, asm, tmp, dst, held, timers, stage, stamp, left, hash, begun,
          reported, settled, failed, crossed, abandoned,
          fs, watch, kernel, wd_map, pending_moves, wds, done, moved, gone, raced, wrong,
          files, listed, tombs, events, pending, phase, peer, pledger, clock, told,
          scans, missed, excuse

largeVars == <<large, asm, tmp, dst, held, timers, stage, stamp, left, hash, begun,
               reported, settled, failed, crossed, abandoned>>
watchVars == <<fs, watch, kernel, wd_map, pending_moves, wds, done, moved, gone, raced, wrong>>
localVars == <<files, listed, tombs, events, pending, phase, peer, pledger, clock, told,
               scans, missed, excuse>>

(* Remote operations come one after the other ...                           *)
OneThread == {"t1"}
(* ... or two clients' at once, as large files may.                         *)
TwoThreads == {"t1", "t2"}

Large == INSTANCE LargeFile WITH
           Thread <- LargeThread, MaxStamp <- LargeStamp,
           ledger <- large, sup <- held, pc <- stage, at <- stamp
Watch == INSTANCE Watcher WITH
           MaxOp <- MaxOp + 1, events <- kernel, ops <- done, left <- gone
Local == INSTANCE LocalChanges WITH
           File <- LocalFile, disk <- files, manifest <- listed,
           ledger <- tombs, ops <- told

MCInit ==
    /\ part \in {"apply", "large", "watch", "local"}
    /\ Init /\ Large!Init /\ Watch!Init /\ Local!Init

InApply(A) == part = "apply" /\ A /\ UNCHANGED <<part, largeVars, watchVars, localVars>>
InLarge(A) == part = "large" /\ A /\ UNCHANGED <<part, vars, watchVars, localVars>>

MCNext ==
    \/ InApply(Next)
    \/ InLarge(Large!Next)
    \/ part = "watch" /\ Watch!Next /\ UNCHANGED <<part, vars, largeVars, localVars>>
    \/ part = "local" /\ Local!Next /\ UNCHANGED <<part, vars, largeVars, watchVars>>

all == <<part, vars, largeVars, watchVars, localVars>>

(* The fairness of EngineApply and of LargeFile.                            *)
MCSpec ==
    /\ MCInit /\ [][MCNext]_all
    /\ WF_all(InApply(\E o \in own : Unsuppress(o)))
    /\ \A t \in Thread :
          WF_all(InApply(AdmitWrite(t) \/ WriteFile(t) \/ ListFile(t)
                           \/ TrashFile(t) \/ UnlistFile(t) \/ RecordDelete(t)))
    /\ WF_all(InLarge(Large!Unsuppress))
    /\ \A t \in LargeThread : WF_all(InLarge(Large!Step(t)))

(* A committed file is one transfer's, whole (LargeFile).                   *)
CommittedIsWhole == Large!CommittedIsWhole

(* A transfer reported as committed is in place or vetoed (LargeFile).      *)
ReportedIsSettled == Large!ReportedIsSettled

(* A file in place is not older than the newest delete (LargeFile).         *)
NeverResurrected == Large!NeverResurrected

(* No suppression is left behind (EngineApply, LargeFile).                  *)
NothingStaysSuppressed == SuppressionEnds /\ Large!SuppressionEnds

(* Every directory is watched under its path (Watcher).                     *)
WatchesAreTrue == Watch!WatchesAreTrue

(* A connected peer has the server's files (LocalChanges).                  *)
MirrorFollows == Local!MirrorFollows
====
