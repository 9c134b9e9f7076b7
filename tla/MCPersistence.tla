---- MODULE MCPersistence ----
(***************************************************************************)
(* What a node keeps on disk, and what a client delivers from it, checked  *)
(* in one run: the deletion ledger's file, the action journal, and the     *)
(* journal's drain to the server.  They share no state here: a behaviour   *)
(* is one of the three, and part says which.                               *)
(***************************************************************************)
EXTENDS LedgerStore, Sequences, TLC

CONSTANTS t1, t2,
          Touched, MaxSeq, CompactMin, MaxCrash, MaxFailed, MaxLines,  \* of ActionJournal
          Leaf, Path, Seed, Moves, Lag, Linger, MaxOps, MaxLost  \* of JournalDrain

(* Sequence numbers are bounded; a path is the sequence of its components.  *)
ASSUME TouchedAssumption == MaxSeq \in Nat /\ \A p \in Touched : p \in Seq(STRING)

VARIABLES part,
          st, lines, tail, counted, crashes, failed, rewritten,
          disk, events, now, journal, tombs, drain, up, net, acks, srv, tree, theirs,
          ops, lost, old, owed, moved

journalVars == <<st, lines, tail, counted, crashes, failed, rewritten>>
drainVars == <<disk, events, now, journal, tombs, drain, up, net, acks, srv, tree, theirs,
               ops, lost, old, owed, moved>>

(* Two threads of one engine.                                               *)
TwoThreads == {t1, t2}

(* A directory with a file in it, and a file beside it.                     *)
Tree == {<<"folder">>, <<"folder", "inner">>, <<"file">>}

(* Two files, one of them in a directory, to which the other is renamed.    *)
TwoFiles == {<<"from">>, <<"folder", "onto">>}
ThreePaths == TwoFiles \cup {<<"folder">>}
SeedTwo == <<"from">> :> 1 @@ <<"folder", "onto">> :> 2
OneMove == {<<<<"from">>, <<"folder", "onto">>>>}

Journal == INSTANCE ActionJournal WITH
             Path <- Touched, MaxFault <- MaxFailed, file <- lines, faults <- failed
Delivery == INSTANCE JournalDrain WITH
              MaxFault <- MaxLost, st <- journal, mine <- tombs, faults <- lost

(* What is above a path is a path, and no file is above another.            *)
ASSUME TreeAssumption ==
    /\ Leaf \subseteq Path /\ IsFiniteSet(Leaf) /\ Seed \in [Leaf -> Nat]
    /\ Moves \subseteq Path \X Path
    /\ \A p \in Path : p \in Seq(STRING) /\ \A n \in 1..Len(p) : SubSeq(p, 1, n) \in Path
    /\ \A k, l \in Leaf : Delivery!starts_with(k, l) => k = l

MCInit ==
    /\ part \in {"ledger", "journal", "drain"}
    /\ Init /\ Journal!Init /\ Delivery!Init

InDrain(A) == part = "drain" /\ A /\ UNCHANGED <<part, vars, journalVars>>

MCNext ==
    \/ part = "ledger" /\ Next /\ UNCHANGED <<part, journalVars, drainVars>>
    \/ part = "journal" /\ Journal!Next /\ UNCHANGED <<part, vars, drainVars>>
    \/ InDrain(Delivery!Next)

all == <<part, vars, journalVars, drainVars>>

(* The fairness of JournalDrain.                                            *)
MCSpec == MCInit /\ [][MCNext]_all /\ WF_all(InDrain(Delivery!Drain))

(* Reading the journal back gives the state in memory (ActionJournal).      *)
ReplayReproduces == Journal!ReplayReproduces

(* The journal's numbering survives (ActionJournal).                        *)
CursorSurvives == Journal!CursorSurvives

(* No path with an operation pending is forgotten (ActionJournal).          *)
NoPathForgotten == Journal!NoPathForgotten

(* A file no rename touched arrives as the user left it (JournalDrain).     *)
UnmovedDelivered == Delivery!UnmovedDelivered

(* Only what was applied is acknowledged (JournalDrain).                    *)
AckedWereApplied == Delivery!AckedWereApplied

(* The drain empties the journal for good (JournalDrain).                   *)
EventuallyDrained == Delivery!EventuallyDrained
====
