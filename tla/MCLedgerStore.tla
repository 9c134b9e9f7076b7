---------------------------- MODULE MCLedgerStore ----------------------------
(* Instance: two threads of one engine.                                    *)
EXTENDS LedgerStore
CONSTANTS t1, t2
TwoThreads == {t1, t2}
=============================================================================
