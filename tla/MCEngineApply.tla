---------------------------- MODULE MCEngineApply ----------------------------
(* Instance: two threads of one engine.                                     *)
EXTENDS EngineApply
CONSTANTS t1, t2
TwoThreads == {t1, t2}
=============================================================================
