---------------------------- MODULE MCFileBrowser ----------------------------
(* Instance: two HTTP workers of the browser and one thread of the engine.   *)
EXTENDS FileBrowser, TLC
CONSTANTS b1, b2, e1
(* The workers may be exchanged. *)
Workers == Permutations({b1, b2})
OneEach == [t \in Thread |-> IF t = e1 THEN "engine" ELSE "browser"]
OneStored == [p \in Path |-> IF p = "p" THEN 1 ELSE 0]
OneChild == [p \in Path |-> IF p = "p" THEN {"p/c"} ELSE {}]
TwoUsers == [u \in User |-> IF u = "ann" THEN "user" ELSE "readonly"]
=============================================================================
