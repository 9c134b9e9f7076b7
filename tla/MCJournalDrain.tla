---------------------------- MODULE MCJournalDrain ----------------------------
(* Instance: two files of one directory, one of them renamed to the other.  *)
EXTENDS JournalDrain, TLC
CONSTANTS from, onto

TwoFiles == {<<from>>, <<onto>>}
SeedTwo == <<from>> :> 1 @@ <<onto>> :> 0
OneMove == {<<<<from>>, <<onto>>>>}
=============================================================================
