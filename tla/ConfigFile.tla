----------------------------- MODULE ConfigFile -----------------------------
(***************************************************************************)
(* The framework's config file and the splice with which two components    *)
(* each rewrite their own part of it: the user store the [[users]],        *)
(* [[groups]] and [[api_keys]] arrays (core/src/users.rs), the sync server *)
(* the [[filesync_known_clients]] array (filesync/src/known_hosts.rs).     *)
(*                                                                         *)
(* A line is a header of an array or of a table, a key with its value      *)
(* ("text") or a comment ("note"); name says whose it is.  Blank lines are *)
(* layout and left out.                                                    *)
(***************************************************************************)
EXTENDS Integers, Sequences, SequencesExt

CONSTANT Title  \* names of the operator's own arrays and tables

Sections == {"auth", "clients"}
Line == [kind : {"array", "table", "text", "note"}, name : Title \cup Sections]

Header(name) == [kind |-> "array", name |-> name]
Text(name) == [kind |-> "text", name |-> name]
Section(name) == <<Header(name), Text(name)>>

(* Lines go before the fresh section until the old one was met, after it    *)
(* from then on.                                                            *)
Emit(st, lines) ==
    IF st.found THEN [st EXCEPT !.after = @ \o lines]
                ELSE [st EXCEPT !.before = @ \o lines]

(* One line of splice_auth_sections and splice_known_clients, which share   *)
(* their loop: the lines of the own section are dropped, but comments that  *)
(* end it belong to the section that follows.                               *)
Scan(mine, st, line) ==
    CASE line.kind = "array" /\ line.name = mine ->
            [st EXCEPT !.pending = <<>>, !.inside = TRUE, !.found = TRUE]
      [] line.kind \in {"array", "table"} /\ line.name # mine ->
            [Emit(st, Append(st.pending, line)) EXCEPT !.pending = <<>>, !.inside = FALSE]
      [] line.kind \in {"text", "note"} /\ ~st.inside -> Emit(st, <<line>>)
      [] line.kind = "note" /\ st.inside -> [st EXCEPT !.pending = Append(@, line)]
      [] OTHER -> [st EXCEPT !.pending = <<>>]

(* The file with the section mine replaced by fresh.                        *)
Splice(original, mine, fresh) ==
    LET run[i \in 0..Len(original)] ==
          IF i = 0 THEN [before |-> <<>>, after |-> <<>>, pending |-> <<>>, found |-> FALSE, inside |-> FALSE]
                   ELSE Scan(mine, run[i - 1], original[i])
        st == run[Len(original)]
    IN  st.before \o fresh \o st.after

(* What parsing the file finds of a section.                                *)
Has(lines, name) == \E i \in DOMAIN lines : lines[i] = Header(name)

(* The lines of the file that are the operator's own, in their order.       *)
IsOwn(line) == line.kind # "note" /\ line.name \notin Sections

Owned(lines) ==
    LET own[i \in 0..Len(lines)] == IF i = 0 THEN <<>>
                                    ELSE IF IsOwn(lines[i]) THEN Append(own[i - 1], lines[i]) ELSE own[i - 1]
    IN  own[Len(lines)]

(* Line i belongs to the array s: the last header before it is one of its.  *)
Under(lines, i, s) ==
    \E h \in 1..i - 1 : lines[h] = Header(s) /\ \A j \in h + 1..i - 1 : lines[j].kind \in {"text", "note"}

(* A key is named for the section it stands in, and the two sections are    *)
(* arrays.                                                                  *)
WellFormed(lines) ==
    /\ lines \in Seq(Line)
    /\ \A i \in DOMAIN lines, s \in Sections :
          /\ lines[i].kind = "table" => lines[i].name # s
          /\ lines[i].kind = "text" /\ Under(lines, i, s) => lines[i].name = s
=============================================================================
