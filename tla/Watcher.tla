------------------------------- MODULE Watcher -------------------------------
(***************************************************************************)
(* The inotify watcher (filesync/src/watcher.rs): which directory each     *)
(* watch descriptor stands for, while users create, move and remove        *)
(* directories and the thread reads the events of the past.                *)
(*                                                                         *)
(* A directory is an inode; its path is a sequence of names below the      *)
(* root, or begins with Out once it is moved away.  The kernel is external *)
(* code: it queues an event for the watches of the directories concerned   *)
(* (of a move: MOVED_FROM, MOVED_TO, then MOVE_SELF), a watch follows its  *)
(* inode, and a watch that is made again has a new descriptor.             *)
(***************************************************************************)
EXTENDS Integers, Sequences, SequencesExt

CONSTANTS
    Name,     \* names of directories
    MaxInode, \* bound: directories ever made
    MaxOp     \* bound: what users do

Root == 0
Out == "out"

VARIABLES
    fs,     \* fs[i]: the path of directory i
    watch,  \* watch[i]: its watch descriptor, if it is in the domain
    events, \* the kernel's queue
    wd_map, \* wd_map[w]: the path the thread has for w
    pending_moves, \* pending_moves[c]: the MOVED_FROM with cookie c
    wds, ops,
    moved,  \* history: directories renamed under their own watch
    left,   \* history: a directory was moved to where no watch is
    raced,  \* history: a directory was moved before the thread had caught up
    wrong   \* history: an event was reported for where its directory was not

vars == <<fs, watch, events, wd_map, pending_moves, wds, ops, moved, left, raced, wrong>>

Empty == [x \in {} |-> <<>>]
Without(f, S) == [x \in DOMAIN f \ S |-> f[x]]

(* start_watcher: the root has no directories yet.                          *)
Init ==
    /\ fs = [i \in {Root} |-> <<>>]
    /\ watch = [i \in {Root} |-> 1] /\ wd_map = [w \in {1} |-> <<>>] /\ wds = 1
    /\ events = <<>> /\ pending_moves = Empty
    /\ ops = 0 /\ moved = {} /\ left = FALSE /\ raced = FALSE /\ wrong = FALSE

-----------------------------------------------------------------------------
(* Users and the kernel.                                                    *)

Inside(i) == ~IsPrefix(<<Out>>, fs[i])
Parent(i) == CHOOSE j \in DOMAIN fs : fs[j] = Front(fs[i])
Taken(p) == \E i \in DOMAIN fs : fs[i] = p

(* What the watch of directory i, if there is one, sees; of and dir are     *)
(* history: the directory, and where it was.                                *)
Sees(i, mask, name, cookie) ==
    IF i \in DOMAIN watch
    THEN <<[wd |-> watch[i], mask |-> mask, name |-> name, cookie |-> cookie, of |-> i, dir |-> fs[i]]>>
    ELSE <<>>

Op == ops < MaxOp /\ ops' = ops + 1
ThreadSame == UNCHANGED <<wd_map, pending_moves, wds, wrong>>

Mkdir(j, n) ==
    LET i == CHOOSE k \in 1..MaxInode : k \notin DOMAIN fs
    IN /\ Op /\ Inside(j) /\ Len(fs[j]) < 2 /\ ~Taken(Append(fs[j], n))
       /\ \E k \in 1..MaxInode : k \notin DOMAIN fs
       /\ fs' = [x \in DOMAIN fs \cup {i} |-> IF x = i THEN Append(fs[j], n) ELSE fs[x]]
       /\ events' = events \o Sees(j, "CREATE", n, 0)
       /\ UNCHANGED <<watch, moved, left, raced>> /\ ThreadSame

(* A file is written in directory i, wherever that is now.                  *)
CloseWrite(i) ==
    /\ Op
    /\ events' = events \o Sees(i, "CLOSE_WRITE", "file", 0)
    /\ UNCHANGED <<fs, watch, moved, left, raced>> /\ ThreadSame

Below(i) == {k \in DOMAIN fs : IsPrefix(fs[i], fs[k])}
Relocate(i, p) == [k \in DOMAIN fs |->
    IF k \in Below(i) THEN p \o SubSeq(fs[k], Len(fs[i]) + 1, Len(fs[k])) ELSE fs[k]]

Quiet == events = <<>> /\ pending_moves = Empty
Moves(i, p) == fs' = Relocate(i, p) /\ raced' = (raced \/ ~Quiet) /\ UNCHANGED watch

Rmdir(i) ==
    /\ Op /\ i # Root /\ Inside(i) /\ Below(i) = {i}
    /\ fs' = Without(fs, {i}) /\ watch' = Without(watch, {i}) /\ moved' = moved \ {i}
    /\ events' = events \o Sees(Parent(i), "DELETE", Last(fs[i]), 0)
                        \o Sees(i, "DELETE_SELF", "", 0) \o Sees(i, "IGNORED", "", 0)
    /\ UNCHANGED <<left, raced>> /\ ThreadSame

Rename(i, j, n) ==
    /\ Op /\ i # Root /\ Inside(i) /\ Inside(j) /\ j \notin Below(i)
    /\ Len(fs[j]) < 2 /\ ~Taken(Append(fs[j], n))
    /\ Moves(i, Append(fs[j], n))
    /\ events' = events \o Sees(Parent(i), "MOVED_FROM", Last(fs[i]), ops')
                        \o Sees(j, "MOVED_TO", n, ops') \o Sees(i, "MOVE_SELF", "", 0)
    /\ moved' = IF i \in DOMAIN watch THEN moved \cup {i} ELSE moved
    /\ left' = (left \/ j \notin DOMAIN watch)
    /\ ThreadSame

MoveOut(i) ==
    /\ Op /\ i # Root /\ Inside(i)
    /\ ~Taken(<<Out>>)
    /\ Moves(i, <<Out>>)
    /\ events' = events \o Sees(Parent(i), "MOVED_FROM", Last(fs[i]), ops')
                        \o Sees(i, "MOVE_SELF", "", 0)
    /\ left' = TRUE
    /\ UNCHANGED moved /\ ThreadSame

MoveIn(i, n) ==
    /\ Op /\ fs[i] = <<Out>> /\ ~Taken(<<n>>)
    /\ Moves(i, <<n>>)
    /\ events' = events \o Sees(Root, "MOVED_TO", n, ops') \o Sees(i, "MOVE_SELF", "", 0)
    /\ moved' = IF i \in DOMAIN watch THEN moved \cup {i} ELSE moved
    /\ UNCHANGED left /\ ThreadSame

-----------------------------------------------------------------------------
(* The thread, one event at a time.                                         *)

(* Mutant: only the directory itself is watched. *)
add_watch_recursive_Top(map, path) ==
    LET found == {i \in DOMAIN fs : fs[i] = path}
        wd(i) == IF i \in DOMAIN watch THEN watch[i] ELSE wds + i
    IN  /\ watch' = [i \in DOMAIN watch \cup found |-> wd(i)]
        /\ wd_map' = [w \in DOMAIN map \cup {wd(i) : i \in found} |->
                        IF \E i \in found : wd(i) = w THEN path ELSE map[w]]
        /\ wds' = IF found \subseteq DOMAIN watch THEN wds ELSE wds + MaxInode

(* The directories that are below path now.  The descriptor of one that is  *)
(* watched already stays.                                                   *)
add_watch_recursive(map, path) ==
    LET found == {i \in DOMAIN fs : IsPrefix(path, fs[i])}
        wd(i) == IF i \in DOMAIN watch THEN watch[i] ELSE wds + i
        of(w) == CHOOSE i \in found : wd(i) = w
    IN  /\ watch' = [i \in DOMAIN watch \cup found |-> wd(i)]
        /\ wd_map' = [w \in DOMAIN map \cup {wd(i) : i \in found} |->
                        IF \E i \in found : wd(i) = w THEN fs[of(w)] ELSE map[w]]
        /\ wds' = IF found \subseteq DOMAIN watch THEN wds ELSE wds + MaxInode

(* After it no entry is left at the old path, so that the removal of stale  *)
(* entries which follows it in the code finds none.                         *)
rewrite_wd_map_for_rename(from, to) ==
    [w \in DOMAIN wd_map |->
        IF IsPrefix(from, wd_map[w])
        THEN to \o SubSeq(wd_map[w], Len(from) + 1, Len(wd_map[w])) ELSE wd_map[w]]

UserSame == UNCHANGED <<fs, ops, moved, left, raced>>
NoWatch == UNCHANGED <<watch, wd_map, wds>>

(* Events of a watched directory itself: its entry goes.                    *)
HandleSelf ==
    /\ events # <<>> /\ Head(events).mask \in {"IGNORED", "MOVE_SELF", "DELETE_SELF"}
    /\ LET w == Head(events).wd
       IN /\ wd_map' = Without(wd_map, {w})
          /\ watch' = IF w \in DOMAIN wd_map /\ Head(events).mask # "IGNORED"
                      THEN Without(watch, {i \in DOMAIN watch : watch[i] = w}) ELSE watch
    /\ events' = Tail(events)
    /\ UNCHANGED <<pending_moves, wds, wrong>> /\ UserSame

HandleNamed ==
    /\ events # <<>> /\ Head(events).mask \notin {"IGNORED", "MOVE_SELF", "DELETE_SELF"}
    /\ events' = Tail(events)
    /\ LET e == Head(events)
           rel == Append(wd_map[e.wd], e.name)
       IN IF e.wd \notin DOMAIN wd_map
          THEN NoWatch /\ UNCHANGED <<pending_moves, wrong>>
          ELSE /\ wrong' = (wrong \/ wd_map[e.wd] # e.dir)
               /\ CASE e.mask = "MOVED_FROM" ->
                         /\ pending_moves' = [c \in DOMAIN pending_moves \cup {e.cookie} |->
                                                IF c = e.cookie THEN rel ELSE pending_moves[c]]
                         /\ NoWatch
                    [] e.mask = "MOVED_TO" /\ e.cookie \in DOMAIN pending_moves ->
                         /\ pending_moves' = Without(pending_moves, {e.cookie})
                         /\ add_watch_recursive(rewrite_wd_map_for_rename(pending_moves[e.cookie], rel), rel)
                    [] e.mask = "CREATE" \/ (e.mask = "MOVED_TO" /\ e.cookie \notin DOMAIN pending_moves) ->
                         add_watch_recursive(wd_map, rel) /\ UNCHANGED pending_moves
                    [] e.mask \in {"DELETE", "CLOSE_WRITE"} -> NoWatch /\ UNCHANGED pending_moves
    /\ UserSame

(* A MOVED_FROM is alone for 2 s: the other half is not in the queue.       *)
Orphan(c) ==
    /\ c \in DOMAIN pending_moves
    /\ \A k \in DOMAIN events : events[k].cookie # c
    /\ pending_moves' = Without(pending_moves, {c})
    /\ UNCHANGED <<events, wrong>> /\ NoWatch /\ UserSame

Next ==
    \/ \E i \in DOMAIN fs : CloseWrite(i) \/ Rmdir(i) \/ MoveOut(i)
    \/ \E i \in DOMAIN fs, n \in Name : Mkdir(i, n) \/ MoveIn(i, n)
    \/ \E i, j \in DOMAIN fs, n \in Name : Rename(i, j, n)
    \/ HandleSelf \/ HandleNamed
    \/ \E c \in 1..MaxOp : Orphan(c)

Spec == Init /\ [][Next]_vars

-----------------------------------------------------------------------------
Watched(i) == /\ i \in DOMAIN watch /\ watch[i] \in DOMAIN wd_map
              /\ wd_map[watch[i]] = fs[i]

(* The thread reads of the past and walks the tree of the present.  While   *)
(* directories are moved only when it has caught up, though others are made *)
(* and removed all the time: every event is reported for where its          *)
(* directory was, as long as none is moved to where no watch is; and        *)
(* whenever the thread has caught up every directory in the tree is watched *)
(* under its path, unless it, or one above it, was renamed under its own    *)
(* watch.                                                                   *)
WatchesAreTrue ==
    ~raced =>
      /\ ~left => ~wrong
      /\ Quiet => \A i \in DOMAIN fs : Inside(i) => Watched(i) \/ \E k \in moved : i \in Below(k)

(* README.md:288, "All directories under the sync root are watched          *)
(* recursively", and watcher.rs, of the watch it drops when a directory     *)
(* was moved: "dropping here is safe whichever event arrives first".        *)
AllWatched == Quiet => \A i \in DOMAIN fs : Inside(i) => Watched(i)
=============================================================================
