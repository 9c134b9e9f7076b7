# ByteHive: a TLA+ verification project

ByteHive is a self-hosted platform: a small core (HTTP, users, message bus, app
registry, trash, logging) that runs apps. Its largest app, FileSync, keeps a
directory tree in step between a server and any number of clients; the File
Browser app gives a web interface to the same tree. This project models what
decides whether a user's file survives (who wins when edits and deletes cross,
what is remembered across crashes, what is delivered over a connection that
breaks, whether all replicas end up equal) and the concurrent parts of the core
around it.

Everything is translated from the Rust code under `src/`; `PROJECT.json` maps each
definition to the lines it models and lists the runs, mutants, findings, hazards
and theorems. Unless another crate is named, file names below are in
`src/crates/filesync/src/`.

## 1. Inventory

| Component | State | Operations | Interacts with | Correct when |
|---|---|---|---|---|
| Deletion ledger (`ledger.rs`) | per path the newest tombstone and the newest live action | record, record_alive, remove, merge_remote, prune, covering_tombstone | engine (admission of writes), sessions (LedgerExchange) | the newest of delete and write wins in any order of arrival; two replicas that exchanged ledgers agree |
| Ledger persistence (`flush_ledger`, `save_atomic`) | dirty flag, file, `.tmp` file | mark, flush, save, load | every handler before it acknowledges | the file is always one whole ledger; nothing is stranded in memory |
| Action journal (`action_journal.rs`) | pending user actions, two indices, ack cursor, the file | upsert, delete, rename, ack, compaction, replay | watcher capture, drain | replay after a crash gives what was pending; numbers are never reused |
| Drain (`drain_action_journal`, `recv_action_drain`) | progress of a pass, last ack, failure flag | decide, send, batch end, ack | journal, both ledgers, connection | nothing is acknowledged that was not applied; everything arrives |
| Engine (`sync_engine.rs`) | disk, manifest, suppressed paths, ledger | apply_bundle, apply_deletes, apply_rename, schedule_unsuppress | one thread per peer, watcher, trash | newest action wins, manifest follows disk, suppression ends |
| Large files | assemblies in progress, staging file | begin, chunk, finish, commit, clear | engine, retransmission | only whole verified files are put in place and reported |
| Session (`client.rs`, `server.rs`, `app.rs`) | phase of each end, peers, active connections, broadcast queues | connect, pin, hello, approval, exchanges, live loops, stop, reconnect | known clients, transport, everything above | the ends stay in step; an approved client is live in the end and listed |
| Replication (the same files) | tree, manifest, ledger and journal of each node | drain, ledger and manifest exchange, initial sync, broadcast, rescan | everything above | a connected client agrees with the server once nothing is left to do |
| Watcher (`watcher.rs`) | watch descriptor to path, pending moves | read an event, pair moves, watch, unwatch | kernel, users | every directory is watched, and reported, under its own path |
| Local changes (`PendingChanges`, broadcaster) | four sets of pending changes | collect_event, flush, rescan | watcher, engine, peers | a connected peer has the server's files |
| Transport (`transport.rs`) | two bounded queues, a half-read frame, wall-clock marks | send, recv, ping, heartbeat, shutdown | I/O thread per connection | frames stay whole; a dead connection is torn down; data arrives |
| Known clients (`known_hosts.rs`) | pending, allowed, rejected fingerprints | request, approve, reject, save | handshake, HTTP API, config file | only allowed clients sync; what is decided is saved |
| Trash (`core/src/trash.rs`) | index file, trash directories, a mutex per manager | move, restore, purge, expire, empty, clear_ledger_covering | engine, file browser, ledger file | nothing is destroyed unasked; the index lists what is there |
| File browser (`filebrowser/src`) | shares, the tree | upload, copy, move, rename, delete, restore, share, access | trash, ledger file, engine | a revoked link is dead; the engine's tombstones survive |
| Message bus (`core/src/bus.rs`) | subscriptions with bounded queues | subscribe, publish, receive | all apps, log | a message is received, queued or counted as dropped |
| Logging (`core/src/logging.rs`) | the active file, rotated files, lost count | write, rotate, clean up | bus | the log keeps its order and its tail |
| App registry (`core/src/registry.rs`) | app slots, shutdown channels | register, start, stop, restart, update_config, route_http | HTTP, apps | the status is the truth; no thread outlives its start |
| Users and sessions (`core/src/users.rs`, `http.rs`) | users, groups, keys, sessions, config file | setup, login, refresh, logout, administration, persist | HTTP, config file | a session has a user; a restart finds what is in memory |
| HTTP, configuration, exclusions, bundler, GUI, stress benchmark, main | see `components` in `PROJECT.json` | | | |

What is hard in this code: engine threads that take a lock for one step at a time
(the verdict is read, the lock released, the file written); crashes between two
writes to a file; a connection lost between applying and acknowledging; a server
that learns late of a connection the client has long replaced; a watcher that
reports the past while it looks at the present; clients that were away while files
were edited and deleted elsewhere; two apps with a lock each over one directory;
two writers of one config file. The `hazards` list gives each place with the
properties that would catch it.

## 2. Modules

| Module | Models | Builds on |
|---|---|---|
| `LedgerOps` | the ledger's data structure and the engine's admission rules, as operators | |
| `DeletionLedger` | the ledgers of several nodes and the snapshots in flight | `LedgerOps` |
| `AtomicFile` | abstract: a file replaced as a whole | |
| `LedgerStore` | dirty flag, flush, save, load, by several threads; implements `AtomicFile` | `AtomicFile` |
| `JournalOps`, `ActionJournal` | the journal's coalescing rules; its file: append, ack, compaction, crash, failing append | |
| `JournalDrain` | capture, drain, server apply and ack | `JournalOps`, `LedgerOps` |
| `EngineApply` | `apply_bundle` and `apply_deletes` step by step | `LedgerOps` |
| `LargeFile` | assembly of a large file step by step | `LedgerOps` |
| `Watcher` | watch descriptors against a tree of directories that moves | |
| `LocalChanges` | `PendingChanges`, the broadcaster, rescans, one peer | `LedgerOps` |
| `Replication` | server, clients, relay, rescans: what happens to a file | `LedgerOps` |
| `Session` | one client's overlapping sessions: who waits for what | |
| `Transport` | a connection's threads, queues, frames and heartbeat | |
| `Trash` | the trash of one root under several managers | |
| `FileBrowser` | the browser's handlers, shares, the ledger file | `Trash` |
| `ConfigFile`, `UserStore` | the splice of the config file; accounts, known clients, their saving | |
| `MessageBus`, `EventLog` | the bus; the logger as one of its subscribers | |
| `AppRegistry` | one app's slot, channels and threads under concurrent administrators | |
| `MC*` | instances for TLC | |
| `DeletionLedgerProofs`, `SessionProofs` | theorems about the module of that name | |
| `PersistenceProofs` | theorems about `LedgerStore`, `ActionJournal` and `JournalDrain` | `MCPersistence` |
| `EngineProofs` | theorems about `EngineApply`, `LargeFile` and `LocalChanges` | `MCEngine` |
| `ReplicationProofs` | theorems about `Replication` | `MCSync` |
| `FileBrowserProofs` | theorems about `Trash` and `FileBrowser` | |
| `ConnectionProofs` | theorems about `Transport` and `AppRegistry` | `MCConnection` |
| `HostProofs` | theorems about `UserStore` with `ConfigFile`, `MessageBus` and `EventLog` | `MCHost` |

The same `LedgerOps` decides in six modules, so the theorems about it speak of the rule
all of them use. `PersistenceProofs`, `EngineProofs`, `ReplicationProofs`,
`ConnectionProofs` and `HostProofs` extend an `MC` module, in which a part is an instance
with a name (`Journal!Spec`, `Delivery!Spec`, `Large!Spec`, `Files!Spec`,
`Registry!Spec`, `Log!Spec`) and the properties of the run are defined; the constants
are arbitrary there as elsewhere. Definitions named `X_Something` with a comment "Mutant:" are deliberate
errors, used only to show that a property notices them.

`MCPersistence`, `MCEngine`, `MCSync`, `MCHost` and `MCConnection` each check several
modules of one layer side by side: a variable `part` (or `layer`) chosen in the
initial state says which module a behaviour belongs to, and the others stand still.
The modules share no state there, so such an instance has the sum of their states,
not the product, and checks exactly what separate instances would. The
compositions in which components do interact are `JournalDrain` (journal, ledger,
connection, server), `Replication` (journal, ledger, manifests, relay),
`FileBrowser` (trash, ledger file, engine), `UserStore` (accounts and known clients
in one file) and `EventLog` (bus and log).

**DeletionLedger.** `ledger[n]` is a node's `DeletionLedger`: `entries` holds the
stamp of a tombstone (who deleted, and what, decides nothing in the ledger),
`alive` the record of the newest live action. `wire` holds `LedgerExchange`
messages; a snapshot may be merged long after it was taken. `seen` is history: the
newest stamps a node has heard of and not forgotten by a prune or a clear.

**LedgerStore.** The content of the ledger is the set of changes made. `fs::write`
is an open that truncates, a write through the handle, and a rename that moves the
inode together with all handles open on it. Saves hold the read lock, so two may
run at once on the same `.tmp` name. `AtomicFile` is what the code promises: the
refinement maps its `durable` to what `load` would read now.

**ActionJournal.** A line is an entry, an ack or damage; `tail` says the file ends in
half a line. A crash happens inside any append: a prefix of the lines is there, the
next one perhaps torn. Appends and compactions may fail without a crash, and `open` may
find a file it cannot read, which it takes for an empty journal (`faults` counts both).

**JournalDrain.** A tree maps files to version numbers. The user acts, the watcher's
queue holds events, `Capture` journals them with the time of receipt, the drain
decides each entry against the disk and the ledger, sends it, ends the batch and
waits. With `Lag` the drain runs while events wait to be captured. A lost connection
leaves, with `Linger`, the frames its handler has received in `old`, and `LateApply` lets
that handler go on with them after the client is back. `owed` (sent and not applied) and
`moved` (touched by a rename, below a directory taken away as one, or written by a late
handler) are history.

**EngineApply, LargeFile.** One path, threads that hold a lock for one step. The
content of a file is the stamp of its write; the content of a chunk is the peer it
came from, so hash equality is equality of all chunks. With `DiskFails` a bundle's write,
or a later file of the bundle, returns early (`WriteFails`, `LaterFails`); `BeginFails` is a
`LargeFileStart` that fails before there is an assembly.

**Watcher.** A directory is an inode with a path. The kernel queues an event for
every watch concerned (for a move MOVED_FROM, MOVED_TO, MOVE_SELF, in that order)
and a watch follows its inode; the thread reads the queue later and walks the tree
as it is by then. The kernel is external; the handlers are the code's. `moved` (renamed
under its own watch), `left` (moved to where no watch is) and `raced` (moved before the
thread had caught up) are history, and so is, in an event, where its directory was.

**LocalChanges.** Users write, unlink and move files while the broadcaster collects
events, scans and flushes in its three steps (renames, files, deletes). A change may
be missed by the watcher; `ScanElsewhere` is the scan of a new session or of
`POST /rescan`, which replaces the manifest and tells nobody.

**Replication.** One path, versions, mtimes and stamps from one clock. What a client
sends is applied by the server in the same step (delivery is `JournalDrain`'s
subject); what the server sends waits in a queue, and a full queue drops. `Missed` says
of a client that it has a file although its own ledger has the tombstone. `Overlap`
lets users, connections and rescans act while others' changes are still under way.
`hush[n]` holds the kinds of events the engine of n suppresses after its own writes and
deletes. A user's change, or a difference a client's rescan finds, is then either dropped
(`Dropped`, noted in the history variable `lapsed`) or seen because the timer has run out
(`Seen`, which stands for the timer). `relic` counts the handlers of lost connections that
still run; `LateHandler` lets one enter or remove the client's id among the peers, and
`unlisted` has the clients whose newer entry that took out.

**Session.** A slot is a connection; `cpc` and `spc[n]` are the phases of the client
and of the server's thread for connection n, and every message of the protocol is
one in `c2s` or `s2c`, without its data. `Cut` breaks a connection without telling
either end. Each start of the app makes a new `Server` with its own peer map
(`epoch`); old handler threads keep theirs. Connecting is two steps, TCP (`Connect`) and
TLS (`Handshake`, `HandshakeFails`): no timeout covers the second.

**Transport.** At each end an I/O thread, a sender and a receiver. A frame is a header
and a body, in pieces that the socket takes and gives one by one; a read may time
out between any two. Pings are answered by the I/O thread; the heartbeat is both
session threads'.

**Trash, FileBrowser.** A file or a directory moved as one is an item with a number.
`data[i]` is `trash/<i>/`, `index` the index file. A manager is an app's
`TrashManager`, whose mutex excludes only that app's threads. `mem` and `file` are
the engine's tombstones in memory and on disk; the browser edits only the file, in a
read (`Finish`, what it will write is `edit[t]`) and a write (`WriteBack`). `Inner[p]` are
paths below a directory that have tombstones of their own. `move_to_trash` looks
(`CheckExists`), moves (`MoveData`) or fails to (`MoveFails`), and then deletes for good
(`HardDelete`). `wiped` (taken by `hard_delete`), `clobbered` (replaced by a restore),
`gone` (discarded on request), `lifted` and `crossed` (tombstones cleared, and saved during
an edit) are history.

**UserStore, ConfigFile.** The config file is a sequence of lines: headers, text and
comments, each of one of the two writers or of the operator (`Title`). Each writer replaces its own sections and keeps the other lines. `persist`
takes the file's lock, reads the lists one after another, then the file, then writes.

**MessageBus, EventLog.** `publish` draws an id before it takes the read lock, so two
publishers may offer in either order. A log record counts for one byte; `torn` are the
records of which a failing write left a part, `crossed` notes that cleanup and a rotation
overlapped.

**AppRegistry.** `start_app` reads the slot, releases the lock, starts the app and
writes the slot afterwards; `stop_app` works under the write lock. Every start has a
channel of capacity one whose message reaches one listener; dropping the sender
ends the others that `wire_subscriptions` started (`Subscriber`), not the collectors the
file browser starts itself.

## 3. Runs

| Run | Shows |
|---|---|
| `ledger_exchange` | the ledgers of two replicas hold the newest verdict heard of; exchanges agree; vetoes follow the last writer; live records only rise |
| `persistence_delivery` | `LedgerStore` with two threads, failing saves and crashes implements `AtomicFile` and strands nothing; the journal's replay, cursor and pending paths survive crashes and compaction; acks only cover applied actions, the journal empties, and files that no rename and no directory taken away touched arrive |
| `engine` | one thread: the newest action wins and manifest equals disk; large files put in place are whole, verified and not deleted; no path stays suppressed; directories that are made, removed and, with the thread up to date, moved are watched and reported under their paths; a connected peer follows the server's own users |
| `sync` | sessions that are cut, overlap and reconnect stay in step, and an approved client is live and listed in the end; a server and two clients agree after offline edits, deletes, broken sessions, late handlers and rescans, unless a client missed a delete or a change was not captured; the newest delete is not undone |
| `trash_browser` | deletes, restores, purges, sweeps and shares of two apps over one root destroy nothing unasked, keep the index exact, keep revoked links dead and the engine's tombstones saved |
| `host` | no session without its user; the config file agrees with both stores; the bus accounts for every message; the log keeps its tail |
| `connection` | frames stay whole and in order; a dead or closed connection is torn down at both ends; bulk data in one direction arrives; the registry's status is the truth and a lost race of starts leaks no thread |
| `store_durable` (violation) | an ack can precede the save of the delete it acknowledges |
| `drain_redeliver` (violation) | a redelivered rename is not idempotent |
| `engine_race` (violation) | two threads: an older delete trashes a newer write |
| `replication_window` (violation) | a change sent while a client is between manifest exchange and peer map never reaches it |
| `watch_rename` (violation) | a renamed directory loses the watch that had been kept for it |

**Bounds.**

- *Ledger:* decisions compare two stamps at a path and its ancestors, so two stamps,
  a file and its directory, and two nodes with one snapshot in flight reach every
  case of the comparison; the theorems remove these bounds. `Ttl` 0 makes some
  records expire while others do not.
- *Store:* two savers, three changes (one more than threads), two faults.
- *Journal:* a directory, a file in it and a file beside it: every relation between two
  paths the coalescing rules ask for. Three numbers with compaction at four lines let
  a compaction happen before and after a crash and a failing append; the invariants
  replay the file in every state, so each state is also what a further crash leaves.
  `MaxFailed` lets one append, compaction or start fail, `MaxLines` bounds the file after
  such a failure.
- *Drain:* two files, one of them in a directory that can be taken away as one, and a
  rename between them; three user actions, one fault of any kind, a watcher that lags and
  a handler that outlives its connection.
- *Engine:* four operations over three stamps; writes may fail. *Large file:* two chunks (one can be
  missing), two peers, three transfers, two stamps (older and newer).
- *Watcher:* two names and three inodes give a directory in a directory and a move
  across; four user operations outlast an unpaired move (checked once with six, and by
  random walks over six names and eleven operations). *Local changes:* two files,
  three user operations, one change missed at a time, two scans.
- *Replication:* two clients, so that what one sends is relayed to another; three user
  actions (edit and delete on one side, an edit on another) and a lost connection, whose
  handler may act late. States after a change was dropped are not explored further
  (`CONSTRAINT Tracked`): the properties claim nothing there, and `lapsed` stays set.
- *Session:* two connections at once, queues of one, one fault (a cut, a gap in the
  clock, a full disk, a client refused by the administrator), one restart of the
  app: enough for a stale handler next to a new session, in one `Server` and across two.
- *Transport:* three frames through queues of two and one and a socket of one piece,
  so that every queue is full at some point; one cut or gap in the clock.
- *Trash and browser:* two paths, one with an item and with a tombstone below it, two
  items to write, two workers of the browser and a thread of the engine, three calls, one
  fault.
- *Accounts:* two concurrent requests, one user beside `admin`, two changes, a login and
  a change of the known clients; a config file with the accounts in the middle and the
  known clients at its end, none (each writer then appends, in either order), and one
  that cannot be parsed. *Bus and log:* two publishers, a logger with a queue of two and a
  subscriber with a queue of one, three messages, two rotated files of one record, one
  cleanup pass, one failing operation. A rotation that drops a file takes a fourth message;
  it is covered by the theorem `TailIsKept`.
- *Registry:* two administrators, two start attempts, two threads per start, one edit.

**Deadlock** is checked in `ledger_exchange` and `store_durable`. Elsewhere users,
faults and operations are bounded and the system rests when they are used up; that
it does not rest too early is what the liveness properties say.

**Fairness.** Users, faults, crashes and administrators' decisions are never fair.
Weak fairness is assumed of threads the code keeps running:

- `JournalDrain`: `run` reconnects in a loop, `send_loop` polls, the handlers read what
  is queued, so some step of the drain is taken while one is possible. `Replication`:
  the same, and the rescan recurs by a timer.
- `EngineApply`, `LargeFile`: a handler that has begun runs to its end, and the
  `unsuppress` threads wake up after their sleep.
- `Session`: the client's loop retries with a back-off that is capped at 300 s, both
  ends look at their heartbeat every 2 s, the server has a thread per connection and
  one to forward broadcasts.
- `Transport`: the I/O, sending and receiving thread of each end are scheduled.
- `AppRegistry`: a request runs to its end, listening threads are scheduled; strong
  fairness of `WriteSlot` because `parking_lot`'s lock is task-fair, so that a waiting
  writer gets in though readers keep coming.

**Conditions in properties.** Some properties carry a condition because the code does
not promise more; each names where it stops, and section 4 what happens beyond it.

- `StoreIsAtomic` until two saves have overlapped (they share the `.tmp` name).
- `ReplayReproduces` until the file is first rewritten; it, `CursorSurvives` and
  `NoPathForgotten` while no append, compaction or read of the file has failed.
- `UnmovedDelivered` for files that no rename has touched, that were in no directory taken
  away as one, and that no handler of a lost connection wrote after the client was back.
- `NewestActionWins`, `ManifestMatchesDisk` with operations one after another, and not from
  a write that failed on the disk to the next write or delete that reaches the file.
- `CommittedIsWhole`, `ReportedIsSettled`, `NeverResurrected` while no two peers are at
  the path at once; `ReportedIsSettled` apart from transfers whose `LargeFileStart` failed.
- `NothingStaysSuppressed`, for large files, when every transfer was committed; otherwise
  except after a bundle that failed when it had suppressed its paths.
- `WatchesAreTrue` while directories are moved only when the thread has caught up, except
  for directories renamed under their own watch, and as to reported paths while none was
  moved to where no watch is.
- `MirrorFollows` while no change was missed since the last rescan; it has five excuses
  (`hasty`, `mixed`, `late`, `unseen`, `outdated`), explained where it is defined.
- `ListedWhileLive` unless two sessions of the client were live at once, or the app
  stopped while a connection was not registered yet; `InStep` apart from
  `RequestChunks`.
- `ReplicasAgree`, `LastDeleteWins`, `EventuallyAgree` without overlapping changes; the
  violation run shows one overlap that does harm. All three hold while every change was
  captured: none fell into the suppression of its path, at a client, at the server or in a
  client's rescan. A client whose entry among the peers a late handler took out is left out
  until it connects again, and the first two leave out a client that missed a delete of
  the server.
- `Reconnects` unless the path dies in a TLS handshake.
- `IndexExact` without faults and while no two managers were inside the index at once;
  `NothingDestroyed` apart from what a restore replaced that came after its check, and from
  what `hard_delete` took after a failed move, newcomers at the path included.
- `TombstonesSurvive` apart from tombstones at or below an entry that was restored or
  purged, and those the engine saved between the read and the write of such an edit, until
  it saves again.
- `ConfigAgrees` unless a save failed.
- `LogKeepsTail`: order and accounting always, where a record of which a failed write left
  a part counts as lost and stands in the file; no gap while no operation failed and no
  cleanup overlapped a rotation.
- `StatusIsTrue` unless a start overlapped another start or a stop.
- `SupersededThreadsEnd` for the threads `wire_subscriptions` starts.
- `TornDown` and `DataArrives` for bulk data in one direction.

## 4. What was found

Five disagreements between the code and what it says of itself are kept as runs
(`findings` in `PROJECT.json`). The following came up as counterexamples while the
conditions above were being found, or while the code was read for the models.

*Ledger and its file.* `covering_tombstone` returns the nearest tombstone that
applies; a newer one further up is not looked at (`ledger.rs:221`). Of two saves at
once, one renames the `.tmp` the other has just truncated (`ledger.rs:125`); a crash
then leaves a truncated ledger, which loads as empty. The other save's rename fails
and sets the flag again, which is why `CleanMeansSaved` holds without the crash. The
stamps of a `LedgerExchange` are taken as they come, unlike those of single actions
(`common.rs:50`).

*Journal and drain.* A rename converted in place keeps its old number, so the
rewritten file replays in another order (`action_journal.rs:467`). A failed append
glues two lines, loses both at replay and lets the next entry reuse the number
(`action_journal.rs:459`). A file that `read_to_string` refuses, as after a tail torn inside
a multi-byte character, is taken for an empty journal (`action_journal.rs:293`): nothing is
backed up, against what line 285 says, and numbering starts at 1 again, in lines appended
to the old file. The handler of a lost connection goes on with what it has received
(`server.rs:162`, `:1080`) while the client is back, and can replace a newer version, already
acknowledged, by an older one. An upsert can be settled as gone before the rename that
moved the file is captured (`client.rs:1444`): the server gets a rename of a file it
never had. The delete of a directory taken away as one is settled, not sent, when a
directory of that name exists again (`client.rs:1501`): the server keeps the files that
were in the first one and are not in the second. Chained renames (`action_journal.rs:183`) and renamed directories
(`action_journal.rs:374`) leave content that is never delivered under its name. A
file that cannot be read when its bundle is built is skipped with a warning
(`bundler.rs:46`).

*Engine and large files.* Suppression is a set, not a count (`sync_engine.rs:1617`):
the first timer ends the second operation's suppression; it is never ended for a
large file that was vetoed, failed its hash or broke off (`sync_engine.rs:1060`), nor for
the files of a bundle whose directory or write fails (`sync_engine.rs:951` to `:991`), which
also skips the flush of the ledger. What a user changes in the two seconds of a suppression
is not captured (`sync_engine.rs:571`, `:577`, `common.rs:121`). Two
transfers of one path share the staging file (`sync_engine.rs:1045`), and
`LargeFileEnd` for an unknown path is answered as committed (`sync_engine.rs:1124`), also
when its `LargeFileStart` had failed, although "false when it failed" is promised
(`server.rs:861`): the client takes the file for delivered.

*Replication.* A refused delete is relayed (`server.rs:1015`) and removes a newer edit
at a client that has no live record of its own. The rescan stamps a difference with
its own time (`client.rs:1243`), so an edit already delivered can outrank a later
delete. Crossing live writers diverge, since live writes are judged against tombstones
only (`sync_engine.rs:898`). An older offline edit can replace a newer one without a
side copy (`sync_engine.rs:870`; the README says "conflicts are saved as side-copies",
`src/crates/filesync/README.md:442`). A broadcast that finds a peer's queue full is
dropped (`server.rs:1520`) and not repeated before the next session. A delete in the
suppression window is lost for good at the server, when its manifest never listed the file;
a client's is undone at the next session, and a client's rescan takes such a change into the
manifest without journaling it (`client.rs:1245`, `:1253`).
`compute_deletes_to_push` ("Tell the peer about deletes it missed while offline.",
`server.rs:448`) passes over what the server's manifest still lists (`server.rs:1488`),
and the manifest still lists a file that the server's own user has just deleted; when
the session then breaks off after it has taken the entry from the manifest
(`server.rs:431`), no rescan finds a difference, and the client keeps the file, with the
tombstone in its ledger, until its next session.

*Session.* A handler that ends removes the client's entry among the peers by its id,
even when a newer session has put it there (`server.rs:774`): that session stays live
and is told nothing; nor is one whose entry is replaced by an old handler that inserts its
own late (`server.rs:727`). The TLS handshake has no timeout (`transport.rs:261`): a client
or a server thread whose path dies in it waits for ever, and a client told to stop in it
runs the session that follows, for the connection is stored for `stop` only afterwards
(`client.rs:275`). A connection between `accept` and `active_conns` survives the
stop of the server. `RequestChunks` is documented for both sides
(`src/crates/filesync/README.md:183`); the client does not serve it.

*Transport.* When both ends send more than queues and socket hold, both I/O threads
stay in `write_all` and neither reads (`transport.rs:155`); `shutdown` is then queued
behind the blocked write although it is described as "Force-close the active
connection" (`client.rs:145`); once both ends are in that write and one is told to shut
down, neither goes away. `heartbeat_maintenance`
queues its `Ping` before it looks at the silence, and the queue may be full
(`transport.rs:401` says it "never blocks on io_loop").

*Watcher.* The children of a directory moved out of the tree keep their watches and
are reported under paths that no longer exist. While events of one move wait, another
can do harm: a path that is used again is rewritten by the older rename, and a rename
into a directory that is not watched yet leaves the entries of the children behind, to be
rewritten by a later rename to a path they never had (`watcher.rs:61`); events are then
reported under the path of another directory, and a directory stays watched under a
wrong path. An unpaired rename half times out after
2000 ms (`watcher.rs:120`); the README says 500 ms
(`src/crates/filesync/README.md:291`).

*Local changes.* In one debounce window: `rm p; mv q p` leaves `p` in the set of
deletes, and peers delete it (`common.rs:147`); `mv a b; rm b` with equal stamps
leaves `b` at the peers; a write followed by a rename drops the upload until a rescan.
A rename collected after a rescan that had already found its result is replayed over
the peers' newer content, and so is a stale delete. A missed change that is undone
before the rescan, or that another scan takes into the manifest first, is never
broadcast. An old file that is moved, unseen, to where a newer one was deleted is
vetoed.

*Trash and file browser.* `restore` looks whether its destination is free, and renames
later (`core/src/trash.rs:195`, `:236`): what was written there in between is
replaced. Two managers inside the index lose an update, and a crash between data and
index leaves data that nobody lists (`core/src/trash.rs:109`). A restore in the browser
edits only the ledger file (`core/src/trash.rs:403`); the running engine's next flush
writes its own copy over the edit, and what the engine saves between the edit's read and
its write (`core/src/trash.rs:408`, `:457`) is lost from the file until then. The edit also
takes out tombstones of children deleted before on their own (`core/src/trash.rs:442`). Of
two deletes of one path the second finds its rename failing and deletes for good whatever
is at the path by then (`core/src/trash.rs:110`, `:137`, `:153`).

*Core.* Two first setups at once leave two administrators of the same name
(`core/src/users.rs:225`). `UserStore::gc` and `MessageBus::gc` are called by nobody.
The stop signal of an app reaches one of its listening threads
(`core/src/registry.rs:193`), where the architecture document has "Worker threads
monitor this receiver and exit cleanly" (`src/docs/ARCHITECTURE.md:657`); the others
end when the slot gets another sender, but for the two collectors of the file browser,
which leave only on a message and spin on a channel whose sender is gone
(`filebrowser/src/app.rs:104`, `:125`). Starts that overlap a start or a stop can leave
a wrong status (`core/src/registry.rs:201`). The log's cleanup removes files by name,
so that a rotation in between makes it remove a newer one, and a rotation that failed
and is tried again drops one file more (`core/src/logging.rs:146`). The record after one
that was written in part goes on the same line (`core/src/logging.rs:212`).

## 5. What is proved

Every theorem holds for every value of the constants that satisfies the assumptions
named below: any number of threads, connections, paths, frames, stamps, and any bound.

| Module | Theorem | States |
|---|---|---|
| `DeletionLedgerProofs` | `TypeCorrect` | `TypeOK` |
| | `TombstonesAreLive` | `SupersededNeverStored`, the invariant `ledger.rs:57` documents |
| | `LastWriterWins` | `VerdictIsNewest` |
| | `ExchangeConverges` | `ExchangeAgrees` |
| | `VetoesAreNewer` | `VetoIsLastWriter` |
| | `LiveRecordsRise` | `AliveNeverRegresses`, an action property |
| `PersistenceProofs` | `TypeCorrect` | `TypeOK` of `LedgerStore` |
| | `NothingStranded` | `CleanMeansSaved` |
| | `SavesAreAtomic` | `StoreIsAtomic`: the store implements `AtomicFile` until two saves overlap |
| | `AcksAreEarned` | `AckedWereApplied` of `JournalDrain`, an action property |
| | `UnmovedArrive` | `UnmovedDelivered` |
| | `ReplayIsExact` | `ReplayReproduces` of `ActionJournal` |
| | `CursorIsKept` | `CursorSurvives` |
| | `PathsAreKept` | `NoPathForgotten` |
| `EngineProofs` | `TypeCorrect` | `TypeOK` of `EngineApply` |
| | `NewestWinsSerially` | `NewestActionWins`, for operations on a path that do not overlap |
| | `ManifestFollowsSerially` | `ManifestMatchesDisk`, likewise |
| | `CommitsAreWhole` | `CommittedIsWhole` of `LargeFile` |
| | `ReportsAreTrue` | `ReportedIsSettled` |
| | `DeletedStaysDeleted` | `NeverResurrected` |
| | `PeerMirrors` | `MirrorFollows` |
| `ReplicationProofs` | `ConnectedClientsAgree` | `ReplicasAgree`, when changes do not overlap, with late handlers and suppressed events |
| | `NewestDeleteStands` | `LastDeleteWins`, likewise |
| `SessionProofs` | `LiveMeansListed` | `ListedWhileLive` |
| | `EndsStayInStep` | `InStep` |
| `ConnectionProofs` | `FramesStayIntact` | `FramesIntact` of `Transport` |
| | `StatusStaysTrue` | `StatusIsTrue` of `AppRegistry` |
| `FileBrowserProofs` | `TypeCorrect` | `TypeOK` |
| | `NothingLost` | `NothingDestroyed`, with all its failing moves and deletes |
| | `IndexStaysExact` | `IndexExact` |
| | `RevokedForGood` | `RevokedStaysRevoked` |
| | `TombstonesKept` | `TombstonesSurvive` |
| `HostProofs` | `RemovedMeansLoggedOut` | `SessionsHaveUsers` of `UserStore` |
| | `ConfigIsSaved` | `ConfigAgrees` |
| | `MessagesAreAccounted` | `Accounted` of `MessageBus` with the logger (`EventLog`) |
| | `TailIsKept` | `LogKeepsTail` of `EventLog` |

**Assumptions.** The walk of a path is a sequence of paths that begins with the path
itself (`PathAssumption`); stamps and the TTL are natural numbers (`StampAssumption`).
`WireAssumption`, `StoreAssumption`, `EngineAssumption` say that bounds are natural
numbers; `TrashAssumption` that besides each thread belongs to one manager and the items
on disk at first are numbered without a gap; `BrowserAssumption` that the managers are
the two apps and every user has a role; `SessionAssumption` that 0, the name for no
connection, is not one; `LoggerAssumption` that the logger subscribes.
`TransferAssumption` says that a large file has a chunk and stamps are numbers,
`TouchedAssumption` that paths are sequences of names, `TreeAssumption` that what is above
a path is a path, that no file is above another and that the files are finitely many,
`ClientAssumption` that the server
is no client, `DepthAssumption` that a peer's queue holds two messages
(`CLIENT_BROADCAST_DEPTH` is far larger), `LimitAssumption` that the limits of log and queues are natural numbers
(a log that keeps no rotated file included), `FileAssumption` that the config files
considered have a key of a section under its header and nowhere else;
`WorkerAssumption` that the thread of the sync server is no HTTP worker. TLC
evaluates them all in the passing runs.
`MCSync` instantiates `Replication` without `Overlap`, so that its two theorems are about
changes that do not overlap; the run `replication_window` has a counterexample otherwise.
`Serial`, in `EngineProofs`, says that no two operations are under way on the path.
With one thread it always holds; without it the run `engine_race` has a counterexample.

**The inductive invariants.** None of the properties is inductive as it stands. What had
to be added is what the code relies on without saying so.

- *Ledger* (`LInv`). A merge is only sound when the snapshot is, so the invariant speaks
  of every ledger *and every snapshot in flight*: each is a function of the stamps heard
  of (`Verdict`), the live record the newest live stamp, the tombstone the newest delete,
  present only when newer. Each operation has a lemma that it keeps this relation
  (`GoodLive`, `GoodDelete`, `GoodAdmit`, `GoodPrune`, `GoodClear`, `GoodMerge`): for
  pruning, that dropping both records by one threshold leaves no superseded tombstone;
  for merging, that the maximum of two verdicts is the verdict of the maxima
  (`MergePointwise`), from which agreement after an exchange also follows. The vetoes
  rest on a lemma about the walk (`CoveringApplies`) and the naturals being well founded.
- *Store* (`SInv`). `SaveIsComing`: either the flag is set, the file holds the ledger,
  or some thread is at a step from which it will write or save again; `TmpIsComing` says
  the same of the temporary file a thread is about to rename, which another thread may
  have truncated. It is why overlapping saves strand nothing: the loser's rename fails
  and sets the flag. `OneSaver`, while no saves have overlapped, gives the refinement:
  only a rename changes what `load` would read, and it makes it the whole ledger.
- *Delivery* (`DInv`). What may be acknowledged is a matter of numbers. A pass goes up and
  passes over no entry of its snapshot (`GoesUp`), so whatever the journal still has below
  `upto` and the server has not applied is among the frames under way, or the server knows
  that the chunk failed (`Covered`); the end of a chunk is its last frame (`Phases`), so
  when it is read nothing is under way. `last_acked` never runs ahead of the pass, and an
  entry captured meanwhile, also one converted by the coalescing rules, has an old number
  or one beyond the pass: lemma by lemma, the operations of the journal give new numbers
  to new entries only (`Grows`). An end of a chunk must not count as a frame that carries
  its number: with it the invariant holds in every run and is not inductive.
- *Delivery, file by file* (`UInv`, on top of `DInv`). For a file that no rename and no
  directory taken away as one has touched, every event, entry, wire and frame is about the
  file itself or about nothing at or above it (`Apart`), so that the rest of the traffic
  cannot reach it. The journal has at most one entry for it, found by the index (`Indexed`);
  the last event queued, or that entry when none is, says whether the file exists
  (`EventsAt`, `JournalAt`). What the pass has in hand of the file is that entry, or was
  captured before it and then has an older stamp and a number the pass has reached
  (`FlightAt`, `Outdates`). Neither ledger has a tombstone above the file, nor one newer
  than the write it waits for, nor a live record as new as the delete (`LedgersAt`), so no
  redelivery is vetoed. From these: the server has the file as it is on disk when nothing is
  pending for it, or when the pass has dealt with what is (`ServedAt`).
- *Journal* (`JInv`). While no append failed the file is whole, and replaying it gives a
  state that matches the one in memory (`Matches`): the same numbering and ack cursor, and
  for everything pending an entry as new that speaks of the same path (`CoveredIn`).
  Until the first rewrite the two are equal. A compaction writes the entries in sequence
  order, so the lemma behind it says that applying them one by one loses no path although
  the coalescing rules apply again to entries that had been converted. Replay is a
  function over the lines read; what it computes is proved by induction over the number
  of lines, as the least number of lines for which it would fail (`EveryNumber`).
- *Replication* (`RInv`). One client at a time acts (`Turns`), which is what no overlap
  means. The server's ledger knows all that any client's knows (`Upto`), and a connected
  client, once it has applied what is in its queue, has the same ledger and the same
  content (`LedgerAt`, `AgreeAt`); in the initial sync it is the two snapshots of the
  manifests, taken before, that say what the other side will still send (`SyncDone`). When the
  last action is a delete, the server's tombstone or some journal's entry is newer than
  every live record (`DeleteOK`). The client that keeps a deleted file is the one place
  where the argument fails; its exclusion (`Missed`) was found by the attempt to prove it.
  All of it is kept only while every change is captured, so the invariant is `Captured`:
  `~lapsed => RInv`. What a queue will bring is promised to clients that are listed; of an
  unlisted one only that its ledger is bounded by the server's is left, which is enough
  when it connects again.
- *Engine* (`EInv`). Between operations the two records of the path *are* the newest
  write and the newest delete (`Settled`) and the disk follows them (`DiskFollows`);
  `During` says for every step of an operation how far these lag behind. A write is
  recorded before it is on disk and a delete after, so the two halves differ.
- *Large files* (`TransferInv`). While no two peers were at the path: the assembly
  belongs to the one thread there and waits for nobody else (`AssemblyIsOwn`); from the
  second question to the ledger no tombstone can come in between, and what is renamed
  was verified (`CommitIsGuarded`); what is in place is whole and has no tombstone.
- *Local changes* (`LocalInv`). While there is no excuse: a file whose events were all seen
  and collected is at the peer as on the server's disk once what is pending for it has been
  sent (`Follows`); of a file with events still queued the last one says what became of it
  (`EventsTrue`). A queued or pending rename is of files the peer has, that nothing else is
  under way for and that no other rename touches (`RenamesAhead`, `RenamesApart`), so that
  the renames of a flush commute with one another and with the rest; what they do together
  is shown by induction over their number (`RenamesEffect`). The peer knows no tombstone that
  the server does not know or has not outlived (`StampsOf`), so a file is vetoed at the peer
  only where the server's own ledger would veto it, which is the excuse `outdated`; and a
  delete to come is newer than the live record it meets, because the clock goes on between
  two flushes.
- *Peers* (`LInv` of `SessionProofs`). A thread past the handshake is in `active_conns`
  (`Registered`), so that a stop closes it (`OfThisServer`); one session is in the live
  loop and the entry among the peers is its own (`OneLive`, `EntryIsOwn`). That `Leave`
  removes an entry by the client's id is harmless exactly while the entry is its own.
- *Protocol* (`QInv`). `ForThread` and `ForClient` list, by the phase of an end, what
  can be under way to it; `Both` ties the two phases and the two directions of one
  connection together, so that each receive finds only what its phase knows. The only
  place where an end is ahead is the initial sync: a client may be live, its batches
  behind its `Complete`, while the server still receives files (`FullSync`).
- *Frames* (`WInv`). The pieces in the reader's buffer and in the socket are pairs of
  halves in order (`WireShape`), and there are two numbers a and b such that the data
  frames delivered, those on the wire up to a, the one in the writer's hand up to b and
  those queued up to the last one sent follow each other without a gap (`Flow`).
- *Registry* (`RegInv`). While no start overlapped: one request is inside a start, the
  slot does not say running meanwhile, and the request knows whether the app came up.
- *Trash* (`TType`, `Fresh`, `Kept`, `IndexInv`). Ids beyond the counter have no data; an
  item is in the tree, in the trash or gone for a reason; an entry's data is listed in the
  index, or its thread is on the way to list it (`ToCome`), or to remove it (`Removing`),
  and what such a thread has read of the index is what it will write back plus or minus
  its entry (`SnapIsNext`), because it holds the lock of its manager (`LockHeld`).
  For the ledger file: what an edit is about to write lacks no tombstone but the lifted
  ones and those saved since it read, which are in `crossed` (`EditsKeep`).
  Ledger and shares need the types of the requests only; the properties are invariants of
  pairs of variables that every handler keeps.
- *Accounts* (`UInv`). A login that has verified the password still holds the read lock of
  the users, so that its user cannot be removed before the session is inserted
  (`LoginHolds`); the login of the first setup is that of the user it created.
- *Config file* (`CInv`). Who holds the lock of the file has it as it is (`Locked`); each
  list of accounts is in the file, in the hands of a request that is about to write it,
  or changed by a request that has still to read it (`UsersSaved`, `GroupsSaved`,
  `KeysSaved`, `ClientsSaved`). That a splice replaces one section and leaves the other
  writer's, and the operator's lines, as they were (`SpliceFacts`) is shown by scanning
  prefix by prefix.
- *Log* (`LInv` of `HostProofs`). During a rotation the files are considered under the names
  they will have (`Shifted`); a cleanup's list of doomed files is closed towards the older
  ones; rotated files are full. Hence the text of all files, oldest first, is a tail of what
  was written (`NoGap`), with a rotation or a cleanup at any step.
- *Bus* (`BInv`). An id is drawn before the list of subscribers is read: what a publisher
  is going to offer is newer than all it has offered, for each subscriber it has still to
  visit (`IdsRise`); hence the queues are in turn for each publisher (`InTurn`), although
  not across publishers. `Counted` is kept by the three outcomes of `try_send`.

Each was checked by TLC as an invariant before it was proved.

**Only model-checked.**

- Liveness (`Reconnects`, `SupersededThreadsEnd`, `TornDown`, `DataArrives`,
  `EventuallyDrained`, `EventuallyAgree`, `NothingStaysSuppressed`): fairness is outside
  the prover's reach.
- `WatchesAreTrue`: the invariant it needs compares every queued event with the tree it
  was made from. The attempt to state it showed that the property had been too strong
  beyond the bounds of its run, and gave it the condition it has now.
- What a RECURSIVE operator computes; none is used in a module with theorems. Folds over
  sequences are written as recursive functions there and reasoned about by the least
  counterexample.

## 6. Not modelled, and why

- TLS, certificates, compression and the encoding of messages; HTTP parsing, routing and
  embedded assets; listings, downloads, archives and previews of the browser; the GUI;
  the stress benchmark: I/O, presentation or test tools. Exclusion patterns are a pure
  match on strings.
- The manifest's hash cache (size and mtime) and the cached manifest on disk; skewed
  clocks; large files inside `Replication`; directories in `LocalChanges`; an overflow of
  the inotify queue; a read error in the bundler.
- A crash inside the write of the config file, which is not atomic; the copy with which
  the trash falls back across devices; a sweep of the trash over a restart.
- `has_newer_than_prefix`, which only its tests call, and the two `gc` nobody calls.

## 7. Plan

Done: the ledger and its persistence with the refinement of an atomic file, the journal,
the drain, the engine, large files, watcher and local changes, session, transport and
relay, trash and file browser, accounts and config file, bus and log, registry; the
theorems of section 5. Next, a proof: `WatchesAreTrue` of `Watcher`, from an invariant about
the events still queued for a directory.
