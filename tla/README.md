# OrcaTerm in TLA+

OrcaTerm is a terminal emulator and multiplexer in Rust, a fork of wezterm.
This directory holds TLA+ models of the parts of it whose correctness depends
on the order of things: the multiplexer's windows, tabs and panes and the
registry that brings them in and lets them go; the threads that carry a
program's output to its terminal; the queue that hands work to the main thread
and the results that tasks await; calls to a mux server over connections that
break, the mirror of the server's panes and the cache of their lines; tmux
control mode; panes over ssh; the terminal's screens with their scrollback; the
settings file between its processes; and the data structures these rest on. TLC
checks each model on a small instance, and TLAPS proves the invariants of fifteen
of them, and three refinements, for every instance.

Every path below is relative to the repository.

  1. Inventory: the system's components
  2. The modules
  3. What the runs check
  4. What is proved
  5. Findings
  6. Abstractions, bounds and fairness
  7. What is not modelled, and the plan

How to run things, in this directory:

    tlc -workers 2 -config MCTabs.cfg MCTabs
    tlapm ProtocolProofs.tla


## 1. Inventory

### How the parts fit together

A process has one `Mux` (mux/src/lib.rs), a registry of windows, tabs, panes,
domains and clients. A `Window` lists tabs, a `Tab` is a binary tree of panes,
a `Pane` is a terminal that some `Domain` runs: a local process, an ssh
session, tmux, or a pane of another process's mux. Nearly everything that
changes the mux runs in the **main thread**: the GUI's event handlers and
spawned functions and futures. Other threads read ptys, parse output, talk to
sockets and wait for processes, and reach the main thread only through the
**spawn queue**. Tasks of the main thread interleave at their awaits, so a
task that looks something up, awaits and goes on finds the mux changed.

A GUI may attach to a **mux server**. Its `ClientDomain` mirrors the server's
windows, tabs and panes. A client thread owns the socket; calls go through its
queue and come back through one-shot channels. The server runs one session
loop per connection and answers every request from a task of its own main
thread; it also pushes changed rows of panes without being asked. The client
caches rows and fetches the ones it has not got.

    GUI thread --- key assignments, drags, paint ------> Mux: Window, Tab
       ^  \------- get_lines / get_changed_since ------> LocalPane | ClientPane
       |                                                             |
    SpawnQueue <-- pty reader and parser threads                     | send_pdu
       ^                                                             v
       +---------- replies, pushes ---- client thread <--socket--> session loop
                                                                     |
                                    server's main thread <-- tasks --+

### The components

*Mux windows* (mux/src/window.rs, 337 lines). State: the list of tabs, the
active tab as a position, the last active tab as an id. Operations: insert,
push, move, remove by position and by id, prune dead tabs, set active.
Callers: key assignments and tab drags of the GUI, `Mux::add_tab_to_window`,
`Mux::remove_tab`, `Mux::prune_dead_windows`, focus reconciliation. Hard: a
position must be corrected by every change of the list; a drag or a prune acts
on what it read before. Correct when no assertion fails, a window with tabs
has an active one, and the active tab stays active while it is in the list.

*Pane trees* (mux/src/tab.rs, 2528 lines; bintree, 698). State: a binary tree
with panes at its leaves and split sizes at its nodes, the active pane as a
leaf index, the zoomed pane, the size. Operations: split (with an await for
the new pane), remove panes by a condition, zoom, focus by pane, index or
direction, swap, rotate, resize. Hard: indices are renumbered by every change,
one removal pass changes the tree it is walking, a split inserts into a tree
that changed meanwhile. Correct when the tree keeps every pane that nobody
closed, in one place, and the focus stays on the pane that had it.

*Registry and lifecycle* (mux/src/lib.rs, 1502 lines; activity.rs, client.rs).
State: the maps of windows, tabs, panes and domains, subscribers, clients and
their focus, the identity of the acting client, the count of activities.
Operations: add and remove each, prune, subscribe and notify, move and split
panes, spawn. Hard: pruning while something is being spawned, subscribers
called under a lock, an identity held across awaits. Correct when an object is
registered exactly while it is reachable, and removal is announced once.

*Pane output* (mux/src/lib.rs 122-370; localpane.rs, 1195 lines). A thread
reads the pty into a socket pair, another parses it, holds back what belongs
to a synchronized update, coalesces the rest and applies it to the terminal.
Hard: data held back at the end of the stream, the death of the pane while
output is left, back pressure. Correct when all output is applied, in order.

*Promise and executors* (promise, 357 lines; window/src/spawn.rs, 244 lines,
with one queue per operating system). State: two queues of functions, a wakeup
pipe, promises with results and wakers. Operations: spawn with two priorities
from any thread, run, sleep, poll, wake. Hard: losing a wakeup between two
looks; a full pipe; priorities over two locks. Correct when every function runs
once, in order, and no task waits for a result that is there.

*Mux client, calls* (wezterm-client/src/client.rs, 1392 lines; codec, 1265).
State: the queue of the client thread, serials, promises by serial, the
connection. Operations: call, time out, send, receive, fail, reconnect. Hard:
broken connections with calls in flight, late answers, serials that start
over, both ends blocked in writes. Correct when a request runs at most once and
its caller hears the answer to it or an error.

*Mux server, sessions* (wezterm-mux-server-impl, 1798 lines). State: per
connection a queue of replies and notifications, the client's id, per pane
what was sent last. Operations: decode, run, reply, notify, push, leave. Hard:
tasks that outlive their session, reading a terminal while it is written.

*Remote panes* (wezterm-client/src/pane, 1628 lines). State: a cache of rows,
each up to date, stale, being fetched or both; cursor, sequence number, poll
interval. Operations: apply a push, fetch, apply a reply, paint, poll,
invalidate, predict input. Hard: pushes, replies and paints in every order, a
rate limiter that refuses, images that must be fetched first. Correct when the
screen comes to show what the server has.

*Client domains* (wezterm-client/src/domain.rs, 1008 lines; discovery.rs).
State: maps between local and remote ids of windows, tabs and panes, whether
attached. Operations: attach, detach, resync, spawn, split, move. Hard: a
resync that awaits a listing while the server and the user go on.

*tmux control mode* (mux/src/tmux*.rs, 1805 lines). State: the parser's state
(idle, awaiting a reply, exit), a queue of commands with one outstanding, and
maps from tmux's windows and panes to the mux's. Operations: handle an event,
send the next command, make it up, process its reply, and what the user asks
of panes. Hard: replies carry no name, events and replies are handled by one
thread and commands sent by another, under several locks. Correct when a reply
reaches its command, commands go on being sent, and what tmux has is shown.

*ssh* (wezterm-ssh, about 5500 lines; mux/src/ssh.rs, 1254 lines). One thread
per session polls sockets, channels and a bounded queue of requests; another
one per pane connects, asks the user for host keys and passwords through
one-shot channels, and hands the parts of a pty to wrappers that the pane got
before there was a connection. Hard: every wait of the loop, closing and
resizing while a pane is between dialog and pty, the end of a program against
the output it left behind, lost connections. Correct when output is complete,
the remote size is the last one, and a pane hears of its end.

*Blob leases* (wezterm-blob-leases, 494 lines). State: reference counts of
image data and files on disk. Operations: store, lease, read, drop, by any
thread. Hard: a last drop against a new lease or a reader. Correct when leased
data is there and the rest is not.

*Caches and limiters* (lfucache, 823; frecency, 134; ratelim, 88; rangeset,
422). Pure data structures.

*Settings* (config-ui-core, 2890 lines; config-ui, 3555; config, 9762). One
file, generated, read and watched by the terminal, read, watched and written
by a settings window in a process of its own, and edited by anything else,
without locks. Hard: watchers that let changes settle and drop what comes
meanwhile, a file that is empty between truncation and write. Correct when
the terminal runs on what the file says and the form shows it or says it does not.

*Terminal* (term, 10092; termwiz; vtparse; wezterm-escape-parser;
wezterm-surface; wezterm-cell). State: two screens of lines, the primary one
with scrollback, cursor, margins, saved cursors, and on each line the sequence
number of its last change. Operations: the actions of a program's output, which
the parsers' tables yield, resizes, erasures, and a scrollback size that a reload
may change. Sequential, and hard in what long sequences of legal calls leave
behind: wrap marks, margins, cursors and stable row numbers. Correct when no row
is named that is not there, text is lost to nothing but a scroll or an erasure,
and whoever caches rows hears of every change.

*GUI, windows, fonts* (wezterm-gui, about 38000; window, 22608;
wezterm-font, 10342). Rendering, input, bindings to window systems.

*The rest*: pty, procinfo, filedescriptor and small libraries wrap the
operating system; lua-api-crates and luahelper bind the mux to Lua; wezterm,
env-bootstrap and wezterm-gui-subcommands are command lines; deps, assets, ci,
licenses and test-data are third-party or data.

The hazards of each component, by source line and with the properties that
cover them, are in PROJECT.json.


## 2. The modules

| Module | Models | State | Lines |
|---|---|---|---|
| MuxWindow | mux/src/window.rs and all its callers | window, fresh tabs, prune under way, drag | 326 |
| PaneTree | mux/src/tab.rs, bintree, without geometry | tab, fresh panes, split awaited, removal pass | 481 |
| TabGeometry | the sizes of mux/src/tab.rs | tree of sizes, size, zoom | 346 |
| MuxLifecycle | mux/src/lib.rs, domain.rs, localpane.rs, activity.rs | registry, jobs that spawn, scheduled tasks, strays | 567 |
| OutputStream | what a pane's output shall come to | written and shown, batch, update | 51 |
| PaneOutput | mux/src/lib.rs, the reader and parser threads | pty, both threads, socket, frame | 285 |
| Executor | what the promise crate promises of its executors | two queues, the running function | 63 |
| SpawnQueue | window/src/spawn.rs (Linux), the X11 and Wayland loops | queues, pipe, edge, writers, loop | 239 |
| Awaits | promise/src/lib.rs, `spawn_into_new_thread` | source, result, waker and task of each call | 188 |
| Rpc | what `Client::send_pdu` promises | outcome and number of runs of each call | 59 |
| RpcSession | client thread, session loop, connection | queue, promises, socket, tasks | 354 |
| RenderSync | `compute_changes`, `GetLines`, `RenderableInner` | terminal, push, messages, line cache | 364 |
| ClientDomain | wezterm-client/src/domain.rs and the server's pushes | server, client, maps, lists and replies in flight | 606 |
| TmuxControl | mux/src/tmux.rs, tmux_commands.rs, tmux_pty.rs | tmux, events, queue, state, locks, mirror | 470 |
| SshSession | mux/src/ssh.rs, wezterm-ssh/src/sessioninner.rs | panes, sessions, channels, queue of requests | 574 |
| TerminalScreen | term/src/screen.rs, terminalstate, lines of wezterm-surface | two screens, cursor, margins, scrollback size | 658 |
| SettingsFile | config/src/lib.rs, config-ui/src/main.rs | file, terminal, settings window, watches | 325 |
| BlobLeases | wezterm-blob-leases | counts, files, mutex, the steps of each thread | 213 |
| RangeSet | rangeset/src/lib.rs | ranges and the plain set they stand for | 236 |
| LfuCache | lfucache/src/lib.rs | table, frequency tree, recency list | 193 |
| MuxWindowProofs, ProtocolProofs, ClientProofs | theorems | | 788, 1070, 5132 |
| MuxLifecycleProofs, PaneProofs | theorems | | 2552, 4382 |
| ClientDomainProofs, TerminalProofs, SshSessionProofs | theorems | | 3664, 6213, 3372 |
| MC... | instances for TLC | | |

Three modules are abstract specifications that a detailed one implements:
SpawnQueue implements Executor, RpcSession implements Rpc and PaneOutput
implements OutputStream. Awaits counts on Executor: its fairness (a scheduled
task is polled) is what SpawnQueue is shown to provide. ClientDomain stands
above RpcSession: a call is settled once or fails.

An MC module may extend or instantiate several modules that share no state; the
names of those it extends begin with the component where they would clash
(`OutputInit`, `FileNext`, `blobVars`, `LinesSpec`). Its variable `part` then
names the module a behavior is one of, while the others stay as they were made,
so that their states add up and do not multiply.

**MuxWindow.** The methods of `Window` are operators from windows to windows
with the names of the code (`Insert`, `RemoveByIdx`,
`FixupActiveTabAfterRemoval`, ...). An action is one call into the mux by one
of its callers with everything it does under the lock: `MoveTab` removes,
inserts and activates. Failed assertions and bounds checks set `panicked`. A
prune is several steps, because `prune_dead_windows` collects first and removes
later; a drag keeps the tab and the number of slots it saw when it began.

**PaneTree.** A tree is a function from paths to panes, which makes a split, an
unsplit and a rotation one expression each. Preorder indices are computed from
paths. A split is `BeginSplit`, anything, and `FinishSplit`, `RefuseSplit` or
`SpawnFails`. A pass of `remove_pane_if` is a walk of one step per leaf with
the cursor, the running index and the removed indices of the code, so what
happens to the cursor when the tree under it is unsplit is in the model. Where
sizes decide (no space, the neighbour in a direction) any outcome may happen.
`SwapPanes` is the swap of the pane selector with labels of some time ago and
whatever zoom the tab has by then. `doubled` remembers that a swap happened in a
tab that is zoomed on another pane than the one at its active index
(`ZoomedElsewhere`): it puts the zoomed pane in a second place.

**TabGeometry.** What PaneTree leaves open: a node has the sizes of its two
halves, in cells. `Adjust` is the loop of adjust_x_size and adjust_y_size that
hands out a change cell by cell, down the tree; `SizeApplied` passes the sizes
on from above; `MoveDivider`, splits, removals and zoom are actions.

**MuxLifecycle.** A job spawns a tab or a window, splits a pane or moves one:
it resolves its target, holds an activity, awaits, and adds the pane to what
the mux has become. Processes exit and readers end at any time, users close.
What other threads want done is a sequence of scheduled tasks that the main
thread runs in order. `stray` collects the panes that a tab refused. A pane has
an origin: a program, one that could not be started, or an ssh session that has
to connect first. The latter two override the configured behaviour at their exit
(`ExitBehavior`), so that their errors can be read, and the first pane of a
session has one reader to give (`HasReader`).

**PaneOutput.** The reader, the socket pair with its bounded buffer, the parser
with its frame held back, its deadline and its buffer; text, begin and end of a
synchronized update as items. OutputStream is what a user sees of this: batches
in the order written, cut inside an update only when the next one begins or
nothing can come any more.

**SpawnQueue.** Spawning is two steps, `Push` under the queue's lock and
`Signal`, the write to the pipe, which drops its byte when the pipe is full. The
main thread runs `Pop`, `Return`, `Drain`, two checks for more work and a
`poll` that is edge triggered. Two kinds of kernel are distinguished: those that
report every write to a pipe, and those that report only the first byte.

**Awaits.** Both ways of awaiting something from another thread. A `Future`
checks for a result and stores its waker under one lock; `PendingResult`, the
future of a new thread, checks a channel and then stores its waker.

**RpcSession.** Client thread: `TakeRequest` and `WriteRequest` (which waits
for room in the socket, with nothing read meanwhile), `ReadReply`,
`ReadNotice`, the ways it fails, all through `Leave`, and `Connect`. Server:
`ServerRead` spawns a task, `RunTask` runs it and queues its reply,
`ServerTake` and `ServerWrite` write. The environment: `Call`, `Expire`,
`Notify`, `Break`, `DropClient`. A break leaves any prefix of what was in the
sockets to be read.

**RenderSync.** The content of a row is the sequence number of its last
change. `compute_changes` is three steps (`BeginPush`, `ReadDirty`,
`SendPush`), as the terminal may be written between them. The client's cache
maps rows to the four cases of `LineEntry` or nothing. A push and a reply are
applied by `ApplyPush` and `ApplyLines`, at once or after `AwaitImages`. The
instant that identifies a fetch is a number that no fetch in flight has.

**ClientDomain.** The server's trees of tabs, the client's mux and the three
maps from remote to local ids. Changes on the server queue pushes; a push makes
the client ask for the list of panes; a list or a reply that arrives is
processed by a task that runs later. `SyncTab`, `SyncTabs` and `Synced` are
process_pane_list with its lookups, its insertions and its sweep of what the
list does not name. Its loops over tabs and panes are recursive functions, about
which the theorems can speak.

**TmuxControl.** The parser thread takes batches of events under a lock, looks
at the state, and takes the front of the queue when a reply comes; the main
thread sends the front in three steps (`LockQueue`, `SendFront`, `AwaitReply`),
as the answer may come between the last two; replies are processed as tasks.
tmux is a process that executes commands in order and emits events.

**SshSession.** One process per pane to connect (`Connector`), per waiter and
reader of a pane, and per session its loop: `TickIo`, `DispatchOne`,
`CheckEnd`, `Poll`. A channel has bounded buffers in both directions and the
socket pairs behind them. The server, the network and the user are actions of
the environment.

**TerminalScreen.** The methods of `Line`, `Screen` and `TerminalState` are
operators from values to values with the names of the code; an action is one
batch of output with one action in it, or a resize, an erasure by the user, a
reload. A letter is the number of its printing, so that the properties can ask
where each one went. A line knows whether the current batch has marked it;
`unreported` collects the rows of the last step whose content changed without a
mark.

**SettingsFile.** A content is a set of settings, or absent, or torn. The
terminal generates, loads and watches; the window loads, edits and saves in two
steps; other writers write in place, replace or delete.

**BlobLeases, RangeSet, LfuCache.** The store's calls are several steps where
the mutex is not held. RangeSet carries beside the vector of ranges the set of
integers it is to stand for. LfuCache has the three structures an entry is
linked into as three fields, each changed where the code links and unlinks.


## 3. What the runs check

Every property of a run that passes has a mutant in PROJECT.json: a small
change of one definition, of the kind a bug in that code would be, under which
TLC finds the property violated in the same run. The mutants are the `Mut...`
operators of the modules.

| Run | Instance | States |
|---|---|---|
| tabs | 4 tabs, arguments -5 to 5; 4 panes, up to 3 removed in a pass; 3 panes measured in cells | 170 606 |
| panes | 2 panes, tabs and windows, 2 jobs, 3 exit behaviours, with Close 1 pane that is not a started program; buffers of 2 items, a socket of 1 | 734 381 |
| client | 3 calls, 1 impatient, 2 connections; 3 rows, 1 write; ranges over 0 to 4 | 159 692 |
| protocols | 4 functions, 3 threads, 4 byte pipe; 2 promises, 2 threads; 1 setting, 2 writes | 297 285 |
| client_domain | 2 panes or tabs made on the server, 1 act of the user; 2 threads, 2 blobs; 3 keys | 1 609 964 |
| terminals | 2 events or acts of tmux besides the attachment; terminals of 2x2, 4x1 and 2x3, scrollback 0 and 2, texts of 1 and 5, 4 actions | 660 496 |
| ssh | 2 panes, queue of 2, buffers of 1, 4 events | 377 625 |

The five other runs each show a disagreement between the code and what it says
of itself; see section 5.

**tabs.** `NeverPanics`: no order of insertions, moves, stale drags, closes and
prunes reaches an assertion or the bounds checks of `Vec`. `ActiveNamesATab`: a
window with tabs has an active tab. `ActiveTabFollowsItsTab`: an active tab that
survives a step that changes the list is still active. `TreeIsSound`: the tree
of panes is a proper binary tree that holds no pane twice, until a swap in a tab
that is zoomed on another pane than the one at its active index (section 5), and
a zoomed pane is in it, also after such a swap. `StaysActive`: a tab with an
active pane keeps one as long as it has panes, and the pane that was active
stays so through a removal pass that takes another. `TargetsLeave`: a pass
removes what it found to remove, and nothing else leaves the tree, that swap
excepted. `SplitLandsBesideItsTarget`: the pane of a split that was awaited
lands where it was asked for. `StaysInOrder`: the sizes of nested splits go on
adding up to those around them, and every pane has been told the size of its
place. `CoversTheTab`: panes and dividers cover every cell of the tab once.

**panes.** `OneHomeEach`: no tab is in two windows and no pane in two tabs, and
once things are quiet only panes that their tab refused are registered and in
none. `NothingDeadWhenQuiet`: when nothing holds an activity and nothing is
scheduled, no window is empty and no tab shows a dead pane.
`EndsWhenAllPanesEnd`: with exit_behavior Close, the program ends once all
output has ended, and the mux announces that it is empty, which is what ends the
program, only without windows. A pane whose program could not be started, or
that had to connect first, is CloseOnCleanExit whatever is configured
(localpane.rs:226) and stays open with its error; while one does (`StaysOpen`)
the program need not end. `ShowsTheStream`: PaneOutput implements
OutputStream. `OutputIsShown`: free output is shown though no more comes, or
more keeps coming; what is left at the end of the program is shown.

**client.** `RepliesHavePromises`: the error "got serial without a
corresponding promise" is unreachable. `ImplementsRpc`: a request runs at most
once; a call is settled once, by the reply to its own request, by an error or
by its timeout. `WaitsOnlyForAThread`: a call that was sent is settled; only one
left in the queue of a client thread that is gone, or that cannot connect
again, may wait for ever. `CacheIsTrue`: a row marked as being fetched is in a
request or a reply of that fetch, and, with nothing on its way, what the cache
calls up to date is so. `ScreenCatchesUp`: once the
terminal is silent the viewport comes to show its content, although the rate
limiter may refuse any fetch. `HoldsItsMembers`: the ranges of a RangeSet stand
for exactly the integers added and not removed.

**protocols.** `WakeupComes`: the loop does not sleep on a queued function
unless its wakeup is on its way, and sleeps only while the byte that will wake
it for the next one can be written. `ImplementsExecutor`: one function at a
time, in order, normal before low priority, and, with fairness, every spawned
function runs. `AwaitedResultArrives`: a promise that is kept completes its
future, and a thread that finds a waker completes its task, while other tasks
run between. `FollowsTheFile`: once the news has been dealt with, the terminal
runs on what the file says and the form shows it, or says that it does not.
`TerminalCatchesUp`: a file that is left alone comes to be what the terminal
runs on.

**client_domain.** `MirrorsTheServer`: once nothing is under way an attached
client shows each tab of the server with its panes in the window for its window,
and what it shows is alive; each remote pane has one local pane, whether a list,
a reply or both told of it. It shows no other tabs as long as no pane was moved
on the server: after a move a tab that lost its only pane may stay, with the
local pane of it that is in its new tab too (section 5).
`OnlyClosedPanesAreKilled`: closing kills the server's pane, detaching and
closing a window do not. `LeasedDataIsFound`: whoever holds a lease or opens a
reader finds the data, and between calls counts and files are those of the
handles in use. `StructuresAgree`: table, tree and list of the cache hold the
same entries, a lookup finds each of them, the first of the tree is the one to
evict, and the capacity is kept. Nothing in this run is about liveness.

**terminals.** `RepliesReachTheirCommands`: the reply that is handed to a command is
the one to it (until a resize). `LivePanesStay`: nothing that tmux still has is
taken out of a tab by a list or an event of some time ago. `QueueMovesOn`:
queued commands are sent while tmux is there, unless an answer was missed.

Of the screen of a terminal, in the same run: `RowsExist`: no order of resizes,
switches and restored cursors makes the code index a row that is not there.
`ScrollMovesTheRegion`: scrolling moves the rows of its region and no other,
against a definition on the rows of the screen, whether what leaves goes into
scrollback, drops out of a full one, or out of one that a reload made smaller.
`ResizeKeepsTextAndCursor` (KeptByResize, where there is a screen): a resize
keeps the text of the primary screen and its scrollback in the same logical
lines, except a wrapped line at the end (see the findings); a cursor on a letter
is on it afterwards, or on the row before it if the letter now begins a row.
`ScrollbackStays`: a row in scrollback keeps its stable index and its content
until a resize or an erasure, and leaves only a full scrollback.
`ChangesAreReported`: who asks for the changed rows after each batch hears of
every row whose content is not what it was, the divergences named in section 5
excepted.

**ssh.** `OutputIsComplete`: a program that ends by itself has all its output
shown. `LastSizeArrives`: when things are quiet the server knows the last size
of every pane. `PanesEnd`: a pane hears that its program is over, whatever
ended it. That a lost connection is noticed holds for libssh, whose session says
when it is gone; with ssh2 it never does (wezterm-ssh/src/sessionwrap.rs:79 to 90).


## 4. What is proved

The theorems hold for every value of the constants under the ASSUMEs of the
modules, which TLC evaluates in the runs.

**MuxWindowProofs**: `TypeCorrect`, `PanicFree`, `AlwaysActive` and
`ActiveFollows`, for any set of tabs, either closing rule and any arguments. An
active position below the length of the list is not inductive: `Window::insert`
asserts that the tab is not there yet, so the invariant `IInv` adds that no tab
is listed twice and that tabs not yet added are not listed (`Sound`, `fresh`).
Each method of `Window` has a lemma that it keeps a window sound, resting on
lemmas about removal from, insertion into and search of a sequence; each action
is a few such calls. `ActiveFollows` uses in addition where a tab stands after
each of them. Assumptions: the value for "no tab" is no tab, the switch is a
Boolean, the arguments of key assignments are smaller than a machine word.

**ProtocolProofs, SpawnQueue**: `QueueTypeCorrect`, `WakeupGuaranteed` (NoLostWakeup),
`RoomForWakeup`, both together as `WakeupAlwaysComes`, and `RefinesExecutor`, for any number of threads and functions
and both kinds of kernel. NoLostWakeup needs a count of the bytes of the pipe.
One read takes 64 bytes, so a loop may go to sleep over bytes it left behind, and
where only the first byte is reported those would hide all later ones. The
invariant says that bytes written and about to be written stand for functions
that wait or run, but for one per thread (`BytesAreAccounted`); so a read that
leaves bytes has left functions too, and the loop sees those and does not sleep.
Assumptions: fewer threads spawn at once than the pipe holds bytes and, where
only first bytes are reported, than one read takes. (Linux: 65 536 and 64. With
more than 64 threads between `Push` and `Signal` on such a kernel the proof does
not apply.) `RefinesExecutor` is the safety part of ImplementsExecutor.

**ClientProofs, RpcSession**: `RepliesPromised` and `RefinesRpc` (the whole of
ImplementsRpc), for any set of calls, any socket size and any number of
connections. That a request runs at most once says nothing of where it is, so
the invariant says that a request that has not run is in one place: the queue,
the hands of the client thread, the socket or the tasks (`Places`). That a
reply finds its own promise rests on the serial of every reply under way being
its alone and remembered for its call (`Answers`), and, as serials start over,
on nothing of an earlier connection being under way when the next one starts
(`Phases`, `Requests`). The assumption OutcomeAssumption keeps the names of
calls apart from the words for their outcomes. The theorem's invariant types
are weaker than `TypeOK`, whose bound on serials (no more than calls) is
checked by TLC only.

**MuxLifecycleProofs**: `EveryPaneHasOneHome` (OneHomeEach), `NoDeadTabStays`
(NothingDeadWhenQuiet) and `EmptyMeansNoWindows`, the part of
EndsWhenAllPanesEnd without fairness, for any numbers of panes, tabs, windows
and spawns. The two properties of the quiet mux say nothing of how it gets
there. The invariant says what holds between any two functions of the registry:
it is sound (`Sound`: places do not overlap, what is not born is nowhere, numbers
to come are not used), a pane that no window shows is a stray or named by a task
that will remove it (`Placed`), and as long as something empty or dead is
listed, an activity is held, whose release schedules a prune, or a prune is on
the queue (`Busy`, `PruneDue`, `Clean`). Each function of the registry has a
lemma that it changes the registry `Safely`, a relation that composes, so that
the prune, a composition of six, needs one lemma each and one for the whole
being `Clean`. Assumptions: the bounds are positive, the job of the start-up is a
job, the exit behaviours are those of the configuration, and the numbers of
panes that are not a started program are numbers. That the program ends is
checked with TLC only.

**PaneProofs, PaneTree**: `TreeStaysSound` (TreeIsSound), `TabStaysActive`
(both halves of StaysActive), `OnlyTargetsLeave` (TargetsLeave),
`SplitLands` (SplitLandsBesideItsTarget) and `SwapKeepsPanes`, for any finite
set of panes, and so for trees of any shape. The tab stores its active pane as
the index of a leaf in preorder, so all of this rests on how paths are ordered.
`Before` is irreflexive, transitive and total on the leaves of a proper tree
(`LeavesAreOrdered`), hence each index below the number of leaves is that of one
leaf (`LeafAtIndex`). An unsplit puts what lies under the sibling under the
parent, a split at the root puts the whole tree under a turn, and both keep the
order, because paths that are put elsewhere together part where they parted
(`RegraftKeepsOrder`); counting what stands before a leaf by a bijection then
gives its new index (`SameRanks`, `UnsplitKeeps`, `SplitLeafKeeps`,
`SplitRootKeeps`). That each node still has two children after an unsplit is the
longest of the lemmas (`UnsplitForks`). Each method of TabInner then has a lemma
that it leaves the tab `Steady`, or the new pane where it was asked for
(`LandsBeside`). The pass of remove_pane_if needs an invariant of its own
(`WalkSound`): until it finds its pane, its running index is that of the leaf at
the cursor and no leaf before it is to go (`NotYetRemoved`); from then on the
pane is gone, and the shift which is still to come will make the active index
that of the pane that was active, or a leaf's (`Removed`). A move within the tab
needs `MovedPane`: between its pass and its insertion the pane is in no tree,
unless it stood there twice.
TLC found this invariant to hold for four panes before it was proved.
Nothing is assumed of the zoom. The swap in a tab that is zoomed on another pane
than the one at its active index puts a pane in twice, so what the other parts
rest on is that the tree is proper and the zoom in it (`Sound`), which every
operation keeps; that no pane stands twice (`Once`) is a part of its own, which
holds until such a swap (`doubled`). The lemmas about methods say the former of
any tab (`Stable`) and what needs the latter of a tab without doubles
(`Steady`). Of a pane that stands twice, the first leaf that holds it is the
one a split looks for and finds, in the code and in PathOf, which is why
`SplitLands` needs no exception. Assumptions: the panes are finite and NoPane is
none of them. What a pass over several panes does to the active index
is not claimed, as it is wrong in the code.

**PaneProofs, PaneOutput**: `NoOutputIsLostOrTorn` (ShowsTheStream: PaneOutput
implements OutputStream) and `OutputTypeCorrect`, for any output and any size of the
buffers above zero. The mapping takes the pty, the chunk of the reader, the
socket, the input of the parser and its gathered actions, in this order, as the
output that waits. A move between two of these places is no step of the stream,
which needs that each is filled only when it is empty (`Phases`). A batch tears
no update because the gathered actions hold no mark and the parser's `hold` is
what the terminal has seen of updates (`Framing`); nothing is lost at the end
because reader and parser end before the pane is removed only with nothing left
to read (`Ends`).

**ClientProofs, RenderSync**: `CacheTellsTheTruth` (CacheIsTrue), its first half
`FetchedIsFetched` (FetchingIsUnderWay) under weaker assumptions, and
`TypeCorrect`, for any size of the pane, any number of changes and any number
of fetches in flight. That a row is up to date once all is quiet is not
inductive: on the way there rows are old in the cache, in pushes and in replies.
The invariant says who owes the news (`Debts`): an old row that is cached as up
to date, that a push carries, or that the cache would take from a reply, is owed
by the server (a push is due, or under way and will read it) or named by a push
that will be applied later. A reply may overtake pushes, which is why a row
that a push drops or fetches anew must refuse replies of earlier fetches; that
it does rests on `Now` being no instant of a fetch in flight (`NowIsNew`). The
theorem assumes that no row of the viewport shows images (`NoImagesInView`):
with them a push may be applied after a later one, and CacheIsTrue is violated
(section 5). The first half, and the types, need no such assumption.

**ClientProofs, RangeSet**: `SetHoldsItsMembers` (HoldsItsMembers), for any
integers and any number of calls. The property is inductive with the type of the
set; the work is in the operators, each of which has a lemma that says what the
vector stands for after it (`AddRangeIs`, `OrderedIs`, `RemovedIs`, `CommonIs`,
...). It shows what this rests on: a range is merged only with one that it meets,
and the parts left by a removal are those outside the removed range (`RestIs`).
That the vector is sorted, and what the binary search finds, does not
matter for it, only that the search ends within the vector (`SearchIs`); order
decides how few ranges there are. Each loop of the code is a function of the
number of turns taken, which exists because a turn leads from a vector of ranges
to one (`Chain`), and the lemmas follow by induction over sets of numbers
(`UpTo`). Assumption: the bounds are numbers.

**ClientProofs, LfuCache**: `CacheStructuresAgree` (StructuresAgree), for any
keys, any hash of theirs and any capacities that reloads of the configuration
set. One call takes several steps on the three structures (a put may unlink the
old value, decay and evict entries, link the new one and double the table), so
the invariant is one of the cache as a value, `Agree`, that each of these steps
keeps: what a bucket holds is said key by key (`Filed`), and the tree is in the
order of frequencies at the moment of each insertion (`InsertIs`, `Reordered`).
The loops go by `Chain` and `UpTo` again. The bucket of a new entry, which put
computes before it evicts, is right because no eviction changes the number of
buckets (`SameTable`), and an entry is found after a growth because every bucket
is emptied into the new ones (`RehashedIs`, `GrownIs`). Assumptions: the
capacities are above zero, a hash is a number, and the ticks for a step of decay
and the number of frequencies are above zero. The tick, a u32 in the code, does
not overflow in the model.

**ProtocolProofs, SettingsFile**: `FileIsFollowed` (FollowsTheFile), for any
settings and any number of writes, edits and failures. The property speaks of
processes that have dealt with all news of the file. The invariant adds that a
process that watches hears of every change (`ChangesTells`, a lemma), that the
terminal has loaded what the file was unless news is before it (`Synced`), and
that the variable that makes a missing file an error is set only while the
terminal watches, so that a failed load is followed by another (`Named`).
Assumptions: the shipped settings are settings, an absent file is not a torn
one.

**ClientDomainProofs, ClientDomain**: `KillsOnlyClosed`
(OnlyClosedPanesAreKilled), for any number of steps on either side. A kill is
asked for by a task that runs long after the pane was taken for dead or was
closed, and the request is served later still, so the property, which speaks of
requests and of the tasks that will send them, is far from inductive. The
invariant `KillsAreDue` (theorem `KillsAreDueAlways`) says of every message,
task and request, on its way in either direction, what it may rely on
(`MessageOK`, `RequestOK`): a push, or a list that was asked for on account of
one, names a pane that is out of all tabs of the server; a task that is to
remove panes names dead ones and ones no longer in the client's mux, unless the
domain is detached; a kill names a pane that is gone or was closed. These
sets only grow: the server makes no pane with an old number and puts none back
(`GoneOn`; a move, which takes a pane out of its tab and puts it into another,
is one step), and a client's pane that is dead or forgotten stays so (`Later`).
The client itself must fit together (`Fits`), above all its map of panes: a
pane taken for the local copy of a removed one by mistake would be killed on
the server, hence a mapped pane is for its remote pane, and every tab holds
panes there are. Each operator of the module, from ForgetPanes to the
processing of a list, leads from a sound client to a sound one (`Becoming`),
which composes, so that an action needs little more than the list of what it
calls. The loops of the module are unfolded by an induction over sets of numbers
(`UpTo`), from the fact that a recursive function on an interval exists
(`RemainderRecursion`, `PlacesRecursion`, `SyncRecursion`). No assumption on
constants; that a tab holds two panes at most (TabCapacity) is part of the model.

**ClientDomainProofs, BlobLeases**: `LeasesHold` (LeasedDataIsFound: a lease
finds its data, and between calls the counts are the handles), for any threads,
contents, handles and failures of the disk. The count of a content is that of
its handles only between calls; the invariant counts, as a set, the handles and
the drops under way (`Counts`), so that a step adds, removes or moves one
element and Cardinality follows. It says that the mutex is with the one thread
in the midst of a step that needs it (`Locks`), that who removes a file is its
last user and who opens one holds a lease (`Kept`), and that each file has a
user or one who will store or remove it (`NothingLeft`). Assumption: the value
for "no holder" is no thread.

**TerminalProofs, TmuxControl**: `RepliesReach` (RepliesReachTheirCommands), for any
number of events. A reply is taken for one to the command at the front of the
queue, so there must be at most one command without an answer, and it must still
be at the front when the answer is handled. The invariant follows the two
threads through it (`Conversation`): a command is looked for only in the state
"idle", in which nothing is outstanding, and while one is, nothing but its reply
takes a command from the queue. An answer that comes before the state is set is
dropped, which the invariant allows: then nothing is outstanding though a reply
is awaited. The exit of tmux breaks these rules but is its last word (`Events`,
`Over`). Sequences of events and tasks are of mixed records, so the lemmas about
them speak of a sequence over its own range. No assumption on constants.

**TerminalProofs, TerminalScreen**: `RowsExistAlways` (RowsExist),
`ScrollMovesTheRegionAlways` (ScrollMovesTheRegion), `ScrollbackStaysAlways`
(ScrollbackStays) and `ChangesAreReportedAlways` (ChangesAreReported), for any
sizes, texts and values of scrollback, and any number of actions. The invariant
is short (`ScreenInv`): both screens have the size of the pane and at least as
many lines as rows, the alternate one never gives up a stable row, and margins
and cursor are on the screen. The work is in what the operations do between two
such states. Each is shown to make a screen *evolve* (`Evolves`): it keeps its
size, stable rows come at the end and go at the beginning, and only when the
scrollback is full, rows in scrollback keep their content, and every row whose
line differs is marked. Where an operation breaks one of these the lemma names
the exception ("scroll": a region that ends above the bottom pushes lines into
scrollback; "erase": scrollback is dropped; "silent": a row is moved with the
number it had), and the exceptions are those that the two action properties
make. Evolutions follow on one another (`Evolving`), so an action is proved from
the operations it is made of. `scroll_up` is the hardest: it takes lines out at
one place and puts new ones in at another, and how many of each depends on the
scrollback, its limit at that moment and the region (`UpNumbers`, `ScrollUpIs`);
from where each line goes follow both the evolution and that the rows of the
region are moved on the screen (`ScrollUpMoves`, against `Moved`). The alternate
screen may be left with more lines than rows by a resize; there scrolling with
the region at the top moves lines that are not shown, so of such a screen only
the rows, and what scrolling shows, are proved (`Plain`, and HasLongAlternate in
the property). A resize is no evolution: it is shown to mark every line that it
does not leave in its place (`Sized`), and rewrapping marks all
(`RewrapLinesIs`). A run of letters and the walk over the lines of a screen are
recursive functions; that they exist, and stay in the set that one step stays
in, follows by induction over sets of numbers (`Chain`, `UpTo`). Assumption
(`ScreenAssumption`): sizes have rows and columns, and scrollback is a number.

**SshSessionProofs**: `OutputComplete` (OutputIsComplete), `LastSizeIsSent`
(LastSizeArrives) and `TypeCorrect`, for any number of panes and any sizes of
queue and buffers above zero. Both properties speak of what has come to rest;
the invariant says where the rest is on the way there. Output is counted
(`Complete`): what a program has written is what is shown, in the socket, in the
buffer of the session and in the library, and the session closes its end of the
socket only with the latter two empty and no more to come. A pty is made once,
for a channel that held nothing (`Made`), because the request for it stands in
one queue once (`Queued`), that of the session that the pane was given, and a
session that has not begun to serve has no channel to lose (`Early`). Sizes: the
last resize in the queue, or else the size of the channel, is that of the pane
unless the queue refused a resize or the channel is not open (`Sized`). A pane that
has not opened has touched nothing (`Fresh`), and `Order` ties the stages of
dialog, request and hand-over together.

**With TLC only**: all other modules; the type invariant of RpcSession; and
everything with fairness: AwaitedResultArrives, WaitsOnlyForAThread,
ScreenCatchesUp, TerminalCatchesUp, EndsWhenAllPanesEnd, OutputIsShown,
QueueMovesOn, PanesEnd and the liveness half of ImplementsExecutor. Liveness,
ENABLED and induction over data are out of the prover's reach. The only
RECURSIVE operators are in TabGeometry, which has no theorem: that a resize
keeps its columns and dividers in place (CoversTheTab, StaysInOrder) is checked
only. So is ResizeKeepsTextAndCursor of TerminalScreen: that each step of a
rewrap keeps types and marks is proved, but which text comes out of it is a
statement about what the recursion computes for every input. MirrorsTheServer of
ClientDomain speaks of quiet states and would need an invariant that says what
each list and push under way has still to mend. The type invariants of the
proved modules are proved and not in the runs.


## 5. Findings

Each of these has a run that ends in a counterexample.

* tab_resize: `adjust_x_size` (mux/src/tab.rs:338, the loop at 372) takes single
  cells from both halves of a split while they have more than one, but a half
  that is a split at its minimum gives none. Made small enough, the tab's
  resize never returns.
* client_window: `process_pane_list` (wezterm-client/src/domain.rs:624) expects
  the local window for a remote one. The map names a window that is gone from
  the time its user closes its last pane until the push about it comes; a list
  in between makes the client panic.
* tmux_exit: the handler of %exit (mux/src/tmux.rs:129) takes `remote_panes` and
  then `cmd_queue`; sending a resize takes them the other way round. Parser
  thread and main thread wait for each other.
* ssh_paste: `request_loop` (wezterm-ssh/src/sessioninner.rs:518) reads the
  socket of stdin also when its buffer is full, gets 0 bytes into an empty
  slice, and takes that for the end: a paste into a program that does not read
  closes its channel.
* terminal_rewrap: `rewrap_lines` (term/src/screen.rs:137) holds a wrapped line
  back until its continuation comes. When that is blank and below the cursor,
  or was deleted, none comes, and the resize drops the line.

Known divergences, stated in the modules or named in their properties, without
a run of their own:

* tabs: with switch_to_last_active_tab_when_closing_tab, `do_remove_idx`
  (window.rs:187) looks up the last active tab before the removal shifts it
  (ClosingSwitchesBack). A relative tab move does not wrap for deltas beyond the
  number of tabs.
* panes of a tab: a removal pass miscounts or skips the sibling of a pane it
  removed (tab.rs:1682), so StaysActive and TargetsLeave speak of one pane in
  one place; a swap in a zoomed tab whose pane at the active index is another
  puts the zoomed one in twice and loses the other (tab.rs:1817; a step of the
  model, which TargetsLeave and SwapKeepsThePanes except and after which
  TreeIsSound allows a pane to stand twice); a split across the tab
  (tab.rs:1998), the removal of a zoomed pane after a resize (1640) and a
  divider moved over the splits beside it (1294) leave sizes that do not add up.
* lifecycle: a spawn queued before the GUI is told to end opens a window that
  dies with it (wezterm-gui/src/frontend.rs:155, QuitsWithoutWindows); with
  exit_behavior Hold or CloseOnCleanExit a pane in no tab keeps the program
  alive, and with Close one whose program could not be started or that had to
  connect first, because nothing looks at the exit of a pane in no tab; refused
  panes stay registered (tab.rs:1966); a move of the first pane of an ssh session
  that was removed and whose tab is not pruned yet stops in the middle, with the
  pane in a tab that no window lists (lib.rs:822, MoveStops).
* awaits: a thread whose result is sent, and whose waker is looked for, between
  the two steps of `PendingResult::poll` (promise/src/spawn.rs:102) is never
  heard (ThreadResultIsDelivered); a panic in the thread and the drop of a
  promise wake nobody.
* remote panes: a push that awaits images (clientpane.rs:144) is applied after a
  later one; a failed fetch marks an old row as up to date.
* client domain: a tab whose only pane moves away leaves its local tab, and the
  local pane then stands in two tabs, the old and the new one (domain.rs:694
  only forgets the mapping; NoOtherTabsAreShown excepts moves); a list
  that overtakes PaneRemoved leaves a dead pane in the mux; a spawn whose window
  was closed leaves its tab without one until the next list.
* tmux: `send_next_command` (mux/src/tmux.rs:256) writes a command and only then
  sets the state in which answers are taken; an answer that is parsed in between
  is dropped, and no further command is sent (QueueEmpties). A resize is two
  commands to tmux and one in the queue, which leaves a reply over; %window-add
  is dropped before the gui window is set; a window closed before its list is
  processed leaves a tab; a failed split leaves its promise at the head of
  pending_splits; splits by other clients are never shown; sending a command may
  overwrite the state of an exit.
* ssh: a request left in the queue of a session that ends is neither answered
  nor refused (mux/src/ssh.rs:779, DeadSessionIsReplaced); keepalives come ever
  later on a quiet session (sessioninner.rs:502); a full queue refuses a resize;
  with ssh2, is_broken is always false (wezterm-ssh/src/sessionwrap.rs:79), so a
  lost connection is never noticed there: PanesEnd is about libssh.
* terminal: `dirty_top_phys_rows` (term/src/terminalstate/mod.rs:219) marks lines
  of the primary screen also when the alternate one is activated, so that a
  switch without erasing (modes 47 and 1047) is not reported (SwitchIsReported);
  rows below a region are not marked when a full scrollback drops the
  lines that leave at its top (screen.rs:755); the row kept by
  `erase_scrollback_and_viewport` (mod.rs:718) becomes the first one with its old
  sequence number; an alternate screen that is made less high keeps its lines,
  though it "holds no scrollback"; in origin mode `new_line` (mod.rs:1103) adds the
  top margin to a row that has it already; after a rewrap the cursor may stand
  one past the last column, and what is printed there is not on the screen.
* settings: a save truncates the file before it writes it, a file caught half
  written becomes a form of defaults, and `rolling_backup` ("automatic backup
  before saving") is called by nobody.
* stores: overlapping ranges of a RangeSet are counted twice (LenIsTheSize); an
  LFU cache with capacity 0 never ends its eviction; `lease_by_content`
  (simple_tempdir.rs:92) waits for a mutex it holds.
* connections: both ends may block in writes with both sockets full;
  `make_all_stale` drops the bound of the line cache.


## 6. Abstractions, bounds and fairness

**MuxWindow.** A window of its own: tabs are not moved between windows. Four
tabs allow a neighbour on both sides of an active tab, a last active tab apart
from both, and a drag that is stale by more than one slot; arguments to 5 reach
past both ends of the list and more than once around it. The arithmetic of
`move_tab_relative` is on words; 2^8 stands for 2^64, which has the same
remainders modulo 1 to 5.

**PaneTree.** No sizes. Where sizes decide, every outcome may happen: a split
may be refused, the neighbour in a direction may be any pane or none. Four panes
make trees in which a removed leaf has a left or right sibling that is a leaf or
a node, on which the walk of remove_pane_if depends. Tabs and panes are
interchangeable, so the run uses their symmetry; it checks no liveness.

**TabGeometry.** Three panes nest a split in a split. The sizes 9x3, 5x5 and 0x3
are a tab wide enough for a split in it, one that is not, and a window without
columns; a divider moves by -1 and 2; a split asks for half or for 2 cells.

**MuxLifecycle.** Two panes, tabs and windows, two jobs, at most two scheduled
tasks; what a terminal or a domain does is not in it. With Close at most one pane
is something else than a started program, and with the other behaviours, which
such panes have anyway but for Hold, none (`MaxSpecial`). Fairness: the main loop
runs what is scheduled, which is what Executor promises.

**PaneOutput.** An item is an action, not a byte. Buffers of two, a socket of
one, three items under way; the program may write for ever, fall silent or end.
Fairness: both threads are scheduled and time passes (`Elapse` is the delay of
the coalescing).

**SpawnQueue.** Linux with X11 and Wayland; what a poll may return for other
reasons is `PollOther`. A pipe of 4 bytes and reads of 4 with 3 threads are the
tightest the assumptions allow, and a fourth function makes bytes accumulate. An
assumption on the size of reads is needed: with reads of 2 bytes, and the
assumption left out, TLC finds a loop that sleeps on queued functions. Fairness:
a thread that has pushed goes on to signal, the loop goes on, functions return;
no event of the display is counted on, so wakeups come from the pipe alone.

**Awaits.** Each call is awaited by one task. Fairness: a scheduled task is
polled (what SpawnQueue provides) and a thread that has sent its result goes
on. No promise has to be kept and no thread to return, which is why the
properties start from a result.

**RpcSession.** The content of messages is their call. A reply or a
request is whole or lost: a torn message fails decoding and is a lost one. What
an async channel does with queued messages when its receiver is dropped is left
open, as it belongs to a library. Three calls give one in the queue, one in the
socket and one answered at the same time; two connections let serials repeat;
sockets for two messages fill. Fairness: weak, for the client thread's and for
the server's loop. No reconnection and no timeout is counted on. With room for
one message in a socket the two ends can block each other for good; the run
gives room for two, so that is not in it; with one, WaitsOnlyForAThread is violated
(listed as a hazard).

**RenderSync.** One pane of a fixed size without input prediction; fetches
succeed; the two reads of compute_changes for viewport and cursor row are one
step. Scrollback lines of the pane may show images and rows of the viewport may
not, so only replies wait. One write gives two versions of each row, which is
what old and new need. Fairness: pushes and the main thread go on, a repaint
that was asked for happens. Strong fairness twice: pushes and fetches
are tasks of one first-in first-out queue, so pushes that go on do not keep a
fetch from being served; and repaints that go on include one that polls the
server, as the poll interval has an upper bound (MAX_POLL_INTERVAL).

**ClientDomain.** Without sizes, titles, zoom and focus. Two panes or tabs made
beyond the first on the server, one act of the user, tabs of at most two panes:
enough for a list, a push and a reply about the same pane in any order. No
fairness: the invariants are about states in which nothing is under way.

**TmuxControl.** Two things happen beside the attachment, which itself takes
several commands. Commands that change nothing here (keys, captures, cursors)
are of one kind. Fairness: tmux executes what it reads, the parser thread and
the main thread go on.

**SshSession.** Sizes are numbers of resizes, input and output are counted.
MaxEvents bounds what program, network and user do beyond spawning. Fairness:
the tasks and threads of a pane and the loops go on; the server closes a channel
whose status it has sent or which was closed; an authentication comes to an end
once it is answered. No user has to answer a prompt, close a pane or type.

**TerminalScreen.** No colours, wide cells, left and right margins, insert mode,
tabs and images, and no quirks of ConPTY; autowrap is on; a line of blanks keeps
its length however it is stored; a resize that only changes the resolution is
left out. On one column, two or three a text of 5 wraps; it
fills a screen of 2x2 and scrolls; 4 actions allow a text, a change of scroll
region, cursor or screen, and two more. A simulation of 600 000 states with 12
actions found nothing more. One action per batch is the finest that one who asks
for changes can see. Safety only: a terminal waits for nobody.

**SettingsFile.** One setting beside the shipped one, two writes by others, one
edit, one failing write. automatically_reload_config is on. A change before the
watch is set, and a save within two seconds of a change by others, are excepted
from WindowFollowsTheFile. Fairness: the terminal goes on and a write that was
begun ends.

**BlobLeases, RangeSet, LfuCache.** Two threads with two handles each, two
contents, one failure of the disk; integers to 4, one range pushed unchecked;
capacities 1 to 3 with 3 keys in two buckets, six operations, decay every tick
(10 in the code), frequencies to 3 (65535 in the code), at which they saturate and
the ticks since a use wrap. Safety only.

Every run is made finite by a bound, at which it stops, so deadlock is not
checked; that nobody waits for ever is what the liveness properties say.


## 7. What is not modelled, and the plan

Not worth a model, or out of TLC's reach: rendering, fonts, window systems,
the parser's tables, cell attributes, Lua bindings, command lines
and third-party code. PROJECT.json gives the reason for each component. More
than half of the lines of the repository are tables of characters, symbols and
emoji, and generated bindings.

Of the modelled components, these parts are missing: workspaces and the palette
of notifications of the mux; the Windows and macOS queues, and SimpleExecutor,
which puts both priorities into one channel; the registration of a client
against the drop of its session, and the identity held across awaits; failing
fetches and predicted input of remote panes; exec, sftp and agent forwarding of
ssh; output, its backlog and capture in tmux mode.

Planned, in this order:

1. Proofs: what a waiting thread of Awaits is told (the safety part of
   AwaitedResultArrives); TypeOK of RpcSession.
2. Failing fetches in RenderSync; clients and their identity; SimpleExecutor
   against Executor (expected to differ in priorities).
3. Left and right margins and insert mode of the terminal, and the change log of
   surfaces, as operators against reference definitions.
