# A TLA+ model of tmux-animated

tmux-animated is tmux 3.x with client animations: window switches slide, pane
layouts move, copy mode scrolls and screens dissolve. These modules model the
parts of the server, and of the clients it talks to, whose correctness depends
on order and on state kept in several places: command queues, wait channels,
hooks, the animations with the windows, sessions and overlays they share state
with, sessions and their groups, the layout of a window, a pane's screen and
what terminals show of it, the output sent to control clients, how a server is
started, and the connection of a client. TLC checks them on small instances;
TLAPS proves theorems about wait channels, command queues, animations and the
windows and sessions they touch, control clients, how a server is started and
the connection of a client for every instance.

To check a module: `tlc -config MCWaitFor.cfg MCWaitFor.tla`; to check the
proofs: `tlapm WaitForProofs.tla`.

## 1. The system

One server process runs a libevent loop; all but the client's side of the
connection is code of that process. There are no threads. What interleaves are
handlers: a handler (a
message from a client, bytes from a pane, a timer, a signal) runs to its end,
and after every event `server_loop` runs the command queues until nothing more
is done. Two things make that hard. A command may *wait* (for a job, a prompt,
another client), so that its queue stops in the middle and goes on after any
number of other handlers. And functions *come back to one another* inside one
handler: ending an animation may close a pane, kill a window, destroy a session
and end other animations, while the callers still hold pointers.

| Component | State | Operations | Talks to |
|---|---|---|---|
| wait-for channels (`cmd-wait-for.c`) | tree of channels: locked, woken, waiters, lockers | signal, wait, lock, unlock, flush | command queue items (`cmdq_continue`), server exit |
| command queues (`cmd-queue.c`) | one list of items per client and a global one; fired and waiting flags; groups | append, insert after, insert hook, continue, next, remove group | everything that runs commands; references of clients |
| server loop (`server.c`) | clients, sessions, exit flag | run all queues, flush, exit | command queues, clients |
| notifications (`notify.c`) | none of its own: an item per event in the global queue, with references on client, session and window | add, run hooks | command queues, control clients |
| animations (`animation*.c`) | per client: the animation, a capture of the layout, a timer; shared: deferred closes | begin (slide, pane layout, alternate screen, scroll, dissolve), retarget, frame, cancel, invalidate, defer and finalize a close | overlays, sessions, windows, panes |
| overlays (`server-client.c`, `menu.c`, `popup.c`) | callbacks and data per client, a timer | set, clear, time out, key, resize | animations, menus, popups, prompts |
| sessions (`session.c`) | winlinks, current window, stack of last windows, groups, references | create, attach, detach, select, next/previous/last, destroy, synchronise, renumber | windows, clients, notifications |
| windows and panes (`window.c`, `server-fn.c`, `spawn.c`) | panes, active pane, references, zoom | create, add and remove pane, lose pane, destroy, kill, respawn | layout, sessions, notifications |
| clients (`server-client.c`) | flags, session, references, files, key table | create, identify, dispatch, attach, lose, free | all |
| control mode (`control.c`) | blocks of output per client and pane, offsets, pauses | write, queue, flush, pause, continue | panes, queues |
| layout (`layout*.c`, `resize.c`) | tree of cells with sizes | split, close, resize, spread, assign | windows |
| client/server protocol (`client.c`, `proc.c`) | handshake and exit state on both sides | identify, attach, detach, suspend, exec, exit | server clients |
| files (`file.c`) | open streams per client | open, write, read, close, cancel | clients, commands |
| jobs (`job.c`), alerts (`alerts.c`), paste buffers (`paste.c`) | lists | run and die; bell, activity, silence; add, name, limit | commands, windows |
| prompts, modes (`status.c`, `mode-tree.c`, `window-*.c`) | prompt, mode stack per pane | set, key, free | overlays, queues |
| grid, screen, input, tty, format, options | data | | |

What makes each correct:

- *wait-for*: nobody sleeps for ever because a channel was dropped, a lock has
  one owner and goes from one to the next in order, a signal before a wait is
  remembered.
- *command queues*: an item fires once, in its place; an error ends what is
  queued of its own group and nothing else; an item someone will continue is
  never freed; a client is freed exactly when nothing refers to it; no queue is
  passed over.
- *animations*: a client has an animation exactly while its overlay is one; an
  animation never draws a freed window; a pane whose close was deferred is
  closed, once, and not before its animations end; they do end.
- *sessions and windows*: the current window is linked, the stack of last
  windows has no dangling or repeated entry, references count what they should.
- *control mode*: a pane's bytes reach every control client once and in order,
  or are skipped only while paused.
- *groups*: the sessions of a group share their windows whatever is linked,
  moved, renumbered or destroyed in one of them; a client stays on a session.
- *layout*: the cells of a node fill it, every pane has one cell, panes keep
  their order, a layout that is given back is the one that was taken.
- *screen*: the terminals show the grid although what they are sent is
  collected, held back and dropped; a resize keeps the text and the cursor.
- *client and server*: one server has the socket and every client gets to it; no
  answer is lost; what is printed arrives before a client leaves, and one that
  is told to leave does.

Hazards, each at its line, are in PROJECT.json under "hazards".

## 2. The plan

| Step | Module | Extends | Abstract specification | Properties and theorems |
|---|---|---|---|---|
| done | `WaitFor` | | `WaitPromise`: a signal and a lock per name, for ever | proved: invariant, nobody stranded, mutual exclusion, order, refinement |
| done | `CmdQueue` | `WaitFor`, `TailQueue` | | proved: references, waiting items live, errors, order |
| done | `Animation` | `TailQueue` | | proved: overlays owned, drawn windows exist, references exact, closing panes held |
| done | `Control` | `TailQueue` | | proved: output scheduled, buffer kept, lines behind output, no gap |
| done | `Session` | | | checked; its commands are folds, which the prover cannot take (section 5) |
| done | `Layout` | | | checked |
| done | `Screen` | `Grid` | what a terminal shows is what the grid holds | checked |
| done | `ServerStart` | | | proved: one server, reachable |
| done | `ClientServer` | | | proved: streams known, files freed, answers owed, output arrives |
| next | break-pane, join-pane between windows, `kill-pane` | `Session`, `Layout` | | one list of panes over two trees |
| later | `Prompt`, `Modes`, `Jobs`, `Alerts`, `Paste` | `CmdQueue` where they let an item go on | | callbacks come once, limits hold |
| later | `Input`, `Options` | | | parser state, inheritance |

Bounds stay as now: two or three of everything and enough steps that every
path back is taken; runs stay within a few minutes.

## 3. The modules

### WaitFor

`chan[ch]` is a `struct wait_channel` (absent channels are `Empty`), `flag[i]`
what a queue item got from the one `wait-for` it fires. `Signal`, `Wait`,
`Lock`, `Unlock` and `Flush` are the functions of `cmd-wait-for.c`;
`hasClient` is the "not able to wait" check. `Signal` follows the code: waking
a channel that is already woken, with nobody waiting, removes it. `taken` and
`given` are history variables that count lock grants and releases.

### TailQueue

The two operations on `TAILQ` lists that more than one module uses, as
sequences: inserting behind an element and removing elements wherever they are.

### CmdQueue

Extends `WaitFor`: the items are the items of the queues, and a command that is
`wait-for` takes a step of `WaitFor`. `queue[q]` is the list of a client or of
the global queue; `info[i]` what an item is born with (queue, client, the
client an event is about, kind, group, whether hooks are off); `fired`, `job`
and `flag` its flags; `refs`, `listed`, `dying`, `freed` the client's life.
`cmdq_next` is split into `Enter`, one `Fire...` or `Reap` per turn of its
loop, and `Leave`; while it runs (`running`), nothing else does. A hook is one
command inserted behind the item, also behind one that waits. What a command
does is abstracted to what the queue sees of it: succeed, fail, wait, insert
commands behind itself, cause an event, set off a hook. What a message, a key,
a file, a job, an event or the loss of a client does is an action of the
environment that happens only when no queue is being run.

A command gets its group when its list is parsed (`cmd_list_append`,
cmd.c:610). The list a client sends is parsed for it (`SubmitMessage`). Lists
that are kept (`stored`) have the same group whenever they are queued: those of
keys (key-bindings.c:708), of hooks (cmd-queue.c:430, notify.c:52), and those
in braces, given again when no argument is to be filled in (arguments.c:817):
`if-shell`, `run-shell -C`, `confirm-before`... So such an item takes a group
of an earlier firing or a new one (`Groups`). `firing` is a history variable
that tells what was queued together. An error of one firing removes the items
of another that are in the same queue: `NothingLost` says so, and that nothing
else is removed; `ErrorEndsGroup` is about one firing. A hook's commands are
queued with hooks off, and those a command queues with what it has itself or,
for a key given to a mode (cmd-send-keys.c:98), on; the two kinds are taken to
be different lists.

A notification holds the client it is about until its item has fired
(notify.c:219), so that a lost client outlives its `client-detached`. Other
references of clients, those of open files, popups and jobs, are left out.

Abstractions: a new event may come although other queues could still run (the
code runs all of them first), which only adds behaviours; `FlushAll` may happen
at any time; `cmd_find_client` may find any client on the list or none; a group
is numbered by the first item that was created with it. `root` is a history
variable: the appended item an inserted one belongs to.

### Animation

One module because the code cannot be cut between animations, overlays,
sessions and windows: each calls the others inside one handler. `cli[c]` is the
client's session, overlay and animation; `ses[s]` the winlinks, current window
and stack; `win[w]` the panes and references; `capture[c]` the window whose
panes `c->animation_capture` holds; `defer[d]` the deferred closes
(`animation_close_defer`). A window's number is its index.

A capture is taken before a layout changes and used up when it has
(`LayoutChanges` is both). A `split-window` that fails between the two leaves
it behind (`SplitFails`; cmd-split-window.c:157, 170, 178, 202). The commit
asks for the capture and that there is no animation, not for an overlay
(animation-pane.c:129): with a capture that was left, `Starting` has clients
with a popup or a menu over them. The popup is then ended first
(`server_client_set_overlay`), so that a client has an animation exactly while
its overlay is one all the same; but over an animation that is just being
cleared the overlay is freed twice (fault "overlay"), and a client without a
session has its options read (fault "session").

`agenda` is the call stack of the running handler: the calls still to be made,
in order. `ClearOverlay`, `Finalize`, `KillFromSession`, `RemoveRef`,
`Invalidate`, `SetOverlay`, `ScrollForClient`... are those calls, one step
each, and pushing one in front of the rest is how a function calls another. A
handler starts when the agenda is empty; `UserNext` are the handlers of
commands, keys, exits and lost clients, `LoopNext` those of timers and queued
notifications. Where the code reads something already freed the model records
a `fault` and stops, since what follows is undefined; the invariants are about
everything before that, and the faults are findings of their own.

Abstractions: geometry and drawing are left out, so whether a pane has moved
(and a layout animation starts) is a free choice; time is `TimeUp`; clients and
sessions are visited in any order where the code has a list or a tree;
animation options are on and `remain-on-exit` is off; a window is linked to a
session at most once, none is created after the start; a command that goes on
reading a winlink after the kill that took it (cmd-kill-pane.c:71) stops at the
kill; handlers run outside hooks, so a notification always takes its reference;
zoom, groups and renumbering are left out.

### Control

A pane keeps what its program wrote until tmux's parser and every control
client are past it. `pane[p]` has the buffer: bytes are numbered from the start
and only positions are kept, `base` (what has been drained), `end`, `parsed`
(the parser's offset). `cli[c]` is a `struct control_state` and the flags of
its client: `cp[p]` the two offsets of a pane and whether it is off or paused,
`all` the blocks of all panes in order, `pending` the panes that have blocks,
`fill` the bytes in the buffer of `write_event` and `armed` its EV_WRITE.

libevent polls, calls the handlers of what is ready (`phase` "events"), then
`server_loop` runs commands and `server_client_loop` ("commands", ended by
`ServerLoop`). `served` keeps a descriptor from being written to twice in one
poll. `control_write_callback` is the one handler that is split into steps
(`writing`), because its loops end on what they themselves change: `NextTurn`
divides the room among the pending panes, `TakeBlock` is one turn of the loop
of `control_write_pending`, `PaneBehind`, `PaneGone` and `NotEnoughData` its
early exits. While it runs, nothing else does.

Abstractions: a byte costs 1 in the buffer, and so does a line, so the limit of
a pane is not divided by 3 for octal escapes and headers are left out; age is a
free choice; `remain-on-exit` is on and no pane is piped (with the option off
the pane is destroyed); every client is a control client; subscriptions are
left out; roll over of `base_offset` is left out. `due`, `past` and a line's
`after` are history variables: the byte a client expects next, and how much of
each pane was queued before a line.

`BufferKept`, `NoGap` and `LineAfterOutput` are about clients whose blocks
stand for exactly the bytes between their offsets (`Receives`). This is what
every step keeps but two kinds: output that arrives for a client that is
suspended or exiting moves the offsets past its blocks, and a client that
changes its session, or a pane whose program ends before it is respawned, loses
the blocks and keeps the offsets. The first comes to the finding *not enough
data*; after the second the output stays late by as much.

### Session

`ses[s]` is a `struct session`: `links` its winlinks by number, `cur` the
number of `curw`, `last` the stack, `attached`; `group[g]` the members of a
session group, `client[c]` the session of a client and whether it has been told
to suspend or exit. A command runs to its end, so a command is one step,
written as a chain of operators, one per function of the code (`Attach` for
`session_attach`, `Detach`, `SetCurrent`, `Synchronize`, `Renumber`,
`Shuffle`, `LinkWindow` for `server_link_window`, `DestroySession`,
`CheckUnattached`...), each on a record of the variables. The actions are
new-window, link-window and move-window (with `-k`, `-a`, `-b`), swap-window,
unlink-window, kill-window, select-window, switch-client and attach-session
(`GoTo`), move-window -r, kill-session, new-session (alone, with a session's
group, with clients), and what suspending, waking, exiting and losing a client
does to its session. `option` has the settings of an instance.

Abstractions: a window's panes, its size and its name are left out; a program
that cannot be started is a free choice; sessions are looked at in the order of
their numbers, which stands for the order of their names; activity times, by
which a session is chosen, are a free choice where the code compares them;
alerts and the marked pane are left out. Where a command leaves a session the
code then reads wrongly, the model records a `fault` and stops:

- "no window": a window could not be started over the current one (`-k`), or a
  group was left without one, and `curw` is NULL.
- "stack": the stack of last windows holds a winlink twice.
- "no criteria": detach-on-destroy previous and next call
  `session_previous_session` with no sort criteria (server-fn.c:481).
- "empty session": a client is switched to a session of a group whose windows
  have gone (server-fn.c:460).
- "freed session": a client that was suspended or told to exit reads a session
  that destroy-unattached has taken.
- "last link": unlink-window without `-k` asks `session_is_linked`, which
  compares the references of the window with its links in the session or group.
  A queued notification (notify.c:224), a queued alert (alerts.c:171) and a
  deferred close (animation-window.c:613) hold references too and may be there
  at any command (`held`): after `new-window`, in the same list, unlink-window
  takes the only link and the window is closed, although tmux.1:3804 says that
  windows may not be linked to no sessions. `WindowsKept` holds up to this.
- "freed link": kill-window -a reads its own winlink again for each other window
  (cmd-kill-window.c:84, 98); in a group, a member that comes before the
  session has rebuilt the session's links by then.
- "not shared": a session that joins a group left behind under its name
  (session.c:541), or a command that fails half way, leaves the group apart
  (tmux.1:1376 says its sessions share their windows).

### Layout

`w` is the `struct window`: `root` the tree of cells, `saved` the one kept by a
zoom, `old` the one kept for `select-layout -o`, the panes in order, the active
pane, the stack of those active before, `last` the arrangement. A cell is a
record with its size in both directions, `lr` and `tb`; a node's `type` is the
direction its cells run in. `PaneCommand` are split-window, kill-pane,
join-pane, resize-pane (also by a border, and to a size), swap-pane,
select-pane -L and so on, resize-pane -Z; `WindowCommand` are rotate-window,
resize-window and select-layout (the seven arrangements, -n, -p, -o, -E, and a
layout kept as text); `CheckWindowResize` is the client's own change of size.
Arithmetic is unsigned (`Wrap`). Offsets are left out: they follow from the
sizes. A layout's text is the tree itself, and its checksum never fails.

Faults: "squeezed" (a full-size split resizes cells below the room of their
children), "uneven" (even-vertical finds no room to be even in), "narrow"
(tiled fits no column), "stale" (a layout given back after the window was
resized does not match the size it is put in), "endless" (the finding below).

### Grid and Screen

`Grid` has `grid.c` and `grid-view.c` as operators on a record: lines of cells
with the part that was written and whether a line goes on in the next, the
history, scrolling, inserting, deleting, clearing, and `grid_reflow` with its
positions. A cell is a character; a wide one has padding behind it. `Screen`
has one pane: `s` has the grid, cursor, region, modes, the saved screen of the
alternate one, what was collected to be written (`list`, `item`, `scrolled`)
and, for each client, what its terminal shows (`term`) and whether it is to be
redrawn (`due`). `Start` and `Stop` bracket a read of the program's output; the
actions between them are the control functions `input.c` dispatches, each with
all that `screen-write.c` does to grid, collection and terminals. Others are a
pane's resize, resize-pane -T, clear-history, the server loop's redraw, the
timeout of held back output, a terminal too slow (`Block`, `TimerFires`) and
refresh-client. An instance has a few of them (`option.commands`).

Faults are the places where the code leaves terminal and grid apart: "left
over" (DECALN with scrolls or cells pending), "scroll kept" (a coloured clear
after a pending scroll of another colour), "outside" (IL and DL outside the
region), "missed" (one client refreshed alone ends the holding back for the
others), "not erased" and "not inserted" (ICH and insert mode at the edge); or
the grid without meaning: "cut" (`grid_reflow_join` ends a line it only looked
at), "off the grid" (the position of a wrapped last line), "underflow" (lines
taken back from a history that resize-pane -T has emptied, screen.c:460),
"history" (resize-pane -T in the alternate screen).

Abstractions: characters are plain; attributes, tabs, titles, hyperlinks,
images, selections, borders and status lines are left out; nothing covers the
pane; the parser's states are left out, only what it dispatches is there.

### ServerStart

Processes that share two names: the socket's and the lock file's. `cl[c]` is a
client in `client_connect`: the system call it is to make (`Call`), the lock
file it has open and whether it holds the lock. `srv[s]` is a server: unlink,
bind, listen, give back the lock, loop; `MakeAgain` is SIGUSR1, `Sessions` its
last session going or a new one coming, `Terminate`, `Exit` and `Crash` how it
ends. A lock belongs to a file, not to its name (`lockfile`), and the server
removes the name. `conflict` says why a second server was started over one
that runs; the model stops there: "made again" (in the middle of SIGUSR1),
"stale lock" (under a lock on a file whose name is gone: the comment at
client.c:94 takes a lock for a server being started), "same lock", which
`OneServer` shows never to happen. So the properties say that a second server
is never started under the lock of the first, and that the first is reachable
until one is started in one of the other two ways.

Abstractions: waiting for the lock and giving it back is one step; opening the
lock never fails, and bind fails only in a conflict; the server always forks,
and systemd has no part; a client runs once.

### ClientServer

One connection: `server` is the `struct client` with its flags, the command it
runs and its files; `process` the client process with its own files, the
descriptors it has used up and how it was told to leave; `toServer` and
`toClient` the queues of messages. `ServerStep` are the server's callbacks:
a read of the connection, handling every message in it, the timers that finish
files, the loop with `server_client_check_exit`. `CommandStep` is a command
that prints, saves or loads a file, takes input for an empty pane, attaches,
detaches, suspends, locks, or ends with an error; `OtherStep` what users,
signals and other commands do (kill-pane, detach-client, kill-server, the loss
of the terminal); `ClientStep` the client's: one message, a chunk of its input,
a chunk written, a signal. Data are counted in chunks. `output` is a history:
what was printed, promised and written.

`OutputArrives` holds up to the faults, so it would not catch output that goes
astray: nothing but the fault shows it.

Faults: "freed file" (a write fails in the callback that made the file done,
file.c:169 and server-client.c:446), "astray" (standard output is used once and
closed, the next file gets its number, and a later use of it goes there,
file.c:607), "no client" (window.c:1817 takes input for a client that is gone);
and the client dies in `fatalx` (`pc = "fatal"`) when a read is cancelled for a
killed pane while its end is on its way (file.c:805).

Abstractions: identification, versions, resizes and flags are left out; the
server does not die (a lost connection is `ClientLosesServer`); a control
client's own output is in `Control`.

## 4. The runs

| Run | Instance | Shows |
|---|---|---|
| `waitfor` | 6 items, 2 channels, symmetric | `WaitForInv` (the inductive invariant), `NobodyStranded`, `MutualExclusion`, `FirstComeFirstServed` of every step, and `PromiseKept`: the channels that come and go implement `WaitPromise` |
| `cmdq` | 1 client and the global queue, 4 items, no channel | `CmdQueueInv`, `ErrorEndsGroup`, `NothingLost`, `InSequence` |
| `cmdq_live` | the same with 3 items and 1 channel, fair | `CmdQueueInv`, `QueuesDrain` |
| `animation` | a client with a terminal and one in control mode, 2 sessions that share windows, 3 windows, 3 moves, fair | `AnimationInv`, `DrawnWindowsExist`, `WindowReferencesExact`, `ClosingPaneHeld`, `AnimationsEnd` |
| `control` | a client of two panes, two clients of one pane; 2 bytes, 2 moves, fair | `ControlInv`, `BufferKept`, `LineAfterOutput`, `NoGap`, `OutputGoesOut`, `PaneReadAgain` |
| `session` | six settings: up to 3 sessions, 3 windows, 2 clients, every destroy-unattached, most of detach-on-destroy | `SessionInv`, `GroupShares`, `StaysAttached`, `WindowsKept` |
| `layout` | a window of up to 4 panes under a client of two sizes, the status line at each place, 4 commands out of one group at a time | `LayoutInv`, `UndoRestores`, `OrderKept` |
| `screen` | a pane of 2 to 4 columns and 2 or 3 lines with a history, 1 or 2 clients, 3 to 5 commands out of one group at a time | `ScreenTypeOK`, `TerminalsShowScreen`, `ResizeKeeps`, `AlternateRestores` |
| `server_start` | 3 clients, 3 servers, fair | `OneServer`, `ServerReachable`, `ClientsGetThrough` |
| `client_server` | a client of either kind, 2 files, 3 moves, fair | `ClientServerInv`, `AnswersOwed`, `OutputArrives`, `LeavesWhenTold` |
| `layout_spread` | as `layout`, arrangements and resizes only, 7 commands | refutes `SpreadBounded`, see below |
| `control_data` | 1 client, 1 pane, 2 bytes, 2 moves | refutes `EnoughData`, see below |

Invariants named `...Inv` gather a module's type invariant and the parts the
others rest on; the parts have names and comments of their own in the module.

Bounds. `MaxItems` caps the items ever created: four let a command of a group
insert another, set off a hook, fail, and still have one behind it, and two
firings of a list of two meet in one queue. `wait-for` is in the run with three
items, where a command waits on a channel, another continues it and one is
behind it. One client and the global queue are two queues, which is what a
wait-for between queues and an item run for a client of another queue need.
`MaxMoves` caps the handlers of users and programs; frames, notifications and
the calls within a handler are free. Two moves defer a close and a third
disturbs it. A window has at most two panes (`PaneId`) in `Animation`: one to
split off and one to be deferred. Each behaviour ends when the bound is used
up, so deadlock is not checked there. In `Control`, `MaxBytes` caps what all
programs write and `MaxMoves` the commands and lines; callbacks are free. Two
bytes are two blocks of one pane or one of each of two, or one block of two
bytes that a buffer of size `High` = 2 takes in two turns; two moves put a line
behind output and then pause, switch, suspend or respawn. Two clients on one
pane are what draining needs. In `Session` the settings bound which sessions,
windows and clients there are and the highest number a window is put at;
commands are not bounded. Three sessions are a group of two beside another one,
three windows a stack of two. In `Layout` four panes are a node of three cells
with a nested one; the sizes make cells of one line that give nothing more.
`Screen`'s instances start on lines with text and wrapped lines, so that few
commands reach the cases; their cursors start where an edge is. In
`ServerStart` three clients are one with a lock on a file whose name is gone,
one that waits for it and one that starts a server; nothing else is bounded. In
`ClientServer` two files are one that fails and one that goes on after it.

Fairness. `FairCmdQueueSpec`: `server_loop` visits every queue after every
event, so entering a queue that has work is weakly fair, and so is going on
within one. `FairAnimationSpec`: a handler runs to its end; libevent serves a
timer that is due, and the server loop serves the notifications. Nothing is
assumed of users, jobs or programs. `FairControlSpec`: a write callback runs to
its end and the loop goes round; a client that reads is found writable again
and again (strong fairness, since its descriptor is served once a poll and only
while EV_WRITE is set). A client that never reads is cut off by age in the
code; here it is a free choice that is not forced. A slide that is turned to a
new window starts anew, so an animation need not end under a user who never
stops; the bound on moves stands for a user who does. `FairStartSpec`: a
process that can make its next system call makes it; that servers crash, or end
when their sessions do, is never forced. `FairClientServerSpec`: both event
loops run, a command that can finish does, what one side writes the other
reads, and the client's output takes what is written to it; that input ends, or
that a stopped or locked client is continued, is not assumed, so
`LeavesWhenTold` names these as the exceptions.

What the code contradicts:

- *Spread without end* (`layout_spread`): select-layout -E resizes a cell by
  more than it can give two levels down, and the loop at layout.c:495 takes
  nothing more and never ends, although its comment says the change has been
  bounded.
- *Not enough data* (`control_data`): `respawn-pane` gives a pane a new buffer
  under blocks that stand for the old one's bytes, and the server stops at its
  own assertion. A client that hangs up or is suspended gets there too.

Faults the models reach and stop at, without a sentence of the repository that
they contradict, are named under their modules above, and so is "last link" in
`Session`, which does contradict one (tmux.1:3804). In `Animation`, besides
"overlay": an overlay that replaces an animation reads the session that ending
it destroyed ("session"); a pane is closed twice, killed while its close is
deferred ("pane"); a second client copies the picture the first has freed
("picture"); a winlink is used after its window was killed ("winlink").

Behaviour the models follow and no property forbids, which a reader may not
expect:

- a pane respawned while its close is deferred is closed when the animation
  ends (animation-window.c:631); a control client is animated once
  `refresh-client -C` has given it a size (animation-window.c:79, against
  README.md:107);
- a pane paused for its age in the middle of a write loses its blocks but not
  the lines behind them, which wait until something else is written
  (control.c:689, against the comment at 36); a suspended control client is
  never woken (client.c:535);
- closing a file with output pending does not close it later (file.c:560, 667);
  a `load-buffer -` that has sent a part keeps a client that is told to exit,
  and kill-server, until its input ends (server-client.c:1924); what a command
  prints before it attaches can be lost; `save-buffer` to a file and then to
  standard output after list-keys writes the second into the file;
- a pane killed while it takes input leaves its command waiting and its client
  referenced for good (window.c:1813).

## 5. The proofs

Every theorem is about the specification with any values of its constants that
satisfy the module's named assumption; the runs check the same properties on
small instances, and TLC has checked each inductive invariant before it was
proved. `TailQueueProofs` has the lemmas about `TailQueue` the other proofs
share (what inserting behind an element and removing elements return, that the
rest keeps its order).

| Module | Theorems (each of the `...Spec`) |
|---|---|
| `WaitForProofs` | `WaitForInvariant`: `WaitForInv`; `NeverStranded`: `NobodyStranded`; `LockIsExclusive`: `MutualExclusion`; `LockIsFair`: the action property `FirstComeFirstServed`; `WaitForKeepsPromise`: `WaitFor` implements `WaitPromise` |
| `CmdQueueProofs` | `QueueInvariant`: `QueueInv`; `ItemsAndReferences`: `CmdQueueInv`; `FailedGroupsEnd`: `ErrorEndsGroup`; `CommandsAreKept`: `NothingLost`; `CommandsInSequence`: `InSequence` |
| `AnimationProofs` | `AnimationInductive`: `AnimationIInv`; `AnimationInvHolds`: `AnimationInv`; `DrawnWindowsHold`: `DrawnWindowsExist`; `ReferencesHold`: `WindowReferencesExact`; `ClosingPanesHold`: `ClosingPaneHeld` |
| `ControlProofs` | `OutputInvariant`: `OutputInv`; `QueuedOutputIsScheduled`: `ControlInv`; `NothingDrainedUnread`: `BufferKept`; `LinesStayBehindOutput`: `LineAfterOutput`; `OutputHasNoGap`: `NoGap` |
| `ServerStartProofs` | `StartInvariant`: `StartInv`; `OneServerStarts`: `OneServer`; `RunningServerIsReachable`: `ServerReachable` |
| `ClientServerProofs` | `Connection`: `ConnectionInv`; `ClientServerSafe`: `ClientServerInv`; `AnswersAreOwed`: `AnswersOwed`; `OutputDoesArrive`: `OutputArrives` |

### Wait-for channels

No assumption on the constants. An item fires its command once, which is the
queue's promise (`InSequence` and `Fires` in `CmdQueueProofs`).

`NobodyStranded` is not inductive by itself: `Remove` looks at the waiters only,
so that a channel with lockers could go if it were unlocked. The invariant adds
that an unlocked channel has no lockers and that an absent one is blank. Handing
a lock over must continue the head of the list and no other item, which needs
that an item is on one list, once (`QueuedOnce`). Each command has a lemma
(`SignalInv`, `WaitInv`, `LockInv`, `UnlockInv`, `FlushInv`). They rest on three
lemmas about a change to one channel: `SameLists` (no list changes), `Enqueue`
(an item is appended to one list) and `Requeue` (some items leave the lists and
go on), so that the reasoning about lists is done once.

The refinement takes the same invariant: each command on a channel that comes
or goes is a step of the promise's channel of that name, which is there for
ever, or leaves it alone.

### Command queues

From `CmdQueueAssumption` (the global queue is no client, the bound on items is
a natural number) and the wait-for channels' invariant, which `CmdQueue`
extends. `QueueInv` is about one record, `State`, of the queues, the items, the
references and the dying clients, so that a command which inserts items, causes
events and frees clients is a chain of functions on that record, each with its
lemma (`PlacedGood`, `RemovedGood`...). Its parts:

- `InLine`: an item is in one queue, once, the one it was born for, and the
  queue is in the order of the appended items it belongs to (`root`). Without
  it removing a group could remove an item twice, and its reference with it.
- `Grouped`: what is queued together is named after its first item and appended
  to one queue, in its order; two items of one group that were not are of a list
  that is kept. `ErrorEndsGroup` needs the first: what a failure removes is what
  is behind it in the one queue; `NothingLost` the second.
- `Fires`: what has fired is the head of its queue or gone, and nothing that is
  queued belongs before it. This is what makes `InSequence` inductive: an item
  inserted behind the head stays in front of what was appended later.
- `Counts`: references are exactly the queued items, those of notifications
  included, and the list of clients, so a client without references is in no
  queue.
- `Waits`: an item that waits has fired and is a head; with `Fires` that is the
  item `cmdq_continue` finds.
- `Outcomes`: `ErrorEndsGroup` and `NothingLost` themselves. A failure takes the
  whole of its group that is in its queue, whichever firing it is of; what was
  queued with it is all behind it.

`CreateInv` and `KeptInv` say when a step that creates items, or one that
removes some, keeps the invariant; one lemma for each action uses one of them.

### Animations

From `AnimationAssumption` (clients, sessions and windows are finitely many,
sessions and windows are positive numbers, 0 being none). The properties hold
between two handlers, or in the middle of one only for what the next call uses;
none is inductive. The invariant, `AnimationIInv`, holds after every call: what
is not yet true is a debt, and a call on the agenda is there to pay it.
`AnimationLemmas` has the invariant, the lemmas about its parts and the actions
that start a handler, `AnimationProofs` the calls of a handler that runs and
the theorems.

- `InOrder`: which calls can be where. The calls that end something are first,
  the rest of a command is last, and what takes an overlay's place follows its
  clearing. It stands for the fact that a C function runs what it calls before
  it goes on.
- `OverlaysOwned`: an overlay of an animation without one is being cleared (its
  `Cleared` call is to come, once); a picture or a new overlay is only put over
  a client that has none.
- `DefersNamed`: a deferred close that nothing carries is free or is being made
  right now; a pane waits exactly when a deferred close names it.
- `RefsCounted`: a reference has a link, a notification, a deferred close or an
  `Unref` call that is still to be made.
- `PanesKept`: a window without references is on its way through
  `animation_window_invalidate`; one that is linked and has lost its last pane
  is being killed, for all sessions that are left.
- `DrawnKept`: an animation that draws a window without references is on the
  list of an `invalidate` call, or is the one being cleared.

What the sessions need for themselves (`CurrentWindowLinked`), how many
animations carry a deferred close (`CarriersCounted`) and which windows
captures are of (`CapturesKept`) is true after every call and needs no debts.
Whether an animation starts is not guarded by the overlay in the code, and the
proof does not use that it is: a layout animation that starts over a popup
takes its place, and over an animation being cleared it is the fault "overlay".
For each part a lemma says what a call may put in its own place on the agenda
for the part to be kept (`OrderKept`, `OwnsRun`, `RefsRun`, `PanesRun`,
`DrawnRun`); the calls of one reference are counted by `OccurrencesPushed` and
`OccurrencesPopped`. Each action then has a lemma (`LastFrameStep`,
`KillStep`...) with one step for each part.

### Control mode

From `ControlAssumption` (what is there in the beginning is within the bounds,
a line is no pane, sizes are natural numbers). `OutputInv` says the types, that
`control_write_callback` keeps its own state in step, and of every client
`Good`: of each pane, with the buffer `b` and the bytes `m` of it that are read
but not yet written, `AtPane`:

- `Scheduled`: only a pane the client keeps offsets for, neither off nor
  paused, has blocks; it is pending and EV_WRITE is set. That it is not off or
  paused is what makes switching it on, or continuing it, safe: there are no
  blocks that stand for bytes before the new offset.
- `Read`: nothing is queued, and no line waits for anything, that the parser
  has not read, so that a pane that starts again where the parser is comes
  after all lines; and the buffer is not drained past a client that may be
  sent more.
- `Expects`: the next byte to be written is the one that is due.
- `InOrder`: if the blocks stand for the bytes between the offsets (`Exact`),
  no line waits for a byte that is queued behind it.

`BufferKept`, `LineAfterOutput` and `NoGap` follow at once; none of them is
inductive alone, since they speak of clients that are sent output now, and a
client that is suspended, silent or paused may be so again. `InOrder` needs to
know how many bytes of a pane are ahead of each place of the queue (`Ahead`,
defined by recursion over the queue). Removing a block, taking bytes from one,
writing the lines in front, discarding a pane's blocks and appending one are
five lemmas about `Ahead` (`LeftRemoved`, `LeftSmaller`, `LeftTail`,
`LeftWithout`, `AheadAppend`), each by induction over the places of the queue.
A function of control.c then has one lemma (`WriteLineGood`, `FlushLinesGood`,
`MoveToGood`, `EnqueuedGood`...) that says that it keeps a client `Good`, and
an action one that puts these together.

### Starting a server

From `StartAssumption` (servers are numbers other than 0, which is nobody, and
clients are finitely many, so that there is always a lock file nobody has open).
`StartInv`: a lock file is locked by one process (`OneHolder`); a client has it
open only from opening it until it goes on (`OpenWhenAsked`); only a server that
runs holds one (`HoldersRun`); until there is a conflict one process at most is
a server or about to fork one (`OneStarter`), and a server that is past bind has
the socket's name (`BoundHasName`). `OneServer` is not inductive: that two
processes never start a server under the lock of the file that has the name
needs to know who holds it on the way there, a client until it has forked, the
server from then on.

### The connection of a client

From `ClientServerAssumption` (the bounds are natural numbers). None of the
properties is inductive: each is about one side, and what it rests on is in the
queues between the two. `ConnectionInv` is about one record, `State`, of both
processes, the queues and the history:

- `Phases` and `Leaving`: the first message of a client is a command or a
  shell, and nothing is asked of it before; a client attends only when the
  server has attached it; it is told to exit only once the server counts it as
  exited.
- `FileKept`, `StreamKept`: a file of the server, and one of the client. What
  a lost client leaves is done; a stream for printing that could not be opened
  is refused, and only chunks and one request to open follow for it.
- `Matched`: only what a command reads is read.
- `Known`: as long as the client waits and no pane was killed under it, a file
  that is opened gets its request to open first, its chunks after it and its end
  last, and at most one answer is on its way (`Ordered`, `InTurn`).
- `Sums`: of every stream what the client has written, what it is about to
  write, the chunks in the queue and what is left with the server make up what
  was printed; and what was printed when the message to exit was sent is before
  that message. A message that is taken, a chunk that is written and a file
  that is pushed each move a chunk from one of these places to the next.
- `Awaited`: a command that waits has an answer coming (`Coming`).

The proof goes function by function. A step of the server is followed through
the records its functions take and give (`Keeps`, at each point where the
messages sent so far are behind what was queued): `SendFileKeeps` says which
message about a file may be sent when (`MayFollow`), `FlushedKeeps` when the
data may (`MayWrite`), and `PushKeeps`, `PrintedKeeps`, `AskKeeps`,
`DoneKeeps`, `LostKeeps`, `DispatchedKeeps` put these together. A step of the
client takes at most one message, says at most one thing and changes one file
(`Does`): `FileFits` and `OpenFits` say what it may then make of that file, and
`Taken...` that nothing else is disturbed. What counts chunks is in six lemmas
about queues (`ChunksNext` to `ChunksPushed`).

`Lost` finishes the files of a lost client all at once, where the code
goes through its tree: no event runs between two of them.

### What is only model-checked

Liveness (`QueuesDrain`, `AnimationsEnd`, `OutputGoesOut`, `PaneReadAgain`,
`ClientsGetThrough`, `LeavesWhenTold`): fairness and ENABLED are out of the
prover's reach. `Layout` and its properties, which are written with RECURSIVE
operators over trees that the prover does not take; `Screen` and `Grid`, whose
operators compute data (a reflow, what a terminal shows) by folds over lines
that would need induction over data. `Session` likewise: killing a window,
destroying a group, finding clients another session and renumbering are folds
over the sessions and clients, one visit working on what the one before it
left, and what a fold keeps is again shown by induction over data.

## 6. What is not modelled

Of the modelled parts: floating panes, the sizes of several clients on one
window and the text of a layout string; panes that change windows (break-pane,
join-pane between windows); handlers run from inside hooks; `remain-on-exit`
under animations; attributes, tabs, titles, images, selections, borders and the
status line of a screen; the parser's own states; in control mode subscriptions
and the choice of which notification goes to which client; identification,
version and size messages of a client.

Not at all: alerts, paste buffers, prompts, menus, popups and tree modes beyond
their overlays; options and the environment; key tables and what terminals send;
copy mode beyond its scrolling: planned, see section 2. Formats, styles, the
command parser, access control and text utilities compute data. The portability
layer, fuzzers and scripts are third-party or test code. PROJECT.json lists
every component with its status.
