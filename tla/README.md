# TLA+ models of lpm

lpm runs a developer's projects: it starts each project's services in panes, keeps
coding agents in terminals, and shows both on other Macs, on phones and in browsers.
This directory models the parts whose correctness depends on the order in which
processes, threads and messages act, checks them with TLC on small instances and
proves the most important properties with TLAPS.

Rust paths without a directory are under `src/desktop/frontend/src-tauri/src/`,
TypeScript ones under `src/desktop/frontend/src/`; `relay/` is `src/relay/`.

## 1. The system

| Part | State | Operations | What is hard |
|---|---|---|---|
| **Session daemon** `sessiond.rs` | `Registry`: sessions → panes, `next_pane`; `IN_FLIGHT`, `RETIRING` | Start, Split, Send, Interrupt, KillPane, KillSession, Shutdown, listings | one thread per connection; the registry lock is let go between the steps of a request, before every open, close and reap |
| **Panes** `sessionpane.rs`, `panehook.rs` | `Life`: `Job`, `shell_gone`; the terminal grid | open, send, interrupt, close; `read_loop` | the shell reports prompts through the pty, and they are read late |
| **Process trees** `proctree.rs` | none | `trees`, `kill_pids`, `kill_pids_async` | snapshot before kill; a tree that ignores SIGTERM |
| **Daemon's life** `sessiond.rs`, `daemonize.rs` | a lock file, a socket file, the janitor's count | `run`, `take_lock`, `retire`, `start_janitor` | daemons race to start; unclean exits; idle exit against a new request |
| **Client** `sessionclient.rs` | a connection per request | `query`, `command`, `start_daemon` | timeouts, one retry, daemons that retire meanwhile |
| **Services** `services.rs`, `sessions.rs`, `readiness.rs` | `RunState` and an `op_lock` per project | start, stop, toggle, restart; lines held back until a dependency is ready | the run state against what the daemon holds; readiness threads |
| **Output to peers** `ptyring.rs`, `peer.rs`, `peerclient.rs` | a ring per terminal with absolute offsets; per connection a queue and subscriptions; at the viewer the offset applied | tee, subscribe, resume, resync, switch hosting | full queues drop frames; connections drop; output goes unrecorded while hosting is off |
| **Agent status** `status.rs`, `donehold.rs` | entries with revisions; held Done reports | set, clear, hold, publish | holds observe and publish in separate steps |
| **Send later** `send_later*.rs`, `sendLater/`, `store/sendLater.ts` | the schedule in memory and on disk with a revision; the window's copy; the runner's attempts, holds, retries and one timer | add, reschedule, send now, remove, settle, launch; snapshots; pump, attempt, type, file, edit, cancel | saves that fail; a snapshot against a later one; awaits between deciding and typing; one timer for every deadline; restart |
| **Tab sharing** `tabshare.rs`, `sharerelay.rs`, `peer/guest.rs`, `relay/src/room.ts`, `relay/public/` | shares and their guests; the host's connection and a session per guest; the room's sockets and storage; the page's connections and its seat | dial, welcome, join, let in, enter, remove, stop; host, guest, close, end, left, alarm; reconnect, leave | three parties over lossy connections; the host replaced by its own reconnect; late closes; reconnects that wait |
| **Terminal tabs** `hooks/terminals/`, `paneTree.ts`, `paneSpot.ts`, `pendingClose.ts`, `terminals.ts` | a split tree of panes, the focus, closes behind undo toasts, terminals being started, the saved panes and the resume list | open, split, move, close, undo, restart, resume, apply a layout, save, restore | `StartTerminal` is awaited while panes go; two ways to claim a close; a restore that partly fails; a window that reloads |
| **Auto sync** `autosync.rs` | pending, running, debounce, backoff per peer | notify, tick, complete | triggers dropped by a gate |
| **Run guard** `runguard.rs` | processes a run has started | sweep, record | reuse of pids, a table older than the marks |

The app, the CLI and the mobile server are clients of the session daemon over its
socket. The daemon outlives the app: it is the same binary started again with
`--session-daemon`. A terminal's flush thread calls `tee_output` for every chunk, and
connection threads on the host answer viewers. The window types a scheduled prompt into
a terminal tab: a closed tab files its prompts, and a restored one makes them wait again.
A shared tab's guests reach the host only through the relay's room, over one connection
of the host's. `PROJECT.json` lists every other part
with the reason it is left out, and every hazard with the line where it bites and the
property that would catch it.

What makes the parts correct:

* the daemon forgets no process it started, and ends the ones it is told to end;
* a request changes its own panes and sessions only, and a failed one leaves nothing;
* one daemon at a time owns the socket, and a client always gets to an end;
* what a pane says of its service is true;
* a viewer's screen shows the output in order, once, and without holes, and a hole is
  never resumed from;
* a scheduled prompt stays on the schedule until its text is somewhere else or the user
  took it off, is typed once, and goes out once it can;
* room, host and page agree on who is in a shared tab, and a guest comes back by itself;
* a running pty has a tab, a tab is in one place, and no session is lost.

## 2. Modules

| Module | Models |
|---|---|
| `SessionDaemon` | the registry and its requests, teardown, and the processes under the panes |
| `MCSessionDaemon` | its instances |
| `SessionDaemonProofs` | its theorems: types, that the registry and the panes agree, and what an answered request promises |
| `DaemonLife` | daemons, lock, socket, janitor, connections and clients |
| `MCDaemonLife` | its instances |
| `DaemonLifeProofs` | its theorems |
| `PaneJob` | one pane: operator, shell and reader thread |
| `PaneJobProofs` | its theorems |
| `PeerStream` | one terminal's output from the ring to one viewer |
| `PeerStreamProofs` | its theorems: types, order and resuming |
| `PromptLife` | what Send later promises about a prompt, without windows, events or saves |
| `SendLater` | the schedule, the window's copy, the runner and the ways off the schedule; refines `PromptLife` |
| `MCSendLater` | its instances |
| `SendLaterProofs` | its theorems, the refinement included |
| `ShareRoom` | the relay's room, the host's connection and sessions, the guest's page |
| `ShareRoomProofs` | its theorems |
| `PaneTree` | the split tree and where a closed pane comes back |
| `PaneTreeProofs` | its theorems: what its operators do to any tree |
| `Terminals` | the tabs of one project over `PaneTree` |
| `TerminalsProofs` | its theorems |

Definitions whose comment begins with *Deviation* or *Mutant* are bugs the code does not have;
each shows that a property can fail (`mutants` in `PROJECT.json`).

### SessionDaemon

`keys` and `home` are the map of sessions to panes; the order inside a session is left
out. `tree[p]` is what runs under a pane: `unborn`, `up`, `gone` (its shell exited by
itself), `dying` (closed by the daemon, processes left) or `dead`. Each thread has a
program counter and the locals of the function it is in: `todo` and `opened` of
`open_panes`, `fresh` for a pane opened and not yet listed, `doomed`, `victims` and
`mode` of `teardown`. An action is one critical section of the registry's mutex, or one
step outside of it:

| Code | Actions |
|---|---|
| `serve` | `Recv`, `Admit`, `Reply` |
| `handle` | `StartTakes`, `SplitFinds`, `SendFinds`, `SendTypes`, `SendErrs`, `KillPane`, `KillSession`, `Refuse` |
| `open_panes` | `OpenNext`, `OpenNextFails`, `PushOpened`, `OpenDone`, `Rollback` |
| `reopen` | `Reopen`, `ReopenFails`, `ReplaceGone`, `ReplaceMisses` |
| `teardown`, `kill_pids`, `kill_pids_async` | `Snapshot`, `Close`, `KillPids`, `Reap` |
| `Shutdown`, `retire` | `Retire`, `Drained`, `DrainExpires`, `Sweep`, `SpawnExit`, `DaemonExit` |
| processes | `ShellExit`, `TreeDies` |

`next_id` and `Pane::open` are one step, since nobody can name the id before the pane
is listed; a failing open uses an id up and may have spawned and closed a shell. The
exit of a shell is taken together with the reader thread's note of it, and SIGKILL is
taken to work at once. The listings, `Capture` and `Version` only read. The Windows
teardown, which sends ^C first, is not modelled.

### DaemonLife

Daemons are numbered in the order they are launched. `lock` and `socket` are the two
files; `socket` may name a daemon that is gone. Each client has two connections, the
first try and the one after `start_daemon`, and each connection a `stage`: open, sent,
busy (counted in `IN_FLIGHT`), admitted, drain, handled, replied, closed. Requests are
abstracted to Start, KillSession and Shutdown on a session of the client's own. The
janitor's two reads, its unlink and its exit are four steps. Timeouts
(`REPLY_TIMEOUT`, `LOCK_WAIT`, `RETIRE_WAIT`, `STARTUP_WAIT`, `DRAIN`) may pass whenever
the waiting goes on. `held` takes the free lock for an instant when it probes it, which
a waiting daemon retries past; that instant is left out. A client makes no new request
while an abandoned one is still being served (`Settled`).

### PaneJob

Lines are numbered as they are typed. The shell is starting, at its prompt, running a
line, or gone; every prompt puts a report in the pty, and the reader thread applies
`at_prompt` to them one at a time. The operator stops, restarts or types a held-back
line, one operation at a time as the project's `op_lock` makes it. Nothing is in time: a
shell may take as long as it likes to its first prompt, a line to its end and the reader to
a report, and `RESTART_WAIT` may run out on any restart (`WaitExpires`), which then types
whatever the shell does. Such a line, and one typed into a shell that is not at a reported
prompt (`Settled`), is `rushed`, a history variable: the pane can show its end too early,
because the report that comes first is of the prompt or the line before it. The properties
say that these are the only exceptions, and that the pane is right again from the next line
that finds the shell settled, or a shell opened anew. The second ^C that Windows sends
halfway through the wait is left out.

### PeerStream

A chunk is one unit of the stream, so offsets count chunks. The ring, `tee_output` in
its two steps (append and list the viewers under the rings; queue the frame after),
`apply` in its two steps (switch `listening`; retire the offsets), the connection thread
(drain the queue, then read one message), the wire, and the viewer with the offset it
holds and the pacing of its resyncs. Left out: the partial first line a replay drops,
the terminal's end (`tee_exit`, `drop_ring`), the floor of a shared tab's replay, more
than one call of `apply` at a time, and the end of a viewer's interest (`unsub`).

### PromptLife and SendLater

`PromptLife` has five sets and counters: prompts ever scheduled (`known`), on the durable
schedule (`board`), taken off by the user with their text on its way back (`hand`), how
often this run of lpm typed each (`typed`, 0 or 1) and those whose text is somewhere else
(`safe`). A prompt leaves `board` only when it is in `safe` or by the user's hand.

`SendLater` has the code behind it. `items`, `rev` and `disk` are `SendLaterStore` and its
file, `clock` where each `dueAt` lies; `events`, `fetch` and `reply` the snapshots on their
way to the window, `view` and `viewRev` the window's copy; `attempt`, `sent`, `wait`,
`recent`, `queued`, `armed` and `gone` the maps and sets inside `startSendLaterRunner` and
the reconciler; `drop`, `filing` and `taking` the removals under way.

| Code | Actions |
|---|---|
| `send_later.rs` | `Add`, `Reschedule`, `SendNow`, `Settle`, `Launch`, `ListReplies`, and `Mutate` and `Remove` inside every removal |
| `store/sendLater.ts` | `WindowStarts`, `FetchArrives`, `EventArrives` |
| `runner.ts`, `reconcile.ts` | `Pump`, `Look`, `Uploaded`, `Elapse`, `DropSent`, `DropAgain` |
| `closeout.ts`, `actions.ts` | `KeepAsDraft`, `DraftSaved`, `DraftRemoves`, `TakeOff`, `PutBack`; `CloseTab` and `Pump` file the prompts of closed tabs |
| outside | `Tick`, `Crash`, `OpenProject`, `CloseTab`, `AgentMoves` |

JavaScript runs from one await to the next, so `Look` is everything between the answer of
`TerminalForegroundCommand` and the upload, typing included when there are no images.
Times are what may have passed: a deadline is armed (`armed`) and may pass whenever
(`Elapse`), and a timer is there for those prompts only whose deadline the last pump
handed to `arm`. A save that fails rolls a change back, except the clock thread's, whose
change stands in memory. The refinement takes `board` from the file, so a save that fails
and a restart that reads the old file are steps of it. Left out: texts, labels, the order
by time, the hold badges, several projects, `closeProject` filing, and a copy of lpm that
is not the sender.

### ShareRoom

A WebSocket is two queues, `toHost`/`fromHost` and `toPage`/`fromPage`; names of
connections are used again when nothing holds them. `hostSock`, `guestSock`, `claimed`,
`ended` and `alarm` are the Durable Object's sockets and storage. Its handlers run one at a
time and its storage awaits let no event in, so each is one action; only the digest that
`host` awaits first is a state of its own. `link`, `dial`, `known` and `session` are
`sharerelay.rs`' loop and the thread per guest in `peer/guest.rs`; `page`, `screen`,
`finished`, `joining`, `channel` and `timers` the guest's page. A page that closed its
socket hears only how it closed, which `channel.js` relies on.

| Code | Actions |
|---|---|
| `room.ts` | `RoomHost`, `RoomGuest`, `RoomForwards`, `GuestLeft`, `HostLeft`, `RoomClosesGuest`, `RoomEnds`, `RoomDelivers`, `RoomForgets` |
| `sharerelay.rs` | `Dial`, `DialFails`, `Dialed`, `EndsRoom`, `ReadsClose`, `ReadsOpen`, `ReadsGone`, `ReadsFrame` |
| `peer/guest.rs`, `tabshare.rs` | `ReadsFrame`, `Answer`, `SessionTimesOut`, `SessionEnds`, `Stop`, `RemoveGuest` |
| `app.js`, `channel.js` | `Join`, `CancelJoin`, `HearsReply`, `HearsJoined`, `HearsReady`, `HearsEnd`, `HearsClose`, `HandshakeTimesOut`, `Reconnect`, `Leave`, `Again` |
| network | `LoseHost`, `LoseGuest` |

Left out: the handshake's cryptography (one round trip), output and input once a guest is
live, typing rights, guests that come over a paired machine, a token that claims another's
room, and oversized messages.

### PaneTree and Terminals

A tree is a function from leaf paths to panes, so that removing, splitting and restoring a
pane are moves of paths; `WellFormed` says that it is a tree. `RemovePanes` closes several,
as a batch close and a restore do; the order is any. `Terminals` holds the tree
and focus of `useTreeCore`, the two maps of `pendingClose.ts`, the `StartTerminal` calls
under way (`flights`), the ptys that run, the saved panes with `holdPanesRef`, and the
resume list. A tab is a pty and the session its resume command names. Ids are the least that
nothing refers to; a restore, which makes many at once, gives them out in any way (`Fresh`).

| Code | Actions |
|---|---|
| `useTabCreation.ts`, `useApplyLayout.ts`, `useTerminalRestart.ts`, `splitPane` | `AskTab`, `AskSplit`, `AskRestart`, `AskResume`, `AskLayout`; then `TabLands`, `SplitLands`, `RestartLands`, `ResumeLands`, `LayoutLands` or `StartFails` |
| `usePaneOps.ts` | `EnsureRootPane`, `FocusTerminal`, `FocusService`, `FocusPane`, `ReorderTerminals`, `MoveTerminal` |
| `useTabClose.ts`, `usePaneClose.ts` | `CloseTerminal`, `CloseOthers`, `CloseTerminalsById`, `ClosePane`, `UndoClose`, `FinalizeClose`, `UndoPaneClose`, `FinalizePaneClose` |
| `useSessionRestore.ts`, `useTerminals.ts`, `leftoverPtys.ts` | `Unmounts`, `Quits`, `Reloads`, `Mounts`, `Restore`; `live` in every `Persist` |
| pty | `PtyDies` |

`view` says whether the project's view is mounted. An unmount makes every close behind a
toast final and stops the ptys of the tree, cancels a restore under way and settles it; the
view keeps its tree for the calls that are not answered yet, which still land and save. A
quit and a reload drop the page with all it kept. A quit ends the ptys; a reload does not,
nor the terminals being started and those of a restore: the next mount stops the ones in
`live` (`rememberLivePtys`), and the others are `stranded`, with no tab for as long as they
run. `forgone` are the sessions whose close was behind a toast when the page went.
`stranded` and `forgone` are history variables for the two exceptions that `NoOrphan` and
`NoSessionLost` name.

`Races` names three orders of events that the code lets happen and that break what the rest
keeps, so that they are studied apart. `terminals` runs without all three:

* `unmount`, the view goes while the restore is under way and calls are waiting for it, which
  go on (`view` is `woken`): run `terminals_unmount`. Without it, a view unmounted then
  is left alone;
* `resume`, a session resumed before the restore has settled (section 3);
* `close`, the pane a terminal is being added to closed meanwhile: `addTerminal` then gives
  an empty tree a root pane under the asked id (`useTabCreation.ts:95`), which an undo of
  that close brings back a second time, although "the pane id must be minted once"
  (`usePaneOps.ts:102`).

One more order of events is left out, by a guard of `Mounts`: a call of a view that is
answered only after the next view of the project was mounted. The old view would then save
its own tree over the new one's, as `persist` does not ask whether its view is still there.
Left out too: browser tabs, tabs of paired machines, mirror windows, names, colours, pins and
split ratios.

## 3. Runs

| Run | Properties | Shows |
|---|---|---|
| `panes` | `TypeOK` `NoLeak` `ListedNotClosed` `WaitedMeansReaped` `RollbackComplete` | two threads on one session, up to three panes, batches of none and two, opens failing and shells exiting anywhere (3.0 M states) |
| `shutdown` | `SessionsHoldPanes` `SweptClean` `OnlyOwnPanesLeave` | two threads, two sessions, shutdown among the requests (2.3 M states) |
| `daemon_live` | `Answered` `ReapedInTheEnd` | liveness under fair threads |
| `owner` | `TypeOK` `OneOwner` `ServingIsReached` | two clients, three daemons, unclean exits (1.8 M states) |
| `life_live` | `RequestsEnd` `RetiringEnds` `IdleEnds` | liveness under fair threads |
| `pane_job` | `TypeOK` `EndedMeansEnded` `CodeOfLastLine` `RestartTypesAtPrompt` | four lines, any of them rushed (10 150 states) |
| `stream_resume` | `TypeOK` `ResumableMeansWhole` `NeverTwice` | five chunks, ring of three, queue of two, hosting switched twice, drops and reloads (0.7 M states) |
| `send_later` | `TypeOK` `ViewCatchesUp` `StaleNeverTyped` `Implements` | one prompt with images, two acts of the user, two failed saves or uploads, a restart: refines `PromptLife` (1.0 M states) |
| `send_later_live` | `DueGoesOut` `ClosedIsFiled` | a prompt for when the agent is done, an agent that turns busy once, a tab closed once: liveness under fair threads (73 096 states) |
| `share_room` | `TypeOK` `NoGuestStranded` `NothingKeptForGood` `HostKnowsGuests` `ComesBack` | one guest, two connections at a time on either side, one of them lost or timed out (0.5 M states) |
| `terminals` | `TypeOK` `FocusThere` `NoOrphan` `InOnePlace` `NoSessionLost` `UndoIsExact` | two panes, two ptys, one session, every operation, failures, unmounts, reloads and quits (0.35 M states) |
| `terminals_unmount` | `NoSessionLost` | **violated**: a view unmounted during its restore |

**Bounds.** Two threads suffice for every race between two requests; a third would only
matter to three-way races over the same pane, which the theorems cover for the proved
properties. Three panes allow a batch of two with an older or a reopened pane beside
it. Two sessions show that a request touches its own. Three daemons allow one that
retires, one that waits for its lock and one that loses the race; `IDLE_TICKS` is 1, so
that idle exits are frequent. `life_live` has two clients and one daemon, past which a launch
starts nothing: a request has to end also when no daemon ever comes up (a second daemon
takes the liveness check past any useful time). Four lines allow a restart over a report of the line
before the last. The ring is larger than a replay and smaller than the output, and the
queue smaller than both, so that chunks are lost by all three.

One prompt and one terminal are enough for everything `PromptLife` says, which is about a
prompt; what two prompts for one terminal do to each other (`Busy`, `Starts`, `recent`) is in the
model and too large for a run beside failing saves and a restart. Two acts
let the user undo what a snapshot has not shown yet, and two failures let both removals of
a typed prompt fail. `share_room` loses one connection, once, at any place: that is the
room replacing its host, the page coming back, or a handshake that times out; `MAX_GUESTS`
is 1, so that a seat still held by a lost connection refuses the next. Two panes and two
ptys let a split land beside, a pane close whole and a tab move to a pane that is there;
`UndoIsExact` checks trees of up to five panes besides (`Splits`), which is where a closed
pane's sibling is itself split. `MaxStarts` and `MaxOpen` bound the
terminals being started, one at a time, and those and the closes that can be undone together, two.
`terminals_unmount` has room for one.

**Deadlock** is not checked in `SessionDaemon`, `PaneJob` and `PeerStream`: a daemon may
exit, a pane's shell may end, and output ends at its bound; nor in `SendLater`,
`ShareRoom` and `Terminals`, where the user need do nothing more. It is checked in
`DaemonLife`, where clients can always ask.

**Fairness.** Weak fairness of each thread that has something to do: they block on
mutexes held for bounded sections, on waits with a limit and on sleeps. Requests,
output, crashes, shell exits, hosting switches and reloads are never forced; a closed
process tree is not assumed to die by itself. In `SendLater` the clock
thread, events, replies, the runner's steps and its timer are weakly fair: microtasks,
promises and timeouts run. A terminal tried for ever takes a prompt in the end (`Accepts`,
strongly fair), since `sendToTerminal` refuses only while its pane is not mounted, and an
agent comes to rest. In `ShareRoom` the room handles what arrives, lpm dials and reads, the
browser delivers and fires its timers; people owe nothing. `PeerStream` is checked for
safety only.

**What the violation shows.** `terminals_unmount`: a running project is opened, and the user
goes to another one while its tabs are being restored. Its view has asked for a root pane
(`TerminalView.tsx:367-370`), and `ensureRootPane` awaits the restore. The cleanup of
`useSessionRestore` settles the restore it cancels (`:187`); `ensureRootPane` goes on, finds no
tree, and saves an empty pane over the saved tabs. The restore, when it lands, is cancelled and
records nothing (`:119-138`). So the sessions are in no list, and there is nothing left to
restore: what `usePaneOps.ts:104-107` says the await is there to prevent.

The models contain more behaviours that comments or neighbouring code do not foresee, and
that no run singles out:

* `sessiond.rs:310`: Start reaps what it takes, but not what an unwaited KillPane (a
  service toggled off and on), KillSession or rollback just took; the replacement may meet
  the dying one on its port.
* `sessiond.rs:482`: the janitor reads `IN_FLIGHT` before the unlink and the exit; a
  request admitted in between is cut off.
* `sessionclient.rs:47`: a daemon that goes between connect and write is an error, not a
  retry as it is between write and read.
* `sessionpane.rs:141`: a held-back line typed before the shell's first prompt is shown as
  ended by that prompt, and one typed when `RESTART_WAIT` ran out may be by the report of the
  line before (`rushed` in `PaneJob`); a stop before the first prompt does not keep the line from
  running.
* `peerclient.rs:366`: a loss within `RESYNC_MIN_INTERVAL` of the last resync is never
  asked to be repaired, as the dropped offset hides later losses.
* The exit after a Shutdown ends the threads that reap for earlier requests, so a tree that
  ignores SIGTERM survives; a slow answer reads like a closed connection, and the request is
  made twice; a viewer that subscribes again on a live connection is sent frames already
  queued after the replay that holds them, which is why `NeverTwice` speaks only of
  connections that subscribed once.
* `sendLater/actions.ts:148`: an edit checks that the text can be put back before it
  removes the prompt; a tab closed in between leaves `putBack` with no place for it.
  `PromptLife`'s `HandOver` allows this.
* `relay/public/app.js:324`: Leave closes the channel before its `forget` is sealed, so the
  host keeps the seat; `:288`: Leave while a reconnect waits for its handshake does not
  stop it, and the page comes back; `:278`: `onClose` forgets the current channel,
  whichever connection closed; `:148`: a join canceled while it is let in leaves a seat
  nobody holds. A share stopped while the host is offline never tells the room, so its
  guests retry for as long as their page is open.
* `hooks/terminals/useTabCreation.ts:268-300`: `resumeFromHistory`, unlike the other ways to
  open a tab, does not wait for the restore. A phone that resumes a session of a project not
  on screen mounts it and resumes at once; the tab lands first, its entry leaves the resume
  list, and the restore's `setTree` (`useSessionRestore.ts:148`) replaces the tree: the pty has
  no tab and the session is in no list, the case that the comment on `restoreSettled`
  describes (`useTerminals.ts:42-44`). With `Races = {"resume"}` in `Terminals.cfg` TLC finds `NoOrphan`
  violated, and `NoSessionLost` when checked alone.
* `hooks/terminals/leftoverPtys.ts:14`: ptys behind an undo toast, those being started and those
  of a restore before its first save are not remembered for a reload, and run on (`stranded`).
  A quit or a reload within the undo window leaves the closed session in no list (`forgone`),
  although "nothing orphans on unmount/quit" (`useTabClose.ts:378-381`): only an unmount
  finalizes the close. `NoOrphan` and `NoSessionLost` except these by name.

## 4. Theorems

Every theorem is about `Spec` with all constants arbitrary, and its assumptions are those its
module states; those of `Terminals` take `Races` as given below. Each follows from an inductive
invariant, which TLC checked on the module's run before it was proved. The proofs have one lemma
per action, or per group of actions that disturb the same variables, with a step per conjunct.

| Theorem | States | In |
|---|---|---|
| `TypeCorrect` | `TypeOK` | `SessionDaemon`, `DaemonLife`, `PaneJob`, `PeerStream`, `SendLater`, `ShareRoom`, `Terminals` |
| `NothingLeaks` `SessionsExact` `ListedAreOpen` | `NoLeak` `SessionsHoldPanes` `ListedNotClosed` | `SessionDaemonProofs` |
| `WaitsForTheEnd` `RollsBackWhole` `SweepsClean` `OthersPanesStay` | `WaitedMeansReaped` `RollbackComplete` `SweptClean` `OnlyOwnPanesLeave` | `SessionDaemonProofs` |
| `LockExcludes` `SocketLeadsToServing` | `OneOwner` `ServingIsReached` | `DaemonLifeProofs` |
| `EndedIsOver` `StatusIsTheLast` `RestartIsAlone` | `EndedMeansEnded` `CodeOfLastLine` `RestartTypesAtPrompt` | `PaneJobProofs` |
| `OneOrTheOther` `ResumesWhole` | `NeverTwice` `ResumableMeansWhole` | `PeerStreamProofs` |
| `WindowCatchesUp` `StaleStaysUntyped` `Refinement` | `ViewCatchesUp` `StaleNeverTyped` `Implements` | `SendLaterProofs` |
| `GuestsHaveHost` `StorageIsTemporary` `RoomAndHostAgree` | `NoGuestStranded` `NothingKeptForGood` `HostKnowsGuests` | `ShareRoomProofs` |
| `RemoveKeepsTheOthers` `SplitAddsAPane` `RemovePanesKeepsTheOthers` `ClosedPaneComesBack` | of any tree | `PaneTreeProofs` |
| `FocusedPaneIsShown` `TabsAreInOnePlace` `UndoPutsBack` | `FocusThere` `InOnePlace` `UndoIsExact` | `TerminalsProofs` |
| `NothingOrphaned` `SessionsKept` | `NoOrphan` `NoSessionLost` | `TerminalsProofs` |

**Session daemon.** For all sets of sessions, services, batches and threads and every
`MaxPanes`; batches are sequences of services, `MaxPanes` is a natural number, and
`NoSession` is no session's name. `NoLeak` alone is not inductive. It needs to know

* that a pane just opened is in nobody else's hands (`FreshApart`), so that listing it
  or tearing it down is what becomes of it;
* that what a teardown has been handed is not listed any more, and that whatever still
  lives when it is closed is in the snapshot (`DoomedApart`): this is where the order
  snapshot, close, kill is used;
* that ids not drawn yet are known to nobody (`Undrawn`), so that a fresh pane is apart;
* that a pane being replaced has no living shell (`ReopenedGone`);
* which request runs which code (`Served`).

What the requests promise rests on a second invariant (`JInv`): what the teardown a thread runs
is for (`RoutedAt`), that what failed of a batch is in the hands of the one that rolls it
back (`BatchedAt`), and how far the trees of a waited one have come (`ReapedAt`). Other
threads do not undo it because `IInv` keeps the panes of different threads apart and a tree
only goes onward. That no pane leaves the registry but by its own request is an action
property, proved from `IInv` step by step.

**Daemon's life.** For every set of clients and every number of daemons, when `Ops` are
known requests, `IDLE_TICKS` is positive and `MayCrash` Boolean. Only the holder of the
lock binds or serves; the socket file is changed by the daemon that binds, by one that
retires and by one whose janitor goes, and each of these holds the lock, so nobody else's
socket is unlinked. `Connected` says that a thread that serves, and so may unlink, serves
for some daemon; `Counting` that a janitor that goes on has not counted to the limit.

**Service panes.** For every number of lines, and however long shells, lines and the reader
take. The types hold throughout; the other three theorems are about lines that were not rushed,
as `PaneJob` states them, for of a rushed one they are false (see section 3). A line stays
rushed until the next is typed or its shell is replaced (`StaysRushed`), and a line typed to a
settled shell starts the count afresh, whatever `job` had come to. The
invariant is a count. `job` says how many reports the reader still expects before the
pane has ended (`Level`), `Owed` how many are unread in the pty or will come there; between
operations `Level` is at least `Owed`, so the report that ends the pane is the last one, and it is
that of the line typed last (`OwnInv`). A restart that did not run out of `RESTART_WAIT` has seen
the pane end, so the count says that its shell is at a reported prompt (`RestartInv`), and nothing
the shell or the reader does before the write changes that.

**Output to peers.** For every length of output, every size of ring, replay, queue and wire
and any number of hosting switches. `BoundsAssumption` asks that neither the ring nor a
replay is empty for want of room: with `SEED_CAP` 0 a viewer would be anchored to a replay
that leaves out all there is, and TLC shows `ResumableMeansWhole` violated; `ptyring.rs:19-20` has
512 KiB and 96 KiB. `NeverTwice` is about order: the wire, the queue and the frame about to be
queued each begin where the one before ended, or later, and the first where the screen stopped, or
later. `ResumableMeansWhole` is about epochs. Every switch of hosting starts one by moving the ring past
all offsets handed out. Within an epoch the chunk that ends at an offset is that offset plus
a constant, in the ring, in a frame and on a screen, so nothing is missing; what was held before
is below the ring for good, because a frame of the new epoch begins past the gap and a
connection from before it is closed (`Current`).

**Send later.** For every set of prompts and terminals and every number of acts, failures
and restarts. The argument is about snapshots: the window's list, those on
their way to it, and the schedule's own. No snapshot is newer than the schedule and one as
new is the schedule (`NoneNewer`); what the events on their way leave to be caught up with has
arrived or is in the list asked for (`CatchingUp`). A prompt is on a contiguous run of
snapshots, since one that left never comes back (`Contiguous`); so one that was
typed, once the window shows it no more, is on no later snapshot and is not typed again
(`TypedOnce`). With `SafeFirst` (what is being removed is safe already) every step of
`SendLater` is a step of `PromptLife` or changes none of its variables, which is
`Refinement`; the liveness of `SendLater` is no part of it.

**Tab sharing.** For every set of connections on either side and every number of joins and losses.
What makes a guest known to the host is an `open` on its way, then a session; what
ends the session puts a `close` on the way back. A step of either end takes the one only by
putting the next in its place (`GuestsKnown`). The three properties hold from the first;
what has to be added is `EndedEmpty`, that an ended room has no open host, and types
(`Shape`). The types are the harder half, for a seat's number is bounded only because each
seat answers a request of its own. A connection's request is one errand: the page's request, the
host's word that it came, the handshake, the reply, the asking, each of which is taken
where the next is put, so that it is in one place only (`OneErrand`); a connection whose id is used
again has none left over. The seats granted and the joins whose errand is under way are no more
than the times the guest asked (`Counted`).

**Split trees.** For every finite tree, of whatever size and depth. A tree is a set of leaf
paths none of which is on the way to another, with two sides to every split, so what an
operation does is told by the order of paths (`PrefixOrder`, `TurnOrder`, `JoinOrder`). A
removal moves what is below the sibling up a node, a split moves what is below a node down one,
and the moves are inverse: `RemovePane` and `SplitNode` give trees again and leave every other pane
as it was. That the way back starts at the same node is `SameLeaves`: a spot names the node by
the panes under it (`siblingPaneIds`), and two nodes with the same panes under them are the same.
From these, `ClosedPaneComesBack`: for every tree and every pane of it, `paneSpot`, `removePane` and
`restorePane` give the tree there was. `paneSpot.test.ts` tries one tree and the runs try those of
up to five panes.

**Terminal tabs.** For every bound on panes, ptys, sessions, calls and closes. The first
invariant, `Inv`, says

* that the tree is a tree in which no name and no pty comes twice and every pane's active tab is
  there (`GoodTree`), and the focus is in it (`Focused`);
* that the tabs held behind a toast are apart from those shown and from one another, and that a held
  pane's name is in no tree and no call, and all of its tabs are held (`Held`);
* that what is saved, and what is being restored, is a tree (`SavedOK`), and that only sessions
  there have been are anywhere (`Known`).

It rests on names: what is made has a name that nothing shown, held or asked for has. Each operation
has a contract in the shape of `Shows`: it shows and saves a good tree with these tabs, in panes
of those names; the operations compose moves of panes, whose contracts are the theorems about
trees, and changes of one pane's tabs. `Inv` is kept if `"close" \notin Races` (the theorems
say `Races \subseteq {"resume", "unmount"}`), and it is not otherwise: section 2 describes how
a pane's name comes back twice. So `TypeCorrect` (with `Page`, the types of what outlives a
view), `FocusedPaneIsShown`, `TabsAreInOnePlace` and `UndoPutsBack` hold also with the resume
that comes before the restore and with an unmount that wakes what waited for it.

The second invariant, `Accounted`, adds where ptys and sessions are. While a tree is in use
(`Busy`: it is shown, or a view that is gone still has calls to land in it), every pty that is
not stranded and every session in no list has a tab in it (`Placed`), and a session on screen is
saved or listed already (`Backed`, for the page may go at any time); while no view is mounted
nothing is held behind a toast (`Away`); and no restart under way is of a pty that runs. It needs
that nothing is on screen or asked for while the restore runs (`Quiet`), which is what
`resume` breaks, and that a view whose restore was cut short is left alone (`Away`), which is
what `unmount` breaks. So `NothingOrphaned` and `SessionsKept` are stated for `Races = {}`, the
setting of the run `terminals`; `terminals_unmount` and section 3 show that the second is false
without.

What is defined over the sizes of a set (a fold, a sorted sequence) or the length of a sequence
is proved from its equation: that a function with that equation exists, and what it gives,
by a least size at which it fails (`LeastNumber`). So no induction rule with a predicate for a
parameter is needed.

Only model-checked: all liveness (`Answered`, `ReapedInTheEnd`, `RequestsEnd`, `RetiringEnds`,
`IdleEnds`, `DueGoesOut`, `ClosedIsFiled`, `ComesBack`), since fairness and `ENABLED` are out of the
prover's reach.

## 5. Plan

Done: the session daemon, its process, panes, output to peers, Send later, tab sharing and
the terminal tabs; and the theorems above, which state every safety property of the runs.
Next, in this order:

1. `Services`: `op_lock`, `RunState`, toggles and readiness threads over an abstract
   specification of the daemon (sessions to sets of services), which `SessionDaemon` is to
   refine.
2. `StatusHold`: the status store's revisions and the hold threads of `donehold.rs`.
3. `AutoSync` and `RunGuard`.
4. A second caller of `apply` and a second viewer in `PeerStream`; the terminal's end.

## 6. Not modelled

lpm is mostly interface: of some 266 000 lines of TypeScript, the larger part are React
views, generated bindings and the website, whose state is what they show. Left out for good are
cryptography (`sharenoise.rs`, `peertls.rs`), parsing and emulation (`termgrid.rs`, hook and
transcript readers), clients of external services (Telegram, voice, updates), and CRUD on
configuration files: their correctness is in data, not in the order of steps. Later
candidates are `automations`, `keepawake`, the Claude accounts pool and the mobile server's
protocol. `PROJECT.json` lists every component with its reason.
