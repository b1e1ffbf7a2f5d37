------------------------------ MODULE SendLater ------------------------------
(***************************************************************************)
(* Prompts the user scheduled to send later: the schedule and its clock on *)
(* the Rust side (send_later.rs, send_later_model.rs), the window's copy   *)
(* of it (store/sendLater.ts), the runner that types a due prompt once its *)
(* terminal is ready (sendLater/runner.ts, readiness.ts), and the ways a   *)
(* prompt leaves the schedule unsent: the user's own (actions.ts) and a    *)
(* closed terminal's (closeout.ts, reconcile.ts).                          *)
(*                                                                         *)
(* One project and one copy of lpm, which is the sender.  JavaScript runs  *)
(* a step at a time between awaits, Rust a command at a time under the     *)
(* schedule's lock; snapshots, replies and ticks interleave between them.  *)
(***************************************************************************)
EXTENDS Integers, Sequences, FiniteSets

CONSTANTS Prompts,      \* the prompts ever written
          Terminals,    \* the tabs of the project, by historyKey
          Home,         \* the terminal each prompt is for
          WithImages,   \* prompts with images to upload
          WhenDone,     \* prompts of kind "done"
          MaxOps,       \* bound on what the user does to scheduled prompts
          MaxFaults,    \* bound on the saves and uploads that fail
          MaxRestarts,  \* bound on the times the program ends
          MaxTurns,     \* bound on the times an agent stops being idle
          MaxCloses     \* bound on the times a tab is closed

ASSUME HomeAssumption == Home \in [Prompts -> Terminals]
ASSUME KindsAssumption == WithImages \subseteq Prompts /\ WhenDone \subseteq Prompts
ASSUME BoundsAssumption ==
  {MaxOps, MaxFaults, MaxRestarts, MaxTurns, MaxCloses} \subseteq Nat

\* Where a prompt stands on a schedule.  "forced" is due with `force` set.
States   == {"none", "scheduled", "due", "forced", "missed"}
Due      == {"due", "forced"}
Schedule == [Prompts -> States]
Empty    == [p \in Prompts |-> "none"]
Snapshot == [rev : Nat, items : Schedule]

\* Where dueAt lies: ahead, reached within GRACE_MS, or further back.
Phases == {"ahead", "reached", "past"}

\* What an agent shows: not reading input yet (the shell at its prompt, the
\* agent still drawing, a model switch), its reported states, and "stale",
\* reported as working but silent for STALE_WORKING_MS.
Agents      == {"starting", "idle", "working", "stale", "asking", "error"}
Reported(a) == IF a = "stale" THEN "working" ELSE a

\* Why the runner leaves a prompt alone: refused ("retry"), or held for a time
\* ("held") or without one ("stuck"), either until its agent moves from `at`.
Waits == [why : {"no", "retry", "held", "stuck"}, at : Agents]
Free  == [why |-> "no", at |-> "idle"]

VARIABLES
  up,         \* the program runs
  items, rev, \* Schedule: the list in memory and its revision
  disk,       \* send-later.json
  clock,      \* where each prompt's dueAt lies
  fetch,      \* the window's SendLaterList: "off", "asked", "replied", "done"
  reply,      \* the snapshot that list returned
  events,     \* send-later-changed snapshots on their way to the window
  view, viewRev,  \* useSendLater: items and rev
  attempt,    \* the runner's attempt at each prompt: "idle", "foreground", "payload"
  sent,       \* runner: typed, waiting for the schedule to drop them
  wait,       \* retryAfter and held: why each prompt is not looked at now
  recent,     \* terminals whose lastSent is younger than SENT_SETTLE_MS
  queued,     \* a pump is queued
  armed,      \* the prompts whose deadline the timer is armed for
  gone,       \* goneSince: "no", "since", "over" after GONE_CONFIRM_MS
  drop,       \* dropSent: "no", "first", "pause", "again"
  filing,     \* keepAsDraft: "no", "saving", "removing"
  taking,     \* an edit or a cancel: "no", or what happens to the removed text
  tab,        \* each tab: "open", "closing" (undo-able), "closed"
  project,    \* "shut", "opening" (markVisited), "open"
  agent,      \* what each terminal's agent shows
  done,       \* prompts whose kind is "done"
  stopped     \* those of them queued before the error their agent shows

VARIABLES
  used,       \* history: prompts scheduled so far
  typed,      \* history: how often this run of the program typed each prompt
  safe,       \* history: prompts whose text was typed, filed or put back
  stale,      \* history: due or missed when lpm was launched, not asked for since
  ops, faults, restarts, turns, closes   \* what the bounds count

backend  == <<items, rev, disk, events>>
window   == <<fetch, reply, view, viewRev>>
runner   == <<attempt, sent, wait, recent, queued, armed, gone>>
leaving  == <<drop, filing, taking>>
world    == <<tab, project, agent, done, stopped>>
history  == <<used, typed, safe, stale>>
counters == <<ops, faults, restarts, turns, closes>>
vars == <<up, clock, backend, window, runner, leaving, world, history, counters>>

TypeOK ==
  /\ up \in BOOLEAN
  /\ items \in Schedule /\ disk \in Schedule /\ view \in Schedule
  /\ rev \in Nat /\ viewRev \in Nat \cup {-1}
  /\ clock \in [Prompts -> Phases]
  /\ fetch \in {"off", "asked", "replied", "done"}
  /\ reply \in Snapshot
  /\ events \in Seq(Snapshot)
  /\ attempt \in [Prompts -> {"idle", "foreground", "payload"}]
  /\ wait \in [Prompts -> Waits]
  /\ recent \subseteq Terminals
  /\ queued \in BOOLEAN
  /\ gone \in [Prompts -> {"no", "since", "over"}]
  /\ drop \in [Prompts -> {"no", "first", "pause", "again"}]
  /\ filing \in [Prompts -> {"no", "saving", "removing"}]
  /\ taking \in [Prompts -> {"no", "edit", "cancel"}]
  /\ tab \in [Terminals -> {"open", "closing", "closed"}]
  /\ project \in {"shut", "opening", "open"}
  /\ agent \in [Terminals -> Agents]
  /\ {sent, armed, done, stopped, used, safe, stale} \subseteq SUBSET Prompts
  /\ typed \in [Prompts -> Nat]
  /\ {ops, faults, restarts, turns, closes} \subseteq Nat

Idle == [p \in Prompts |-> "idle"]
No   == [p \in Prompts |-> "no"]
Never == [p \in Prompts |-> 0]

\* A snapshot's list before the first one: useSendLater's initial state.
NoReply == [rev |-> 0, items |-> Empty]

Init ==
  /\ up = FALSE
  /\ items = Empty /\ rev = 0 /\ disk = Empty /\ events = <<>>
  /\ clock = [p \in Prompts |-> "ahead"]
  /\ fetch = "off" /\ reply = NoReply /\ view = Empty /\ viewRev = -1
  /\ attempt = Idle /\ sent = {} /\ wait = [p \in Prompts |-> Free]
  /\ recent = {} /\ queued = FALSE /\ armed = {} /\ gone = No
  /\ drop = No /\ filing = No /\ taking = No
  /\ tab = [t \in Terminals |-> "open"] /\ project = "shut"
  /\ agent = [t \in Terminals |-> "starting"] /\ done = {} /\ stopped = {}
  /\ used = {} /\ typed = Never /\ safe = {} /\ stale = {}
  /\ ops = 0 /\ faults = 0 /\ restarts = 0 /\ turns = 0 /\ closes = 0

Fault == faults < MaxFaults /\ faults' = faults + 1


-----------------------------------------------------------------------------
(* The schedule: send_later.rs.                                            *)

\* Only a window that listens gets the event.
Emit(new) ==
  events' = IF fetch = "off" THEN events
            ELSE Append(events, [rev |-> rev + 1, items |-> new])

\* SendLaterStore::mutate, saved.  A change that cannot be saved is rolled back
\* and leaves everything as it was.
Mutate(new) ==
  /\ items' = new
  /\ disk' = new
  /\ rev' = rev + 1
  /\ Emit(new)

\* The prompts a removal takes away: none when it is no longer scheduled, and
\* the change is saved and announced all the same.
Remove(p) == Mutate([items EXCEPT ![p] = "none"])

Op == ops < MaxOps /\ ops' = ops + 1

\* The user acts on what the window shows.
Shown(p) == up /\ view[p] # "none"

\* schedulePrompt, from the input of an open tab.
Add(p) ==
  /\ up /\ fetch # "off" /\ project = "open" /\ tab[Home[p]] = "open"
  /\ p \notin used
  /\ used' = used \cup {p}
  /\ Mutate([items EXCEPT ![p] = IF p \in WhenDone THEN "due" ELSE "scheduled"])
  /\ done' = done \cup ({p} \cap WhenDone)
  /\ UNCHANGED <<up, clock, window, runner, leaving, tab, project, agent, stopped,
                 typed, safe, stale, counters>>

\* reschedulePrompt: a time ahead, and no longer of kind "done".
Reschedule(p) ==
  /\ Shown(p) /\ Op
  /\ items[p] # "none"
  /\ Mutate([items EXCEPT ![p] = "scheduled"])
  /\ clock' = [clock EXCEPT ![p] = "ahead"]
  /\ done' = done \ {p}
  /\ stopped' = stopped \ {p}
  /\ stale' = stale \ {p}
  /\ UNCHANGED <<up, window, runner, leaving, tab, project, agent, used, typed, safe,
                 faults, restarts, turns, closes>>

\* sendScheduledNow.
SendNow(p) ==
  /\ Shown(p) /\ Op
  /\ items[p] # "none"
  /\ Mutate([items EXCEPT ![p] = "forced"])
  /\ stale' = stale \ {p}
  /\ UNCHANGED <<up, clock, window, runner, leaving, world, used, typed, safe,
                 faults, restarts, turns, closes>>

\* The clock passes dueAt, then the grace.
Tick(p) ==
  /\ clock[p] # "past"
  /\ items[p] \in {"scheduled"} \/ disk[p] = "scheduled"
  /\ clock' = [clock EXCEPT ![p] = IF @ = "ahead" THEN "reached" ELSE "past"]
  /\ UNCHANGED <<up, backend, window, runner, leaving, world, history, counters>>

\* Mutant: the state is named for its lateness.
SettlesLate(p) == IF items[p] = "scheduled" /\ clock[p] = "past" THEN "late" ELSE items[p]

SettledAs(p) ==
  IF items[p] # "scheduled" \/ clock[p] = "ahead" THEN items[p]
  ELSE IF clock[p] = "past" THEN "missed"
  ELSE "due"

\* The clock thread: what it settles stands even when the save fails.
Settle ==
  LET new == [p \in Prompts |-> SettledAs(p)] IN
  /\ up /\ new # items
  /\ items' = new
  /\ rev' = rev + 1
  /\ Emit(new)
  /\ \/ disk' = new /\ UNCHANGED faults
     \/ UNCHANGED disk /\ Fault
  /\ UNCHANGED <<up, clock, window, runner, leaving, world, history,
                 ops, restarts, turns, closes>>

\* Mutant: a prompt still due when lpm ended is due again.
KeepsDue(p) == IF disk[p] = "scheduled" /\ clock[p] = "past" THEN "missed" ELSE disk[p]

LaunchedAs(p) ==
  IF disk[p] \in Due \/ (disk[p] = "scheduled" /\ clock[p] = "past")
  THEN "missed" ELSE disk[p]

\* start: load, settle_after_launch, and a save that may fail.
Launch ==
  LET new == [p \in Prompts |-> LaunchedAs(p)] IN
  /\ ~up
  /\ up' = TRUE
  /\ items' = new
  /\ rev' = 0
  /\ \/ disk' = new /\ UNCHANGED faults
     \/ new # disk /\ UNCHANGED disk /\ Fault
  /\ stale' = {p \in Prompts : disk[p] \in Due \cup {"missed"}}
  /\ UNCHANGED <<clock, events, window, runner, leaving, world, used, typed, safe,
                 ops, restarts, turns, closes>>

\* The program quits or dies, and everything it did not save with it.  The tabs
\* come back with their project; an agent starts again with its tab.
Crash ==
  /\ up /\ restarts < MaxRestarts
  /\ restarts' = restarts + 1
  /\ up' = FALSE
  /\ items' = Empty /\ rev' = 0 /\ events' = <<>>
  /\ fetch' = "off" /\ reply' = NoReply /\ view' = Empty /\ viewRev' = -1
  /\ attempt' = Idle /\ sent' = {} /\ wait' = [p \in Prompts |-> Free]
  /\ recent' = {} /\ queued' = FALSE /\ armed' = {} /\ gone' = No
  /\ drop' = No /\ filing' = No /\ taking' = No
  /\ tab' = [t \in Terminals |-> IF tab[t] = "closing" THEN "closed" ELSE tab[t]]
  /\ project' = "shut"
  /\ agent' = [t \in Terminals |-> "starting"]
  /\ stopped' = {}
  /\ typed' = Never
  /\ UNCHANGED <<disk, clock, done, used, safe, stale, ops, faults, turns, closes>>

-----------------------------------------------------------------------------
(* The window's copy: store/sendLater.ts.                                  *)

\* initSendLater and startSendLaterRunner: listen, then ask for the list.
WindowStarts ==
  /\ up /\ fetch = "off"
  /\ fetch' = "asked"
  /\ queued' = TRUE
  /\ UNCHANGED <<up, clock, backend, reply, view, viewRev, attempt, sent, wait,
                 recent, armed, gone, leaving, world, history, counters>>

\* send_later_list answers.
ListReplies ==
  /\ up /\ fetch = "asked"
  /\ fetch' = "replied"
  /\ reply' = [rev |-> rev, items |-> items]
  /\ UNCHANGED <<up, clock, backend, view, viewRev, runner, leaving, world, history, counters>>

\* Mutant: the last snapshot to arrive wins.
AppliesAny(snap) ==
  /\ view' = snap.items
  /\ viewRev' = snap.rev
  /\ wait' = [p \in Prompts |-> IF wait[p].why = "retry" THEN wait[p] ELSE Free]
  /\ queued' = TRUE

\* applySnapshot, and the runner's subscription: every hold is looked at afresh.
ApplySnapshot(snap) ==
  IF snap.rev <= viewRev
  THEN UNCHANGED <<view, viewRev, wait, queued>>
  ELSE /\ view' = snap.items
       /\ viewRev' = snap.rev
       /\ wait' = [p \in Prompts |-> IF wait[p].why = "retry" THEN wait[p] ELSE Free]
       /\ queued' = TRUE

FetchArrives ==
  /\ up /\ fetch = "replied"
  /\ fetch' = "done"
  /\ reply' = NoReply
  /\ ApplySnapshot(reply)
  /\ UNCHANGED <<up, clock, backend, attempt, sent, recent, armed, gone,
                 leaving, world, history, counters>>

EventArrives ==
  /\ up /\ events # <<>>
  /\ events' = Tail(events)
  /\ ApplySnapshot(Head(events))
  /\ UNCHANGED <<up, clock, items, rev, disk, fetch, reply, attempt, sent, recent,
                 armed, gone, leaving, world, history, counters>>

-----------------------------------------------------------------------------
(* The runner: sendLater/runner.ts and readiness.ts.                       *)

Target(p) == project = "open" /\ tab[Home[p]] = "open"

\* Gone for good: the project is open and the tab is in neither its live tabs,
\* its saved tabs nor an undo-able close.
Gone(p) == project = "open" /\ tab[Home[p]] = "closed"

\* createClosedTabReconciler, for one prompt on the list.
GoneNext(p) ==
  IF view[p] = "none" \/ ~Gone(p) \/ gone[p] = "over" THEN "no" ELSE "since"

\* onTerminalsClosed: the waiting prompts of closed tabs are filed as drafts.
Doomed(ts) == {p \in Prompts : view[p] # "none" /\ Home[p] \in ts /\ filing[p] = "no"}

File(ps) == filing' = [p \in Prompts |-> IF p \in ps THEN "saving" ELSE filing[p]]

Busy(t) == \E p \in Prompts : attempt[p] # "idle" /\ Home[p] = t

\* Mutant: the pump forgets what it has typed.
PendingAgain == {p \in Prompts : view[p] \in Due /\ ~Busy(Home[p])}

\* Prompts the pump comes to: due, not typed, not being tried, their terminal free.
Pending == {p \in Prompts : view[p] \in Due /\ p \notin sent /\ ~Busy(Home[p])}

\* Held, its time not come and its agent where it was.
StillHeld(p) == wait[p].why \in {"held", "stuck"} /\ wait[p].at = Reported(agent[Home[p]])

Eligible == {p \in Pending : wait[p].why # "retry" /\ Target(p) /\ ~StillHeld(p)}

\* The prompts a pump starts on: the first of each terminal's.
Starts ==
  {S \in SUBSET Eligible :
     \A p \in Eligible : Cardinality({q \in S : Home[q] = Home[p]}) = 1}

\* Prompts the pump passes over until a time comes.
Later(S) ==
  {p \in Pending : /\ \A q \in S : Home[q] # Home[p]
                   /\ wait[p].why = "retry" \/ (wait[p].why = "held" /\ Target(p) /\ StillHeld(p))}

\* Mutant: the reconciler does not ask to be called again.
DeadlinesOfHolds(S) == Later(S)

\* The deadlines a pump arms its timer for: theirs, and the reconciler's.
Deadlines(S) == Later(S) \cup {p \in Prompts : GoneNext(p) = "since"}

TimerFires ==
  \E p \in armed : IF gone[p] = "no" THEN wait[p].why \notin {"retry", "held"} ELSE gone[p] = "over"

Pump ==
  /\ up
  /\ queued \/ TimerFires
  /\ queued' = FALSE
  /\ sent' = sent \cap {p \in Prompts : view[p] # "none"}
  /\ gone' = [p \in Prompts |-> GoneNext(p)]
  /\ File(Doomed({Home[p] : p \in {q \in Prompts : view[q] # "none" /\ Gone(q) /\ gone[q] = "over"}}))
  /\ \E S \in Starts :
       /\ attempt' = [p \in Prompts |-> IF p \in S THEN "foreground" ELSE attempt[p]]
       /\ wait' = [p \in Prompts |-> IF p \in S THEN Free ELSE wait[p]]
       /\ armed' = Deadlines(S)
  /\ project' = IF project = "shut" /\ \E p \in Pending : view[p] = "forced" /\ wait[p].why # "retry"
                THEN "opening" ELSE project
  /\ UNCHANGED <<up, clock, backend, window, recent, drop, taking, tab, agent, done,
                 stopped, history, counters>>

\* readiness: "ready", or how the prompt is held.
Verdict(p) ==
  LET t == Home[p] IN
  CASE agent[t] = "starting" -> "held"
    [] agent[t] = "asking"   -> "stuck"
    [] agent[t] \notin {"starting", "asking"} /\ view[p] = "forced" -> "ready"
    [] agent[t] = "error" /\ view[p] # "forced" /\ p \in stopped -> "stuck"
    [] OTHER -> IF t \in recent \/ agent[t] = "working" THEN "held" ELSE "ready"

\* Mutant: the list is not looked at again.
EndsQuietly(p) == attempt' = [attempt EXCEPT ![p] = "idle"] /\ UNCHANGED queued

\* An attempt ends: its terminal is free and the list is looked at again.
Ends(p) == attempt' = [attempt EXCEPT ![p] = "idle"] /\ queued' = TRUE

\* sendToTerminal took it.
Typed(p) ==
  /\ tab[Home[p]] = "open" /\ project = "open"
  /\ typed' = [typed EXCEPT ![p] = @ + 1]
  /\ safe' = safe \cup {p}
  /\ sent' = sent \cup {p}
  /\ recent' = recent \cup {Home[p]}
  /\ drop' = [drop EXCEPT ![p] = "first"]
  /\ UNCHANGED wait

\* sendToTerminal refused it, or the attempt failed.
Refused(p) ==
  /\ wait' = [wait EXCEPT ![p] = [why |-> "retry", at |-> "idle"]]
  /\ UNCHANGED <<typed, safe, sent, recent, drop>>

Unsent == UNCHANGED <<typed, safe, sent, recent, drop>>

\* The foreground command is known.  A prompt with no images is typed in the
\* same step; images are uploaded first.
Look(p) ==
  /\ up /\ attempt[p] = "foreground"
  /\ \/ /\ view[p] \notin Due
        /\ Ends(p) /\ Unsent /\ UNCHANGED wait
     \/ /\ view[p] \in Due /\ Verdict(p) # "ready"
        /\ wait' = [wait EXCEPT ![p] = [why |-> Verdict(p), at |-> Reported(agent[Home[p]])]]
        /\ Ends(p) /\ Unsent
     \/ /\ view[p] \in Due /\ Verdict(p) = "ready" /\ p \in WithImages
        /\ attempt' = [attempt EXCEPT ![p] = "payload"]
        /\ Unsent /\ UNCHANGED <<wait, queued>>
     \/ /\ view[p] \in Due /\ Verdict(p) = "ready" /\ p \notin WithImages
        /\ Ends(p)
        /\ Typed(p) \/ Refused(p)
  /\ UNCHANGED <<up, clock, backend, window, armed, gone, filing, taking, world,
                 used, stale, counters>>

\* The images are uploaded.
Uploaded(p) ==
  /\ up /\ attempt[p] = "payload"
  /\ Ends(p)
  /\ \/ view[p] \notin Due /\ Unsent /\ UNCHANGED wait
     \/ view[p] \in Due /\ (Typed(p) \/ Refused(p))
  /\ UNCHANGED <<up, clock, backend, window, armed, gone, filing, taking, world,
                 used, stale, counters>>

\* A deadline passes: a retry's, a hold's, GONE_CONFIRM_MS, SENT_SETTLE_MS.
Elapse(p) ==
  /\ up
  /\ \/ /\ wait[p].why \in {"retry", "held"}
        /\ wait' = [wait EXCEPT ![p] = Free]
        /\ UNCHANGED <<gone, recent>>
     \/ /\ gone[p] = "since"
        /\ gone' = [gone EXCEPT ![p] = "over"]
        /\ UNCHANGED <<wait, recent>>
     \/ /\ Home[p] \in recent
        /\ recent' = recent \ {Home[p]}
        /\ UNCHANGED <<wait, gone>>
  /\ UNCHANGED <<up, clock, backend, window, attempt, sent, queued, armed, leaving,
                 world, history, counters>>

-----------------------------------------------------------------------------
(* How a prompt leaves the schedule.                                       *)

\* dropSent: the removal, once more after five seconds when it failed, then
\* never again.
DropSent(p) ==
  /\ up /\ drop[p] \in {"first", "again"}
  /\ \/ /\ Remove(p)
        /\ drop' = [drop EXCEPT ![p] = "no"]
        /\ UNCHANGED faults
     \/ /\ Fault
        /\ drop' = [drop EXCEPT ![p] = IF @ = "first" THEN "pause" ELSE "no"]
        /\ UNCHANGED backend
  /\ UNCHANGED <<up, clock, window, runner, filing, taking, world, history,
                 ops, restarts, turns, closes>>

DropAgain(p) ==
  /\ up /\ drop[p] = "pause"
  /\ drop' = [drop EXCEPT ![p] = "again"]
  /\ UNCHANGED <<up, clock, backend, window, runner, filing, taking, world, history, counters>>

\* keepScheduledAsDraft, and toDrafts for a tab that is not open here.
KeepAsDraft(p) ==
  /\ Shown(p) /\ Op /\ filing[p] = "no"
  /\ File({p})
  /\ UNCHANGED <<up, clock, backend, window, runner, drop, taking, world, history,
                 faults, restarts, turns, closes>>

\* keepAsDraft: the draft first.  A failure leaves the prompt scheduled.
DraftSaved(p) ==
  /\ up /\ filing[p] = "saving"
  /\ \/ /\ filing' = [filing EXCEPT ![p] = "removing"]
        /\ safe' = safe \cup {p}
        /\ UNCHANGED faults
     \/ /\ Fault
        /\ filing' = [filing EXCEPT ![p] = "no"]
        /\ UNCHANGED safe
  /\ UNCHANGED <<up, clock, backend, window, runner, drop, taking, world, used, typed, stale,
                 ops, restarts, turns, closes>>

\* Then off the schedule.
DraftRemoves(p) ==
  /\ up /\ filing[p] = "removing"
  /\ filing' = [filing EXCEPT ![p] = "no"]
  /\ \/ Remove(p) /\ UNCHANGED faults
     \/ Fault /\ UNCHANGED backend
  /\ UNCHANGED <<up, clock, window, runner, drop, taking, world, history,
                 ops, restarts, turns, closes>>

\* editScheduled, unschedule ("edit") and cancelScheduled ("cancel"): the removal.
\* What is no longer scheduled is left alone.
TakeOff(p, why) ==
  /\ Shown(p) /\ Op /\ taking[p] = "no"
  /\ why = "edit" => Target(p)
  /\ Remove(p)
  /\ taking' = [taking EXCEPT ![p] = IF items[p] = "none" THEN "no" ELSE why]
  /\ UNCHANGED <<up, clock, window, runner, drop, filing, world, history,
                 faults, restarts, turns, closes>>

\* Its reply: putBack into the tab's input if the tab is still there.  A
\* canceled prompt is the user's to undo.
PutBack(p) ==
  /\ up /\ taking[p] # "no"
  /\ taking' = [taking EXCEPT ![p] = "no"]
  /\ safe' = IF taking[p] = "cancel" \/ Target(p) THEN safe \cup {p} ELSE safe
  /\ UNCHANGED <<up, clock, backend, window, runner, drop, filing, world, used, typed, stale,
                 counters>>

-----------------------------------------------------------------------------
(* The project, its tabs and their agents.                                 *)

\* A change of targets or of agent status queues a pump.
Moves(rest) == queued' = (queued \/ fetch # "off") /\ UNCHANGED rest

\* The project is opened, by the user or by markVisited.
OpenProject ==
  /\ up /\ fetch # "off" /\ project # "open"
  /\ project' = "open"
  /\ Moves(<<up, clock, backend, window, attempt, sent, wait, recent, armed, gone,
             leaving, tab, agent, done, stopped, history, counters>>)

\* A tab is closed with Undo, closed without a report, brought back by Undo, or
\* its close is final, which files its prompts.
CloseTab(t) ==
  /\ up /\ project = "open"
  /\ \/ /\ tab[t] = "open" /\ closes < MaxCloses
        /\ closes' = closes + 1
        /\ \E how \in {"closing", "closed"} : tab' = [tab EXCEPT ![t] = how]
        /\ UNCHANGED filing
     \/ /\ tab[t] = "closing"
        /\ tab' = [tab EXCEPT ![t] = "open"]
        /\ UNCHANGED <<closes, filing>>
     \/ /\ tab[t] = "closing"
        /\ tab' = [tab EXCEPT ![t] = "closed"]
        /\ File(Doomed({t}))
        /\ UNCHANGED closes
  /\ Moves(<<up, clock, backend, window, attempt, sent, wait, recent, armed, gone,
             drop, taking, project, agent, done, stopped, history, ops, faults, restarts, turns>>)

\* The agent goes idle, or shows something else.  Only silence makes it stale,
\* and nothing announces that.
AgentMoves(t, a) ==
  /\ up /\ project = "open"
  /\ agent[t] # a
  /\ a = "stale" => agent[t] = "working"
  /\ a # "idle" => turns < MaxTurns
  /\ turns' = IF a = "idle" THEN turns ELSE turns + 1
  /\ agent' = [agent EXCEPT ![t] = a]
  /\ stopped' = (stopped \ {p \in Prompts : Home[p] = t})
                  \cup {p \in done : a = "error" /\ Home[p] = t /\ items[p] # "none"}
  /\ queued' = (queued \/ (fetch # "off" /\ a # "stale"))
  /\ UNCHANGED <<up, clock, backend, window, attempt, sent, wait, recent, armed, gone,
                 leaving, tab, project, done, history, ops, faults, restarts, closes>>

-----------------------------------------------------------------------------

Next ==
  \/ Settle \/ Launch \/ Crash \/ WindowStarts \/ ListReplies \/ FetchArrives
  \/ EventArrives \/ Pump \/ OpenProject
  \/ \E p \in Prompts :
       \/ Add(p) \/ Reschedule(p) \/ SendNow(p) \/ Tick(p)
       \/ Look(p) \/ Uploaded(p) \/ Elapse(p)
       \/ DropSent(p) \/ DropAgain(p) \/ KeepAsDraft(p) \/ DraftSaved(p) \/ DraftRemoves(p)
       \/ PutBack(p)
       \/ \E why \in {"edit", "cancel"} : TakeOff(p, why)
  \/ \E t \in Terminals : CloseTab(t) \/ \E a \in Agents : AgentMoves(t, a)

Spec == Init /\ [][Next]_vars

\* The code's own threads keep running; a terminal that is tried again and again
\* takes a prompt in the end; agents come to rest.
Accepts(p) == (Look(p) \/ Uploaded(p)) /\ typed'[p] > typed[p]

Fairness ==
  /\ WF_vars(Settle) /\ WF_vars(ListReplies) /\ WF_vars(FetchArrives)
  /\ WF_vars(EventArrives) /\ WF_vars(Pump)
  /\ \A p \in Prompts :
       /\ WF_vars(Look(p)) /\ WF_vars(Uploaded(p)) /\ WF_vars(Elapse(p))
       /\ WF_vars(DropSent(p)) /\ WF_vars(DropAgain(p))
       /\ WF_vars(DraftSaved(p)) /\ WF_vars(DraftRemoves(p))
       /\ SF_vars(Accepts(p))
  /\ \A t \in Terminals : WF_vars(AgentMoves(t, "idle"))

LiveSpec == Spec /\ Fairness

-----------------------------------------------------------------------------
(* Properties.                                                             *)

On(list) == {p \in Prompts : list[p] # "none"}

Life == INSTANCE PromptLife WITH
          known <- used, board <- On(disk), hand <- {p \in Prompts : taking[p] # "no"}

\* The schedule, its window and its runner implement PromptLife: a prompt leaves
\* send-later.json only after its text was typed or filed, or because the user
\* took it off, and a run of the program never types it twice, whatever order
\* snapshots, removals, retries and failed saves come in.
Implements == Life!Spec

\* The window's list is the schedule once nothing is on its way to it: the first
\* list and the change events race, and the older of the two never wins.
ViewCatchesUp ==
  up /\ fetch = "done" /\ events = <<>> => view = items

\* A prompt that was due, or missed, before lpm was launched is not typed until
\* the user asks for it again (settle_after_launch).
StaleNeverTyped == \A p \in stale : typed[p] = 0

\* A prompt that is due goes out, or stops being due, unless its tab goes away
\* or lpm ends: no wake-up of the runner is lost.
DueGoesOut ==
  \A p \in Prompts :
    items[p] \in Due /\ Target(p) ~> (items[p] \notin Due \/ ~Target(p))

\* The prompts of a tab closed for good end up off the schedule, reported or not.
ClosedIsFiled ==
  \A p \in Prompts :
    (up /\ items[p] # "none" /\ Gone(p)) ~> (items[p] = "none" \/ ~up)
=============================================================================
