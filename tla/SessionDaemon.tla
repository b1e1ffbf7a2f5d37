---------------------------- MODULE SessionDaemon ----------------------------
(***************************************************************************)
(* The session daemon's registry of service panes and the requests that    *)
(* change it: sessiond.rs, with the pane and process-tree operations it    *)
(* calls (sessionpane.rs, proctree.rs).                                    *)
(*                                                                         *)
(* One thread serves one connection.  A thread takes the registry lock for *)
(* one operation at a time and lets go of it before it opens, closes or    *)
(* reaps a pane, so one action below is one critical section or one step   *)
(* taken outside the lock, and the threads interleave between them.        *)
(*                                                                         *)
(* The registry is a map from session names to vectors of panes.  keys is  *)
(* the domain of the map and home[p] the session whose vector holds p; the *)
(* order inside a vector is left out, no property tells it apart.          *)
(***************************************************************************)
EXTENDS Naturals, Sequences, FiniteSets

CONSTANTS Sessions,   \* session names
          Services,   \* service labels
          Batches,    \* the lists of specs a Start or a Split may carry
          Threads,    \* threads serving a connection
          Ops,        \* the requests clients send
          MaxPanes,   \* bound on the pane ids drawn from next_pane
          NoSession   \* the home of a pane the registry does not hold

ASSUME BatchesAssumption   == Batches \subseteq Seq(Services)
ASSUME MaxPanesAssumption  == MaxPanes \in Nat
ASSUME NoSessionAssumption == NoSession \notin Sessions

PaneIds == 1 .. MaxPanes
NoPane  == 0

(***************************************************************************)
(* What runs under a pane: nothing yet, its shell and the shell's          *)
(* descendants, nothing because the shell exited by itself (shell_gone is  *)
(* set), the descendants of a shell the daemon has closed, or nothing any  *)
(* more.  The reader thread's notice of an exit is taken with the exit.    *)
(***************************************************************************)
Trees == {"unborn", "up", "gone", "dying", "dead"}

Request ==
  [op : {"start", "split"}, session : Sessions, panes : Batches]
    \cup [op : {"send", "kill_pane"}, pane : PaneIds]
    \cup [op : {"kill_session"}, session : Sessions, wait : BOOLEAN]
    \cup [op : {"shutdown"}]

(***************************************************************************)
(* Where a thread is.  "recv" has counted itself in IN_FLIGHT and not yet  *)
(* looked at RETIRING; "ok" and "err" are about to write their reply.      *)
(***************************************************************************)
PCs == {"idle", "recv", "start", "split", "send", "kill_pane", "kill_session",
        "shutdown", "type", "reopen", "replace", "drain", "sweep", "teardown", "close",
        "kill", "open", "push", "rollback", "exit", "ok", "err"}

VARIABLES
  keys,      \* sessions: the names the registry holds
  home,      \* sessions: the session each pane is listed under
  nextPane,  \* next_pane
  tree,      \* what runs under each pane
  label,     \* the session and the service each pane was opened for
  pc,        \* what each thread does next
  req,       \* the request each thread serves
  todo,      \* open_panes: the specs still to open
  opened,    \* open_panes: the panes this batch has pushed
  fresh,     \* the pane a thread has opened and not yet put in the registry
  doomed,    \* teardown: the panes it was handed
  victims,   \* teardown: the panes whose trees the snapshot holds
  mode,      \* teardown: "wait" for the reaping, or leave it to a thread
  next,      \* where a thread goes once its teardown returns
  reaping,   \* the panes whose trees kill_pids_async threads still hold
  retiring,  \* RETIRING
  expired,   \* a shutdown stopped waiting for the requests in flight
  process    \* the daemon process: "up", "exiting" or "exited"

registry == <<keys, home, nextPane>>
batch    == <<todo, opened>>
killing  == <<doomed, victims, mode, next>>
life     == <<retiring, expired, process>>
vars == <<registry, tree, label, pc, req, batch, fresh, killing, reaping, life>>

TypeOK ==
  /\ keys \subseteq Sessions
  /\ home \in [PaneIds -> Sessions \cup {NoSession}]
  /\ nextPane \in 1 .. MaxPanes + 1
  /\ tree \in [PaneIds -> Trees]
  /\ label \in [PaneIds -> (Sessions \X Services) \cup {<<>>}]
  /\ pc \in [Threads -> PCs]
  /\ req \in [Threads -> Request \cup {<<>>}]
  /\ todo \in [Threads -> Seq(Services)]
  /\ opened \in [Threads -> SUBSET PaneIds]
  /\ fresh \in [Threads -> PaneIds \cup {NoPane}]
  /\ doomed \in [Threads -> SUBSET PaneIds]
  /\ victims \in [Threads -> SUBSET PaneIds]
  /\ mode \in [Threads -> {"wait", "async"}]
  /\ next \in [Threads -> {"open", "ok", "err", "exit"}]
  /\ reaping \subseteq PaneIds
  /\ retiring \in BOOLEAN
  /\ expired \in BOOLEAN
  /\ process \in {"up", "exiting", "exited"}

Init ==
  /\ keys = {}
  /\ home = [p \in PaneIds |-> NoSession]
  /\ nextPane = 1
  /\ tree = [p \in PaneIds |-> "unborn"]
  /\ label = [p \in PaneIds |-> <<>>]
  /\ pc = [t \in Threads |-> "idle"]
  /\ req = [t \in Threads |-> <<>>]
  /\ todo = [t \in Threads |-> <<>>]
  /\ opened = [t \in Threads |-> {}]
  /\ fresh = [t \in Threads |-> NoPane]
  /\ doomed = [t \in Threads |-> {}]
  /\ victims = [t \in Threads |-> {}]
  /\ mode = [t \in Threads |-> "async"]
  /\ next = [t \in Threads |-> "ok"]
  /\ reaping = {}
  /\ retiring = FALSE
  /\ expired = FALSE
  /\ process = "up"

-----------------------------------------------------------------------------
(* The registry's own operations, each run whole under its lock.           *)

Listed    == {p \in PaneIds : home[p] # NoSession}
PanesOf(s) == {p \in PaneIds : home[p] = s}

\* alive: the shell has not gone, so its tree can be walked and signalled.
Alive(p) == tree[p] = "up"

\* A thread moves on only while its process lives.
Goto(t, where) == process # "exited" /\ pc' = [pc EXCEPT ![t] = where]

\* take: detach a session and hand its panes back.
Take(s) ==
  /\ keys' = keys \ {s}
  /\ home' = [p \in PaneIds |-> IF home[p] = s THEN NoSession ELSE home[p]]
  /\ UNCHANGED nextPane

\* Deviation: the last pane goes and its session stays.
DropPanesKeepsSession(ps) ==
  /\ home' = [p \in PaneIds |-> IF p \in ps THEN NoSession ELSE home[p]]
  /\ UNCHANGED <<keys, nextPane>>

\* drop_pane: forget panes, and each session that then holds none.
DropPanes(ps) ==
  /\ home' = [p \in PaneIds |-> IF p \in ps THEN NoSession ELSE home[p]]
  /\ keys' = {s \in keys : \E p \in PaneIds : home'[p] = s}
  /\ UNCHANGED nextPane

\* entry(session).or_default().push(pane)
Push(s, p) ==
  /\ keys' = keys \cup {s}
  /\ home' = [home EXCEPT ![p] = s]
  /\ UNCHANGED nextPane

\* replace: pane p takes the place of old.
Replace(old, p) ==
  /\ home' = [home EXCEPT ![p] = home[old], ![old] = NoSession]
  /\ UNCHANGED <<keys, nextPane>>

(***************************************************************************)
(* next_id and then Pane::open.  Nobody can name the id before the pane is *)
(* in the registry, so drawing it and opening the pane are one step.  An   *)
(* open that fails has used its id up and leaves nothing running: what it  *)
(* may have spawned it closes.  Past MaxPanes every open fails.            *)
(***************************************************************************)
OpenPane(t, lbl) ==
  /\ nextPane \in PaneIds
  /\ nextPane' = nextPane + 1
  /\ tree' = [tree EXCEPT ![nextPane] = "up"]
  /\ label' = [label EXCEPT ![nextPane] = lbl]
  /\ fresh' = [fresh EXCEPT ![t] = nextPane]
  /\ UNCHANGED <<keys, home>>

\* Deviation: the shell of a pane that could not be typed into stays.
OpenFailsUnclosed(t) ==
  /\ nextPane' = IF nextPane \in PaneIds THEN nextPane + 1 ELSE nextPane
  /\ tree' = [p \in PaneIds |-> IF p = nextPane THEN "up" ELSE tree[p]]
  /\ UNCHANGED <<keys, home, label, fresh>>

\* Deviation: the id is drawn twice.
OpenFailsTwoIds(t) ==
  /\ nextPane' = IF nextPane \in PaneIds THEN nextPane + 2 ELSE nextPane
  /\ tree' = [p \in PaneIds |-> IF p = nextPane THEN "dead" ELSE tree[p]]
  /\ UNCHANGED <<keys, home, label, fresh>>

OpenFails(t) ==
  /\ nextPane' = IF nextPane \in PaneIds THEN nextPane + 1 ELSE nextPane
  /\ tree' = [p \in PaneIds |-> IF p = nextPane THEN "dead" ELSE tree[p]]
  /\ UNCHANGED <<keys, home, label, fresh>>

\* The call teardown(panes, wait), and where its caller goes afterwards.
CallTeardown(t, panes, w, after) ==
  /\ doomed' = [doomed EXCEPT ![t] = panes]
  /\ mode' = [mode EXCEPT ![t] = w]
  /\ next' = [next EXCEPT ![t] = after]
  /\ Goto(t, "teardown")
  /\ UNCHANGED victims

-----------------------------------------------------------------------------
(* serve: a request is counted in flight before RETIRING is read.          *)

InFlight == {t \in Threads : pc[t] # "idle"}

Recv(t, r) ==
  /\ pc[t] = "idle"
  /\ r.op \in Ops
  /\ r.op \in {"send", "kill_pane"} => r.pane < nextPane  \* an id some listing showed
  /\ req' = [req EXCEPT ![t] = r]
  /\ Goto(t, "recv")
  /\ UNCHANGED <<registry, tree, label, batch, fresh, killing, reaping, life>>

\* Deviation: a retiring daemon keeps taking work.
AdmitAlways(t) ==
  /\ pc[t] = "recv"
  /\ Goto(t, req[t].op)
  /\ UNCHANGED <<registry, tree, label, req, batch, fresh, killing, reaping, life>>

\* A request read while the daemon retires is hung up on.
Admit(t) ==
  /\ pc[t] = "recv"
  /\ IF retiring THEN /\ Goto(t, "idle")
                       /\ req' = [req EXCEPT ![t] = <<>>]
                  ELSE Goto(t, req[t].op) /\ UNCHANGED req
  /\ UNCHANGED <<registry, tree, label, batch, fresh, killing, reaping, life>>

\* The reply is written and the request leaves IN_FLIGHT; its locals go.
Reply(t) ==
  /\ pc[t] \in {"ok", "err"}
  /\ Goto(t, "idle")
  /\ req' = [req EXCEPT ![t] = <<>>]
  /\ todo' = [todo EXCEPT ![t] = <<>>]
  /\ opened' = [opened EXCEPT ![t] = {}]
  /\ doomed' = [doomed EXCEPT ![t] = {}]
  /\ victims' = [victims EXCEPT ![t] = {}]
  /\ mode' = [mode EXCEPT ![t] = "async"]
  /\ next' = [next EXCEPT ![t] = "ok"]
  /\ UNCHANGED <<registry, tree, label, fresh, reaping, life>>

-----------------------------------------------------------------------------
(* teardown: snapshot the trees of the living panes, close every pane,     *)
(* then reap the snapshot, here or on a thread of its own.                 *)

Snapshot(t) ==
  /\ pc[t] = "teardown"
  /\ victims' = [victims EXCEPT ![t] = {p \in doomed[t] : Alive(p)}]
  /\ Goto(t, "close")
  /\ UNCHANGED <<registry, tree, label, req, batch, fresh, doomed, mode, next,
                 reaping, life>>

\* Deviation: a teardown nobody waits for hands its victims to no one.
CloseForgets(t) ==
  /\ pc[t] = "close"
  /\ tree' = [p \in PaneIds |->
                IF p \in doomed[t] /\ tree[p] = "up" THEN "dying" ELSE tree[p]]
  /\ Goto(t, IF mode[t] = "wait" THEN "kill" ELSE next[t])
  /\ UNCHANGED <<registry, label, req, batch, fresh, killing, reaping, life>>

Close(t) ==
  /\ pc[t] = "close"
  /\ tree' = [p \in PaneIds |->
                IF p \in doomed[t] /\ tree[p] = "up" THEN "dying" ELSE tree[p]]
  /\ IF mode[t] = "wait"
       THEN Goto(t, "kill") /\ UNCHANGED reaping
       ELSE Goto(t, next[t]) /\ reaping' = reaping \cup victims[t]
  /\ UNCHANGED <<registry, label, req, batch, fresh, killing, life>>

\* kill_pids returns once no victim is left: it kills what outlives the grace.
KillPids(t) ==
  /\ pc[t] = "kill"
  /\ tree' = [p \in PaneIds |->
                IF p \in victims[t] /\ tree[p] = "dying" THEN "dead" ELSE tree[p]]
  /\ Goto(t, next[t])
  /\ UNCHANGED <<registry, label, req, batch, fresh, killing, reaping, life>>

-----------------------------------------------------------------------------
(* open_panes: one pane per spec, each pushed as it opens; a failure drops *)
(* and tears down the ones this call opened.                               *)

OpenNext(t) ==
  /\ pc[t] = "open" /\ todo[t] # <<>>
  /\ OpenPane(t, <<req[t].session, Head(todo[t])>>)
  /\ todo' = [todo EXCEPT ![t] = Tail(todo[t])]
  /\ Goto(t, "push")
  /\ UNCHANGED <<req, opened, killing, reaping, life>>

OpenNextFails(t) ==
  /\ pc[t] = "open" /\ todo[t] # <<>>
  /\ OpenFails(t)
  /\ todo' = [todo EXCEPT ![t] = <<>>]
  /\ Goto(t, "rollback")
  /\ UNCHANGED <<req, opened, killing, reaping, life>>

OpenDone(t) ==
  /\ pc[t] = "open" /\ todo[t] = <<>>
  /\ Goto(t, "ok")
  /\ UNCHANGED <<registry, tree, label, req, batch, fresh, killing, reaping, life>>

PushOpened(t) ==
  /\ pc[t] = "push"
  /\ Push(req[t].session, fresh[t])
  /\ opened' = [opened EXCEPT ![t] = @ \cup {fresh[t]}]
  /\ fresh' = [fresh EXCEPT ![t] = NoPane]
  /\ Goto(t, "open")
  /\ UNCHANGED <<tree, label, req, todo, killing, reaping, life>>

\* Deviation: the failed batch is torn down and stays listed.
RollbackUnlisted(t) ==
  /\ pc[t] = "rollback"
  /\ CallTeardown(t, opened[t], "async", "err")
  /\ UNCHANGED <<registry, tree, label, req, batch, fresh, reaping, life>>

\* Deviation: the failed batch takes the whole session with it.
RollbackSession(t) ==
  /\ pc[t] = "rollback"
  /\ Take(req[t].session)
  /\ CallTeardown(t, PanesOf(req[t].session), "async", "err")
  /\ UNCHANGED <<tree, label, req, batch, fresh, reaping, life>>

Rollback(t) ==
  /\ pc[t] = "rollback"
  /\ DropPanes(opened[t])
  /\ CallTeardown(t, opened[t], "async", "err")
  /\ UNCHANGED <<tree, label, req, batch, fresh, reaping, life>>

-----------------------------------------------------------------------------
(* handle: one disjunct per request that changes anything.                 *)

\* Deviation: the old session is reaped in the background.
StartTakesAsync(t) ==
  /\ pc[t] = "start" /\ req[t].panes # <<>>
  /\ Take(req[t].session)
  /\ todo' = [todo EXCEPT ![t] = req[t].panes]
  /\ CallTeardown(t, PanesOf(req[t].session), "async", "open")
  /\ UNCHANGED <<tree, label, req, opened, fresh, reaping, life>>

\* Start: replace the session, once what ran in it has been reaped.
StartTakes(t) ==
  /\ pc[t] = "start" /\ req[t].panes # <<>>
  /\ Take(req[t].session)
  /\ todo' = [todo EXCEPT ![t] = req[t].panes]
  /\ CallTeardown(t, PanesOf(req[t].session), "wait", "open")
  /\ UNCHANGED <<tree, label, req, opened, fresh, reaping, life>>

\* Split: add panes to a session that exists when it is looked up.
SplitFinds(t) ==
  /\ pc[t] = "split" /\ req[t].session \in keys
  /\ todo' = [todo EXCEPT ![t] = req[t].panes]
  /\ Goto(t, "open")
  /\ UNCHANGED <<registry, tree, label, req, opened, fresh, killing, reaping, life>>

\* Send, in reopen: a pane whose shell has gone is reopened ...
SendFinds(t) ==
  /\ pc[t] = "send" /\ req[t].pane \in Listed
  /\ Goto(t, IF Alive(req[t].pane) THEN "type" ELSE "reopen")
  /\ UNCHANGED <<registry, tree, label, req, batch, fresh, killing, reaping, life>>

\* ... and a living one looked up again and typed into, which changes no pane.
SendTypes(t) ==
  /\ pc[t] = "type" /\ req[t].pane \in Listed
  /\ Goto(t, "ok")
  /\ UNCHANGED <<registry, tree, label, req, batch, fresh, killing, reaping, life>>

\* It is not there any more, the line is too long or the write fails.
SendErrs(t) ==
  /\ pc[t] = "type"
  /\ Goto(t, "err")
  /\ UNCHANGED <<registry, tree, label, req, batch, fresh, killing, reaping, life>>

Reopen(t) ==
  /\ pc[t] = "reopen"
  /\ OpenPane(t, label[req[t].pane])
  /\ Goto(t, "replace")
  /\ UNCHANGED <<req, batch, killing, reaping, life>>

ReopenFails(t) ==
  /\ pc[t] = "reopen"
  /\ OpenFails(t)
  /\ Goto(t, "err")
  /\ UNCHANGED <<req, batch, killing, reaping, life>>

ReplaceGone(t) ==
  /\ pc[t] = "replace" /\ req[t].pane \in Listed
  /\ Replace(req[t].pane, fresh[t])
  /\ fresh' = [fresh EXCEPT ![t] = NoPane]
  /\ Goto(t, "ok")
  /\ UNCHANGED <<tree, label, req, batch, killing, reaping, life>>

\* The old pane left the registry meanwhile: the new one is torn down again.
ReplaceMisses(t) ==
  /\ pc[t] = "replace" /\ req[t].pane \notin Listed
  /\ fresh' = [fresh EXCEPT ![t] = NoPane]
  /\ CallTeardown(t, {fresh[t]}, "async", "err")
  /\ UNCHANGED <<registry, tree, label, req, batch, reaping, life>>

KillPane(t) ==
  /\ pc[t] = "kill_pane" /\ req[t].pane \in Listed
  /\ DropPanes({req[t].pane})
  /\ CallTeardown(t, {req[t].pane}, "async", "ok")
  /\ UNCHANGED <<tree, label, req, batch, fresh, reaping, life>>

KillSession(t) ==
  /\ pc[t] = "kill_session" /\ req[t].session \in keys
  /\ Take(req[t].session)
  /\ CallTeardown(t, PanesOf(req[t].session),
                  IF req[t].wait THEN "wait" ELSE "async", "ok")
  /\ UNCHANGED <<tree, label, req, batch, fresh, reaping, life>>

\* A request for no services, or naming a session or a pane not there.
Refuse(t) ==
  /\ \/ pc[t] = "start" /\ req[t].panes = <<>>
     \/ pc[t] \in {"split", "kill_session"} /\ req[t].session \notin keys
     \/ pc[t] \in {"send", "kill_pane"} /\ req[t].pane \notin Listed
  /\ Goto(t, "err")
  /\ UNCHANGED <<registry, tree, label, req, batch, fresh, killing, reaping, life>>

-----------------------------------------------------------------------------
(* Shutdown: retire, drain, sweep every session, and leave.                *)

Retire(t) ==
  /\ pc[t] = "shutdown"
  /\ retiring' = TRUE
  /\ Goto(t, "drain")
  /\ UNCHANGED <<registry, tree, label, req, batch, fresh, killing, reaping,
                 expired, process>>

Drained(t) ==
  /\ pc[t] = "drain"
  /\ InFlight \subseteq {t}
  /\ Goto(t, "sweep")
  /\ UNCHANGED <<registry, tree, label, req, batch, fresh, killing, reaping, life>>

\* Deviation: the drain has no deadline.
DrainNeverExpires(t) ==
  /\ pc[t] = "drain"
  /\ InFlight \subseteq {t}
  /\ expired' = TRUE
  /\ Goto(t, "sweep")
  /\ UNCHANGED <<registry, tree, label, req, batch, fresh, killing, reaping,
                 retiring, process>>

DrainExpires(t) ==
  /\ pc[t] = "drain"
  /\ ~ (InFlight \subseteq {t})
  /\ expired' = TRUE
  /\ Goto(t, "sweep")
  /\ UNCHANGED <<registry, tree, label, req, batch, fresh, killing, reaping,
                 retiring, process>>

Sweep(t) ==
  /\ pc[t] = "sweep"
  /\ DropPanes(PaneIds)
  /\ CallTeardown(t, Listed, "wait", "exit")
  /\ UNCHANGED <<tree, label, req, batch, fresh, reaping, life>>

\* The thread that ends the process a moment after the reply.
SpawnExit(t) ==
  /\ pc[t] = "exit"
  /\ process' = "exiting"
  /\ Goto(t, "ok")
  /\ UNCHANGED <<registry, tree, label, req, batch, fresh, killing, reaping,
                 retiring, expired>>

DaemonExit ==
  /\ process = "exiting"
  /\ process' = "exited"
  /\ UNCHANGED <<registry, tree, label, pc, req, batch, fresh, killing, reaping,
                 retiring, expired>>

-----------------------------------------------------------------------------
(* What the panes' processes and the kill_pids_async threads do.           *)

\* A service line ends its shell, and the reader thread sets shell_gone.
ShellExit(p) ==
  /\ tree[p] = "up"
  /\ tree' = [tree EXCEPT ![p] = "gone"]
  /\ UNCHANGED <<registry, label, pc, req, batch, fresh, killing, reaping, life>>

\* A closed pane's processes end on the hangup or the SIGTERM.
TreeDies(p) ==
  /\ tree[p] = "dying"
  /\ tree' = [tree EXCEPT ![p] = "dead"]
  /\ UNCHANGED <<registry, label, pc, req, batch, fresh, killing, reaping, life>>

\* A background kill_pids is done with one pane's tree.
Reap(p) ==
  /\ process # "exited" /\ p \in reaping
  /\ tree' = [tree EXCEPT ![p] = IF @ = "dying" THEN "dead" ELSE @]
  /\ reaping' = reaping \ {p}
  /\ UNCHANGED <<registry, label, pc, req, batch, fresh, killing, life>>

-----------------------------------------------------------------------------
\* What a thread does once it has read a request.
Step(t) ==
  \/ Admit(t) \/ Reply(t)
  \/ Snapshot(t) \/ Close(t) \/ KillPids(t)
  \/ OpenNext(t) \/ OpenNextFails(t) \/ OpenDone(t) \/ PushOpened(t) \/ Rollback(t)
  \/ StartTakes(t) \/ SplitFinds(t)
  \/ SendFinds(t) \/ SendTypes(t) \/ SendErrs(t)
  \/ Reopen(t) \/ ReopenFails(t) \/ ReplaceGone(t) \/ ReplaceMisses(t)
  \/ KillPane(t) \/ KillSession(t) \/ Refuse(t)
  \/ Retire(t) \/ Drained(t) \/ DrainExpires(t) \/ Sweep(t) \/ SpawnExit(t)

Next ==
  \/ \E t \in Threads, r \in Request : Recv(t, r)
  \/ \E t \in Threads : Step(t)
  \/ \E p \in PaneIds : ShellExit(p) \/ TreeDies(p) \/ Reap(p)
  \/ DaemonExit

(***************************************************************************)
(* Every thread and every reaper runs on: they block on nothing but the    *)
(* registry lock, bounded waits and bounded sleeps.  Requests need not     *)
(* arrive, shells need not exit, and a closed tree need not die by itself. *)
(***************************************************************************)
Fairness ==
  /\ \A t \in Threads : WF_vars(Step(t))
  /\ \A p \in PaneIds : WF_vars(Reap(p))
  /\ WF_vars(DaemonExit)

Spec == Init /\ [][Next]_vars

FairSpec == Spec /\ Fairness

-----------------------------------------------------------------------------
(***************************************************************************)
(* No pane's processes are forgotten (the reason teardown snapshots before *)
(* it closes, and open closes what it could not start): while the daemon   *)
(* runs, a living shell is in the registry, or in the hands of a thread    *)
(* that will list it or tear it down; and the tree of a closed one is in   *)
(* the hands of a thread or a reaper that will kill it.                    *)
(***************************************************************************)
Held(t) == {fresh[t]} \cup (IF pc[t] \in {"teardown", "close"} THEN doomed[t] ELSE {})

Owned(p) == p \in Listed \/ \E t \in Threads : p \in Held(t)

BeingReaped(p) ==
  \/ p \in reaping
  \/ \E t \in Threads : pc[t] = "kill" /\ p \in victims[t]

NoLeak ==
  \A p \in PaneIds : /\ tree[p] = "up" => Owned(p)
                     /\ tree[p] = "dying" => BeingReaped(p)

(***************************************************************************)
(* A session is in the registry exactly while it holds a pane: Split, the  *)
(* listings and the janitor take a name in the map for a session that      *)
(* runs, and drop_pane forgets a session with its last pane.               *)
(***************************************************************************)
SessionsHoldPanes == \A s \in Sessions : s \in keys <=> PanesOf(s) # {}

(***************************************************************************)
(* The panes the registry lists are panes to type into or to reopen:       *)
(* teardown only ever closes panes that have left the registry, so no      *)
(* client is shown a pane whose shell the daemon has killed.               *)
(***************************************************************************)
ListedNotClosed == \A p \in Listed : tree[p] \in {"up", "gone"}

(***************************************************************************)
(* A Start opens nothing, a waited KillSession answers nothing and a       *)
(* Shutdown leaves nothing before every process it snapshotted is gone     *)
(* ("Reap synchronously", and the wait of kill_session_wait); what it took *)
(* and did not snapshot had ended, or another teardown is reaping it.      *)
(***************************************************************************)
Waited(t) ==
  \/ pc[t] \in {"open", "push", "rollback"} /\ req[t].op = "start"
  \/ pc[t] = "ok" /\ req[t].op = "kill_session" /\ req[t].wait
  \/ pc[t] = "exit"

WaitedMeansReaped ==
  \A t \in Threads : Waited(t) =>
    /\ \A p \in victims[t] : tree[p] \in {"gone", "dead"}
    /\ \A p \in doomed[t] : tree[p] # "up" /\ (tree[p] = "dying" => BeingReaped(p))

(***************************************************************************)
(* A batch that failed leaves none of the panes it opened behind: when the *)
(* error is answered, none of them is listed and no shell of theirs runs,  *)
(* whoever else took or dropped them in between.                           *)
(***************************************************************************)
RollbackComplete ==
  \A t \in Threads :
    pc[t] = "err" /\ req[t].op \in {"start", "split"} =>
      \A p \in opened[t] : p \notin Listed /\ tree[p] # "up"

(***************************************************************************)
(* No request opens panes after the shutdown's sweep (retire's comment),   *)
(* as long as the drain did not run into its deadline: when the daemon is  *)
(* about to exit no shell is up and nothing is listed.                     *)
(***************************************************************************)
SweptClean ==
  process # "up" /\ ~expired => Listed = {} /\ \A p \in PaneIds : tree[p] # "up"

(***************************************************************************)
(* A pane leaves the registry only at the hands of a request that names it *)
(* or its session, that opened it and is rolling back, that reopens it     *)
(* once its shell has gone, or that shuts everything down: drop_pane and   *)
(* take walk a map every other session shares, and a failed Split keeps    *)
(* the panes that were there.                                              *)
(***************************************************************************)
MayRemove(t, p) ==
  \/ pc[t] \in {"start", "kill_session"} /\ req[t].session = home[p]
  \/ pc[t] = "kill_pane" /\ req[t].pane = p
  \/ pc[t] = "replace" /\ req[t].pane = p /\ tree[p] = "gone"
  \/ pc[t] = "rollback" /\ p \in opened[t]
  \/ pc[t] = "sweep"

OnlyOwnPanesLeave ==
  [][\A p \in Listed \ Listed' :
       \E t \in Threads : pc'[t] # pc[t] /\ MayRemove(t, p)]_vars

\* Every request is answered or hung up on, however the threads interleave.
Answered ==
  \A t \in Threads : pc[t] # "idle" ~> (pc[t] = "idle" \/ process = "exited")

\* The processes of a closed pane are gone in the end, TERM-ignoring or not.
ReapedInTheEnd ==
  \A p \in PaneIds : tree[p] = "dying" ~> (tree[p] = "dead" \/ process = "exited")

-----------------------------------------------------------------------------
(***************************************************************************)
(* The inductive invariant behind NoLeak, part by part.                    *)
(***************************************************************************)
\* The request fits the handler that runs it.
Served ==
  \A t \in Threads :
    /\ pc[t] # "idle" => req[t] \in Request
    /\ pc[t] \in {"start", "split", "kill_session"} => req[t].op = pc[t]
    /\ pc[t] \in {"open", "push", "rollback"} => req[t].op \in {"start", "split"}
    /\ pc[t] \in {"send", "kill_pane", "reopen", "replace"} =>
         req[t].op \in {"send", "kill_pane"}
    /\ pc[t] \in {"teardown", "close", "kill"} /\ next[t] = "open" =>
         req[t].op = "start"

\* An id not drawn yet is known to nobody.
Undrawn ==
  \A p \in PaneIds : p >= nextPane =>
    /\ tree[p] = "unborn" /\ home[p] = NoSession
    /\ \A t \in Threads : fresh[t] # p /\ p \notin doomed[t] /\ p \notin opened[t]

\* A pane just opened is in nobody else's hands.
FreshApart ==
  \A t \in Threads :
    /\ (fresh[t] # NoPane) <=> pc[t] \in {"push", "replace"}
    /\ fresh[t] # NoPane =>
         /\ tree[fresh[t]] \in {"up", "gone"} /\ fresh[t] \notin Listed
         /\ \A u \in Threads : /\ fresh[t] \notin doomed[u] /\ fresh[t] \notin opened[u]
                               /\ u # t => fresh[u] # fresh[t]

\* What a teardown has been handed has left the registry, and what still lives
\* of it when it is closed is in the snapshot.
DoomedApart ==
  \A t \in Threads :
    /\ pc[t] \in {"teardown", "close"} => doomed[t] \cap Listed = {}
    /\ pc[t] = "close" => \A p \in doomed[t] : tree[p] = "up" => p \in victims[t]

\* A pane being reopened has no living shell to lose.
ReopenedGone ==
  \A t \in Threads : pc[t] \in {"reopen", "replace"} => tree[req[t].pane] = "gone"

IInv == /\ TypeOK /\ Served /\ Undrawn /\ FreshApart /\ DoomedApart /\ ReopenedGone
        /\ ListedNotClosed /\ SessionsHoldPanes /\ NoLeak
==============================================================================
