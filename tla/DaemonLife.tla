----------------------------- MODULE DaemonLife -----------------------------
(***************************************************************************)
(* The life of session daemons and of the clients that start, reach and    *)
(* lose them: run, take_lock, serve, retire and start_janitor of           *)
(* sessiond.rs, the lock of daemonize.rs, and query, command, start_daemon *)
(* and await_retiring_daemon of sessionclient.rs.                          *)
(*                                                                         *)
(* What a request does to panes is SessionDaemon's business.  Here each    *)
(* client has one session: a Start puts it in the registry of the daemon   *)
(* that serves it, a KillSession takes it out, a Shutdown sweeps them all. *)
(***************************************************************************)
EXTENDS Naturals, FiniteSets

CONSTANTS Clients,     \* client processes: the app, the CLI
          Ops,         \* the requests they make: "start", "kill", "shutdown"
          MaxDaemons,  \* bound on the daemons ever launched
          IDLE_TICKS,  \* quiet ticks after which the janitor retires a daemon
          MayCrash     \* whether a daemon may also end uncleanly

ASSUME OpsAssumption == Ops \subseteq {"start", "kill", "shutdown"}
ASSUME BoundsAssumption == MaxDaemons \in Nat /\ IDLE_TICKS \in Nat \ {0}
ASSUME MayCrashAssumption == MayCrash \in BOOLEAN

Daemons  == 1 .. MaxDaemons
NoDaemon == 0

\* The two connections one command may use: the first try, and the one to the
\* daemon start_daemon found or launched.
Tries == {1, 2}

\* A connection: connected, the request written, read and counted in IN_FLIGHT,
\* admitted, a shutdown waiting out the others, handled, answered, closed.
InFlightStages == {"busy", "admitted", "drain", "handled"}
Stages == {"none", "open", "sent", "replied", "closed"} \cup InFlightStages

VARIABLES
  life,      \* each daemon: "unborn", "waiting" for the lock, "binding", "serving", "gone"
  lock,      \* who holds the lock file
  socket,    \* whose listener the socket file leads to
  sessions,  \* each daemon's registry: the clients whose sessions it holds
  retiring,  \* RETIRING of each daemon
  leaving,   \* a shutdown has swept and the exit is on its way
  janitor,   \* each daemon's janitor: "sleep", "empty", "leave" or "exit"
  idle,      \* its count of quiet ticks
  cpc,       \* each client: "idle", "connect", "write", "wait", "await", "startup"
  op,        \* the request it makes
  try,       \* which of its connections it is on
  to,        \* the daemon each connection leads to
  stage,     \* how far each connection is
  broken     \* whether a client's last request ended in a failed write

daemonVars == <<life, lock, socket, sessions, retiring, leaving, janitor, idle>>
connVars   == <<to, stage>>
clientVars == <<cpc, op, try, broken>>
vars == <<daemonVars, connVars, clientVars>>

TypeOK ==
  /\ life \in [Daemons -> {"unborn", "waiting", "binding", "serving", "gone"}]
  /\ lock \in Daemons \cup {NoDaemon}
  /\ socket \in Daemons \cup {NoDaemon}
  /\ sessions \in [Daemons -> SUBSET Clients]
  /\ retiring \in [Daemons -> BOOLEAN]
  /\ leaving \in [Daemons -> BOOLEAN]
  /\ janitor \in [Daemons -> {"sleep", "empty", "leave", "exit"}]
  /\ idle \in [Daemons -> 0 .. IDLE_TICKS]
  /\ cpc \in [Clients -> {"idle", "connect", "write", "wait", "await", "startup"}]
  /\ op \in [Clients -> {"start", "kill", "shutdown"}]
  /\ try \in [Clients -> Tries]
  /\ to \in [Clients \X Tries -> Daemons \cup {NoDaemon}]
  /\ stage \in [Clients \X Tries -> Stages]
  /\ broken \in [Clients -> BOOLEAN]

Init ==
  /\ life = [d \in Daemons |-> "unborn"]
  /\ lock = NoDaemon
  /\ socket = NoDaemon
  /\ sessions = [d \in Daemons |-> {}]
  /\ retiring = [d \in Daemons |-> FALSE]
  /\ leaving = [d \in Daemons |-> FALSE]
  /\ janitor = [d \in Daemons |-> "sleep"]
  /\ idle = [d \in Daemons |-> 0]
  /\ cpc = [c \in Clients |-> "idle"]
  /\ op = [c \in Clients |-> "start"]
  /\ try = [c \in Clients |-> 1]
  /\ to = [x \in Clients \X Tries |-> NoDaemon]
  /\ stage = [x \in Clients \X Tries |-> "none"]
  /\ broken = [c \in Clients |-> FALSE]

-----------------------------------------------------------------------------
(* A daemon's start, and its end.                                          *)

Conns == Clients \X Tries

\* IN_FLIGHT of a daemon.
InFlight(d) == {x \in Conns : to[x] = d /\ stage[x] \in InFlightStages}

\* take_lock: the lock, once nobody holds it ...
TakeLock(d) ==
  /\ life[d] = "waiting" /\ lock = NoDaemon
  /\ lock' = d
  /\ life' = [life EXCEPT ![d] = "binding"]
  /\ UNCHANGED <<socket, sessions, retiring, leaving, janitor, idle, connVars, clientVars>>

\* Deviation: a daemon that waited long enough binds without the lock.
LockWaitEndsInBind(d) ==
  /\ life[d] = "waiting" /\ lock # NoDaemon
  /\ life' = [life EXCEPT ![d] = "binding"]
  /\ UNCHANGED <<lock, socket, sessions, retiring, leaving, janitor, idle, connVars, clientVars>>

\* Deviation: ... and cleans the socket up on its way out.
LockWaitEndsUnlinks(d) ==
  /\ life[d] = "waiting" /\ lock # NoDaemon
  /\ life' = [life EXCEPT ![d] = "gone"]
  /\ socket' = NoDaemon
  /\ UNCHANGED <<lock, sessions, retiring, leaving, janitor, idle, connVars, clientVars>>

\* ... or LOCK_WAIT is over while another daemon lives, and this one exits.
LockWaitEnds(d) ==
  /\ life[d] = "waiting" /\ lock # NoDaemon
  /\ life' = [life EXCEPT ![d] = "gone"]
  /\ UNCHANGED <<lock, socket, sessions, retiring, leaving, janitor, idle, connVars, clientVars>>

\* run: unlink a stale socket and bind; the janitor starts.
Bind(d) ==
  /\ life[d] = "binding"
  /\ life' = [life EXCEPT ![d] = "serving"]
  /\ socket' = d
  /\ UNCHANGED <<lock, sessions, retiring, leaving, janitor, idle, connVars, clientVars>>

\* The process ends: its memory goes, the lock is free, its connections close.
\* A reply already written can still be read.
ProcessEnds(d) ==
  /\ life' = [life EXCEPT ![d] = "gone"]
  /\ lock' = IF lock = d THEN NoDaemon ELSE lock
  /\ sessions' = [sessions EXCEPT ![d] = {}]
  /\ retiring' = [retiring EXCEPT ![d] = FALSE]
  /\ leaving' = [leaving EXCEPT ![d] = FALSE]
  /\ janitor' = [janitor EXCEPT ![d] = "sleep"]
  /\ idle' = [idle EXCEPT ![d] = 0]
  /\ stage' = [x \in Conns |-> IF to[x] = d /\ stage[x] \notin {"none", "replied"}
                               THEN "closed" ELSE stage[x]]
  /\ UNCHANGED <<socket, to, clientVars>>

ShutdownExit(d) ==
  /\ life[d] = "serving" /\ leaving[d]
  /\ ProcessEnds(d)

\* An unclean exit leaves the socket file behind.  A bind that fails ends the
\* same way: a socket file nobody listens on is as good as none.
Crash(d) ==
  /\ MayCrash /\ life[d] \in {"binding", "serving"}
  /\ ProcessEnds(d)

-----------------------------------------------------------------------------
(* start_janitor: two separate reads per tick, then the unlink, then the   *)
(* exit.                                                                   *)

JanitorLooks(d) ==
  /\ life[d] = "serving" /\ janitor[d] = "sleep"
  /\ IF sessions[d] = {}
       THEN janitor' = [janitor EXCEPT ![d] = "empty"] /\ UNCHANGED idle
       ELSE idle' = [idle EXCEPT ![d] = 0] /\ UNCHANGED janitor
  /\ UNCHANGED <<life, lock, socket, sessions, retiring, leaving, connVars, clientVars>>

\* Deviation: one tick too many.
JanitorCountsPast(d) ==
  /\ life[d] = "serving" /\ janitor[d] = "empty"
  /\ idle' = [idle EXCEPT ![d] = IF InFlight(d) = {} THEN @ + 1 ELSE 0]
  /\ janitor' = [janitor EXCEPT ![d] = IF idle'[d] > IDLE_TICKS THEN "leave" ELSE "sleep"]
  /\ UNCHANGED <<life, lock, socket, sessions, retiring, leaving, connVars, clientVars>>

\* Deviation: a quiet tick is not counted.
JanitorForgets(d) ==
  /\ life[d] = "serving" /\ janitor[d] = "empty"
  /\ idle' = [idle EXCEPT ![d] = 0]
  /\ janitor' = [janitor EXCEPT ![d] = "sleep"]
  /\ UNCHANGED <<life, lock, socket, sessions, retiring, leaving, connVars, clientVars>>

JanitorCounts(d) ==
  /\ life[d] = "serving" /\ janitor[d] = "empty"
  /\ idle' = [idle EXCEPT ![d] = IF InFlight(d) = {} THEN @ + 1 ELSE 0]
  /\ janitor' = [janitor EXCEPT ![d] = IF idle'[d] >= IDLE_TICKS THEN "leave" ELSE "sleep"]
  /\ UNCHANGED <<life, lock, socket, sessions, retiring, leaving, connVars, clientVars>>

JanitorUnlinks(d) ==
  /\ life[d] = "serving" /\ janitor[d] = "leave"
  /\ socket' = NoDaemon
  /\ janitor' = [janitor EXCEPT ![d] = "exit"]
  /\ UNCHANGED <<life, lock, sessions, retiring, leaving, idle, connVars, clientVars>>

JanitorExits(d) ==
  /\ life[d] = "serving" /\ janitor[d] = "exit"
  /\ ProcessEnds(d)

-----------------------------------------------------------------------------
(* serve: one thread per connection.                                       *)

At(x, s) == stage[x] = s /\ life[to[x]] = "serving"

Move(x, s) == stage' = [stage EXCEPT ![x] = s] /\ UNCHANGED to

\* The line is read and the request counted before RETIRING is looked at.
Read(x) ==
  /\ At(x, "sent")
  /\ Move(x, "busy")
  /\ UNCHANGED <<daemonVars, clientVars>>

Check(x) ==
  /\ At(x, "busy")
  /\ Move(x, IF retiring[to[x]] THEN "closed" ELSE "admitted")
  /\ UNCHANGED <<daemonVars, clientVars>>

\* handle, for a Start and for a KillSession.
HandleSession(x) ==
  /\ At(x, "admitted") /\ op[x[1]] \in {"start", "kill"}
  /\ sessions' = [sessions EXCEPT ![to[x]] =
                    IF op[x[1]] = "start" THEN @ \cup {x[1]} ELSE @ \ {x[1]}]
  /\ Move(x, "handled")
  /\ UNCHANGED <<life, lock, socket, retiring, leaving, janitor, idle, clientVars>>

\* handle, for a Shutdown: retire ...
Retire(x) ==
  /\ At(x, "admitted") /\ op[x[1]] = "shutdown"
  /\ retiring' = [retiring EXCEPT ![to[x]] = TRUE]
  /\ socket' = NoDaemon
  /\ Move(x, "drain")
  /\ UNCHANGED <<life, lock, sessions, leaving, janitor, idle, clientVars>>

\* Deviation: the drain has no deadline.
SweepOnceAlone(x) ==
  /\ At(x, "drain") /\ InFlight(to[x]) = {x}
  /\ sessions' = [sessions EXCEPT ![to[x]] = {}]
  /\ leaving' = [leaving EXCEPT ![to[x]] = TRUE]
  /\ Move(x, "handled")
  /\ UNCHANGED <<life, lock, socket, retiring, janitor, idle, clientVars>>

\* ... and, once the others are served or DRAIN is over, sweep and leave.
Sweep(x) ==
  /\ At(x, "drain")
  /\ sessions' = [sessions EXCEPT ![to[x]] = {}]
  /\ leaving' = [leaving EXCEPT ![to[x]] = TRUE]
  /\ Move(x, "handled")
  /\ UNCHANGED <<life, lock, socket, retiring, janitor, idle, clientVars>>

Write(x) ==
  /\ At(x, "handled")
  /\ Move(x, "replied")
  /\ UNCHANGED <<daemonVars, clientVars>>

-----------------------------------------------------------------------------
(* A client's request: query for a KillSession or a Shutdown, command,     *)
(* which may start a daemon, for a Start.                                  *)

Mine(c) == <<c, try[c]>>

\* A request the daemon has not finished with; the client may have given it up.
Underway(x) == stage[x] \in {"sent"} \cup InFlightStages

\* The request has ended and the client's connections are dropped.
Finish(c) ==
  /\ cpc' = [cpc EXCEPT ![c] = "idle"]
  /\ try' = [try EXCEPT ![c] = 1]
  /\ stage' = [x \in Conns |-> IF x[1] = c /\ ~ Underway(x) THEN "none" ELSE stage[x]]
  /\ to' = [x \in Conns |-> IF x[1] = c /\ ~ Underway(x) THEN NoDaemon ELSE to[x]]
  /\ UNCHANGED op

End(c) == Finish(c) /\ UNCHANGED broken

\* The step to another place of a request that goes on.
Proceed(c, where) ==
  /\ cpc' = [cpc EXCEPT ![c] = where]
  /\ UNCHANGED <<op, try, broken>>

\* The bound that ends a client's abandoned requests before its next one.
Settled(c) == \A k \in Tries : ~ Underway(<<c, k>>)

Ask(c, o) ==
  /\ cpc[c] = "idle" /\ Settled(c)
  /\ cpc' = [cpc EXCEPT ![c] = "connect"]
  /\ op' = [op EXCEPT ![c] = o]
  /\ broken' = [broken EXCEPT ![c] = FALSE]
  /\ stage' = [x \in Conns |-> IF x[1] = c THEN "none" ELSE stage[x]]
  /\ to' = [x \in Conns |-> IF x[1] = c THEN NoDaemon ELSE to[x]]
  /\ UNCHANGED <<try, daemonVars>>

\* connect: the socket file leads to a listener that lives.
Reachable == socket # NoDaemon /\ life[socket] = "serving"

ConnectTo(c, k) ==
  /\ to' = [to EXCEPT ![<<c, k>>] = socket]
  /\ stage' = [stage EXCEPT ![<<c, k>>] = "open"]
  /\ cpc' = [cpc EXCEPT ![c] = "write"]
  /\ try' = [try EXCEPT ![c] = k]
  /\ UNCHANGED <<op, broken, daemonVars>>

Connect(c) ==
  /\ cpc[c] = "connect" /\ Reachable
  /\ ConnectTo(c, 1)

\* Nothing listens: no answer to a query, the cue to start one for a command.
ConnectFails(c) ==
  /\ cpc[c] = "connect" /\ ~Reachable
  /\ IF op[c] = "start"
       THEN Proceed(c, "await") /\ UNCHANGED connVars
       ELSE End(c)
  /\ UNCHANGED daemonVars

\* exchange: write the request.  A peer that has gone makes the write fail.
WriteRequest(c) ==
  /\ cpc[c] = "write" /\ stage[Mine(c)] = "open"
  /\ Move(Mine(c), "sent")
  /\ Proceed(c, "wait")
  /\ UNCHANGED daemonVars

WriteFails(c) ==
  /\ cpc[c] = "write" /\ stage[Mine(c)] = "closed"
  /\ Finish(c)
  /\ broken' = [broken EXCEPT ![c] = TRUE]
  /\ UNCHANGED daemonVars

\* exchange: read the reply.
ReadReply(c) ==
  /\ cpc[c] = "wait" /\ stage[Mine(c)] = "replied"
  /\ End(c)
  /\ UNCHANGED daemonVars

\* Deviation: a command is asked again for as long as nobody answers it.
NoReplyAsksForever(c) ==
  /\ IF op[c] = "start"
       THEN Proceed(c, "await") /\ UNCHANGED connVars
       ELSE End(c)
  /\ UNCHANGED daemonVars

\* NO_REPLY: command starts a daemon and asks again, once.
NoReply(c) ==
  /\ IF op[c] = "start" /\ try[c] = 1
       THEN Proceed(c, "await") /\ UNCHANGED connVars
       ELSE End(c)
  /\ UNCHANGED daemonVars

ReadClosed(c) ==
  /\ cpc[c] = "wait" /\ stage[Mine(c)] = "closed"
  /\ NoReply(c)

\* REPLY_TIMEOUT: read_line gives None for it as for a closed connection.
ReadTimesOut(c) ==
  /\ cpc[c] = "wait" /\ Underway(Mine(c))
  /\ NoReply(c)

\* await_retiring_daemon: while somebody holds the lock, try its socket.
AwaitConnects(c) ==
  /\ cpc[c] = "await" /\ lock # NoDaemon /\ Reachable
  /\ ConnectTo(c, 2)

AwaitExpires(c) ==
  /\ cpc[c] = "await" /\ lock # NoDaemon /\ ~Reachable
  /\ End(c)
  /\ UNCHANGED daemonVars

\* start_daemon: launch one.  Past MaxDaemons a launch starts nothing.
Launch(c) ==
  /\ cpc[c] = "await" /\ lock = NoDaemon
  /\ Proceed(c, "startup")
  /\ life' = [d \in Daemons |->
                IF life[d] = "unborn" /\ \A e \in Daemons : e < d => life[e] # "unborn"
                THEN "waiting" ELSE life[d]]
  /\ UNCHANGED <<connVars, lock, socket, sessions, retiring, leaving, janitor, idle>>

StartupConnects(c) ==
  /\ cpc[c] = "startup" /\ Reachable
  /\ ConnectTo(c, 2)

StartupExpires(c) ==
  /\ cpc[c] = "startup" /\ ~Reachable
  /\ End(c)
  /\ UNCHANGED daemonVars

-----------------------------------------------------------------------------
Startup(d) == TakeLock(d) \/ LockWaitEnds(d) \/ Bind(d)

Janitor(d) == JanitorLooks(d) \/ JanitorCounts(d) \/ JanitorUnlinks(d) \/ JanitorExits(d)

Serve(x) == Read(x) \/ Check(x) \/ HandleSession(x) \/ Retire(x) \/ Sweep(x) \/ Write(x)

Client(c) ==
  \/ Connect(c) \/ ConnectFails(c) \/ WriteRequest(c) \/ WriteFails(c)
  \/ ReadReply(c) \/ ReadClosed(c) \/ ReadTimesOut(c)
  \/ AwaitConnects(c) \/ AwaitExpires(c) \/ Launch(c)
  \/ StartupConnects(c) \/ StartupExpires(c)

Next ==
  \/ \E c \in Clients, o \in Ops : Ask(c, o)
  \/ \E c \in Clients : Client(c)
  \/ \E x \in Conns : Serve(x)
  \/ \E d \in Daemons : Startup(d) \/ Janitor(d) \/ ShutdownExit(d) \/ Crash(d)

(***************************************************************************)
(* A daemon's main thread, its janitor, the thread that ends it after a    *)
(* shutdown and each thread that serves run on: they wait for nothing      *)
(* without a limit but the next request.  So does a client that has asked. *)
(* No request need be made, and no daemon need crash.                      *)
(***************************************************************************)
Fairness ==
  /\ \A d \in Daemons : WF_vars(Startup(d)) /\ WF_vars(Janitor(d)) /\ WF_vars(ShutdownExit(d))
  /\ \A x \in Conns : WF_vars(Serve(x))
  /\ \A c \in Clients : WF_vars(Client(c))

Spec == Init /\ [][Next]_vars

FairSpec == Spec /\ Fairness

-----------------------------------------------------------------------------
(***************************************************************************)
(* "Whoever holds the lock owns the socket" (run): daemons that race to    *)
(* start, wait for one that retires, or find a socket an unclean exit left *)
(* never serve side by side.                                               *)
(***************************************************************************)
OneOwner ==
  \A d \in Daemons : life[d] \in {"binding", "serving"} <=> lock = d

(***************************************************************************)
(* "The loser never unlinks a socket the winner has already bound" (run):  *)
(* until a serving daemon decides to go, the socket file leads to it, so   *)
(* the panes it carries can be reached.                                    *)
(***************************************************************************)
Staying(d) == life[d] = "serving" /\ ~ retiring[d] /\ janitor[d] # "exit"

ServingIsReached == \A d \in Daemons : Staying(d) => socket = d

\* A client's request comes to an end, whatever becomes of the daemon it asked,
\* of the one it waits for and of the one it starts.
RequestsEnd == \A c \in Clients : cpc[c] # "idle" ~> cpc[c] = "idle"

\* A daemon that has begun to retire lets go of the lock, two shutdowns that
\* wait for each other's request to finish included.
RetiringEnds == \A d \in Daemons : retiring[d] ~> life[d] = "gone"

\* "Retire the daemon once it has held no sessions for a while" (start_janitor):
\* one that stays without sessions and without requests does not stay.
IdleEnds ==
  \A d \in Daemons :
    <>[](sessions[d] = {} /\ InFlight(d) = {}) => <>[](life[d] # "serving")

\* The inductive invariant behind OneOwner and ServingIsReached: a thread that
\* serves, and may unlink the socket, serves for a daemon.
Connected == \A x \in Conns : stage[x] # "none" => to[x] \in Daemons

\* A janitor that goes on has not counted to the limit.
Counting == \A d \in Daemons : janitor[d] \in {"sleep", "empty"} => idle[d] < IDLE_TICKS

IInv == TypeOK /\ Connected /\ Counting /\ OneOwner /\ ServingIsReached
=============================================================================
