-------------------------- MODULE DaemonLifeProofs --------------------------
(***************************************************************************)
(* At most one daemon serves, and the socket leads to it, for any number   *)
(* of clients and of daemons they launch, crashing ones included.          *)
(*                                                                         *)
(* IInv adds to the two properties that a connection in use leads to a     *)
(* daemon and that a janitor's count is below its limit until it leaves.   *)
(* Two facts carry the argument: the lock passes to a daemon only from     *)
(* nobody, and everybody who touches the socket file holds it.             *)
(***************************************************************************)
EXTENDS DaemonLife, TLAPS

\* What a step that neither starts, ends, hides nor moves a daemon preserves.
LEMMA OwnerKept ==
  ASSUME IInv, UNCHANGED <<life, lock, socket>>,
         \A d \in Daemons : Staying(d)' => Staying(d)
  PROVE  OneOwner' /\ ServingIsReached'
BY DEF IInv, OneOwner, ServingIsReached

\* Whoever takes the lock takes it from nobody (take_lock).
LEMMA TakeLockStep ==
  ASSUME NEW d \in Daemons, IInv, TakeLock(d)
  PROVE  IInv'
<1>1. TypeOK'
  BY BoundsAssumption DEF IInv, TypeOK, TakeLock, connVars, clientVars
<1>2. Connected'
  BY DEF IInv, Connected, Conns, TakeLock, connVars
<1>3. OneOwner'
  BY DEF IInv, TypeOK, OneOwner, TakeLock, Daemons, NoDaemon
<1>4. ServingIsReached'
  BY DEF IInv, TypeOK, OneOwner, ServingIsReached, Staying, TakeLock, Daemons,
     NoDaemon
<1>5. Counting'
  BY DEF IInv, Counting, TakeLock
<1> QED BY <1>1, <1>2, <1>3, <1>4, <1>5 DEF IInv

\* A daemon that gives the lock up had none, and touches nothing.
LEMMA LockWaitEndsStep ==
  ASSUME NEW d \in Daemons, IInv, LockWaitEnds(d)
  PROVE  IInv'
<1>1. TypeOK'
  BY BoundsAssumption DEF IInv, TypeOK, LockWaitEnds, connVars, clientVars
<1>2. Connected'
  BY DEF IInv, Connected, Conns, LockWaitEnds, connVars
<1>3. OneOwner'
  BY DEF IInv, TypeOK, OneOwner, LockWaitEnds, Daemons, NoDaemon
<1>4. ServingIsReached'
  BY DEF IInv, TypeOK, OneOwner, ServingIsReached, Staying, LockWaitEnds, Daemons,
     NoDaemon
<1>5. Counting'
  BY DEF IInv, Counting, LockWaitEnds
<1> QED BY <1>1, <1>2, <1>3, <1>4, <1>5 DEF IInv

\* The lock holder makes the socket its own (run).
LEMMA BindStep ==
  ASSUME NEW d \in Daemons, IInv, Bind(d)
  PROVE  IInv'
<1>1. TypeOK'
  BY BoundsAssumption DEF IInv, TypeOK, Bind, connVars, clientVars
<1>2. Connected'
  BY DEF IInv, Connected, Conns, Bind, connVars
<1>3. OneOwner'
  BY DEF IInv, TypeOK, OneOwner, Bind, Daemons, NoDaemon
<1>4. ServingIsReached'
  BY DEF IInv, TypeOK, OneOwner, ServingIsReached, Staying, Bind, Daemons, NoDaemon
<1>5. Counting'
  BY DEF IInv, Counting, Bind
<1> QED BY <1>1, <1>2, <1>3, <1>4, <1>5 DEF IInv

\* The janitor looks whether there are sessions.
LEMMA JanitorLooksStep ==
  ASSUME NEW d \in Daemons, IInv, JanitorLooks(d)
  PROVE  IInv'
<1>1. TypeOK'
  <2>1. idle' \in [Daemons -> 0 .. IDLE_TICKS]
    BY BoundsAssumption DEF IInv, TypeOK, JanitorLooks
  <2>2. janitor' \in [Daemons -> {"sleep", "empty", "leave", "exit"}]
    BY DEF IInv, TypeOK, JanitorLooks
  <2> QED
    BY <2>1, <2>2 DEF IInv, TypeOK, JanitorLooks, connVars, clientVars
<1>2. Connected'
  BY DEF IInv, Connected, Conns, JanitorLooks, connVars
<1>3. OneOwner' /\ ServingIsReached'
  BY OwnerKept DEF IInv, TypeOK, Staying, JanitorLooks
<1>4. Counting'
  BY BoundsAssumption DEF IInv, TypeOK, Counting, JanitorLooks
<1> QED BY <1>1, <1>2, <1>3, <1>4 DEF IInv

\* It counts quiet ticks up to the limit, and then decides to go.
LEMMA JanitorCountsStep ==
  ASSUME NEW d \in Daemons, IInv, JanitorCounts(d)
  PROVE  IInv'
<1>1. TypeOK'
  <2>1. idle' \in [Daemons -> 0 .. IDLE_TICKS]
    BY BoundsAssumption DEF IInv, TypeOK, Counting, JanitorCounts
  <2> QED
    BY <2>1 DEF IInv, TypeOK, JanitorCounts, connVars, clientVars
<1>2. Connected'
  BY DEF IInv, Connected, Conns, JanitorCounts, connVars
<1>3. OneOwner' /\ ServingIsReached'
  BY OwnerKept DEF IInv, TypeOK, Staying, JanitorCounts
<1>4. Counting'
  BY BoundsAssumption DEF IInv, TypeOK, Counting, JanitorCounts
<1> QED BY <1>1, <1>2, <1>3, <1>4 DEF IInv

\* It unlinks the socket of a daemon that is to exit: its own.
LEMMA JanitorUnlinksStep ==
  ASSUME NEW d \in Daemons, IInv, JanitorUnlinks(d)
  PROVE  IInv'
<1>1. TypeOK'
  BY BoundsAssumption DEF IInv, TypeOK, JanitorUnlinks, connVars, clientVars
<1>2. Connected'
  BY DEF IInv, Connected, Conns, JanitorUnlinks, connVars
<1>3. OneOwner'
  BY DEF IInv, TypeOK, OneOwner, JanitorUnlinks, Daemons, NoDaemon
<1>4. ServingIsReached'
  BY DEF IInv, TypeOK, OneOwner, ServingIsReached, Staying, JanitorUnlinks,
     Daemons, NoDaemon
<1>5. Counting'
  BY DEF IInv, TypeOK, Counting, JanitorUnlinks
<1> QED BY <1>1, <1>2, <1>3, <1>4, <1>5 DEF IInv

\* The end of a process, however it comes about.
LEMMA ProcessEndsStep ==
  ASSUME NEW d \in Daemons, IInv, ProcessEnds(d)
  PROVE  IInv'
<1>1. TypeOK'
  BY BoundsAssumption DEF IInv, TypeOK, ProcessEnds, Conns, Stages, clientVars
<1>2. Connected'
  BY DEF IInv, TypeOK, Connected, Conns, ProcessEnds
<1>3. OneOwner'
  BY DEF IInv, TypeOK, OneOwner, ProcessEnds, Daemons, NoDaemon
<1>4. ServingIsReached'
  BY DEF IInv, TypeOK, OneOwner, ServingIsReached, Staying, ProcessEnds, Daemons
<1>5. Counting'
  BY BoundsAssumption DEF IInv, TypeOK, Counting, ProcessEnds
<1> QED BY <1>1, <1>2, <1>3, <1>4, <1>5 DEF IInv

\* A request is read and counted in flight.
LEMMA ReadStep ==
  ASSUME NEW x \in Conns, IInv, Read(x)
  PROVE  IInv'
<1>1. x \in Clients \X Tries /\ to[x] \in Daemons
  BY DEF IInv, Connected, Conns, Read, At
<1>2. TypeOK'
  BY <1>1 DEF IInv, TypeOK, Read, Move, Conns, Stages, InFlightStages, daemonVars,
     clientVars
<1>3. Connected'
  BY <1>1 DEF IInv, TypeOK, Connected, Conns, Read, Move
<1>4. OneOwner' /\ ServingIsReached'
  BY OwnerKept DEF Staying, Read, daemonVars
<1>5. Counting'
  BY DEF IInv, Counting, Read, daemonVars
<1> QED BY <1>2, <1>3, <1>4, <1>5 DEF IInv

\* RETIRING is looked at.
LEMMA CheckStep ==
  ASSUME NEW x \in Conns, IInv, Check(x)
  PROVE  IInv'
<1>1. x \in Clients \X Tries /\ to[x] \in Daemons
  BY DEF IInv, Connected, Conns, Check, At
<1>2. TypeOK'
  BY <1>1 DEF IInv, TypeOK, Check, Move, Conns, Stages, InFlightStages,
     daemonVars, clientVars
<1>3. Connected'
  BY <1>1 DEF IInv, TypeOK, Connected, Conns, Check, Move
<1>4. OneOwner' /\ ServingIsReached'
  BY OwnerKept DEF Staying, Check, daemonVars
<1>5. Counting'
  BY DEF IInv, Counting, Check, daemonVars
<1> QED BY <1>2, <1>3, <1>4, <1>5 DEF IInv

\* A Start or a KillSession changes the registry of the daemon that serves it.
LEMMA HandleSessionStep ==
  ASSUME NEW x \in Conns, IInv, HandleSession(x)
  PROVE  IInv'
<1>1. x \in Clients \X Tries /\ to[x] \in Daemons
  BY DEF IInv, Connected, Conns, HandleSession, At
<1>2. TypeOK'
  BY <1>1 DEF IInv, TypeOK, HandleSession, Move, Conns, Stages, InFlightStages,
     daemonVars, clientVars
<1>3. Connected'
  BY <1>1 DEF IInv, TypeOK, Connected, Conns, HandleSession, Move
<1>4. OneOwner' /\ ServingIsReached'
  BY OwnerKept DEF Staying, HandleSession, daemonVars
<1>5. Counting'
  BY DEF IInv, Counting, HandleSession
<1> QED BY <1>2, <1>3, <1>4, <1>5 DEF IInv

\* A Shutdown unlinks the socket of a daemon that no longer stays: its own (retire).
LEMMA RetireStep ==
  ASSUME NEW x \in Conns, IInv, Retire(x)
  PROVE  IInv'
<1>1. x \in Clients \X Tries /\ to[x] \in Daemons
  BY DEF IInv, Connected, Conns, Retire, At
<1>2. TypeOK'
  BY <1>1 DEF IInv, TypeOK, Retire, Move, Conns, Stages, InFlightStages,
     daemonVars, clientVars
<1>3. Connected'
  BY <1>1 DEF IInv, TypeOK, Connected, Conns, Retire, Move
<1>4. OneOwner'
  BY DEF IInv, OneOwner, Retire
<1>5. ServingIsReached'
  BY <1>1 DEF IInv, TypeOK, OneOwner, ServingIsReached, Staying, Retire, At
<1>6. Counting'
  BY DEF IInv, Counting, Retire
<1> QED BY <1>2, <1>3, <1>4, <1>5, <1>6 DEF IInv

\* The sweep empties the registry and leaves the exit to come.
LEMMA SweepStep ==
  ASSUME NEW x \in Conns, IInv, Sweep(x)
  PROVE  IInv'
<1>1. x \in Clients \X Tries /\ to[x] \in Daemons
  BY DEF IInv, Connected, Conns, Sweep, At
<1>2. TypeOK'
  BY <1>1 DEF IInv, TypeOK, Sweep, Move, Conns, Stages, InFlightStages,
     daemonVars, clientVars
<1>3. Connected'
  BY <1>1 DEF IInv, TypeOK, Connected, Conns, Sweep, Move
<1>4. OneOwner' /\ ServingIsReached'
  BY OwnerKept DEF Staying, Sweep, daemonVars
<1>5. Counting'
  BY DEF IInv, Counting, Sweep
<1> QED BY <1>2, <1>3, <1>4, <1>5 DEF IInv

\* The reply is written.
LEMMA WriteStep ==
  ASSUME NEW x \in Conns, IInv, Write(x)
  PROVE  IInv'
<1>1. x \in Clients \X Tries /\ to[x] \in Daemons
  BY DEF IInv, Connected, Conns, Write, At
<1>2. TypeOK'
  BY <1>1 DEF IInv, TypeOK, Write, Move, Conns, Stages, InFlightStages,
     daemonVars, clientVars
<1>3. Connected'
  BY <1>1 DEF IInv, TypeOK, Connected, Conns, Write, Move
<1>4. OneOwner' /\ ServingIsReached'
  BY OwnerKept DEF Staying, Write, daemonVars
<1>5. Counting'
  BY DEF IInv, Counting, Write, daemonVars
<1> QED BY <1>2, <1>3, <1>4, <1>5 DEF IInv

\* A connection made, a request finished.
LEMMA ConnectToStep ==
  ASSUME NEW c \in Clients, NEW k \in Tries, IInv, Reachable, ConnectTo(c, k)
  PROVE  IInv'
<1>1. TypeOK'
  BY DEF IInv, TypeOK, Reachable, ConnectTo, Stages, daemonVars
<1>2. Connected'
  BY DEF IInv, TypeOK, Connected, Conns, Reachable, ConnectTo
<1>3. OneOwner' /\ ServingIsReached'
  BY OwnerKept DEF Staying, ConnectTo, daemonVars
<1>4. Counting'
  BY DEF IInv, Counting, ConnectTo, daemonVars
<1> QED BY <1>1, <1>2, <1>3, <1>4 DEF IInv

\* A request that ended keeps only the connections still underway.
LEMMA FinishStep ==
  ASSUME NEW c \in Clients, IInv, Finish(c), broken' \in [Clients -> BOOLEAN],
         UNCHANGED daemonVars
  PROVE  IInv'
<1>1. TypeOK'
  BY DEF IInv, TypeOK, Finish, Conns, Stages, Tries, daemonVars
<1>2. Connected'
  BY DEF IInv, TypeOK, Connected, Conns, Finish
<1>3. OneOwner' /\ ServingIsReached'
  BY OwnerKept DEF Staying, daemonVars
<1>4. Counting'
  BY DEF IInv, Counting, daemonVars
<1> QED BY <1>1, <1>2, <1>3, <1>4 DEF IInv

\* A client goes on to another place of its request.
LEMMA ProceedStep ==
  ASSUME NEW c \in Clients, NEW w \in {"wait", "await"}, IInv, Proceed(c, w),
         UNCHANGED connVars, UNCHANGED daemonVars
  PROVE  IInv'
<1>1. TypeOK'
  BY DEF IInv, TypeOK, Proceed, connVars, daemonVars
<1>2. Connected'
  BY DEF IInv, Connected, connVars
<1>3. OneOwner' /\ ServingIsReached'
  BY OwnerKept DEF Staying, daemonVars
<1>4. Counting'
  BY DEF IInv, Counting, daemonVars
<1> QED BY <1>1, <1>2, <1>3, <1>4 DEF IInv

\* A client makes a request, none of its earlier ones underway.
LEMMA AskStep ==
  ASSUME NEW c \in Clients, NEW o \in Ops, IInv, Ask(c, o)
  PROVE  IInv'
<1>1. TypeOK'
  BY OpsAssumption DEF IInv, TypeOK, Ask, Conns, Stages, daemonVars
<1>2. Connected'
  BY DEF IInv, TypeOK, Connected, Conns, Ask
<1>3. OneOwner' /\ ServingIsReached'
  BY OwnerKept DEF Staying, Ask, daemonVars
<1>4. Counting'
  BY DEF IInv, Counting, Ask, daemonVars
<1> QED BY <1>1, <1>2, <1>3, <1>4 DEF IInv

\* The request is written.
LEMMA WriteRequestStep ==
  ASSUME NEW c \in Clients, IInv, WriteRequest(c)
  PROVE  IInv'
<1>1. Mine(c) \in Clients \X Tries
  BY DEF IInv, TypeOK, Mine
<1>2. TypeOK'
  BY <1>1 DEF IInv, TypeOK, WriteRequest, Move, Proceed, Stages, daemonVars
<1>3. Connected'
  BY <1>1 DEF IInv, TypeOK, Connected, Conns, WriteRequest, Move
<1>4. OneOwner' /\ ServingIsReached'
  BY OwnerKept DEF Staying, WriteRequest, daemonVars
<1>5. Counting'
  BY DEF IInv, Counting, WriteRequest, daemonVars
<1> QED BY <1>2, <1>3, <1>4, <1>5 DEF IInv

\* A launched daemon waits for the lock: it serves nobody yet.
LEMMA LaunchStep ==
  ASSUME NEW c \in Clients, IInv, Launch(c)
  PROVE  IInv'
<1>1. TypeOK'
  BY DEF IInv, TypeOK, Launch, Proceed, connVars
<1>2. Connected'
  BY DEF IInv, Connected, Launch, connVars
<1>3. OneOwner'
  BY DEF IInv, TypeOK, OneOwner, Launch
<1>4. ServingIsReached'
  BY DEF IInv, TypeOK, OneOwner, ServingIsReached, Staying, Launch
<1>5. Counting'
  BY DEF IInv, Counting, Launch
<1> QED BY <1>1, <1>2, <1>3, <1>4, <1>5 DEF IInv

\* A client without an answer starts over once, or gives up.
LEMMA NoReplyStep ==
  ASSUME NEW c \in Clients, IInv, NoReply(c)
  PROVE  IInv'
BY FinishStep, ProceedStep DEF IInv, TypeOK, NoReply, End

\* The steps of a client once it has asked.
LEMMA ClientSteps ==
  ASSUME NEW c \in Clients, IInv, Client(c)
  PROVE  IInv'
<1>1. CASE Connect(c)
  BY <1>1, ConnectToStep DEF Connect, Tries
<1>2. CASE ConnectFails(c)
  BY <1>2, FinishStep, ProceedStep DEF IInv, TypeOK, ConnectFails, End
<1>3. CASE WriteRequest(c)
  BY <1>3, WriteRequestStep
<1>4. CASE WriteFails(c)
  <2>1. broken' \in [Clients -> BOOLEAN]
    BY <1>4 DEF IInv, TypeOK, WriteFails
  <2> QED BY <1>4, <2>1, FinishStep DEF WriteFails
<1>5. CASE ReadReply(c)
  BY <1>5, FinishStep DEF IInv, TypeOK, ReadReply, End
<1>6. CASE ReadClosed(c) \/ ReadTimesOut(c)
  BY <1>6, NoReplyStep DEF ReadClosed, ReadTimesOut
<1>7. CASE AwaitConnects(c) \/ StartupConnects(c)
  BY <1>7, ConnectToStep DEF AwaitConnects, StartupConnects, Tries
<1>8. CASE AwaitExpires(c) \/ StartupExpires(c)
  BY <1>8, FinishStep DEF IInv, TypeOK, AwaitExpires, StartupExpires, End
<1>9. CASE Launch(c)
  BY <1>9, LaunchStep
<1> QED
  BY <1>1, <1>2, <1>3, <1>4, <1>5, <1>6, <1>7, <1>8, <1>9 DEF Client

-----------------------------------------------------------------------------
\* IInv holds of every state run, the janitor, serve and the clients reach.
THEOREM Invariance == Spec => []IInv
<1>1. Init => IInv
  <2> SUFFICES ASSUME Init PROVE IInv
    OBVIOUS
  <2>1. TypeOK
    BY BoundsAssumption DEF Init, TypeOK, Stages, Tries
  <2>2. Connected /\ OneOwner /\ ServingIsReached
    BY DEF Init, Connected, Conns, OneOwner, ServingIsReached, Staying, Daemons,
       NoDaemon
  <2>3. Counting
    BY BoundsAssumption DEF Init, Counting
  <2> QED BY <2>1, <2>2, <2>3 DEF IInv
<1>2. IInv /\ [Next]_vars => IInv'
  <2> SUFFICES ASSUME IInv, [Next]_vars PROVE IInv'
    OBVIOUS
  <2>1. CASE \E c \in Clients, o \in Ops : Ask(c, o)
    BY <2>1, AskStep
  <2>2. CASE \E c \in Clients : Client(c)
    BY <2>2, ClientSteps
  <2>3. CASE \E x \in Conns : Serve(x)
    BY <2>3, ReadStep, CheckStep, HandleSessionStep, RetireStep, SweepStep,
       WriteStep DEF Serve
  <2>4. CASE \E d \in Daemons : Startup(d)
    BY <2>4, TakeLockStep, LockWaitEndsStep, BindStep DEF Startup
  <2>5. CASE \E d \in Daemons : Janitor(d)
    BY <2>5, JanitorLooksStep, JanitorCountsStep, JanitorUnlinksStep,
       ProcessEndsStep DEF Janitor, JanitorExits
  <2>6. CASE \E d \in Daemons : ShutdownExit(d) \/ Crash(d)
    BY <2>6, ProcessEndsStep DEF ShutdownExit, Crash
  <2>7. CASE UNCHANGED vars
    <3>1. TypeOK'
      BY <2>7 DEF IInv, TypeOK, vars, daemonVars, connVars, clientVars
    <3>2. Connected'
      BY <2>7 DEF IInv, Connected, vars, connVars
    <3>3. OneOwner' /\ ServingIsReached'
      BY <2>7, OwnerKept DEF Staying, vars, daemonVars
    <3>4. Counting'
      BY <2>7 DEF IInv, Counting, vars, daemonVars
    <3> QED BY <3>1, <3>2, <3>3, <3>4 DEF IInv
  <2> QED BY <2>1, <2>2, <2>3, <2>4, <2>5, <2>6, <2>7 DEF Next
<1> QED BY <1>1, <1>2, PTL DEF Spec

\* Of all the daemons ever launched at most one binds or serves: the one that
\* holds the lock (take_lock and run).
THEOREM LockExcludes == Spec => []OneOwner
BY Invariance, PTL DEF IInv

\* A serving daemon that has not decided to go is the one the socket leads to
\* (run, retire and the janitor's unlink).
THEOREM SocketLeadsToServing == Spec => []ServingIsReached
BY Invariance, PTL DEF IInv

\* Every stage, count and registry stays what its type says, the janitor's count
\* within its limit and a connection on a daemon that was launched among them.
THEOREM TypeCorrect == Spec => []TypeOK
BY Invariance, PTL DEF IInv
=============================================================================
