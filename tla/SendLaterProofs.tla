-------------------------- MODULE SendLaterProofs --------------------------
(***************************************************************************)
(* For every set of prompts and terminals and every bound: SendLater keeps *)
(* its types, the window's list is the schedule once nothing is on its way *)
(* to it, a prompt left over from before the launch is not typed unasked,  *)
(* and the schedule, its window and its runner implement PromptLife.       *)
(*                                                                         *)
(* The argument is about snapshots: the list the window shows, the ones on *)
(* their way to it and the schedule's own.  A prompt is on a contiguous    *)
(* run of them (Contiguous), because one that left the schedule never      *)
(* comes back; so a prompt that was typed, once the window shows it no     *)
(* more, is on no later one and is never pending again (TypedOnce).        *)
(***************************************************************************)
EXTENDS SendLater, SequenceTheorems, TLAPS

\* The snapshots there are: the window's, those on their way to it, the
\* schedule's own.
ViewSnap == [rev |-> viewRev, items |-> view]
ItemSnap == [rev |-> rev, items |-> items]
OnTheWay == {events[i] : i \in 1 .. Len(events)} \cup {s \in {reply} : fetch = "replied"}
Snaps    == OnTheWay \cup {ViewSnap, ItemSnap}

OnIt(s, p) == s.items[p] # "none"

\* What the program leaves behind when it is not running.
Off ==
  ~up => /\ fetch = "off" /\ items = Empty /\ rev = 0 /\ attempt = Idle
         /\ typed = Never /\ drop = No /\ filing = No /\ taking = No

\* A window that does not listen has nothing.
NotListening == fetch = "off" => events = <<>> /\ view = Empty /\ viewRev = -1

\* The events on their way are the latest revisions, in order.
Consecutive ==
  \A i \in 1 .. Len(events) : events[i].rev = (rev - Len(events)) + i

\* No snapshot is newer than the schedule; one as new is the schedule.
NoneNewer ==
  \A s \in Snaps : s.rev <= rev /\ (s.rev = rev => s.items = items)

\* What the events on their way leave to be caught up with has arrived, or is
\* in the list that was asked for.
CatchingUp ==
  /\ fetch = "done" => viewRev >= rev - Len(events)
  /\ fetch = "replied" => \/ viewRev >= rev - Len(events)
                          \/ reply.rev >= rev - Len(events)

\* Only prompts that were scheduled are on a list, and those left over are missed.
Listed ==
  /\ \A s \in Snaps, p \in Prompts :
       /\ OnIt(s, p) => p \in used
       /\ p \in stale => s.items[p] \in {"none", "missed"}
  /\ \A p \in Prompts : disk[p] # "none" => p \in used
  /\ stale \subseteq used

\* A prompt is on a contiguous run of the snapshots.
Contiguous ==
  \A p \in Prompts : \A x, y, z \in Snaps :
    x.rev <= y.rev /\ y.rev <= z.rev /\ OnIt(x, p) /\ OnIt(z, p) => OnIt(y, p)

\* A prompt that was typed is not tried again while the window shows it, and
\* once the window does not, no snapshot to come does.
TypedOnce ==
  \A p \in Prompts : typed[p] # 0 =>
    /\ typed[p] = 1 /\ p \in used /\ attempt[p] = "idle"
    /\ p \notin sent => view[p] = "none"
    /\ \A y, z \in Snaps :
         viewRev <= y.rev /\ y.rev <= z.rev /\ OnIt(z, p) => OnIt(y, p)

\* The file holds the prompts the schedule holds.
Saved == up => On(items) = On(disk)

\* Nothing is on its way off the schedule but what is safe already.
SafeFirst ==
  \A p \in Prompts :
    /\ drop[p] # "no" => p \in safe
    /\ filing[p] # "no" => p \in used
    /\ filing[p] = "removing" => p \in safe

\* A prompt due before the launch stays untyped until asked for.
StaleUntyped == \A p \in stale : typed[p] = 0

\* The inductive invariant, in the parts its proof takes one at a time.
Views == NotListening /\ Consecutive /\ NoneNewer /\ CatchingUp
IInv ==
  /\ TypeOK /\ Off /\ Views /\ Listed /\ Contiguous /\ TypedOnce
  /\ Saved /\ SafeFirst /\ StaleUntyped

-----------------------------------------------------------------------------
(* Snapshots.                                                              *)

\* What a snapshot is.
LEMMA SnapTypes ==
  ASSUME TypeOK, NEW s \in Snaps
  PROVE  s.rev \in Int /\ s.items \in Schedule
<1>1. CASE \E i \in 1 .. Len(events) : s = events[i]
  <2>1. s \in Snapshot
    BY <1>1, ElementOfSeq DEF TypeOK
  <2> QED BY <2>1 DEF Snapshot
<1>2. CASE s = reply
  BY <1>2 DEF TypeOK, Snapshot
<1>3. CASE s = ViewSnap \/ s = ItemSnap
  BY <1>3 DEF TypeOK, ViewSnap, ItemSnap
<1> QED BY <1>1, <1>2, <1>3 DEF Snaps, OnTheWay

\* A saved or settled change of the list is the only snapshot it adds.
LEMMA ChangeViews ==
  ASSUME TypeOK, Views, NEW new \in Schedule,
         items' = new, rev' = rev + 1, Emit(new), UNCHANGED window
  PROVE  /\ Views'
         /\ Snaps' \subseteq Snaps \cup {ItemSnap'}
         /\ events' \in Seq(Snapshot)
<1> DEFINE e == [rev |-> rev + 1, items |-> new]
<1>1. e \in Snapshot /\ e = ItemSnap'
  BY DEF TypeOK, Snapshot, ItemSnap
<1>2. CASE fetch = "off"
  <2>1. events = <<>> /\ events' = <<>>
    BY <1>2 DEF Views, NotListening, Emit
  <2>2. Snaps' \subseteq {ViewSnap, ItemSnap'}
    BY <1>2, <2>1 DEF Snaps, OnTheWay, ViewSnap, window
  <2>3. viewRev = -1
    BY <1>2 DEF Views, NotListening
  <2>4. NoneNewer'
    BY <2>2, <2>3, SnapTypes DEF NoneNewer, ViewSnap, ItemSnap, TypeOK, window
  <2>5. Views'
    BY <1>2, <2>1, <2>4 DEF Views, NotListening, Consecutive, CatchingUp, window
  <2> QED BY <2>1, <2>2, <2>5 DEF TypeOK, Snaps
<1>3. CASE fetch # "off"
  <2>1. events \in Seq(Snapshot) /\ events' = Append(events, e)
    BY <1>3 DEF Emit, TypeOK
  <2>2. /\ events' \in Seq(Snapshot) /\ Len(events') = Len(events) + 1
        /\ \A i \in 1 .. Len(events) : events'[i] = events[i]
        /\ events'[Len(events) + 1] = e
        /\ Len(events) \in Nat
    BY <1>1, <2>1, AppendProperties, LenProperties
  <2>3. Snaps' \subseteq Snaps \cup {ItemSnap'}
    <3>1. ASSUME NEW i \in 1 .. Len(events') PROVE events'[i] \in Snaps \cup {ItemSnap'}
      <4>1. i \in 1 .. Len(events) \/ i = Len(events) + 1
        BY <2>2
      <4> QED BY <1>1, <2>2, <4>1 DEF Snaps, OnTheWay
    <3>2. ViewSnap' = ViewSnap /\ {s \in {reply'} : fetch' = "replied"} \subseteq Snaps
      BY DEF window, ViewSnap, Snaps, OnTheWay
    <3> QED BY <3>1, <3>2 DEF Snaps, OnTheWay
  <2>4. NoneNewer'
    BY <2>3, SnapTypes DEF Views, NoneNewer, ItemSnap, TypeOK
  <2>5. Consecutive'
    <3> SUFFICES ASSUME NEW i \in 1 .. Len(events')
                 PROVE  events'[i].rev = (rev' - Len(events')) + i
      BY DEF Consecutive
    <3>1. rev \in Nat /\ rev' = rev + 1
      BY DEF TypeOK
    <3>2. CASE i = Len(events) + 1
      BY <2>2, <3>1, <3>2
    <3>3. CASE i \in 1 .. Len(events)
      BY <2>2, <3>1, <3>3 DEF Views, Consecutive
    <3> QED BY <2>2, <3>2, <3>3
  <2>6. CatchingUp'
    BY <2>2 DEF Views, CatchingUp, window, TypeOK, Snapshot
  <2>7. NotListening'
    BY <1>3 DEF NotListening, window
  <2> QED BY <2>2, <2>3, <2>4, <2>5, <2>6, <2>7 DEF Views
<1> QED BY <1>2, <1>3
\* What a change of the list must respect: nothing comes on but a prompt never
\* scheduled before, and what is left over from before the launch stays missed.
Respects(new) ==
  \A p \in Prompts :
    /\ new[p] # "none" => p \in used' /\ (items[p] # "none" \/ p \notin used)
    /\ p \in stale' => new[p] \in {"none", "missed"}

\* The lists after such a change.
LEMMA ChangeLists ==
  ASSUME TypeOK, Listed, Contiguous, TypedOnce,
         Snaps' \subseteq Snaps \cup {ItemSnap'}, rev' = rev + 1,
         NEW new \in Schedule, items' = new, Respects(new),
         used \subseteq used', stale' \subseteq stale,
         \A p \in Prompts : disk'[p] # "none" => p \in used',
         NoneNewer,
         UNCHANGED <<viewRev, view, typed, attempt, sent>>
  PROVE  Listed' /\ Contiguous' /\ TypedOnce'
<1>1. Listed'
  <2>1. ASSUME NEW s \in Snaps', NEW p \in Prompts
        PROVE  /\ OnIt(s, p) => p \in used'
               /\ p \in stale' => s.items[p] \in {"none", "missed"}
    BY <2>1 DEF Respects, Listed, OnIt, ItemSnap
  <2> QED BY <2>1 DEF Listed, OnIt
<1>2. ItemSnap \in Snaps
  BY DEF Snaps
<1>3. \A s \in Snaps : s.rev \in Int /\ s.rev <= rev
  BY SnapTypes DEF NoneNewer
<1>4. rev \in Nat /\ ItemSnap.rev = rev /\ ItemSnap'.rev = rev + 1
  BY DEF TypeOK, ItemSnap
\* Who is on the new list and on a list there was, was on the schedule before.
<1>5. ASSUME NEW p \in Prompts, NEW x \in Snaps, OnIt(x, p), OnIt(ItemSnap', p)
      PROVE  OnIt(ItemSnap, p)
  BY <1>5 DEF Respects, Listed, OnIt, ItemSnap
<1>6. Contiguous'
  <2> SUFFICES ASSUME NEW p \in Prompts, NEW x \in Snaps', NEW y \in Snaps', NEW z \in Snaps',
                      x.rev <= y.rev, y.rev <= z.rev, OnIt(x, p), OnIt(z, p)
               PROVE  OnIt(y, p)
    BY DEF Contiguous, OnIt
  <2>1. CASE z \in Snaps
    <3>1. x \in Snaps /\ y \in Snaps
      BY <1>3, <1>4, <2>1
    <3> QED BY <2>1, <3>1 DEF Contiguous
  <2>2. CASE z = ItemSnap' /\ y \in Snaps
    <3>1. x \in Snaps
      BY <1>3, <1>4, <2>2
    <3>2. OnIt(ItemSnap, p)
      BY <1>5, <2>2, <3>1
    <3> QED BY <1>2, <1>3, <1>4, <2>2, <3>1, <3>2 DEF Contiguous
  <2>3. CASE z = ItemSnap' /\ y = ItemSnap'
    BY <2>3
  <2> QED BY <2>1, <2>2, <2>3
<1>7. TypedOnce'
  <2> SUFFICES ASSUME NEW p \in Prompts, typed[p] # 0, NEW y \in Snaps', NEW z \in Snaps',
                      viewRev <= y.rev, y.rev <= z.rev, OnIt(z, p)
               PROVE  OnIt(y, p)
    BY DEF TypedOnce, OnIt
  <2>1. p \in used
    BY DEF TypedOnce
  <2>2. CASE z \in Snaps
    <3>1. y \in Snaps
      BY <1>3, <1>4, <2>2
    <3> QED BY <2>2, <3>1 DEF TypedOnce
  <2>3. CASE z = ItemSnap' /\ y \in Snaps
    <3>1. OnIt(ItemSnap, p)
      BY <2>1, <2>3 DEF Respects, OnIt, ItemSnap
    <3> QED BY <1>2, <1>3, <1>4, <2>3, <3>1 DEF TypedOnce
  <2>4. CASE z = ItemSnap' /\ y = ItemSnap'
    BY <2>4
  <2> QED BY <2>2, <2>3, <2>4
<1> QED BY <1>1, <1>6, <1>7

\* Nothing new on the lists, and the window no further back than it was.
LEMMA MoveLists ==
  ASSUME TypeOK, Listed, Contiguous, TypedOnce,
         Snaps' \subseteq Snaps, ViewSnap' \in Snaps, viewRev' >= viewRev,
         UNCHANGED <<used, stale, disk, typed, attempt, sent>>
  PROVE  Listed' /\ Contiguous' /\ TypedOnce'
<1>1. Listed'
  BY DEF Listed, OnIt
<1>2. Contiguous'
  BY DEF Contiguous, OnIt
<1>3. TypedOnce'
  <2> SUFFICES ASSUME NEW p \in Prompts, typed[p] # 0
               PROVE  /\ p \notin sent => view'[p] = "none"
                      /\ \A y, z \in Snaps' :
                           viewRev' <= y.rev /\ y.rev <= z.rev /\ OnIt(z, p) => OnIt(y, p)
    BY DEF TypedOnce, OnIt
  <2>1. viewRev \in Int /\ viewRev' \in Int /\ \A s \in Snaps : s.rev \in Int
    <3>1. \A s \in Snaps : s.rev \in Int
      BY SnapTypes
    <3>2. viewRev' \in Int
      BY <3>1 DEF ViewSnap
    <3> QED BY <3>1, <3>2 DEF TypeOK
  <2>2. ASSUME NEW y \in Snaps', NEW z \in Snaps',
               viewRev' <= y.rev, y.rev <= z.rev, OnIt(z, p)
        PROVE  OnIt(y, p)
    BY <2>1, <2>2 DEF TypedOnce
  <2>3. ASSUME p \notin sent PROVE view'[p] = "none"
    <3>1. view[p] = "none" /\ ViewSnap \in Snaps
      BY <2>3 DEF TypedOnce, Snaps
    <3>2. ~OnIt(ViewSnap, p) /\ ViewSnap.rev = viewRev /\ ViewSnap'.rev = viewRev'
      BY <3>1 DEF OnIt, ViewSnap
    <3>3. ~OnIt(ViewSnap', p)
      BY <2>1, <3>1, <3>2 DEF TypedOnce
    <3> QED BY <3>3 DEF OnIt, ViewSnap
  <2> QED BY <2>2, <2>3
<1> QED BY <1>1, <1>2, <1>3

\* The lists and what is said of them are as they were.
LEMMA SameLists ==
  ASSUME TypeOK, Views, Listed, Contiguous, TypedOnce,
         UNCHANGED <<items, rev, disk, events, fetch, reply, view, viewRev, used, typed, attempt, sent>>,
         stale' \subseteq stale
  PROVE  Views' /\ Listed' /\ Contiguous' /\ TypedOnce'
<1>1. Snaps' = Snaps
  BY DEF Snaps, OnTheWay, ViewSnap, ItemSnap
<1>2. Views'
  BY <1>1 DEF Views, NotListening, Consecutive, NoneNewer, CatchingUp
<1>3. Listed' /\ Contiguous' /\ TypedOnce'
  BY <1>1 DEF Listed, Contiguous, TypedOnce, OnIt
<1> QED BY <1>2, <1>3

-----------------------------------------------------------------------------
(* Types.                                                                  *)

\* A change of the schedule keeps its types.
LEMMA EmitTypes ==
  ASSUME TypeOK, NEW new \in Schedule, items' = new, rev' = rev + 1, Emit(new)
  PROVE  items' \in Schedule /\ rev' \in Nat /\ events' \in Seq(Snapshot)
<1>1. rev + 1 \in Nat /\ [rev |-> rev + 1, items |-> new] \in Snapshot
  BY DEF TypeOK, Snapshot
<1>2. events' \in Seq(Snapshot)
  BY <1>1, AppendProperties DEF Emit, TypeOK
<1> QED BY <1>1, <1>2

\* A change that is saved puts a list of the same type on the file too.
LEMMA MutateTypes ==
  ASSUME TypeOK, NEW new \in Schedule, Mutate(new)
  PROVE  items' \in Schedule /\ disk' \in Schedule /\ rev' \in Nat /\ events' \in Seq(Snapshot)
BY EmitTypes DEF Mutate

\* So does a removal.
LEMMA RemoveTypes ==
  ASSUME TypeOK, NEW p \in Prompts, Remove(p)
  PROVE  items' \in Schedule /\ disk' \in Schedule /\ rev' \in Nat /\ events' \in Seq(Snapshot)
<1>1. [items EXCEPT ![p] = "none"] \in Schedule
  BY DEF TypeOK, Schedule, States
<1> QED BY <1>1, MutateTypes DEF Remove

\* What arrives at the window is a snapshot.
LEMMA ApplyTypes ==
  ASSUME TypeOK, NEW s \in Snapshot, ApplySnapshot(s)
  PROVE  /\ view' \in Schedule /\ viewRev' \in Nat \cup {-1}
         /\ wait' \in [Prompts -> Waits] /\ queued' \in BOOLEAN
<1>1. Free \in Waits
  BY DEF Free, Waits, Agents
<1>2. CASE s.rev <= viewRev
  BY <1>2 DEF ApplySnapshot, TypeOK
<1>3. CASE ~(s.rev <= viewRev)
  <2>1. wait' = [p \in Prompts |-> IF wait[p].why = "retry" THEN wait[p] ELSE Free]
    BY <1>3 DEF ApplySnapshot
  <2>2. view' = s.items /\ viewRev' = s.rev /\ queued' = TRUE
    BY <1>3 DEF ApplySnapshot
  <2> QED BY <1>1, <2>1, <2>2 DEF Snapshot, TypeOK
<1> QED BY <1>2, <1>3

\* Every step keeps the types, action by action.
LEMMA TypeStep == TypeOK /\ [Next]_vars => TypeOK'
<1> SUFFICES ASSUME TypeOK, [Next]_vars PROVE TypeOK'
  OBVIOUS
<1> USE DEF backend, window, runner, leaving, world, history, counters
<1>1. CASE Settle
  <2>1. [p \in Prompts |-> SettledAs(p)] \in Schedule
    BY DEF TypeOK, Schedule, States, SettledAs
  <2>2. items' \in Schedule /\ rev' \in Nat /\ events' \in Seq(Snapshot)
    BY <1>1, <2>1, EmitTypes DEF Settle
  <2>3. disk' \in Schedule
    BY <1>1, <2>1 DEF TypeOK, Settle
  <2>4. faults' \in Nat
    BY <1>1 DEF TypeOK, Settle, Fault
  <2> QED BY <1>1, <2>2, <2>3, <2>4, SMTT(30) DEF TypeOK, Settle
<1>2. CASE Launch
  <2>1. [p \in Prompts |-> LaunchedAs(p)] \in Schedule
    BY DEF TypeOK, Schedule, States, LaunchedAs
  <2>2. disk' \in Schedule /\ items' \in Schedule
    BY <1>2, <2>1 DEF TypeOK, Launch
  <2>3. faults' \in Nat /\ rev' \in Nat
    BY <1>2 DEF TypeOK, Launch, Fault
  <2>4. stale' \subseteq Prompts
    BY <1>2 DEF Launch
  <2> QED BY <1>2, <2>2, <2>3, <2>4 DEF TypeOK, Launch
<1>3. CASE Crash
  <2>1. /\ Empty \in Schedule /\ NoReply \in Snapshot /\ <<>> \in Seq(Snapshot)
        /\ Free \in Waits
    BY EmptySeq DEF Empty, Schedule, States, NoReply, Snapshot, Free, Waits, Agents
  <2>2. /\ tab' \in [Terminals -> {"open", "closing", "closed"}]
        /\ agent' \in [Terminals -> Agents]
    BY <1>3 DEF TypeOK, Crash, Agents
  <2>3. /\ attempt' \in [Prompts -> {"idle", "foreground", "payload"}]
        /\ wait' \in [Prompts -> Waits]
        /\ gone' \in [Prompts -> {"no", "since", "over"}]
        /\ drop' \in [Prompts -> {"no", "first", "pause", "again"}]
        /\ filing' \in [Prompts -> {"no", "saving", "removing"}]
        /\ taking' \in [Prompts -> {"no", "edit", "cancel"}]
        /\ typed' \in [Prompts -> Nat]
    BY <1>3, <2>1 DEF Crash, Idle, No, Never
  <2>4. restarts' \in Nat /\ rev' \in Nat /\ viewRev' \in Nat \cup {-1}
    BY <1>3 DEF TypeOK, Crash
  <2>5. {sent, armed, done, stopped, used, safe, stale}' \subseteq SUBSET Prompts
    BY <1>3 DEF TypeOK, Crash
  <2>6. {ops, faults, restarts, turns, closes}' \subseteq Nat
    BY <1>3, <2>4 DEF TypeOK, Crash
  <2>7. disk' \in Schedule /\ clock' \in [Prompts -> Phases]
    BY <1>3 DEF TypeOK, Crash
  <2>8. up' \in BOOLEAN /\ queued' \in BOOLEAN /\ recent' \subseteq Terminals
    BY <1>3 DEF Crash
  <2>9. items' \in Schedule /\ view' \in Schedule /\ reply' \in Snapshot /\ events' \in Seq(Snapshot)
    BY <1>3, <2>1 DEF Crash
  <2>10. fetch' = "off" /\ project' = "shut"
    BY <1>3 DEF Crash
  <2> QED BY <2>2, <2>3, <2>4, <2>5, <2>6, <2>7, <2>8, <2>9, <2>10 DEF TypeOK
<1>4. CASE WindowStarts
  BY <1>4 DEF TypeOK, WindowStarts
<1>22. CASE OpenProject
  BY <1>22 DEF TypeOK, OpenProject, Moves
<1>5. CASE ListReplies
  BY <1>5 DEF TypeOK, ListReplies, Snapshot
<1>6. CASE FetchArrives
  <2>1. reply \in Snapshot /\ NoReply \in Snapshot
    BY DEF TypeOK, NoReply, Snapshot, Empty, Schedule, States
  <2> QED BY <1>6, <2>1, ApplyTypes DEF TypeOK, FetchArrives
<1>7. CASE EventArrives
  <2>1. Head(events) \in Snapshot /\ events' \in Seq(Snapshot)
    BY <1>7, HeadTailProperties DEF TypeOK, EventArrives
  <2> QED BY <1>7, <2>1, ApplyTypes DEF TypeOK, EventArrives
<1>8. CASE Pump
  <2>1. PICK S \in Starts :
          /\ attempt' = [p \in Prompts |-> IF p \in S THEN "foreground" ELSE attempt[p]]
          /\ wait' = [p \in Prompts |-> IF p \in S THEN Free ELSE wait[p]]
          /\ armed' = Deadlines(S)
    BY <1>8 DEF Pump
  <2>2. Free \in Waits
    BY DEF Free, Waits, Agents
  <2>3. /\ attempt' \in [Prompts -> {"idle", "foreground", "payload"}]
        /\ wait' \in [Prompts -> Waits] /\ armed' \subseteq Prompts
    BY <2>1, <2>2 DEF TypeOK, Deadlines, Later, Pending
  <2>4. /\ gone' \in [Prompts -> {"no", "since", "over"}]
        /\ filing' \in [Prompts -> {"no", "saving", "removing"}]
        /\ project' \in {"shut", "opening", "open"}
    BY <1>8 DEF TypeOK, Pump, GoneNext, File
  <2>5. sent' \subseteq Prompts /\ queued' \in BOOLEAN
    BY <1>8 DEF TypeOK, Pump
  <2> QED BY <1>8, <2>3, <2>4, <2>5 DEF TypeOK, Pump
<1>9. ASSUME NEW p \in Prompts, Add(p) PROVE TypeOK'
  <2>1. [items EXCEPT ![p] = IF p \in WhenDone THEN "due" ELSE "scheduled"] \in Schedule
    BY DEF TypeOK, Schedule, States
  <2>2. items' \in Schedule /\ disk' \in Schedule /\ rev' \in Nat /\ events' \in Seq(Snapshot)
    BY <1>9, <2>1, MutateTypes DEF Add
  <2> QED BY <1>9, <2>2 DEF TypeOK, Add
<1>10. ASSUME NEW p \in Prompts, Reschedule(p) PROVE TypeOK'
  <2>1. [items EXCEPT ![p] = "scheduled"] \in Schedule
    BY DEF TypeOK, Schedule, States
  <2> QED BY <1>10, <2>1, MutateTypes, SMTT(30) DEF TypeOK, Reschedule, Phases, Op
<1>11. ASSUME NEW p \in Prompts, SendNow(p) PROVE TypeOK'
  <2>1. [items EXCEPT ![p] = "forced"] \in Schedule
    BY DEF TypeOK, Schedule, States
  <2> QED BY <1>11, <2>1, MutateTypes DEF TypeOK, SendNow, Op
<1>12. ASSUME NEW p \in Prompts, Tick(p) PROVE TypeOK'
  BY <1>12 DEF TypeOK, Tick, Phases
<1>13. ASSUME NEW p \in Prompts, Look(p) \/ Uploaded(p) PROVE TypeOK'
  <2>1. agent[Home[p]] \in Agents
    BY HomeAssumption DEF TypeOK
  <2>2. /\ Verdict(p) # "ready" => [why |-> Verdict(p), at |-> Reported(agent[Home[p]])] \in Waits
        /\ [why |-> "retry", at |-> "idle"] \in Waits
    BY <2>1 DEF Verdict, Waits, Reported, Agents
  <2> DEFINE Held ==
        wait' = [wait EXCEPT ![p] = [why |-> Verdict(p), at |-> Reported(agent[Home[p]])]]
  <2>3. /\ attempt' \in [Prompts -> {"idle", "foreground", "payload"}]
        /\ queued' \in BOOLEAN
        /\ UNCHANGED <<up, clock, backend, window, armed, gone, filing, taking, world,
                       used, stale, counters>>
        /\ \/ Unsent /\ UNCHANGED wait
           \/ Unsent /\ Held /\ Verdict(p) # "ready"
           \/ Typed(p) \/ Refused(p)
    BY <1>13 DEF Look, Uploaded, TypeOK, Ends
  <2>4. wait' \in [Prompts -> Waits]
    <3>1. CASE UNCHANGED wait
      BY <3>1 DEF TypeOK
    <3>2. CASE \E w \in Waits : wait' = [wait EXCEPT ![p] = w]
      BY <3>2 DEF TypeOK
    <3> QED BY <2>2, <2>3, <3>1, <3>2 DEF Unsent, Typed, Refused
  <2>5. /\ typed' \in [Prompts -> Nat] /\ safe' \subseteq Prompts /\ sent' \subseteq Prompts
        /\ recent' \subseteq Terminals
        /\ drop' \in [Prompts -> {"no", "first", "pause", "again"}]
    <3>1. CASE UNCHANGED <<typed, safe, sent, recent, drop>>
      BY <3>1 DEF TypeOK
    <3>2. CASE Typed(p)
      <4>1. typed' \in [Prompts -> Nat]
        BY <3>2 DEF TypeOK, Typed
      <4> QED BY <3>2, <4>1, HomeAssumption DEF TypeOK, Typed
    <3> QED BY <2>3, <3>1, <3>2 DEF Unsent, Refused
  <2> QED BY <2>3, <2>4, <2>5 DEF TypeOK
<1>14. ASSUME NEW p \in Prompts, Elapse(p) PROVE TypeOK'
  <2>1. Free \in Waits
    BY DEF Free, Waits, Agents
  <2>2. /\ wait' \in [Prompts -> Waits]
        /\ gone' \in [Prompts -> {"no", "since", "over"}]
        /\ recent' \subseteq Terminals
    <3>1. wait' = wait \/ wait' = [wait EXCEPT ![p] = Free]
      BY <1>14 DEF Elapse
    <3>2. gone' = gone \/ gone' = [gone EXCEPT ![p] = "over"]
      BY <1>14 DEF Elapse
    <3>3. recent' = recent \/ recent' = recent \ {Home[p]}
      BY <1>14 DEF Elapse
    <3>4. wait' \in [Prompts -> Waits]
      <4>1. wait \in [Prompts -> Waits]
        BY DEF TypeOK
      <4> QED BY <2>1, <3>1, <4>1
    <3>5. gone' \in [Prompts -> {"no", "since", "over"}]
      BY <3>2 DEF TypeOK
    <3> QED BY <3>3, <3>4, <3>5 DEF TypeOK
  <2> QED BY <1>14, <2>2 DEF TypeOK, Elapse
<1>15. ASSUME NEW p \in Prompts, DropSent(p) \/ DraftRemoves(p) PROVE TypeOK'
  <2>1. items' \in Schedule /\ disk' \in Schedule /\ rev' \in Nat /\ events' \in Seq(Snapshot)
    <3>1. CASE Remove(p)
      BY <3>1, RemoveTypes
    <3>2. CASE UNCHANGED backend
      BY <3>2 DEF TypeOK, backend
    <3> QED BY <1>15, <3>1, <3>2 DEF DropSent, DraftRemoves
  <2>2. faults' \in Nat
    BY <1>15 DEF TypeOK, DropSent, DraftRemoves, Fault
  <2>3. /\ drop' \in [Prompts -> {"no", "first", "pause", "again"}]
        /\ filing' \in [Prompts -> {"no", "saving", "removing"}]
    BY <1>15 DEF TypeOK, DropSent, DraftRemoves
  <2>4. /\ UNCHANGED <<up, clock, window, runner, taking, world, history>>
        /\ UNCHANGED <<ops, restarts, turns, closes>>
    BY <1>15 DEF DropSent, DraftRemoves
  <2> QED BY <2>1, <2>2, <2>3, <2>4 DEF TypeOK
<1>16. ASSUME NEW p \in Prompts, DropAgain(p) PROVE TypeOK'
  BY <1>16 DEF TypeOK, DropAgain
<1>23. ASSUME NEW p \in Prompts, KeepAsDraft(p) PROVE TypeOK'
  <2>1. ops' \in Nat
    BY <1>23 DEF TypeOK, KeepAsDraft, Op
  <2>2. filing' \in [Prompts -> {"no", "saving", "removing"}]
    BY <1>23 DEF TypeOK, KeepAsDraft, File
  <2> QED BY <1>23, <2>1, <2>2 DEF TypeOK, KeepAsDraft
<1>24. ASSUME NEW p \in Prompts, DraftSaved(p) PROVE TypeOK'
  <2>1. faults' \in Nat
    BY <1>24 DEF TypeOK, DraftSaved, Fault
  <2>2. filing' \in [Prompts -> {"no", "saving", "removing"}] /\ safe' \subseteq Prompts
    BY <1>24 DEF TypeOK, DraftSaved
  <2> QED BY <1>24, <2>1, <2>2 DEF TypeOK, DraftSaved
<1>17. ASSUME NEW p \in Prompts, NEW why \in {"edit", "cancel"}, TakeOff(p, why) PROVE TypeOK'
  BY <1>17, RemoveTypes DEF TypeOK, TakeOff, Op
<1>18. ASSUME NEW p \in Prompts, PutBack(p) PROVE TypeOK'
  BY <1>18 DEF TypeOK, PutBack
<1>19. ASSUME NEW t \in Terminals, CloseTab(t) PROVE TypeOK'
  <2>1. closes' \in Nat
    BY <1>19 DEF TypeOK, CloseTab, Moves
  <2>2. tab' \in [Terminals -> {"open", "closing", "closed"}]
    <3>1. \E how \in {"open", "closing", "closed"} : tab' = [tab EXCEPT ![t] = how]
      BY <1>19 DEF CloseTab
    <3> QED BY <3>1 DEF TypeOK
  <2>4. filing' \in [Prompts -> {"no", "saving", "removing"}]
    <3>1. UNCHANGED filing \/ File(Doomed({t}))
      BY <1>19 DEF CloseTab
    <3> QED BY <3>1 DEF TypeOK, File
  <2>3. queued' \in BOOLEAN
    BY <1>19 DEF TypeOK, CloseTab, Moves
  <2> QED BY <1>19, <2>1, <2>2, <2>3, <2>4 DEF TypeOK, CloseTab, Moves
<1>20. ASSUME NEW t \in Terminals, NEW a \in Agents, AgentMoves(t, a) PROVE TypeOK'
  BY <1>20 DEF TypeOK, AgentMoves
<1>21. CASE UNCHANGED vars
  BY <1>21 DEF TypeOK, vars
<1> QED
  BY <1>1, <1>2, <1>3, <1>4, <1>5, <1>6, <1>7, <1>8, <1>9, <1>10, <1>11, <1>12, <1>13,
     <1>14, <1>15, <1>16, <1>17, <1>18, <1>19, <1>20, <1>21, <1>22, <1>23, <1>24 DEF Next

-----------------------------------------------------------------------------
(* The steps.                                                              *)

\* What the schedule and the window list, of all the snapshots.
LEMMA ShownListed ==
  ASSUME Listed, NEW p \in Prompts
  PROVE  /\ items[p] # "none" => p \in used
         /\ view[p] # "none" => p \in used
         /\ p \in stale => items[p] \in {"none", "missed"} /\ view[p] \in {"none", "missed"}
<1>1. ViewSnap \in Snaps /\ ItemSnap \in Snaps
  BY DEF Snaps
<1>2. ViewSnap.items = view /\ ItemSnap.items = items
  BY DEF ViewSnap, ItemSnap
<1> QED BY <1>1, <1>2 DEF Listed, OnIt

\* The parts of IInv that are about snapshots, through a change of the schedule.
LEMMA ChangeStep ==
  ASSUME IInv, NEW new \in Schedule, items' = new, rev' = rev + 1, Emit(new), Respects(new),
         used \subseteq used', stale' \subseteq stale,
         \A p \in Prompts : disk'[p] # "none" => p \in used',
         UNCHANGED <<window, typed, attempt, sent>>
  PROVE  Views' /\ Listed' /\ Contiguous' /\ TypedOnce' /\ StaleUntyped'
<1>1. Views' /\ Snaps' \subseteq Snaps \cup {ItemSnap'}
  BY ChangeViews DEF IInv, window
<1>2. Listed' /\ Contiguous' /\ TypedOnce'
  BY <1>1, ChangeLists DEF IInv, Views, window
<1>3. StaleUntyped'
  BY DEF IInv, StaleUntyped
<1> QED BY <1>1, <1>2, <1>3

\* A prompt leaves the schedule, or was not on it any more.
LEMMA RemoveStep ==
  ASSUME IInv, up, up', NEW p \in Prompts, Remove(p),
         UNCHANGED <<window, runner, used, typed, stale>>
  PROVE  Off' /\ Views' /\ Listed' /\ Contiguous' /\ TypedOnce' /\ StaleUntyped' /\ Saved'
<1> DEFINE new == [items EXCEPT ![p] = "none"]
<1>1. new \in Schedule /\ items' = new /\ disk' = new /\ rev' = rev + 1 /\ Emit(new)
  BY DEF IInv, TypeOK, Schedule, States, Remove, Mutate
<1>2. \A q \in Prompts : new[q] = "none" \/ new[q] = items[q]
  BY DEF IInv, TypeOK, Schedule
<1>3. Respects(new)
  BY <1>2, ShownListed DEF Respects, IInv
<1>4. \A q \in Prompts : disk'[q] # "none" => q \in used'
  BY <1>1, <1>3 DEF Respects
<1>5. Views' /\ Listed' /\ Contiguous' /\ TypedOnce' /\ StaleUntyped'
  BY <1>1, <1>3, <1>4, ChangeStep DEF runner
<1> QED BY <1>1, <1>5 DEF Off, Saved, On

\* The clock's step: what it settles was scheduled, and nothing comes on or goes.
LEMMA SettleStep == ASSUME IInv, TypeOK', Settle PROVE IInv'
<1> DEFINE new == [p \in Prompts |-> SettledAs(p)]
<1>1. new \in Schedule /\ items' = new /\ rev' = rev + 1 /\ Emit(new)
  BY DEF IInv, TypeOK, Schedule, States, Settle, SettledAs
<1>2. ASSUME NEW p \in Prompts
      PROVE  /\ new[p] # "none" <=> items[p] # "none"
             /\ items[p] \in {"none", "missed"} => new[p] = items[p]
  BY DEF SettledAs
<1>3. Respects(new)
  BY <1>2, ShownListed DEF Respects, IInv, Settle, history
<1>4. On(disk') = On(disk) /\ On(items') = On(disk')
  <2>1. On(items) = On(disk)
    BY DEF IInv, Saved, Settle
  <2>2. On(new) = On(items)
    BY <1>2 DEF On
  <2> QED BY <2>1, <2>2 DEF Settle
<1>5. \A p \in Prompts : disk'[p] # "none" => p \in used'
  BY <1>1, <1>3, <1>4 DEF Respects, On
<1>6. Views' /\ Listed' /\ Contiguous' /\ TypedOnce' /\ StaleUntyped'
  BY <1>1, <1>3, <1>5, ChangeStep DEF Settle, history, runner
<1>7. Off' /\ SafeFirst'
  BY DEF IInv, Off, SafeFirst, Settle, history, leaving
<1> QED BY <1>4, <1>6, <1>7 DEF IInv, Saved

\* schedulePrompt: a prompt no list has ever shown comes on.
LEMMA AddStep == ASSUME IInv, TypeOK', NEW p \in Prompts, Add(p) PROVE IInv'
<1> DEFINE as == IF p \in WhenDone THEN "due" ELSE "scheduled"
           new == [items EXCEPT ![p] = as]
<1>1. new \in Schedule /\ items' = new /\ disk' = new /\ rev' = rev + 1 /\ Emit(new)
  BY DEF IInv, TypeOK, Schedule, States, Add, Mutate
<1>2. \A q \in Prompts : new[q] = IF q = p THEN as ELSE items[q]
  BY DEF IInv, TypeOK, Schedule
<1>3. p \notin used /\ p \notin stale
  BY DEF IInv, Listed, Add
<1>4. Respects(new)
  BY <1>2, <1>3, ShownListed DEF Respects, IInv, Add
<1>5. \A q \in Prompts : disk'[q] # "none" => q \in used'
  BY <1>1, <1>4 DEF Respects
<1>6. Views' /\ Listed' /\ Contiguous' /\ TypedOnce' /\ StaleUntyped'
  BY <1>1, <1>4, <1>5, ChangeStep DEF Add, runner
<1>7. Off' /\ SafeFirst'
  BY DEF IInv, Off, SafeFirst, Add, leaving
<1> QED BY <1>1, <1>6, <1>7 DEF IInv, Saved

\* reschedulePrompt and sendScheduledNow: the user asks again for what is there.
LEMMA AskStep ==
  ASSUME IInv, TypeOK', NEW p \in Prompts, Reschedule(p) \/ SendNow(p)
  PROVE  IInv'
<1>1. PICK as \in {"scheduled", "forced"} : Mutate([items EXCEPT ![p] = as])
  BY DEF Reschedule, SendNow
<1> DEFINE new == [items EXCEPT ![p] = as]
<1>2. new \in Schedule /\ items' = new /\ disk' = new /\ rev' = rev + 1 /\ Emit(new)
  BY <1>1 DEF IInv, TypeOK, Schedule, States, Mutate
<1>3. \A q \in Prompts : new[q] = IF q = p THEN as ELSE items[q]
  BY DEF IInv, TypeOK, Schedule
<1>4. items[p] # "none" /\ stale' = stale \ {p} /\ used' = used
  BY DEF Reschedule, SendNow
<1>5. Respects(new)
  BY <1>3, <1>4, ShownListed DEF Respects, IInv
<1>6. \A q \in Prompts : disk'[q] # "none" => q \in used'
  BY <1>2, <1>5 DEF Respects
<1>7. Views' /\ Listed' /\ Contiguous' /\ TypedOnce' /\ StaleUntyped'
  BY <1>2, <1>4, <1>5, <1>6, ChangeStep DEF Reschedule, SendNow, runner
<1>8. Off' /\ SafeFirst'
  BY DEF IInv, Off, SafeFirst, Reschedule, SendNow, leaving, Shown
<1> QED BY <1>2, <1>7, <1>8 DEF IInv, Saved

\* What stays of IInv when nothing it reads changes but what is on its way off.
LEMMA QuietStep ==
  ASSUME IInv, TypeOK', SafeFirst',
         UNCHANGED <<up, items, rev, disk, events, fetch, reply, view, viewRev,
                     used, typed, stale, attempt, sent>>,
         up
  PROVE  IInv'
<1>1. Views' /\ Listed' /\ Contiguous' /\ TypedOnce'
  BY SameLists DEF IInv
<1>2. Off' /\ Saved' /\ StaleUntyped'
  BY DEF IInv, Off, Saved, On, StaleUntyped
<1> QED BY <1>1, <1>2 DEF IInv

\* A prompt typed, filed or taken off is removed, or the removal fails.
LEMMA LeaveStep ==
  ASSUME IInv, TypeOK', NEW p \in Prompts,
         DropSent(p) \/ DraftRemoves(p) \/ \E why \in {"edit", "cancel"} : TakeOff(p, why)
  PROVE  IInv'
<1>1. SafeFirst'
  BY SMTT(30) DEF IInv, TypeOK, SafeFirst, DropSent, DraftRemoves, TakeOff, history
<1>2. CASE Remove(p)
  BY <1>1, <1>2, RemoveStep DEF IInv, DropSent, DraftRemoves, TakeOff, Shown, history
<1>3. CASE UNCHANGED backend
  BY <1>1, <1>3, QuietStep DEF DropSent, DraftRemoves, TakeOff, Shown, backend, window, runner, history
<1> QED BY <1>2, <1>3 DEF DropSent, DraftRemoves, TakeOff

\* The other steps that leave lists and attempts alone.
LEMMA QuietSteps ==
  ASSUME IInv, TypeOK',
         \/ \E p \in Prompts :
              Elapse(p) \/ DropAgain(p) \/ KeepAsDraft(p) \/ DraftSaved(p) \/ PutBack(p)
         \/ OpenProject
         \/ \E t \in Terminals : CloseTab(t) \/ \E a \in Agents : AgentMoves(t, a)
  PROVE  IInv'
<1> USE DEF backend, window, runner, leaving, history
<1>1. SafeFirst'
  <2>1. ASSUME NEW p \in Prompts, KeepAsDraft(p) PROVE SafeFirst'
    BY <2>1, ShownListed DEF IInv, TypeOK, SafeFirst, KeepAsDraft, Shown, File
  <2>2. ASSUME NEW p \in Prompts, DraftSaved(p) PROVE SafeFirst'
    BY <2>2 DEF IInv, TypeOK, SafeFirst, DraftSaved
  <2>3. ASSUME NEW p \in Prompts, PutBack(p) PROVE SafeFirst'
    BY <2>3 DEF IInv, TypeOK, SafeFirst, PutBack
  <2>4. ASSUME NEW p \in Prompts, Elapse(p) \/ DropAgain(p) PROVE SafeFirst'
    BY <2>4, SMTT(30) DEF IInv, TypeOK, SafeFirst, Elapse, DropAgain
  <2>5. CASE OpenProject \/ \E t \in Terminals, a \in Agents : AgentMoves(t, a)
    BY <2>5 DEF IInv, SafeFirst, OpenProject, AgentMoves, Moves
  <2>6. ASSUME NEW t \in Terminals, CloseTab(t) PROVE SafeFirst'
    <3>1. UNCHANGED <<drop, safe, used>>
      BY <2>6 DEF CloseTab, Moves
    <3>2. UNCHANGED filing \/ File(Doomed({t}))
      BY <2>6 DEF CloseTab
    <3>3. ASSUME NEW q \in Prompts, filing'[q] # filing[q] PROVE filing'[q] = "saving" /\ q \in used
      BY <3>2, <3>3, ShownListed DEF IInv, File, Doomed
    <3> QED BY <3>1, <3>3 DEF IInv, SafeFirst
  <2> QED BY <2>1, <2>2, <2>3, <2>4, <2>5, <2>6
<1>2. /\ UNCHANGED <<up, items, rev, disk, events, fetch, reply, view, viewRev,
                     used, typed, stale, attempt, sent>>
      /\ up
  <2>1. CASE \E p \in Prompts :
               Elapse(p) \/ DropAgain(p) \/ KeepAsDraft(p) \/ DraftSaved(p) \/ PutBack(p)
    BY <2>1 DEF Elapse, DropAgain, KeepAsDraft, DraftSaved, PutBack, Shown
  <2>2. CASE \/ OpenProject
             \/ \E t \in Terminals : CloseTab(t) \/ \E a \in Agents : AgentMoves(t, a)
    BY <2>2 DEF OpenProject, CloseTab, AgentMoves, Moves
  <2> QED BY <2>1, <2>2
<1> QED BY <1>1, <1>2, QuietStep

\* The clock moves with lpm running or not.
LEMMA TickStep ==
  ASSUME IInv, TypeOK', UNCHANGED <<up, backend, window, runner, leaving, history>>
  PROVE  IInv'
<1> USE DEF backend, window, runner, leaving, history
<1>1. Views' /\ Listed' /\ Contiguous' /\ TypedOnce'
  BY SameLists DEF IInv
<1>2. Off' /\ Saved' /\ StaleUntyped' /\ SafeFirst'
  BY DEF IInv, Off, Saved, On, StaleUntyped, SafeFirst
<1> QED BY <1>1, <1>2 DEF IInv

-----------------------------------------------------------------------------
\* settle_after_launch: what was due is missed, and nothing is shown yet.
LEMMA LaunchStep == ASSUME IInv, TypeOK', Launch PROVE IInv'
<1> USE DEF window, runner, leaving, history
<1>1. /\ fetch = "off" /\ events = <<>> /\ view = Empty /\ viewRev = -1
      /\ typed = Never /\ attempt = Idle
  BY DEF IInv, Off, Views, NotListening, Launch
<1>2. /\ fetch' = "off" /\ events' = <<>> /\ view' = Empty /\ viewRev' = -1 /\ rev' = 0
      /\ typed' = Never /\ used' = used /\ up'
  BY <1>1 DEF Launch
<1>3. items' = [p \in Prompts |-> LaunchedAs(p)] /\ (disk' = items' \/ disk' = disk)
  BY DEF Launch
<1>4. ASSUME NEW p \in Prompts
      PROVE  /\ items'[p] # "none" <=> disk[p] # "none"
             /\ disk'[p] # "none" <=> disk[p] # "none"
             /\ p \in stale' => items'[p] = "missed" /\ disk[p] # "none"
  BY <1>3 DEF LaunchedAs, Due, Launch
<1>5. Snaps' = {ViewSnap', ItemSnap'}
  BY <1>2 DEF Snaps, OnTheWay
<1>6. /\ ViewSnap'.rev = -1 /\ ItemSnap'.rev = 0
      /\ \A p \in Prompts : ViewSnap'.items[p] = "none" /\ ItemSnap'.items[p] = items'[p]
      /\ ItemSnap'.items = items'
  BY <1>2 DEF ViewSnap, ItemSnap, Empty
<1>7. Views'
  <2>1. NoneNewer'
    BY <1>2, <1>5, <1>6 DEF NoneNewer
  <2> QED BY <1>2, <2>1 DEF Views, NotListening, Consecutive, CatchingUp
<1>8. Listed'
  <2>1. stale' \subseteq used
    BY <1>4 DEF IInv, Listed, Launch
  <2> QED BY <1>2, <1>4, <1>5, <1>6, <2>1 DEF IInv, Listed, OnIt
<1>9. Contiguous'
  BY <1>5, <1>6 DEF Contiguous, OnIt
<1>10. TypedOnce' /\ StaleUntyped'
  BY <1>2, <1>8 DEF TypedOnce, StaleUntyped, Never, Listed, TypeOK
<1>11. Off' /\ Saved' /\ SafeFirst'
  BY <1>2, <1>4 DEF IInv, Off, Saved, On, SafeFirst, Launch
<1> QED BY <1>7, <1>8, <1>9, <1>10, <1>11 DEF IInv

\* lpm ends: only the file is left, and what it holds was scheduled.
LEMMA CrashStep == ASSUME IInv, TypeOK', Crash PROVE IInv'
<1>1. /\ fetch' = "off" /\ events' = <<>> /\ view' = Empty /\ viewRev' = -1 /\ rev' = 0
      /\ typed' = Never /\ used' = used /\ ~up' /\ items' = Empty
      /\ stale' = stale /\ disk' = disk /\ safe' = safe
      /\ attempt' = Idle /\ drop' = No /\ filing' = No /\ taking' = No
  BY DEF Crash
<1>2. Snaps' = {ViewSnap', ItemSnap'}
  BY <1>1 DEF Snaps, OnTheWay
<1>3. /\ ViewSnap'.rev = -1 /\ ItemSnap'.rev = 0
      /\ \A p \in Prompts : ViewSnap'.items[p] = "none" /\ ItemSnap'.items[p] = "none"
      /\ ItemSnap'.items = items'
  BY <1>1 DEF ViewSnap, ItemSnap, Empty
<1>4. Views'
  <2>1. NoneNewer'
    BY <1>1, <1>2, <1>3 DEF NoneNewer
  <2> QED BY <1>1, <2>1 DEF Views, NotListening, Consecutive, CatchingUp
<1>5. Listed'
  BY <1>1, <1>2, <1>3 DEF IInv, Listed, OnIt
<1>6. Contiguous'
  BY <1>2, <1>3 DEF Contiguous, OnIt
<1>7. TypedOnce' /\ StaleUntyped'
  BY <1>1, <1>5 DEF TypedOnce, StaleUntyped, Never, TypeOK
<1>8. Off' /\ Saved' /\ SafeFirst'
  BY <1>1 DEF Off, Saved, SafeFirst, No
<1> QED BY <1>4, <1>5, <1>6, <1>7, <1>8 DEF IInv

-----------------------------------------------------------------------------
\* The window takes a snapshot, or keeps the newer one it has.
LEMMA ApplyViews ==
  ASSUME TypeOK, NEW s \in Snaps, s \in Snapshot, ApplySnapshot(s)
  PROVE  /\ ViewSnap' \in Snaps /\ viewRev' \in Int
         /\ viewRev' >= viewRev /\ viewRev' >= s.rev
<1>1. CASE s.rev <= viewRev
  <2>1. UNCHANGED <<view, viewRev>>
    BY <1>1 DEF ApplySnapshot
  <2> QED BY <1>1, <2>1 DEF Snaps, ViewSnap, TypeOK
<1>2. CASE ~(s.rev <= viewRev)
  <2>1. view' = s.items /\ viewRev' = s.rev
    BY <1>2 DEF ApplySnapshot
  <2>2. ViewSnap' = s
    BY <2>1 DEF ViewSnap, Snapshot
  <2> QED BY <1>2, <2>1, <2>2 DEF TypeOK, Snapshot
<1> QED BY <1>1, <1>2

\* Snapshots move towards the window, and nothing else does.
LEMMA MoveStep ==
  ASSUME IInv, TypeOK', Views', Snaps' \subseteq Snaps, ViewSnap' \in Snaps, viewRev' >= viewRev,
         UNCHANGED <<up, items, rev, disk, attempt, sent, drop, filing, taking, history>>, up
  PROVE  IInv'
<1> USE DEF history
<1>1. Listed' /\ Contiguous' /\ TypedOnce'
  BY MoveLists DEF IInv
<1>2. Off' /\ Saved' /\ StaleUntyped' /\ SafeFirst'
  BY DEF IInv, Off, Saved, On, StaleUntyped, SafeFirst
<1> QED BY <1>1, <1>2 DEF IInv

\* initSendLater listens and asks for the list, and the list is answered.
LEMMA AskedStep == ASSUME IInv, TypeOK', WindowStarts \/ ListReplies PROVE IInv'
<1> USE DEF backend, window, runner, leaving
<1>1. ItemSnap \in Snaps /\ ViewSnap' = ViewSnap /\ ItemSnap' = ItemSnap
  BY DEF Snaps, ViewSnap, ItemSnap, WindowStarts, ListReplies
<1>2. Snaps' \subseteq Snaps
  BY <1>1 DEF Snaps, OnTheWay, WindowStarts, ListReplies, ItemSnap
<1>3. NoneNewer'
  BY <1>2 DEF IInv, Views, NoneNewer, WindowStarts, ListReplies
<1>4. Views'
  <2>1. Len(events) \in Nat /\ rev \in Nat
    BY LenProperties DEF IInv, TypeOK
  <2>2. CatchingUp'
    BY <2>1 DEF CatchingUp, WindowStarts, ListReplies
  <2>3. NotListening' /\ Consecutive'
    BY DEF IInv, Views, NotListening, Consecutive, WindowStarts, ListReplies
  <2> QED BY <1>3, <2>2, <2>3 DEF Views
<1>5. ViewSnap' \in Snaps /\ viewRev' >= viewRev
  BY <1>1 DEF Snaps, IInv, TypeOK, WindowStarts, ListReplies
<1>6. /\ UNCHANGED <<up, items, rev, disk, attempt, sent, drop, filing, taking, history>>
      /\ up
  BY DEF WindowStarts, ListReplies
<1> QED BY <1>2, <1>4, <1>5, <1>6, MoveStep

\* The first list arrives, before or after events newer than it.
LEMMA FetchStep == ASSUME IInv, TypeOK', FetchArrives PROVE IInv'
<1> USE DEF backend, leaving
<1>1. reply \in Snaps /\ reply \in Snapshot /\ fetch = "replied" /\ ApplySnapshot(reply)
  BY DEF IInv, TypeOK, FetchArrives, Snaps, OnTheWay
<1>2. /\ ViewSnap' \in Snaps /\ viewRev' \in Int
      /\ viewRev' >= viewRev /\ viewRev' >= reply.rev
  BY <1>1, ApplyViews DEF IInv
<1>3. ItemSnap' = ItemSnap /\ events' = events /\ rev' = rev /\ items' = items /\ fetch' = "done"
  BY DEF FetchArrives, ItemSnap
<1>4. Snaps' \subseteq Snaps
  BY <1>2, <1>3 DEF Snaps, OnTheWay
<1>5. NoneNewer'
  BY <1>3, <1>4 DEF IInv, Views, NoneNewer
<1>6. CatchingUp'
  <2>1. Len(events) \in Nat /\ rev \in Nat /\ viewRev \in Int /\ reply.rev \in Nat
    BY <1>1, LenProperties DEF IInv, TypeOK, Snapshot
  <2> QED BY <1>1, <1>2, <1>3, <2>1 DEF IInv, Views, CatchingUp
<1>7. Views'
  BY <1>3, <1>5, <1>6 DEF IInv, Views, NotListening, Consecutive
<1>8. /\ UNCHANGED <<up, items, rev, disk, attempt, sent, drop, filing, taking, history>>
      /\ up
  BY DEF FetchArrives
<1> QED BY <1>2, <1>4, <1>7, <1>8, MoveStep

\* The oldest event arrives; those behind it are as many revisions newer.
LEMMA EventStep == ASSUME IInv, TypeOK', EventArrives PROVE IInv'
<1> USE DEF leaving
<1> DEFINE s == Head(events)
<1>1. /\ events \in Seq(Snapshot) /\ events # <<>> /\ Len(events) \in Nat \ {0}
      /\ s \in Snapshot /\ s = events[1] /\ 1 \in 1 .. Len(events)
  BY EmptySeq, HeadTailProperties, LenProperties DEF IInv, TypeOK, EventArrives
<1>2. /\ events' = Tail(events) /\ Len(events') = Len(events) - 1
      /\ \A i \in 1 .. Len(events') : events'[i] = events[i + 1] /\ i + 1 \in 1 .. Len(events)
  BY <1>1, HeadTailProperties DEF EventArrives
<1>3. s \in Snaps
  BY <1>1 DEF Snaps, OnTheWay
<1>4. /\ ViewSnap' \in Snaps /\ viewRev' \in Int
      /\ viewRev' >= viewRev /\ viewRev' >= s.rev
  BY <1>1, <1>3, ApplyViews DEF IInv, EventArrives
<1>5. /\ ItemSnap' = ItemSnap /\ rev' = rev /\ items' = items
      /\ fetch' = fetch /\ reply' = reply
  BY DEF EventArrives, ItemSnap
<1>6. Snaps' \subseteq Snaps
  BY <1>2, <1>4, <1>5 DEF Snaps, OnTheWay
<1>7. NoneNewer'
  BY <1>5, <1>6 DEF IInv, Views, NoneNewer
<1>8. rev \in Nat /\ viewRev \in Int
  BY SMTT(30) DEF IInv, TypeOK
<1>9. Consecutive'
  <2> SUFFICES ASSUME NEW i \in 1 .. Len(events')
               PROVE  events'[i].rev = (rev' - Len(events')) + i
    BY DEF Consecutive
  <2>1. events[i + 1].rev = (rev - Len(events)) + (i + 1)
    BY <1>2 DEF IInv, Views, Consecutive
  <2> QED BY <1>1, <1>2, <1>5, <1>8, <2>1
<1>10. CatchingUp'
  <2>1. viewRev' >= rev' - Len(events')
    BY <1>1, <1>2, <1>4, <1>5, <1>8 DEF IInv, Views, Consecutive
  <2> QED BY <2>1 DEF CatchingUp
<1>11. NotListening'
  BY <1>1, <1>5 DEF IInv, Views, NotListening
<1>12. /\ UNCHANGED <<up, items, rev, disk, attempt, sent, drop, filing, taking, history>>
       /\ up
  BY DEF EventArrives
<1> QED BY <1>4, <1>6, <1>7, <1>9, <1>10, <1>11, <1>12, MoveStep DEF Views

-----------------------------------------------------------------------------
\* A pump starts on prompts it has not typed, and forgets having typed those the
\* window shows no more.
LEMMA PumpStep == ASSUME IInv, TypeOK', Pump PROVE IInv'
<1> USE DEF backend, window, history, world
<1>1. Snaps' = Snaps
  BY DEF Pump, Snaps, OnTheWay, ViewSnap, ItemSnap
<1>2. Views'
  BY <1>1 DEF IInv, Views, NotListening, Consecutive, NoneNewer, CatchingUp, Pump
<1>3. Listed' /\ Contiguous'
  BY <1>1 DEF IInv, Listed, Contiguous, OnIt, Pump
<1>4. PICK S \in Starts :
        attempt' = [p \in Prompts |-> IF p \in S THEN "foreground" ELSE attempt[p]]
  BY DEF Pump
<1>5. ASSUME NEW p \in S PROVE p \in Prompts /\ view[p] # "none" /\ p \notin sent
  BY DEF Starts, Eligible, Pending, Due
<1>6. TypedOnce'
  <2> SUFFICES ASSUME NEW p \in Prompts, typed[p] # 0
               PROVE  attempt'[p] = "idle" /\ (p \notin sent' => view[p] = "none")
    BY <1>1 DEF IInv, TypedOnce, OnIt, Pump
  <2>1. p \notin S
    BY <1>5 DEF IInv, TypedOnce
  <2> QED BY <1>4, <2>1 DEF IInv, TypedOnce, Pump
<1>7. SafeFirst'
  <2>1. ASSUME NEW p \in Prompts, filing'[p] # filing[p] PROVE filing'[p] = "saving" /\ p \in used
    BY <2>1, ShownListed DEF IInv, File, Doomed, Pump
  <2> QED BY <2>1 DEF IInv, SafeFirst, Pump
<1>8. Off' /\ Saved' /\ StaleUntyped'
  BY DEF IInv, Off, Saved, On, StaleUntyped, Pump
<1> QED BY <1>2, <1>3, <1>6, <1>7, <1>8 DEF IInv

\* An attempt types a prompt the window shows due, once; else it leaves it untyped.
LEMMA AttemptStep ==
  ASSUME IInv, TypeOK', NEW p \in Prompts, Look(p) \/ Uploaded(p)
  PROVE  IInv'
<1> USE DEF backend, window, world
<1>1. /\ UNCHANGED <<up, items, rev, disk, events, fetch, reply, view, viewRev, used, stale,
                     filing, taking>>
      /\ up /\ attempt[p] # "idle"
  BY DEF Look, Uploaded
<1>2. Snaps' = Snaps /\ ViewSnap \in Snaps
  BY <1>1 DEF Snaps, OnTheWay, ViewSnap, ItemSnap
<1>3. Views'
  BY <1>1, <1>2 DEF IInv, Views, NotListening, Consecutive, NoneNewer, CatchingUp
<1>4. Listed' /\ Contiguous'
  BY <1>1, <1>2 DEF IInv, Listed, Contiguous, OnIt
<1>5. typed[p] = 0
  BY <1>1 DEF IInv, TypedOnce
<1>6. \A q \in Prompts : q # p => attempt'[q] = attempt[q]
  BY SMTT(30) DEF IInv, TypeOK, Look, Uploaded, Ends
<1>7. \/ UNCHANGED <<typed, safe, sent, drop>>
      \/ Typed(p) /\ view[p] \in Due /\ Ends(p)
  BY DEF Look, Uploaded, Unsent, Refused
<1>8. CASE UNCHANGED <<typed, safe, sent, drop>>
  <2>1. TypedOnce'
    <3> SUFFICES ASSUME NEW q \in Prompts, typed[q] # 0 PROVE attempt'[q] = "idle"
      BY <1>1, <1>2, <1>8 DEF IInv, TypedOnce, OnIt
    <3> QED BY <1>5, <1>6 DEF IInv, TypedOnce
  <2>2. Off' /\ Saved' /\ StaleUntyped' /\ SafeFirst'
    BY <1>1, <1>8 DEF IInv, Off, Saved, On, StaleUntyped, SafeFirst
  <2> QED BY <1>3, <1>4, <2>1, <2>2 DEF IInv
<1>9. CASE Typed(p) /\ view[p] \in Due /\ Ends(p)
  <2>1. /\ \A q \in Prompts : typed'[q] = IF q = p THEN 1 ELSE typed[q]
        /\ sent' = sent \cup {p} /\ safe' = safe \cup {p}
        /\ \A q \in Prompts : drop'[q] = IF q = p THEN "first" ELSE drop[q]
        /\ attempt'[p] = "idle"
    BY <1>5, <1>9 DEF IInv, TypeOK, Typed, Ends
  <2>2. p \in used /\ p \notin stale
    BY <1>9, ShownListed DEF IInv, Due
  <2>3. TypedOnce'
    <3>1. ASSUME NEW q \in Prompts, q # p, typed'[q] # 0
          PROVE  /\ typed'[q] = 1 /\ q \in used' /\ attempt'[q] = "idle"
                 /\ q \notin sent' => view'[q] = "none"
                 /\ \A y, z \in Snaps' :
                      viewRev' <= y.rev /\ y.rev <= z.rev /\ OnIt(z, q) => OnIt(y, q)
      BY <1>1, <1>2, <1>6, <2>1, <3>1 DEF IInv, TypedOnce
    <3>2. ASSUME NEW y \in Snaps, NEW z \in Snaps,
                 viewRev <= y.rev, y.rev <= z.rev, OnIt(z, p)
          PROVE  OnIt(y, p)
      <4>1. OnIt(ViewSnap, p) /\ ViewSnap.rev = viewRev
        BY <1>9 DEF OnIt, ViewSnap, Due
      <4> QED BY <1>2, <3>2, <4>1 DEF IInv, Contiguous
    <3>3. \A y, z \in Snaps' :
            viewRev' <= y.rev /\ y.rev <= z.rev /\ OnIt(z, p) => OnIt(y, p)
      BY <1>1, <1>2, <3>2
    <3>4. typed'[p] = 1 /\ p \in used' /\ attempt'[p] = "idle" /\ p \in sent'
      BY <1>1, <2>1, <2>2
    <3> QED BY <3>1, <3>3, <3>4 DEF TypedOnce, OnIt
  <2>4. Off' /\ Saved' /\ StaleUntyped' /\ SafeFirst'
    <3>1. Off' /\ Saved'
      BY <1>1 DEF IInv, Off, Saved, On
    <3>2. StaleUntyped'
      BY <1>1, <2>1, <2>2 DEF IInv, TypeOK, StaleUntyped
    <3>3. SafeFirst'
      BY <1>1, <2>1 DEF IInv, SafeFirst
    <3> QED BY <3>1, <3>2, <3>3
  <2> QED BY <1>3, <1>4, <2>3, <2>4 DEF IInv
<1> QED BY <1>7, <1>8, <1>9

-----------------------------------------------------------------------------
(* The invariant.                                                          *)

\* lpm not running, and nothing ever scheduled.
LEMMA InitIInv == Init => IInv
<1> SUFFICES ASSUME Init PROVE IInv
  OBVIOUS
<1>1. Empty \in Schedule /\ NoReply \in Snapshot /\ <<>> \in Seq(Snapshot) /\ Free \in Waits
  BY EmptySeq DEF Empty, Schedule, States, NoReply, Snapshot, Free, Waits, Agents
<1>2. TypeOK
  <2>1. /\ attempt \in [Prompts -> {"idle", "foreground", "payload"}]
        /\ wait \in [Prompts -> Waits]
        /\ gone \in [Prompts -> {"no", "since", "over"}]
        /\ drop \in [Prompts -> {"no", "first", "pause", "again"}]
        /\ filing \in [Prompts -> {"no", "saving", "removing"}]
        /\ taking \in [Prompts -> {"no", "edit", "cancel"}]
        /\ typed \in [Prompts -> Nat]
    BY <1>1 DEF Init, Idle, No, Never
  <2>2. /\ clock \in [Prompts -> Phases] /\ agent \in [Terminals -> Agents]
        /\ tab \in [Terminals -> {"open", "closing", "closed"}]
    BY DEF Init, Phases, Agents
  <2>3. /\ items \in Schedule /\ disk \in Schedule /\ view \in Schedule
        /\ reply \in Snapshot /\ events \in Seq(Snapshot)
        /\ rev \in Nat /\ viewRev \in Nat \cup {-1}
    BY <1>1 DEF Init
  <2> QED BY <2>1, <2>2, <2>3 DEF Init, TypeOK
<1>3. Snaps = {ViewSnap, ItemSnap}
  BY DEF Init, Snaps, OnTheWay
<1>4. Views /\ Listed /\ Contiguous
  <2>1. /\ ViewSnap.rev = -1 /\ ItemSnap.rev = 0 /\ ItemSnap.items = items
        /\ \A p \in Prompts : ViewSnap.items[p] = "none" /\ ItemSnap.items[p] = "none"
    BY DEF Init, ViewSnap, ItemSnap, Empty
  <2>2. NoneNewer
    BY <1>3, <2>1 DEF Init, NoneNewer
  <2> QED BY <1>3, <2>1, <2>2 DEF Init, Views, NotListening, Consecutive, CatchingUp,
         Listed, Contiguous, OnIt, Empty
<1>5. Off /\ TypedOnce /\ Saved /\ SafeFirst /\ StaleUntyped
  BY DEF Init, Off, TypedOnce, Saved, SafeFirst, StaleUntyped, Never, No
<1> QED BY <1>2, <1>4, <1>5 DEF IInv

\* Every step keeps it.
LEMMA NextIInv == IInv /\ [Next]_vars => IInv'
<1> SUFFICES ASSUME IInv, [Next]_vars PROVE IInv'
  OBVIOUS
<1>1. TypeOK'
  BY TypeStep DEF IInv
<1>2. CASE Settle \/ Launch \/ Crash
  BY <1>1, <1>2, SettleStep, LaunchStep, CrashStep
<1>3. CASE WindowStarts \/ ListReplies \/ FetchArrives \/ EventArrives
  BY <1>1, <1>3, AskedStep, FetchStep, EventStep
<1>4. CASE Pump
  BY <1>1, <1>4, PumpStep
<1>5. ASSUME NEW p \in Prompts, Add(p) \/ Reschedule(p) \/ SendNow(p) PROVE IInv'
  BY <1>1, <1>5, AddStep, AskStep
<1>6. ASSUME NEW p \in Prompts, Look(p) \/ Uploaded(p) PROVE IInv'
  BY <1>1, <1>6, AttemptStep
<1>7. ASSUME NEW p \in Prompts,
             DropSent(p) \/ DraftRemoves(p) \/ \E why \in {"edit", "cancel"} : TakeOff(p, why)
      PROVE  IInv'
  BY <1>1, <1>7, LeaveStep
<1>8. ASSUME NEW p \in Prompts,
             Elapse(p) \/ DropAgain(p) \/ KeepAsDraft(p) \/ DraftSaved(p) \/ PutBack(p)
      PROVE  IInv'
  BY <1>1, <1>8, QuietSteps
<1>9. CASE \/ OpenProject
           \/ \E t \in Terminals : CloseTab(t) \/ \E a \in Agents : AgentMoves(t, a)
  BY <1>1, <1>9, QuietSteps
<1>10. ASSUME NEW p \in Prompts, Tick(p) PROVE IInv'
  BY <1>1, <1>10, TickStep DEF Tick
<1>11. CASE UNCHANGED vars
  BY <1>1, <1>11, TickStep DEF vars
<1> QED BY <1>2, <1>3, <1>4, <1>5, <1>6, <1>7, <1>8, <1>9, <1>10, <1>11 DEF Next

\* The invariant of Send later.
THEOREM Invariance == Spec => []IInv
BY InitIInv, NextIInv, PTL DEF Spec

\* The schedule, the window, the runner and what leaves keep their types.
THEOREM TypeCorrect == Spec => []TypeOK
BY Invariance, PTL DEF IInv

\* applySnapshot: with nothing on its way, the window lists what the schedule
\* holds, whichever of the first list and the events came last.
THEOREM WindowCatchesUp == Spec => []ViewCatchesUp
<1>1. IInv => ViewCatchesUp
  <2> SUFFICES ASSUME IInv, up, fetch = "done", events = <<>> PROVE view = items
    BY DEF ViewCatchesUp
  <2>1. ViewSnap \in Snaps /\ ViewSnap.rev = viewRev /\ ViewSnap.items = view
    BY DEF Snaps, ViewSnap
  <2>2. viewRev >= rev /\ viewRev <= rev /\ viewRev \in Int /\ rev \in Nat
    BY <2>1, EmptySeq DEF IInv, TypeOK, Views, CatchingUp, NoneNewer
  <2> QED BY <2>1, <2>2 DEF IInv, Views, NoneNewer
<1> QED BY <1>1, Invariance, PTL

\* settle_after_launch: what was due before the launch is not typed until the
\* user asks for it again, through every later snapshot, attempt and save.
THEOREM StaleStaysUntyped == Spec => []StaleNeverTyped
<1>1. IInv => StaleNeverTyped
  BY DEF IInv, StaleUntyped, StaleNeverTyped
<1> QED BY <1>1, Invariance, PTL

-----------------------------------------------------------------------------
(* The refinement of PromptLife.                                           *)

Hand == {p \in Prompts : taking[p] # "no"}

\* What the mapping makes of a removal: the board loses the prompt.
LEMMA RemoveBoard ==
  ASSUME IInv, up, NEW p \in Prompts, Remove(p)
  PROVE  On(disk)' = On(disk) \ {p} /\ (p \in On(disk) <=> items[p] # "none")
<1>1. On(items) = On(disk)
  BY DEF IInv, Saved
<1>2. disk' = [items EXCEPT ![p] = "none"]
  BY DEF Remove, Mutate
<1>3. On(disk)' = On(items) \ {p}
  BY <1>2 DEF On, IInv, TypeOK, Schedule
<1> QED BY <1>1, <1>3 DEF On

\* A step that the promise does not see.
LEMMA Stutter ==
  ASSUME On(disk)' = On(disk), Hand' = Hand, UNCHANGED <<used, typed, safe>>
  PROVE  [Life!Next]_(Life!vars)
BY DEF Life!vars, Hand

\* Every step of SendLater is a step of PromptLife, or one it does not see.
LEMMA StepImplements == IInv /\ IInv' /\ [Next]_vars => [Life!Next]_(Life!vars)
<1> SUFFICES ASSUME IInv, IInv', [Next]_vars PROVE [Life!Next]_(Life!vars)
  OBVIOUS
<1> USE DEF backend, window, runner, leaving, world, history, counters
\* Settling and launching rename what is on the schedule, and take nothing off it.
<1>1. CASE Settle
  <2>1. On(disk)' = On(disk)
    <3>1. On(items)' = On(items)
      BY <1>1 DEF On, Settle, SettledAs
    <3>2. On(items) = On(disk) /\ On(items)' = On(disk)'
      BY <1>1 DEF IInv, Saved, Settle
    <3> QED BY <3>1, <3>2
  <2> QED BY <1>1, <2>1, Stutter DEF Settle, Hand
<1>2. CASE Launch
  <2>1. On(disk)' = On(disk)
    BY <1>2 DEF On, Launch, LaunchedAs, Due
  <2> QED BY <1>2, <2>1, Stutter DEF Launch, Hand
<1>3. CASE Crash
  <2>1. Life!Restart
    BY <1>3 DEF Crash, Life!Restart, Life!Never, Never, On, No
  <2> QED BY <2>1 DEF Life!Next
<1>4. CASE \/ WindowStarts \/ ListReplies \/ FetchArrives \/ EventArrives \/ Pump \/ OpenProject
           \/ \E t \in Terminals : CloseTab(t) \/ \E a \in Agents : AgentMoves(t, a)
  <2>1. UNCHANGED <<disk, taking, used, typed, safe>>
    BY <1>4 DEF WindowStarts, ListReplies, FetchArrives, EventArrives, Pump, OpenProject,
       CloseTab, AgentMoves, Moves
  <2> QED BY <2>1, Stutter DEF On, Hand
<1>5. ASSUME NEW p \in Prompts, Tick(p) \/ Elapse(p) \/ DropAgain(p) \/ KeepAsDraft(p)
      PROVE  [Life!Next]_(Life!vars)
  <2>1. UNCHANGED <<disk, taking, used, typed, safe>>
    BY <1>5 DEF Tick, Elapse, DropAgain, KeepAsDraft
  <2> QED BY <2>1, Stutter DEF On, Hand
<1>6. ASSUME NEW p \in Prompts, Add(p) PROVE [Life!Next]_(Life!vars)
  <2>1. On(disk)' = On(disk) \cup {p}
    <3>1. On(items) = On(disk)
      BY <1>6 DEF IInv, Saved, Add
    <3>2. On(disk)' = On(items) \cup {p}
      BY <1>6 DEF IInv, TypeOK, Schedule, Add, Mutate, On
    <3> QED BY <3>1, <3>2
  <2>2. Life!Schedule(p)
    BY <1>6, <2>1 DEF Add, Life!Schedule
  <2> QED BY <2>2 DEF Life!Next
<1>7. ASSUME NEW p \in Prompts, Reschedule(p) \/ SendNow(p) PROVE [Life!Next]_(Life!vars)
  <2>1. PICK as \in {"scheduled", "forced"} : Mutate([items EXCEPT ![p] = as])
    BY <1>7 DEF Reschedule, SendNow
  <2>2. On(disk)' = On(disk)
    <3>1. On(items) = On(disk)
      BY <1>7 DEF IInv, Saved, Reschedule, SendNow, Shown
    <3>2. On(disk)' = On(items)
      BY <1>7, <2>1 DEF IInv, TypeOK, Schedule, Reschedule, SendNow, Mutate, On
    <3> QED BY <3>1, <3>2
  <2> QED BY <1>7, <2>2, Stutter DEF Reschedule, SendNow, Hand
<1>8. ASSUME NEW p \in Prompts, Look(p) \/ Uploaded(p) PROVE [Life!Next]_(Life!vars)
  <2>1. UNCHANGED <<disk, taking, used>> /\ attempt[p] # "idle"
    BY <1>8 DEF Look, Uploaded
  <2>2. \/ UNCHANGED <<typed, safe>>
        \/ Typed(p) /\ view[p] \in Due
    BY <1>8 DEF Look, Uploaded, Unsent, Refused
  <2>3. CASE UNCHANGED <<typed, safe>>
    BY <2>1, <2>3, Stutter DEF On, Hand
  <2>4. CASE Typed(p) /\ view[p] \in Due
    <3>1. typed[p] = 0 /\ p \in used
      BY <2>1, <2>4, ShownListed DEF IInv, TypedOnce, Due
    <3>2. Life!Type(p)
      BY <2>1, <2>4, <3>1 DEF Typed, Life!Type, On, IInv, TypeOK
    <3> QED BY <3>2 DEF Life!Next
  <2> QED BY <2>2, <2>3, <2>4
\* What leaves the schedule unasked is safe already.
<1>9. ASSUME NEW p \in Prompts, DropSent(p) \/ DraftRemoves(p) PROVE [Life!Next]_(Life!vars)
  <2>1. p \in safe /\ up /\ UNCHANGED <<taking, used, typed, safe>>
    BY <1>9 DEF IInv, SafeFirst, DropSent, DraftRemoves
  <2>2. CASE Remove(p)
    <3>1. Life!Drop(p)
      BY <2>1, <2>2, RemoveBoard DEF Life!Drop
    <3> QED BY <3>1 DEF Life!Next
  <2>3. CASE UNCHANGED disk
    BY <2>1, <2>3, Stutter DEF On, Hand
  <2> QED BY <1>9, <2>2, <2>3 DEF DropSent, DraftRemoves
<1>10. ASSUME NEW p \in Prompts, NEW why \in {"edit", "cancel"}, TakeOff(p, why)
       PROVE  [Life!Next]_(Life!vars)
  <2>1. up /\ Remove(p) /\ UNCHANGED <<used, typed, safe>> /\ taking[p] = "no"
    BY <1>10 DEF TakeOff, Shown
  <2>2. On(disk)' = On(disk) \ {p} /\ (p \in On(disk) <=> items[p] # "none")
    BY <2>1, RemoveBoard
  <2>3. CASE items[p] = "none"
    <3>1. Hand' = Hand
      BY <1>10, <2>1, <2>3 DEF TakeOff, Hand, IInv, TypeOK
    <3> QED BY <2>1, <2>2, <2>3, <3>1, Stutter
  <2>4. CASE items[p] # "none"
    <3>1. Hand' = Hand \cup {p}
      BY <1>10, <2>4 DEF TakeOff, Hand, IInv, TypeOK
    <3>2. Life!TakeOff(p)
      BY <2>1, <2>2, <2>4, <3>1 DEF Life!TakeOff, Hand
    <3> QED BY <3>2 DEF Life!Next
  <2> QED BY <2>3, <2>4
<1>11. ASSUME NEW p \in Prompts, DraftSaved(p) PROVE [Life!Next]_(Life!vars)
  <2>1. p \in used /\ UNCHANGED <<disk, taking, used, typed>>
    BY <1>11 DEF IInv, SafeFirst, DraftSaved
  <2>2. CASE safe' = safe \cup {p}
    <3>1. Life!File(p)
      BY <2>1, <2>2 DEF Life!File, On
    <3> QED BY <3>1 DEF Life!Next
  <2>3. CASE UNCHANGED safe
    BY <2>1, <2>3, Stutter DEF On, Hand
  <2> QED BY <1>11, <2>2, <2>3 DEF DraftSaved
<1>12. ASSUME NEW p \in Prompts, PutBack(p) PROVE [Life!Next]_(Life!vars)
  <2>1. Hand' = Hand \ {p} /\ p \in Hand /\ UNCHANGED <<disk, used, typed>>
    BY <1>12 DEF PutBack, Hand, IInv, TypeOK
  <2>2. safe' \in {safe, safe \cup {p}}
    BY <1>12 DEF PutBack
  <2>3. Life!HandOver(p)
    BY <2>1, <2>2 DEF Life!HandOver, Hand, On
  <2> QED BY <2>3 DEF Life!Next
<1>13. CASE UNCHANGED vars
  BY <1>13, Stutter DEF vars, On, Hand
<1> QED
  BY <1>1, <1>2, <1>3, <1>4, <1>5, <1>6, <1>7, <1>8, <1>9, <1>10, <1>11, <1>12, <1>13 DEF Next

\* What Send later promises a prompt is kept by the schedule, its window and its
\* runner together: it leaves send-later.json only once its text is safe or the
\* user took it off, and one run of the program types it at most once.
THEOREM Refinement == Spec => Implements
<1>1. Init => Life!Init
  BY DEF Init, Life!Init, Life!Never, Never, On, Empty, No
<1>2. Spec => []IInv
  BY Invariance
<1> QED BY <1>1, <1>2, StepImplements, PTL DEF Spec, Implements, Life!Spec
=============================================================================
