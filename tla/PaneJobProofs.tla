---------------------------- MODULE PaneJobProofs ----------------------------
(***************************************************************************)
(* What holds of a service pane for every bound on the lines typed.  The   *)
(* types hold throughout.  That a pane is shown as ended only when it is,  *)
(* with the status of its last line, and that a restart types to a shell   *)
(* that waits, hold but for a rushed line, as PaneJob states them; of that *)
(* one the invariant says nothing until the next line starts afresh.       *)
(*                                                                         *)
(* The argument is a count.  job says how many prompt reports the reader   *)
(* still expects before the pane has ended (Level); Owed is how many are   *)
(* in the pty or will come there.  Between operations job expects at least *)
(* as many as are owed, so it has not ended while one is to come, and the  *)
(* report that ends it is the last one, the report of the line typed last. *)
(***************************************************************************)
EXTENDS PaneJob, SequenceTheorems, TLAPS

\* The reports job expects before it has ended.
Level == CASE job = "Starting" -> 2
           [] job \in {"Running", "Stopping"} -> 1
           [] OTHER -> 0

\* The reports that are unread or to come, if no shell exits first.
Owed == Len(reports) + (typed - read)
        + (IF shell \in {"starting", "running"} THEN 1 ELSE 0)

\* A pane that opened idle, where the first prompt is owed and none expected.
Fresh == typed = 0 /\ job = "Idle" /\ pc # "mark"

ShellInv ==
  /\ shellGone => shell = "gone" /\ reports = <<>>
  /\ shell = "running" => read > 0
  /\ shell = "starting" => reports = <<>>
  /\ shell = "starting" /\ ~ rushed =>
       /\ job \in {"Starting", "Idle"}
       /\ pc = "mark" => op = "open" /\ job = "Starting"

\* A line about to be typed into a new pane is counted beforehand; one typed
\* into an older pane is counted by job when send has noted it.
OwedInv ==
  /\ pc = "write" /\ op = "open" => Level > Owed
  /\ pc = "mark" /\ op # "open" => Owed <= 1
  /\ (pc = "mark" => op = "open") => Fresh \/ Level >= Owed

\* The report that ends the run is that of the line typed last.
OwnInv ==
  /\ \A i \in 1 .. Len(reports) : i = Level => reports[i] = typed
  /\ pc = "mark" /\ op # "open" /\ reports # <<>> => reports[1] = typed

\* A restart types when the line before is over or its shell has gone.
RestartInv == pc = "write" /\ op = "restart" =>
                shellGone \/ Settled \/ (typed = 0 /\ Quiet)

\* Only a restart waits, a stop types nothing, only a pane without a line is
\* given its first, and an open is never rushed.
LineInv == /\ pc = "wait" => op = "restart"
           /\ pc = "write" => op # "stop"
           /\ pc = "write" /\ op = "line" => typed = 0
           /\ rushed => op # "open"

IInv == /\ TypeOK
        /\ ShellInv
        /\ LineInv
        /\ CodeOfLastLine
        /\ ~ rushed => OwedInv /\ OwnInv /\ RestartInv

-----------------------------------------------------------------------------
(* Types, whatever the shell does.                                         *)

\* What a report added does to the sequence of those unread ...
LEMMA Reported ==
  ASSUME NEW s \in Seq(0 .. MaxLines), NEW r \in 0 .. MaxLines
  PROVE  /\ Append(s, r) \in Seq(0 .. MaxLines)
         /\ Len(Append(s, r)) = Len(s) + 1
         /\ \A i \in 1 .. Len(s) : Append(s, r)[i] = s[i]
         /\ Append(s, r)[Len(s) + 1] = r
  OBVIOUS

\* ... and what one read does.
LEMMA Taken ==
  ASSUME NEW s \in Seq(0 .. MaxLines), s # <<>>
  PROVE  /\ Head(s) \in 0 .. MaxLines
         /\ Head(s) = s[1]
         /\ Len(s) >= 1
         /\ Tail(s) \in Seq(0 .. MaxLines)
         /\ Len(Tail(s)) = Len(s) - 1
         /\ \A i \in 1 .. Len(s) - 1 : Tail(s)[i] = s[i + 1]
<1>1. Len(s) \in Nat /\ Len(s) >= 1
  OBVIOUS
<1>2. s[1] \in 0 .. MaxLines
  <2>1. 1 \in 1 .. Len(s)
    BY <1>1
  <2> QED
    BY <2>1, ElementOfSeq, Zenon
<1>3. Head(s) = s[1]
  BY <1>1
<1>4. Tail(s) \in Seq(0 .. MaxLines) /\ Len(Tail(s)) = Len(s) - 1
  BY <1>1
<1>5. \A i \in 1 .. Len(s) - 1 : Tail(s)[i] = s[i + 1]
  BY <1>1
<1> QED
  BY <1>1, <1>2, <1>3, <1>4, <1>5

\* No report is unread at first, and in the pty of a new shell.
LEMMA NoReports == <<>> \in Seq(0 .. MaxLines) /\ Len(<<>>) = 0
  OBVIOUS

\* Every step keeps the types.
LEMMA TypeStep ==
  ASSUME TypeOK, [Next]_vars
  PROVE  TypeOK'
<1> USE MaxLinesAssumption DEF TypeOK, Jobs
<1>1. CASE FirstPrompt \/ RunLine \/ LineEnds \/ ShellExits
  <2>1. 0 \in 0 .. MaxLines /\ read \in 0 .. MaxLines
    OBVIOUS
  <2>2. reports' \in Seq(0 .. MaxLines)
    <3>1. Append(reports, 0) \in Seq(0 .. MaxLines) /\ Append(reports, read) \in Seq(0 .. MaxLines)
      BY <2>1, Reported
    <3> QED
      BY <1>1, <3>1 DEF FirstPrompt, RunLine, LineEnds, ShellExits
  <2> QED
    BY <1>1, <2>2, SMTT(30) DEF FirstPrompt, RunLine, LineEnds, ShellExits, lifeVars, operatorVars
<1>2. CASE ReadReport \/ ReadEnd
  <2>1. reports' \in Seq(0 .. MaxLines) /\ code' \in 0 .. MaxLines
    BY <1>2, Taken DEF ReadReport, ReadEnd
  <2> QED
    BY <1>2, <2>1 DEF ReadReport, ReadEnd, AtPrompt, shellVars, operatorVars
<1>3. CASE StopService \/ RestartService \/ RunServiceLine
  BY <1>3 DEF StopService, RestartService, RunServiceLine, Begin, shellVars, lifeVars, operatorVars
<1>4. CASE Interrupt \/ InterruptGone \/ Signal \/ Waited \/ WaitExpires
  BY <1>4 DEF Interrupt, InterruptGone, Signal, Waited, WaitExpires, Goto,
              AfterStop, shellVars, lifeVars, operatorVars
<1>5. CASE Reopen \/ SendWrites \/ SendFails \/ SendMarks
  <2>1. reports' \in Seq(0 .. MaxLines)
    BY <1>5, NoReports DEF Reopen, SendWrites, SendFails, SendMarks
  <2>2. typed' \in 0 .. MaxLines /\ read' \in 0 .. typed'
    BY <1>5 DEF Reopen, SendWrites, SendFails, SendMarks, shellVars
  <2>5. rushed' \in BOOLEAN
    BY <1>5, Zenon DEF Reopen, SendWrites, SendFails, SendMarks, Goto
  <2>3. CASE Reopen
    <3>1. code' \in 0 .. MaxLines
      BY <2>3 DEF Reopen
    <3> QED
      BY <2>1, <2>2, <2>3, <2>5, <3>1 DEF Reopen
  <2>4. CASE SendWrites \/ SendFails \/ SendMarks
    BY <2>1, <2>2, <2>4, <2>5 DEF SendWrites, SendFails, SendMarks, Goto, shellVars, lifeVars, operatorVars
  <2> QED
    BY <1>5, <2>3, <2>4
<1>6. CASE UNCHANGED vars
  BY <1>6 DEF vars, shellVars, lifeVars, operatorVars
<1> QED
  BY <1>1, <1>2, <1>3, <1>4, <1>5, <1>6 DEF Next

\* A pane opens with the types it keeps.
LEMMA TypeInit ==
  ASSUME Init
  PROVE  TypeOK
<1>1. typed \in 0 .. MaxLines /\ read \in 0 .. typed /\ code \in 0 .. MaxLines
  BY MaxLinesAssumption DEF Init
<1>2. reports \in Seq(0 .. MaxLines)
  BY NoReports DEF Init
<1> QED
  BY <1>1, <1>2 DEF Init, TypeOK, Jobs

\* Every variable keeps its type, whatever the shell and the lines do.
THEOREM TypeCorrect == Spec => []TypeOK
  BY TypeInit, TypeStep, PTL DEF Spec

-----------------------------------------------------------------------------
(* The count, while the line typed last was not rushed.                    *)

\* The count holds of a pane that opens.
LEMMA CountInit ==
  ASSUME Init
  PROVE  IInv
<1>1. TypeOK
  BY TypeInit
<1>2. ShellInv /\ LineInv /\ CodeOfLastLine /\ RestartInv /\ ~ rushed
  BY DEF Init, ShellInv, LineInv, CodeOfLastLine, RestartInv
<1>3. OwedInv /\ OwnInv
  BY NoReports DEF Init, OwedInv, OwnInv, Owed, Level, Fresh
<1> QED
  BY <1>1, <1>2, <1>3 DEF IInv

\* A pane that has ended by what job says has no line that runs or waits: job
\* expects no report, and so none is owed.
LEMMA EndedQuiet ==
  ASSUME IInv, ~ rushed, Ended, pc # "mark"
  PROVE  shellGone \/ Settled \/ (typed = 0 /\ Quiet)
<1>1. SUFFICES ASSUME ~ shellGone
               PROVE  Settled \/ (typed = 0 /\ Quiet)
  OBVIOUS
<1>2. job \in {"Exited", "Idle"}
  BY <1>1 DEF Ended
<1>3. /\ typed \in Nat /\ read \in 0 .. typed /\ Len(reports) \in Nat
      /\ reports \in Seq(0 .. MaxLines)
  BY MaxLinesAssumption DEF IInv, TypeOK
<1>4. CASE Fresh
  BY <1>3, <1>4 DEF IInv, ShellInv, Fresh, Quiet
<1>5. CASE ~ Fresh
  <2>1. Level = 0 /\ Level >= Owed
    BY <1>2, <1>5 DEF IInv, OwedInv, Level
  <2>2. Len(reports) = 0 /\ read = typed /\ shell \notin {"starting", "running"}
    BY <1>3, <2>1 DEF Owed
  <2>3. reports = <<>>
    BY <1>3, <2>2
  <2> QED
    BY <2>2, <2>3 DEF Settled, Quiet
<1> QED
  BY <1>4, <1>5

\* Of a line that is rushed, or stays so, nothing more is asked.
LEMMA StaysRushed ==
  ASSUME IInv, TypeOK', [Next]_vars, rushed'
  PROVE  IInv'
<1>1. CodeOfLastLine'
  BY DEF CodeOfLastLine
<1>2. CASE FirstPrompt \/ RunLine \/ LineEnds \/ ShellExits
  <2>1. UNCHANGED <<shellGone, pc, op, rushed, typed>>
    BY <1>2 DEF FirstPrompt, RunLine, LineEnds, ShellExits, lifeVars, operatorVars
  <2>2. ~ shellGone /\ read \in Nat
    BY <1>2, MaxLinesAssumption DEF IInv, TypeOK, ShellInv, FirstPrompt, RunLine,
       LineEnds, ShellExits
  <2>3. shell' # "starting" /\ (shell' = "running" => read' > 0)
    BY <1>2, <2>2 DEF FirstPrompt, RunLine, LineEnds, ShellExits
  <2>4. ShellInv' /\ LineInv'
    BY <2>1, <2>2, <2>3 DEF IInv, ShellInv, LineInv
  <2> QED
    BY <1>1, <2>4 DEF IInv
<1>3. CASE ReadReport \/ ReadEnd
  <2>1. ShellInv' /\ LineInv'
    BY <1>3 DEF IInv, TypeOK, ShellInv, LineInv, ReadReport, ReadEnd, shellVars,
       operatorVars
  <2> QED
    BY <1>1, <2>1 DEF IInv
<1>4. CASE \/ StopService \/ RestartService \/ RunServiceLine
           \/ Interrupt \/ InterruptGone \/ Signal \/ Waited \/ WaitExpires
           \/ SendFails \/ SendMarks
  <2>0. UNCHANGED <<shell, read, reports, shellGone>>
    BY <1>4 DEF StopService, RestartService, RunServiceLine, Begin, Interrupt,
       InterruptGone, Signal, Waited, WaitExpires, SendFails, SendMarks, Goto,
       shellVars, lifeVars
  <2>1. ShellInv'
    BY <2>0 DEF IInv, ShellInv
  <2>2. LineInv'
    BY <1>4 DEF IInv, LineInv, StopService, RestartService, RunServiceLine, Begin,
       Interrupt, InterruptGone, Signal, Waited, WaitExpires, SendFails, SendMarks,
       Goto, AfterStop, shellVars, lifeVars
  <2> QED
    BY <1>1, <2>1, <2>2 DEF IInv
<1>5. CASE Reopen
  BY <1>5 DEF Reopen
<1>6. CASE SendWrites
  <2>1. ShellInv' /\ LineInv'
    BY <1>6 DEF IInv, ShellInv, LineInv, SendWrites, shellVars, lifeVars
  <2> QED
    BY <1>1, <2>1 DEF IInv
<1>7. CASE UNCHANGED vars
  <2>1. ShellInv' /\ LineInv'
    BY <1>7 DEF IInv, ShellInv, LineInv, vars, shellVars, lifeVars, operatorVars
  <2> QED
    BY <1>1, <2>1 DEF IInv
<1> QED
  BY <1>2, <1>3, <1>4, <1>5, <1>6, <1>7 DEF Next

\* A step of the shell: each report it adds was owed before.
LEMMA ShellStep ==
  ASSUME IInv, TypeOK', ~ rushed', FirstPrompt \/ RunLine \/ LineEnds \/ ShellExits
  PROVE  IInv'
<1> USE DEF FirstPrompt, RunLine, LineEnds, ShellExits, lifeVars, operatorVars
<1> DEFINE n == Len(reports)
<1>0. ~ rushed /\ OwedInv /\ OwnInv /\ RestartInv
  BY DEF IInv
<1>1. /\ typed \in Nat /\ read \in Nat /\ read <= typed /\ n \in Nat
      /\ reports \in Seq(0 .. MaxLines)
      /\ typed <= MaxLines /\ 0 \in 0 .. MaxLines /\ read \in 0 .. MaxLines
  BY MaxLinesAssumption DEF IInv, TypeOK
<1>2. /\ pc' = pc /\ op' = op /\ job' = job /\ typed' = typed
      /\ Level' = Level /\ Level \in 0 .. 2
  BY DEF Level
<1>3. /\ FirstPrompt => Len(reports') = n + 1 /\ reports'[n + 1] = 0
      /\ LineEnds => Len(reports') = n + 1 /\ reports'[n + 1] = read
      /\ FirstPrompt \/ LineEnds => \A i \in 1 .. n : reports'[i] = reports[i]
  <2>1. CASE FirstPrompt
    BY <1>1, <2>1, Reported
  <2>2. CASE LineEnds
    BY <1>1, <2>2, Reported
  <2> QED
    BY <2>1, <2>2
<1>4. Owed' <= Owed /\ (Fresh => Fresh')
  BY <1>1, <1>3 DEF Owed, Fresh
<1>5. ShellInv' /\ LineInv' /\ CodeOfLastLine'
  BY <1>0, <1>1 DEF IInv, ShellInv, LineInv, CodeOfLastLine
<1>6. RestartInv'
  BY <1>0, <1>1 DEF RestartInv, Settled, Quiet
<1>7. Owed \in Nat /\ Owed' \in Int /\ Level \in Nat /\ Level' \in Nat
  BY <1>1, <1>3 DEF Owed, Level
<1>8. OwedInv'
  <2> HIDE DEF FirstPrompt, RunLine, LineEnds, ShellExits
  <2>1. pc = "write" /\ op = "open" => Level > Owed
    BY <1>0 DEF OwedInv
  <2>2. pc = "mark" /\ op # "open" => Owed <= 1
    BY <1>0 DEF OwedInv
  <2>3. (pc = "mark" => op = "open") => Fresh \/ Level >= Owed
    BY <1>0 DEF OwedInv
  <2>4. Level >= Owed => Level' >= Owed'
    BY <1>2, <1>4, <1>7
  <2>5. Level > Owed => Level' > Owed'
    BY <1>2, <1>4, <1>7
  <2>6. Owed <= 1 => Owed' <= 1
    BY <1>4, <1>7
  <2> QED
    BY <1>2, <1>4, <2>1, <2>2, <2>3, <2>4, <2>5, <2>6, Zenon DEF OwedInv
<1>9. CASE RunLine \/ ShellExits
  <2>1. reports' = reports
    BY <1>9
  <2>2. OwnInv'
    BY <1>0, <1>2, <2>1 DEF OwnInv
  <2> QED
    BY <1>5, <1>6, <1>8, <2>2 DEF IInv
<1>10. CASE FirstPrompt
  <2>1. reports = <<>> /\ n = 0 /\ Level # 1 /\ ~ (pc = "mark" /\ op # "open")
    BY <1>0, <1>10 DEF IInv, ShellInv, Level
  <2>2. OwnInv'
    BY <1>2, <1>3, <1>10, <2>1 DEF OwnInv
  <2> QED
    BY <1>5, <1>6, <1>8, <2>2 DEF IInv
<1>11. CASE LineEnds
  <2>1. Owed = n + (typed - read) + 1
    BY <1>11 DEF Owed
  <2>2. ~ Fresh
    BY <1>1, <1>11 DEF IInv, ShellInv, Fresh
  <2>3. ASSUME n + 1 = Level \/ (pc = "mark" /\ op # "open")
        PROVE  read = typed
    <3>1. CASE pc = "mark" /\ op # "open"
      BY <1>0, <1>1, <2>1, <3>1 DEF OwedInv
    <3>2. CASE ~ (pc = "mark" /\ op # "open")
      BY <1>0, <1>1, <2>1, <2>2, <2>3, <3>2 DEF OwedInv
    <3> QED
      BY <3>1, <3>2
  <2>4. pc = "mark" /\ op # "open" => n = 0
    BY <1>0, <1>1, <2>1 DEF OwedInv
  <2>5. \A i \in 1 .. Len(reports') : i = Level' => reports'[i] = typed'
    BY <1>1, <1>2, <1>3, <1>11, <2>3, <1>0 DEF OwnInv
  <2>6. pc' = "mark" /\ op' # "open" /\ reports' # <<>> => reports'[1] = typed'
    BY <1>1, <1>2, <1>3, <1>11, <2>3, <2>4
  <2>7. OwnInv'
    BY <2>5, <2>6 DEF OwnInv
  <2> QED
    BY <1>5, <1>6, <1>8, <2>7 DEF IInv
<1> QED
  BY <1>9, <1>10, <1>11

\* A report that is read was owed, and job expects one less.  The one that ends
\* the run is that of the line typed last.
LEMMA ReadStep ==
  ASSUME IInv, TypeOK', ~ rushed', ReadReport
  PROVE  IInv'
<1> DEFINE n == Len(reports)
<1>0. ~ rushed /\ OwedInv /\ OwnInv /\ RestartInv
  BY DEF IInv, ReadReport, operatorVars
<1>1. /\ typed \in Nat /\ read \in Nat /\ read <= typed /\ n \in Nat /\ job \in Jobs
      /\ reports \in Seq(0 .. MaxLines) /\ reports # <<>>
  BY MaxLinesAssumption DEF IInv, TypeOK, ReadReport
<1>2. /\ Head(reports) = reports[1]
      /\ n >= 1
      /\ Len(reports') = n - 1
      /\ \A i \in 1 .. n - 1 : reports'[i] = reports[i + 1]
  BY <1>1, Taken DEF ReadReport
<1>3. /\ pc' = pc /\ op' = op /\ shell' = shell /\ shellGone' = shellGone
      /\ typed' = typed /\ read' = read
  BY DEF ReadReport, shellVars, operatorVars
<1>4. /\ Level \in Nat /\ Level' \in Nat
      /\ Level' = IF Level > 0 THEN Level - 1 ELSE 0
  BY <1>1 DEF ReadReport, AtPrompt, Level, Jobs
<1>5. Owed \in Nat /\ Owed' = Owed - 1 /\ Owed >= n
  BY <1>1, <1>2, <1>3 DEF Owed
<1>6. Fresh => Fresh'
  BY <1>3 DEF Fresh, ReadReport, AtPrompt
<1>7. ShellInv' /\ LineInv' /\ RestartInv'
  <2>1. ShellInv' /\ LineInv'
    BY <1>0, <1>1, <1>3 DEF IInv, ShellInv, LineInv
  <2>2. RestartInv'
    BY <1>0, <1>1, <1>3 DEF RestartInv, Settled, Quiet
  <2> QED
    BY <2>1, <2>2
<1>8. OwedInv'
  <2>1. /\ Level > Owed => Level' > Owed'
        /\ Level >= Owed => Level' >= Owed'
        /\ Owed <= 1 => Owed' <= 1
    BY <1>2, <1>4, <1>5
  <2> QED
    BY <1>0, <1>3, <1>6, <2>1, Zenon DEF OwedInv
<1>9. OwnInv'
  <2>1. \A i \in 1 .. Len(reports') : i = Level' => reports'[i] = typed'
    <3> TAKE i \in 1 .. Len(reports')
    <3> HAVE i = Level'
    <3>1. i + 1 = Level /\ i \in 1 .. n - 1 /\ i + 1 \in 1 .. n
      BY <1>1, <1>2, <1>4
    <3> QED
      BY <1>0, <1>2, <1>3, <3>1 DEF OwnInv
  <2>2. pc = "mark" /\ op # "open" => reports' = <<>>
    BY <1>0, <1>1, <1>2, <1>5 DEF OwedInv, IInv, TypeOK
  <2> QED
    BY <1>3, <2>1, <2>2 DEF OwnInv
<1>10. CodeOfLastLine'
  <2>1. CASE job = "Exited"
    BY <1>0, <1>3, <2>1 DEF IInv, CodeOfLastLine, ReadReport, AtPrompt
  <2>2. CASE job # "Exited" /\ job' = "Exited" /\ pc # "mark"
    <3>1. Level = 1 /\ code' = Head(reports)
      BY <1>1, <2>2 DEF ReadReport, AtPrompt, Level, Jobs
    <3> QED
      BY <1>0, <1>1, <1>2, <1>3, <3>1 DEF OwnInv, CodeOfLastLine
  <2> QED
    BY <1>3, <2>1, <2>2 DEF CodeOfLastLine
<1> QED
  BY <1>7, <1>8, <1>9, <1>10 DEF IInv

\* The end of the stream is read after every report.
LEMMA EndStep ==
  ASSUME IInv, TypeOK', ~ rushed', ReadEnd
  PROVE  IInv'
<1>0. ~ rushed /\ OwedInv /\ OwnInv /\ RestartInv
  BY DEF IInv, ReadEnd, operatorVars
<1>1. UNCHANGED <<shell, typed, read, reports, job, code, pc, op>>
      /\ shell = "gone" /\ reports = <<>> /\ shellGone' = TRUE
  BY DEF ReadEnd, shellVars, operatorVars
<1>2. OwedInv'
  BY <1>0, <1>1 DEF OwedInv, Owed, Level, Fresh
<1>3. OwnInv'
  BY <1>0, <1>1 DEF OwnInv, Level
<1>4. ShellInv' /\ LineInv' /\ CodeOfLastLine' /\ RestartInv'
  BY <1>0, <1>1 DEF IInv, ShellInv, LineInv, CodeOfLastLine, RestartInv, Settled, Quiet
<1> QED
  BY <1>2, <1>3, <1>4 DEF IInv

\* Whatever the operator does before it types: a restart goes on to type when
\* the pane has ended, for one whose wait runs out is rushed.
LEMMA OperatorStep ==
  ASSUME IInv, TypeOK', ~ rushed',
         \/ StopService \/ RestartService \/ RunServiceLine
         \/ Interrupt \/ InterruptGone \/ Signal \/ Waited \/ WaitExpires
         \/ SendFails
  PROVE  IInv'
<1> USE DEF StopService, RestartService, RunServiceLine, Begin, Interrupt,
            InterruptGone, Signal, Waited, WaitExpires, SendFails, Goto,
            AfterStop, shellVars, lifeVars
<1>0. ~ rushed /\ OwedInv /\ OwnInv /\ RestartInv
  BY DEF IInv
<1>1. UNCHANGED <<shell, typed, read, reports, code, shellGone>>
  OBVIOUS
<1>2. pc # "mark" /\ pc' # "mark" /\ ~ (pc' = "write" /\ op' = "open")
  BY DEF IInv, LineInv
<1>3. job' = job \/ (job = "Running" /\ job' = "Stopping")
  OBVIOUS
<1>4. LineInv'
  BY DEF IInv, LineInv
<1>5. RestartInv'
  <2>1. Ended => shellGone \/ Settled \/ (typed = 0 /\ Quiet)
    BY <1>0, <1>2, EndedQuiet
  <2>2. (Settled' <=> Settled) /\ (Quiet' <=> Quiet) /\ typed' = typed /\ shellGone' = shellGone
    BY <1>1 DEF Settled, Quiet
  <2>3. pc' = "write" /\ op' = "restart" => Ended
    BY <1>0
  <2> QED
    BY <2>1, <2>2, <2>3 DEF RestartInv
<1> HIDE DEF StopService, RestartService, RunServiceLine, Begin, Interrupt,
             InterruptGone, Signal, Waited, WaitExpires, SendFails
<1>6. Level' = Level /\ Owed' = Owed /\ (Fresh => Fresh')
  BY <1>1, <1>2, <1>3 DEF Level, Owed, Fresh
<1>7. OwedInv'
  BY <1>0, <1>2, <1>6 DEF OwedInv
<1>8. OwnInv'
  BY <1>0, <1>1, <1>2, <1>6 DEF OwnInv
<1>9. ShellInv' /\ CodeOfLastLine'
  BY <1>0, <1>1, <1>2, <1>3 DEF IInv, ShellInv, CodeOfLastLine
<1> QED
  BY <1>4, <1>5, <1>7, <1>8, <1>9 DEF IInv

\* A new shell in the place of one that has gone: job expects its first prompt
\* and the line about to be typed.
LEMMA ReopenStep ==
  ASSUME IInv, TypeOK', Reopen
  PROVE  IInv'
<1>1. typed \in Nat /\ Len(<<>>) = 0
  BY MaxLinesAssumption, NoReports DEF IInv, TypeOK
<1>2. Level' = 2 /\ Owed' = 1
  BY <1>1 DEF Reopen, Level, Owed
<1>3. OwedInv' /\ OwnInv'
  BY <1>1, <1>2 DEF Reopen, OwedInv, OwnInv
<1>4. ShellInv' /\ LineInv' /\ CodeOfLastLine' /\ RestartInv'
  BY DEF Reopen, ShellInv, LineInv, CodeOfLastLine, RestartInv
<1> QED
  BY <1>3, <1>4 DEF IInv

\* A line is written to a new shell, which has counted it, or to one that is
\* settled and owes nothing, whatever came before.
LEMMA WriteStep ==
  ASSUME IInv, TypeOK', ~ rushed', SendWrites
  PROVE  IInv'
<1>1. /\ typed \in Nat /\ read \in Nat /\ read <= typed /\ Len(reports) \in Nat
      /\ pc = "write" /\ pc' = "mark" /\ op' = op /\ typed' = typed + 1
      /\ UNCHANGED <<shell, read, reports, job, code, shellGone>>
  BY MaxLinesAssumption DEF IInv, TypeOK, SendWrites, shellVars, lifeVars
<1>2. Level' = Level /\ Level \in 0 .. 2 /\ Owed \in Nat /\ Owed' = Owed + 1
  <2>1. Level' = Level /\ Level \in 0 .. 2
    BY <1>1 DEF Level
  <2> QED
    BY <1>1, <2>1 DEF Owed
<1>3. LineInv' /\ CodeOfLastLine' /\ RestartInv'
  BY <1>1 DEF LineInv, CodeOfLastLine, RestartInv
<1>4. CASE op = "open"
  <2>0. ~ rushed /\ OwedInv
    BY <1>4 DEF IInv, LineInv
  <2>1. Level > Owed
    BY <1>1, <1>4, <2>0 DEF OwedInv
  <2>2. OwedInv'
    BY <1>1, <1>2, <1>4, <2>1 DEF OwedInv
  <2>3. Len(reports) <= Owed
    BY <1>1 DEF Owed
  <2>4. OwnInv'
    BY <1>1, <1>2, <1>4, <2>1, <2>3 DEF OwnInv
  <2>5. shell = "starting" => job = "Starting"
    BY <1>1, <1>2, <2>0, <2>1 DEF IInv, ShellInv, Level
  <2>6. ShellInv'
    BY <1>1, <1>4, <2>5 DEF IInv, ShellInv
  <2> QED
    BY <1>3, <2>2, <2>4, <2>6 DEF IInv
<1>5. CASE op # "open"
  <2>1. Settled
    BY <1>5 DEF SendWrites
  <2>2. Owed = 0
    BY <1>1, <2>1, NoReports DEF Settled, Quiet, Owed
  <2>3. OwedInv'
    BY <1>1, <1>2, <1>5, <2>2 DEF OwedInv
  <2>4. OwnInv'
    BY <1>1, <1>5, <2>1, NoReports DEF OwnInv, Settled
  <2>5. ShellInv'
    BY <1>1, <2>1 DEF IInv, ShellInv, Settled
  <2> QED
    BY <1>3, <2>3, <2>4, <2>5 DEF IInv
<1> QED
  BY <1>4, <1>5

\* A line is noted: the job runs, and expects the report still owed for it.
LEMMA MarkStep ==
  ASSUME IInv, TypeOK', ~ rushed', SendMarks
  PROVE  IInv'
<1>0. ~ rushed /\ OwedInv /\ OwnInv /\ RestartInv
  BY DEF IInv, SendMarks, Goto
<1>1. /\ typed \in Nat /\ read \in Nat /\ read <= typed /\ Len(reports) \in Nat
      /\ pc = "mark" /\ pc' = "idle" /\ op' = op
      /\ job' = IF job = "Starting" THEN job ELSE "Running"
      /\ UNCHANGED <<shell, typed, read, reports, code, shellGone>>
  BY MaxLinesAssumption DEF IInv, TypeOK, SendMarks, Goto, shellVars
<1>2. /\ Level \in Nat /\ Level' \in 1 .. 2 /\ Level <= Level'
      /\ Level' = 2 => Level = 2
      /\ Owed \in Nat /\ Owed' = Owed /\ Len(reports) <= Owed
  BY <1>1 DEF Level, Owed
<1>3. ShellInv' /\ LineInv' /\ CodeOfLastLine' /\ RestartInv'
  BY <1>0, <1>1 DEF IInv, ShellInv, LineInv, CodeOfLastLine, RestartInv
<1>4. CASE op = "open"
  <2>1. Level >= Owed
    BY <1>0, <1>1, <1>4 DEF OwedInv, Fresh
  <2>2. OwedInv'
    BY <1>1, <1>2, <2>1 DEF OwedInv
  <2>3. \A i \in 1 .. Len(reports) : i = Level' => Level' = Level
    BY <1>1, <1>2, <2>1
  <2>4. OwnInv'
    BY <1>0, <1>1, <2>3 DEF OwnInv
  <2> QED
    BY <1>3, <2>2, <2>4 DEF IInv
<1>5. CASE op # "open"
  <2>1. Owed <= 1
    BY <1>0, <1>1, <1>5 DEF OwedInv
  <2>2. OwedInv'
    BY <1>1, <1>2, <2>1 DEF OwedInv
  <2>3. \A i \in 1 .. Len(reports) : i = 1 /\ reports # <<>>
    BY <1>1, <1>2, <2>1, NoReports
  <2>4. OwnInv'
    BY <1>0, <1>1, <1>5, <2>3 DEF OwnInv
  <2> QED
    BY <1>3, <2>2, <2>4 DEF IInv
<1> QED
  BY <1>4, <1>5

\* A step that changes nothing.
LEMMA CountStutter ==
  ASSUME IInv, ~ rushed', UNCHANGED vars
  PROVE  IInv'
<1>0. UNCHANGED <<shell, typed, read, reports, job, code, shellGone, pc, op, rushed>>
  BY DEF vars, shellVars, lifeVars, operatorVars
<1>1. ~ rushed /\ OwedInv /\ OwnInv /\ RestartInv
  BY <1>0 DEF IInv
<1>2. TypeOK' /\ ShellInv' /\ LineInv' /\ CodeOfLastLine'
  BY <1>0 DEF IInv, TypeOK, ShellInv, LineInv, CodeOfLastLine
<1>3. OwedInv' /\ OwnInv' /\ RestartInv'
  BY <1>0, <1>1 DEF OwedInv, OwnInv, RestartInv, Owed, Level, Fresh, Settled, Quiet
<1> QED
  BY <1>2, <1>3 DEF IInv

\* The count holds throughout, of every line that was not rushed.
THEOREM Invariance == Spec => []IInv
<1>1. Init => IInv
  BY CountInit
<1>2. ASSUME IInv, [Next]_vars
      PROVE  IInv'
  <2>1. TypeOK'
    BY <1>2, TypeStep DEF IInv
  <2>2. CASE rushed'
    BY <1>2, <2>1, <2>2, StaysRushed
  <2>3. CASE ~ rushed'
    <3>1. CASE FirstPrompt \/ RunLine \/ LineEnds \/ ShellExits
      BY <1>2, <2>1, <2>3, <3>1, ShellStep
    <3>2. CASE ReadReport \/ ReadEnd
      BY <1>2, <2>1, <2>3, <3>2, ReadStep, EndStep
    <3>3. CASE \/ StopService \/ RestartService \/ RunServiceLine
               \/ Interrupt \/ InterruptGone \/ Signal \/ Waited \/ WaitExpires
               \/ SendFails
      BY <1>2, <2>1, <2>3, <3>3, OperatorStep
    <3>4. CASE Reopen \/ SendWrites \/ SendMarks
      BY <1>2, <2>1, <2>3, <3>4, ReopenStep, WriteStep, MarkStep
    <3>5. CASE UNCHANGED vars
      BY <1>2, <2>3, <3>5, CountStutter
    <3> QED
      BY <1>2, <3>1, <3>2, <3>3, <3>4, <3>5 DEF Next
  <2> QED
    BY <2>2, <2>3
<1> QED
  BY <1>1, <1>2, PTL DEF Spec

\* A pane is not shown as ended while a line runs or waits in it, however late
\* its reports are read, unless that line was rushed.
THEOREM EndedIsOver == Spec => []EndedMeansEnded
<1>1. IInv => EndedMeansEnded
  BY EndedQuiet DEF IInv, ShellInv, EndedMeansEnded, Settled
<1> QED
  BY <1>1, Invariance, PTL

\* The status a pane ends with is that of the line typed last, unless that line
\* was rushed.
THEOREM StatusIsTheLast == Spec => []CodeOfLastLine
<1>1. IInv => CodeOfLastLine
  BY DEF IInv
<1> QED
  BY <1>1, Invariance, PTL

\* A restart types to a shell that waits at a reported prompt or was never given
\* a line, whatever the shell and the reader do between the check and the write,
\* unless RESTART_WAIT runs out or the line before was rushed.
THEOREM RestartIsAlone == Spec => []RestartTypesAtPrompt
<1>1. IInv => RestartTypesAtPrompt
  BY DEF IInv, ShellInv, RestartInv, RestartTypesAtPrompt
<1> QED
  BY <1>1, Invariance, PTL
=============================================================================
