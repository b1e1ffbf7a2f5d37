------------------------------- MODULE PaneJob -------------------------------
(***************************************************************************)
(* One service pane and the line that runs in it: Job, send, interrupt,    *)
(* outcome and read_loop of sessionpane.rs, the prompt reports its shell   *)
(* is given by panehook.rs, and the operations on a pane of sessions.rs    *)
(* (stop_service_pane, restart_service_pane, run_service_line).            *)
(*                                                                         *)
(* Three actors share the pane: the operator, whose operations the         *)
(* project's op_lock takes one at a time, the shell, and the thread that   *)
(* reads the pty.  Lines are numbered in the order they are typed, and a   *)
(* prompt report carries the number of the line whose status it tells, 0   *)
(* for the prompt before the first line.                                   *)
(***************************************************************************)
EXTENDS Naturals, Sequences

CONSTANTS MaxLines  \* bound on the lines typed

ASSUME MaxLinesAssumption == MaxLines \in Nat

Jobs == {"Starting", "Running", "Stopping", "Idle", "Exited"}

VARIABLES
  shell,      \* "starting", at its "prompt", "running" a line, or "gone"
  typed,      \* how many lines have been typed
  read,       \* how many of them the shell has taken; the last may be running
  reports,    \* prompt reports in the pty that nobody has read
  job,        \* Life::job
  code,       \* the line whose status Exited holds
  shellGone,  \* Life::shell_gone
  pc,         \* the operator: "idle", "int", "signal", "wait", "write", "mark", "failed"
  op,         \* its operation: "open", "stop", "restart" or "line"
  rushed      \* history: RESTART_WAIT ran out on the operation, or the line typed
              \* last went to a shell that was not Settled

shellVars    == <<shell, read>>
lifeVars     == <<job, code, shellGone>>
operatorVars == <<pc, op, rushed>>
vars == <<shellVars, typed, reports, lifeVars, operatorVars>>

TypeOK ==
  /\ shell \in {"starting", "prompt", "running", "gone"}
  /\ typed \in 0 .. MaxLines
  /\ read \in 0 .. typed
  /\ reports \in Seq(0 .. MaxLines)
  /\ job \in Jobs
  /\ code \in 0 .. MaxLines
  /\ shellGone \in BOOLEAN
  /\ pc \in {"idle", "int", "signal", "wait", "write", "mark", "failed"}
  /\ op \in {"open", "stop", "restart", "line"}
  /\ rushed \in BOOLEAN

\* Pane::open: its line is typed at once, or the pane opens idle and the line
\* waits for the services it depends on.
Init ==
  /\ shell = "starting" /\ typed = 0 /\ read = 0
  /\ reports = <<>>
  /\ code = 0 /\ shellGone = FALSE
  /\ \/ job = "Starting" /\ pc = "write"
     \/ job = "Idle" /\ pc = "idle"
  /\ op = "open" /\ rushed = FALSE

-----------------------------------------------------------------------------
(* The shell, and what runs in it.                                         *)

FirstPrompt ==
  /\ shell = "starting"
  /\ shell' = "prompt"
  /\ reports' = Append(reports, 0)
  /\ UNCHANGED <<typed, read, lifeVars, operatorVars>>

\* Deviation: a line is taken that nobody typed.
RunAnyLine ==
  /\ shell = "prompt"
  /\ shell' = "running"
  /\ read' = read + 1
  /\ UNCHANGED <<typed, reports, lifeVars, operatorVars>>

RunLine ==
  /\ shell = "prompt" /\ read < typed
  /\ shell' = "running"
  /\ read' = read + 1
  /\ UNCHANGED <<typed, reports, lifeVars, operatorVars>>

\* By itself, or on the SIGINT of an interrupt.
LineEnds ==
  /\ shell = "running"
  /\ shell' = "prompt"
  /\ reports' = Append(reports, read)
  /\ UNCHANGED <<typed, read, lifeVars, operatorVars>>

\* A line ending in `exit`, or a shell that could not stay.
ShellExits ==
  /\ shell # "gone"
  /\ shell' = "gone"
  /\ UNCHANGED <<typed, read, reports, lifeVars, operatorVars>>

-----------------------------------------------------------------------------
(* read_loop.                                                              *)

\* Deviation: the first prompt already ends the line.
AtPromptFirst(j) ==
  CASE j \in {"Starting", "Running"} -> "Exited"
    [] j = "Stopping" -> "Idle"
    [] OTHER -> j

\* Job::at_prompt
AtPrompt(j) ==
  CASE j = "Starting" -> "Running"
    [] j = "Running"  -> "Exited"
    [] j = "Stopping" -> "Idle"
    [] OTHER -> j

ReadReport ==
  /\ reports # <<>>
  /\ job' = AtPrompt(job)
  /\ code' = IF job' = "Exited" /\ job # "Exited" THEN Head(reports) ELSE code
  /\ reports' = Tail(reports)
  /\ UNCHANGED <<shellVars, typed, shellGone, operatorVars>>

\* The end of the stream, once everything before it has been read.
ReadEnd ==
  /\ shell = "gone" /\ reports = <<>> /\ ~ shellGone
  /\ shellGone' = TRUE
  /\ UNCHANGED <<shellVars, typed, reports, job, code, operatorVars>>

-----------------------------------------------------------------------------
(* The operator.                                                           *)

\* outcome, as far as it says whether the service has ended.
Ended == shellGone \/ job \in {"Exited", "Idle"}

\* Nothing runs in the pane and nothing is about to ...
Quiet == shell # "running" /\ read = typed

\* ... and its shell is at a prompt that has been reported.
Settled == shell # "starting" /\ Quiet /\ reports = <<>>

Goto(where) == pc' = where /\ UNCHANGED <<op, rushed>>

Begin(o, where) ==
  /\ pc = "idle"
  /\ pc' = where /\ op' = o
  /\ UNCHANGED <<shellVars, typed, reports, lifeVars, rushed>>

\* stop_service_pane
StopService == Begin("stop", "int")

\* restart_service_pane: a run still going is stopped first.
RestartService == Begin("restart", IF Ended THEN "write" ELSE "int")

\* run_service_line: what the pane was waiting for is ready.
RunServiceLine == typed = 0 /\ Begin("line", "write")

\* Where an operation goes from its interrupt.
AfterStop == IF op = "restart" THEN "wait" ELSE "idle"

\* interrupt, first under the lock of life: nothing for a shell that has gone ...
InterruptGone ==
  /\ pc = "int" /\ shellGone
  /\ Goto(AfterStop)
  /\ UNCHANGED <<shellVars, typed, reports, lifeVars>>

Interrupt ==
  /\ pc = "int" /\ ~ shellGone
  /\ job' = IF job = "Running" THEN "Stopping" ELSE job
  /\ Goto("signal")
  /\ UNCHANGED <<shellVars, typed, reports, code, shellGone>>

\* Deviation: the restart does not wait for the prompt.
SignalAndType ==
  /\ pc = "signal"
  /\ Goto(IF op = "restart" THEN "write" ELSE "idle")
  /\ UNCHANGED <<shellVars, typed, reports, lifeVars>>

\* ... then the SIGINT, to the line that runs and never to the shell.  A line
\* may end at any time, so the signal itself changes nothing here.
Signal ==
  /\ pc = "signal"
  /\ Goto(AfterStop)
  /\ UNCHANGED <<shellVars, typed, reports, lifeVars>>

\* A restart waits until the run has ended ...
Waited ==
  /\ pc = "wait" /\ Ended
  /\ Goto("write")
  /\ UNCHANGED <<shellVars, typed, reports, lifeVars>>

\* ... or RESTART_WAIT is over, whatever the line and the shell are doing.
WaitExpires ==
  /\ pc = "wait" /\ ~ Ended
  /\ pc' = "write" /\ rushed' = TRUE
  /\ UNCHANGED <<shellVars, typed, reports, lifeVars, op>>

\* A line for a pane whose shell has gone opens a new shell in its place.
Reopen ==
  /\ pc = "write" /\ op # "open" /\ shellGone
  /\ shell' = "starting" /\ read' = typed
  /\ reports' = <<>>
  /\ job' = "Starting" /\ code' = 0 /\ shellGone' = FALSE
  /\ op' = "open" /\ rushed' = FALSE
  /\ UNCHANGED <<typed, pc>>

\* send writes the line, whatever the shell is doing ...
SendWrites ==
  /\ pc = "write" /\ typed < MaxLines
  /\ op = "open" \/ ~ shellGone
  /\ typed' = typed + 1
  /\ pc' = "mark"
  /\ rushed' = (op # "open" /\ ~ Settled)
  /\ UNCHANGED <<shellVars, reports, lifeVars, op>>

\* ... or fails to, and an open that fails leaves no pane.
SendFails ==
  /\ pc = "write" /\ shell = "gone"
  /\ op = "open" \/ ~ shellGone
  /\ Goto(IF op = "open" THEN "failed" ELSE "idle")
  /\ UNCHANGED <<shellVars, typed, reports, lifeVars>>

\* Deviation: the new line is not noted.
SendForgets ==
  /\ pc = "mark"
  /\ Goto("idle")
  /\ UNCHANGED <<shellVars, typed, reports, lifeVars>>

\* send, once the line is written: the job runs.
SendMarks ==
  /\ pc = "mark"
  /\ job' = IF job = "Starting" THEN job ELSE "Running"
  /\ Goto("idle")
  /\ UNCHANGED <<shellVars, typed, reports, code, shellGone>>

-----------------------------------------------------------------------------
Next ==
  \/ FirstPrompt \/ RunLine \/ LineEnds \/ ShellExits
  \/ ReadReport \/ ReadEnd
  \/ StopService \/ RestartService \/ RunServiceLine
  \/ Interrupt \/ InterruptGone \/ Signal \/ Waited \/ WaitExpires
  \/ Reopen \/ SendWrites \/ SendFails \/ SendMarks

Spec == Init /\ [][Next]_vars

-----------------------------------------------------------------------------
(***************************************************************************)
(* "The pane's service is no longer running: its line finished, or its     *)
(* shell exited" (PaneInfo::ended): reports are read late, and a stop and  *)
(* a new line change job while some are on their way, yet a pane is not    *)
(* shown as ended while a line runs or waits in it.  send writes first and *)
(* notes the line afterwards, so the moment between is left out, and so is *)
(* a rushed line: one typed before the first prompt into a pane that       *)
(* opened idle is ended by that prompt's report, one typed after           *)
(* RESTART_WAIT by the report of the line before.  The next line that      *)
(* finds the shell waiting, or its place taken, puts the pane right again. *)
(***************************************************************************)
EndedMeansEnded ==
  Ended /\ shell # "gone" /\ pc # "mark" /\ ~ rushed => Quiet

(***************************************************************************)
(* The status a pane ends with is the status of the line typed last, never *)
(* a report left over from the line before, unless that line was rushed.   *)
(***************************************************************************)
CodeOfLastLine ==
  job = "Exited" /\ pc # "mark" /\ ~ rushed => code = typed

(***************************************************************************)
(* "The new line neither lands in the old process's input nor races it for *)
(* its port" (restart_service_pane): a restart types only to a shell that  *)
(* waits at a reported prompt, or to one that was never given a line,      *)
(* whatever the shell, the lines before and the reader do between the      *)
(* check and the write.  RESTART_WAIT running out is the exception.  A     *)
(* pane whose last line was rushed may also show an end that is not one: a *)
(* restart that trusts it is excused, until a line finds the shell at a    *)
(* reported prompt again.                                                  *)
(***************************************************************************)
RestartTypesAtPrompt ==
  pc = "write" /\ op = "restart" /\ shell # "gone" =>
    rushed \/ Settled \/ (typed = 0 /\ Quiet)
==============================================================================
