----------------------------- MODULE PromptLife -----------------------------
(***************************************************************************)
(* What Send later promises about a prompt, whatever the windows, events,  *)
(* saves and retries behind it: it stays on the durable schedule until its *)
(* text is somewhere else (typed into its terminal, filed as a draft, back *)
(* in an input) or the user has taken it off, and one run of the program   *)
(* types it at most once.                                                  *)
(***************************************************************************)
CONSTANT Prompts

VARIABLES
  known,   \* prompts the user ever scheduled
  board,   \* prompts on the durable schedule
  hand,    \* taken off by the user, their text on its way back to an input
  typed,   \* how often this run of the program typed each into a terminal
  safe     \* prompts whose text reached a terminal, the drafts or an input

vars == <<known, board, hand, typed, safe>>

TypeOK ==
  /\ known \subseteq Prompts
  /\ board \subseteq Prompts
  /\ hand \subseteq Prompts
  /\ typed \in [Prompts -> {0, 1}]
  /\ safe \subseteq Prompts

Never == [p \in Prompts |-> 0]

Init ==
  /\ known = {}
  /\ board = {}
  /\ hand = {}
  /\ typed = Never
  /\ safe = {}

Schedule(p) ==
  /\ p \notin known
  /\ known' = known \cup {p}
  /\ board' = board \cup {p}
  /\ UNCHANGED <<hand, typed, safe>>

Type(p) ==
  /\ p \in known /\ typed[p] = 0
  /\ typed' = [typed EXCEPT ![p] = 1]
  /\ safe' = safe \cup {p}
  /\ UNCHANGED <<known, board, hand>>

File(p) ==
  /\ p \in known
  /\ safe' = safe \cup {p}
  /\ UNCHANGED <<known, board, hand, typed>>

Drop(p) ==
  /\ p \in safe
  /\ board' = board \ {p}
  /\ UNCHANGED <<known, hand, typed, safe>>

TakeOff(p) ==
  /\ p \in board
  /\ board' = board \ {p}
  /\ hand' = hand \cup {p}
  /\ UNCHANGED <<known, typed, safe>>

\* The user has it again, or gave it up.
HandOver(p) ==
  /\ p \in hand
  /\ hand' = hand \ {p}
  /\ safe' \in {safe, safe \cup {p}}
  /\ UNCHANGED <<known, board, typed>>

Restart ==
  /\ hand' = {}
  /\ typed' = Never
  /\ UNCHANGED <<known, board, safe>>

Next ==
  \/ \E p \in Prompts :
       Schedule(p) \/ Type(p) \/ File(p) \/ Drop(p) \/ TakeOff(p) \/ HandOver(p)
  \/ Restart

Spec == Init /\ [][Next]_vars
=============================================================================
