----------------------------- MODULE PeerStream -----------------------------
(***************************************************************************)
(* A terminal's output on its way to another Mac that shows it: the ring   *)
(* that remembers it (ptyring.rs), the tee and the connection thread on    *)
(* the host (tee_output, ring_attach, apply and the connection loop of     *)
(* peer.rs) and the offsets the viewing Mac keeps (peerclient.rs).         *)
(*                                                                         *)
(* One terminal, one viewer.  Output is numbered in chunks, 1, 2, 3, ...;  *)
(* a chunk is one unit of the stream, so that an offset counts chunks and  *)
(* not bytes.  Offsets and chunk numbers drift apart when output goes      *)
(* unrecorded.  Every action on the ring runs under its one lock.          *)
(***************************************************************************)
EXTENDS Integers, Sequences

CONSTANTS MaxChunks,   \* bound on the chunks the terminal emits
          MaxToggles,  \* bound on the times hosting is switched
          MaxUp,       \* the viewer's outbound queue
          MaxWire,     \* frames in flight, past which a write blocks
          RING_CAP,    \* chunks the ring holds
          SEED_CAP,    \* chunks a replay holds
          OUT_QUEUE,   \* the host's outbound queue
          MayReload,   \* whether the viewer's window reloads
          MayDrop      \* whether the connection drops by itself

ASSUME BoundsAssumption ==
  /\ {MaxChunks, MaxToggles, MaxUp, MaxWire, RING_CAP, SEED_CAP, OUT_QUEUE} \subseteq Nat
  /\ SEED_CAP > 0  \* a screen is not anchored to a replay that leaves out all there is
  /\ SEED_CAP <= RING_CAP
ASSUME SwitchesAssumption == MayReload \in BOOLEAN /\ MayDrop \in BOOLEAN

Chunks  == 1 .. MaxChunks
Offsets == 0 .. MaxChunks + MaxToggles

\* An optional offset is a set with at most one member.
MaybeOffset == {{}} \cup {{o} : o \in Offsets}

\* A frame of output, and the offset it ends at.  A replay resets the screen; a
\* resume and live output continue it.
Frame == [d : Seq(Chunks), off : Offsets, reset : BOOLEAN]

VARIABLES
  emitted,     \* chunks the terminal has emitted
  base, buf,   \* Ring: the offset of the first chunk held, and those held
  listening,   \* hub.listening
  applying,    \* apply has switched listening and not yet retired the offsets
  toggles,     \* how often hosting was switched
  tee,         \* the flush thread: "idle", to "push" the chunk, to "send" its frame
  frame,       \* the frame it sends
  link,        \* the viewer is connected
  stale,       \* the connection's generation has passed
  thread,      \* the connection thread: at the "top" of its loop, or in its "read"
  subscribed,  \* the connection's subs holds the terminal
  again,       \* history: a sub was answered on a connection that had subscribed
  queue,       \* frames for the connection thread to write
  wire,        \* frames on their way to the viewer
  up,          \* sub frames on their way to the host, each with its `from`
  screen,      \* the chunks on the viewer's screen, since it was last cleared
  held,        \* offsets: how far the viewer has applied the stream
  paced        \* last_resync is younger than RESYNC_MIN_INTERVAL

ringVars   == <<base, buf>>
teeVars    == <<emitted, tee, frame>>
applyVars  == <<listening, applying, toggles>>
hostVars   == <<stale, thread, subscribed, again, queue>>
viewerVars == <<screen, held, paced>>
vars == <<ringVars, teeVars, applyVars, link, hostVars, wire, up, viewerVars>>

TypeOK ==
  /\ emitted \in 0 .. MaxChunks
  /\ base \in Offsets
  /\ buf \in Seq(Chunks) /\ Len(buf) <= RING_CAP /\ base + Len(buf) \in Offsets
  /\ listening \in BOOLEAN /\ applying \in BOOLEAN /\ toggles \in 0 .. MaxToggles
  /\ tee \in {"idle", "push", "send"}
  /\ frame \in Frame \cup {<<>>}
  /\ link \in BOOLEAN /\ stale \in BOOLEAN /\ subscribed \in BOOLEAN /\ again \in BOOLEAN
  /\ thread \in {"top", "read"}
  /\ queue \in Seq(Frame) /\ Len(queue) <= OUT_QUEUE
  /\ wire \in Seq(Frame) /\ Len(wire) <= MaxWire
  /\ up \in Seq(MaybeOffset)
  /\ screen \in Seq(Chunks)
  /\ held \in MaybeOffset
  /\ paced \in BOOLEAN

Init ==
  /\ emitted = 0 /\ base = 0 /\ buf = <<>>
  /\ listening = TRUE /\ applying = FALSE /\ toggles = 0
  /\ tee = "idle" /\ frame = <<>>
  /\ link = FALSE /\ stale = FALSE /\ thread = "top"
  /\ subscribed = FALSE /\ again = FALSE
  /\ queue = <<>> /\ wire = <<>> /\ up = <<>>
  /\ screen = <<>> /\ held = {} /\ paced = FALSE

-----------------------------------------------------------------------------
(* Ring.                                                                   *)

LastN(s, n) == SubSeq(s, IF Len(s) > n THEN Len(s) - n + 1 ELSE 1, Len(s))

total == base + Len(buf)

\* The ring of a terminal comes with its first chunk; until then there is none
\* to resume from or to retire the offsets of.
Exists == base # 0 \/ buf # <<>>

Push(c) ==
  LET all == Append(buf, c)
  IN  /\ buf' = LastN(all, RING_CAP)
      /\ base' = base + (Len(all) - Len(buf'))

\* since: the chunks missed, unless the offset is not one of the ring's.
Since(from) ==
  IF ~ Exists \/ from < base \/ from > total THEN {}
  ELSE {SubSeq(buf, from - base + 1, Len(buf))}

\* seed: the recent tail.
Seed == LastN(buf, SEED_CAP)

\* Deviation: the offsets handed out before the gap stay good.
InvalidateNothing ==
  /\ base' = total
  /\ buf' = <<>>

\* invalidate: move the stream past every offset handed out.
Invalidate ==
  /\ base' = IF Exists THEN total + 1 ELSE base
  /\ buf' = <<>>

-----------------------------------------------------------------------------
(* tee_output, on the terminal's flush thread.                             *)

\* A chunk; unrecorded while nobody may connect.
Emit ==
  /\ tee = "idle" /\ emitted < MaxChunks
  /\ emitted' = emitted + 1
  /\ tee' = IF listening THEN "push" ELSE "idle"
  /\ UNCHANGED <<frame, ringVars, applyVars, link, hostVars, wire, up, viewerVars>>

\* Deviation: who is to get the chunk is looked up after the rings are let go.
TeePushAll ==
  /\ tee = "push"
  /\ Push(emitted)
  /\ frame' = [d |-> <<emitted>>, off |-> total', reset |-> FALSE]
  /\ tee' = "send"
  /\ UNCHANGED <<emitted, applyVars, link, hostVars, wire, up, viewerVars>>

\* Under the rings: append it, and see who is to get it.
TeePush ==
  /\ tee = "push"
  /\ Push(emitted)
  /\ IF link /\ subscribed
       THEN /\ frame' = [d |-> <<emitted>>, off |-> total', reset |-> FALSE]
            /\ tee' = "send"
       ELSE /\ tee' = "idle"
            /\ UNCHANGED frame
  /\ UNCHANGED <<emitted, applyVars, link, hostVars, wire, up, viewerVars>>

\* Deviation: the queue has no bound.
TeeSendAlways ==
  /\ tee = "send"
  /\ queue' = Append(queue, frame)
  /\ tee' = "idle" /\ frame' = <<>>
  /\ UNCHANGED <<emitted, ringVars, applyVars, link, stale, thread, subscribed, again, wire, up, viewerVars>>

\* After: queue the frame.  A full queue drops it.
TeeSend ==
  /\ tee = "send"
  /\ queue' = IF Len(queue) < OUT_QUEUE THEN Append(queue, frame) ELSE queue
  /\ tee' = "idle" /\ frame' = <<>>
  /\ UNCHANGED <<emitted, ringVars, applyVars, link, stale, thread, subscribed, again, wire, up, viewerVars>>

-----------------------------------------------------------------------------
(* apply: hosting switched on or off.                                      *)

Apply ==
  /\ ~ applying /\ toggles < MaxToggles
  /\ listening' = ~ listening
  /\ applying' = TRUE
  /\ toggles' = toggles + 1
  /\ stale' = link
  /\ UNCHANGED <<ringVars, teeVars, link, thread, subscribed, again, queue, wire, up, viewerVars>>

ApplyRetires ==
  /\ applying
  /\ Invalidate
  /\ applying' = FALSE
  /\ UNCHANGED <<teeVars, listening, toggles, link, hostVars, wire, up, viewerVars>>

-----------------------------------------------------------------------------
(* The connection, and its thread on the host.                             *)

\* The viewer's connection and what was on it are gone.  A frame the tee still
\* holds is for a queue nobody reads.
Closed ==
  /\ link' = FALSE /\ stale' = FALSE
  /\ thread' = "top" /\ subscribed' = FALSE /\ again' = FALSE
  /\ queue' = <<>> /\ wire' = <<>> /\ up' = <<>>
  /\ tee' = IF tee = "send" THEN "idle" ELSE tee
  /\ frame' = <<>>
  /\ UNCHANGED <<emitted, ringVars, applyVars, viewerVars>>

Drop == MayDrop /\ link /\ Closed

\* The top of the loop: a passed generation ends it.
Retired == link /\ thread = "top" /\ stale /\ Closed

\* The queue is drained ...
WriteQueued ==
  /\ link /\ thread = "top" /\ ~ stale /\ queue # <<>> /\ Len(wire) < MaxWire
  /\ wire' = Append(wire, Head(queue))
  /\ queue' = Tail(queue)
  /\ UNCHANGED <<ringVars, teeVars, applyVars, link, stale, thread, subscribed, again, up, viewerVars>>

\* ... and then one message read, if there is one.
QueueEmpty ==
  /\ link /\ thread = "top" /\ ~ stale /\ queue = <<>>
  /\ thread' = "read"
  /\ UNCHANGED <<ringVars, teeVars, applyVars, link, stale, subscribed, again, queue, wire, up, viewerVars>>

ReadNothing ==
  /\ link /\ thread = "read" /\ up = <<>>
  /\ thread' = "top"
  /\ UNCHANGED <<ringVars, teeVars, applyVars, link, stale, subscribed, again, queue, wire, up, viewerVars>>

\* ring_attach's answer: what was missed since the offset, or else a replay.
Answer(from) ==
  LET missed == UNION {Since(f) : f \in from}
  IN  [d     |-> IF missed = {} THEN Seed ELSE CHOOSE m \in missed : TRUE,
       off   |-> total,
       reset |-> missed = {}]

\* A sub: subscribe, and read where the stream has got to, as one step.  The
\* answer is written at once, past the queue.
Attach ==
  /\ link /\ thread = "read" /\ up # <<>> /\ Len(wire) < MaxWire
  /\ subscribed' = TRUE /\ again' = subscribed
  /\ wire' = Append(wire, Answer(Head(up)))
  /\ up' = Tail(up)
  /\ thread' = "top"
  /\ UNCHANGED <<ringVars, teeVars, applyVars, link, stale, queue, viewerVars>>

-----------------------------------------------------------------------------
(* The viewer.                                                             *)

\* A new connection subscribes again from where the screen stopped.
Connect ==
  /\ ~ link /\ listening /\ ~ applying
  /\ link' = TRUE
  /\ up' = <<held>>
  /\ UNCHANGED <<ringVars, teeVars, applyVars, hostVars, wire, viewerVars>>

\* send: a full queue refuses the frame, and nobody hears of it.
Ask(from) == up' = IF Len(up) < MaxUp THEN Append(up, from) ELSE up

\* subscribe without resume: the window has reloaded and its screen is blank.
Reload ==
  /\ MayReload
  /\ screen' = <<>> /\ held' = {} /\ paced' = FALSE
  /\ IF link THEN Ask({}) ELSE UNCHANGED up
  /\ UNCHANGED <<ringVars, teeVars, applyVars, link, hostVars, wire>>

\* advance_offset: {} when the chunk starts past what is held.
AdvanceOffset(h, end, len) ==
  IF end > h + len THEN {} ELSE {IF end > h THEN end ELSE h}

\* extend_offset, with the request for a replay when chunks were lost.
ExtendOffset(end, len) ==
  /\ held' = UNION {AdvanceOffset(h, end, len) : h \in held}
  /\ IF held # {} /\ held' = {} /\ ~ paced
       THEN paced' = TRUE /\ Ask({})
       ELSE UNCHANGED <<paced, up>>

\* handle_frame: a replay clears the screen and anchors the stream ...
ReceiveReplay ==
  /\ wire # <<>> /\ Head(wire).reset
  /\ screen' = Head(wire).d
  /\ held' = {Head(wire).off}
  /\ wire' = Tail(wire)
  /\ UNCHANGED <<ringVars, teeVars, applyVars, link, hostVars, up, paced>>

\* ... a resume and live output continue the screen that is there.
ReceiveMore ==
  /\ wire # <<>> /\ ~ Head(wire).reset
  /\ screen' = screen \o Head(wire).d
  /\ ExtendOffset(Head(wire).off, Len(Head(wire).d))
  /\ wire' = Tail(wire)
  /\ UNCHANGED <<ringVars, teeVars, applyVars, link, hostVars>>

\* RESYNC_MIN_INTERVAL is over.
PaceEnds ==
  /\ paced
  /\ paced' = FALSE
  /\ UNCHANGED <<ringVars, teeVars, applyVars, link, hostVars, wire, up, screen, held>>

-----------------------------------------------------------------------------
Host   == WriteQueued \/ QueueEmpty \/ ReadNothing \/ Attach \/ Retired
Tee    == TeePush \/ TeeSend
Viewer == ReceiveReplay \/ ReceiveMore

Next ==
  \/ Emit \/ Tee
  \/ Apply \/ ApplyRetires
  \/ Drop \/ Host
  \/ Connect \/ Reload \/ Viewer \/ PaceEnds

Spec == Init /\ [][Next]_vars

-----------------------------------------------------------------------------
\* Somewhere on the screen the stream jumps ahead, past chunks not yet shown.
Holed == \E i \in 2 .. Len(screen) : \A j \in 1 .. i - 1 : screen[j] + 1 < screen[i]

(***************************************************************************)
(* "Once bytes are missing, every position after them describes a screen   *)
(* with a hole in it and must never become something to resume from"       *)
(* (extend_offset): no offset the ring would honour belongs to a screen    *)
(* with a hole, whatever frames a full queue dropped, output went          *)
(* unrecorded while hosting was off, or chunk was late to the ring.  Not   *)
(* while apply is between its swap and its invalidate_all, when a thread   *)
(* of a passed generation can still read a ring with a gap in it; nobody   *)
(* connects then.                                                          *)
(***************************************************************************)
ResumableMeansWhole ==
  \A h \in held : ~ applying /\ Since(h) # {} => ~ Holed

\* What is on its way to the viewer, and where a frame of it begins.
Coming == wire \o queue \o (IF tee = "send" THEN <<frame>> ELSE <<>>)

Start(f) == f.off - Len(f.d)

(***************************************************************************)
(* "A peer joining right now either finds this chunk in what it is handed  *)
(* or receives it live, never both" (tee_output): what comes after a sub's *)
(* answer begins where the answer or the frame before it ended, or later,  *)
(* and so does a resume after what is on the screen, whatever chunk the    *)
(* tee was about to send.  Not on a connection that has subscribed before: *)
(* the answer to a second sub is written past the frames still queued,     *)
(* which then come twice; advance_offset allows for that.                  *)
(***************************************************************************)
NeverTwice ==
  ~ again =>
    /\ \A i \in 2 .. Len(Coming) : Start(Coming[i]) >= Coming[i - 1].off
    /\ \A h \in held :
         Coming # <<>> /\ ~ Head(Coming).reset => Start(Head(Coming)) >= h
=============================================================================
