------------------------------ MODULE ShareRoom ------------------------------
(***************************************************************************)
(* A tab shared with a browser: the relay's room (relay/src/room.ts), the  *)
(* sharing machine's one connection to it and the guest sessions it runs   *)
(* (sharerelay.rs, peer/guest.rs, tabshare.rs), and the guest's page       *)
(* (relay/public/app.js, channel.js).                                      *)
(*                                                                         *)
(* One share, whose room is named for the host's token, and one guest page *)
(* over as many connections as it makes.  A WebSocket is a pair of FIFO    *)
(* queues; either end may lose it.  A room handles one event at a time and *)
(* storage awaits let no other event in, so only the digest a host's       *)
(* request awaits comes between its arrival and its effect.                *)
(***************************************************************************)
EXTENDS Integers, Sequences, FiniteSets

CONSTANTS Dials,       \* names for the host's connections, used again once free
          Conns,       \* ids for the guest's connections, used again once free
          MAX_GUESTS,  \* of the room, and of the host
          MaxJoins,    \* bound on the times the guest asks to join
          MaxDrops,    \* bound on connections lost and waits that time out
          MayForget,   \* whether FORGET_AFTER_MS passes
          NoDial, NoConn

ASSUME BoundsAssumption ==
  /\ {MAX_GUESTS, MaxJoins, MaxDrops} \subseteq Nat
  /\ MayForget \in BOOLEAN
  /\ NoDial \notin Dials /\ NoConn \notin Conns

Seats  == 1 .. MaxJoins

\* Why a guest's socket closed: the relay's codes, and the page's own "lost".
Codes == {"hostLeft", "closedByHost", "offline", "ended", "full", "lost"}

\* What the host's connection carries is tagged with the guest it is from or for.
Tagged(t, c, n) == [t |-> t, c |-> c, n |-> n]
Plain(t)        == Tagged(t, NoConn, 0)

\* What a guest's socket carries; n is the seat a frame names.
Frame(t, n) == [t |-> t, n |-> n]

VARIABLES
  shared,         \* tabshare: the share is there
  seats,          \* the guests it let in
  granted,        \* seats handed out so far
  link, dial,     \* sharerelay run: "off", "dialing", "up", "done", and on which connection
  known,          \* serve_room's guests
  session,        \* each guest's session: where it stands, and whose it is
  hostSock,       \* the room's host sockets: "free", "digest" (host() awaits), "open", "closing"
  claimed, ended, alarm,   \* the room's storage
  guestSock,      \* its guest sockets: "free", "open", "closing"
  toHost, fromHost,        \* the host's connections
  toPage, fromPage,        \* the guest's connections
  page,           \* the page's end of each: role "none", "join" or "enter", ready, closing, its seat
  screen,         \* what the page shows: "form", "wait", "live", "over"
  finished,       \* app.js finished
  joining,        \* app.js joining
  channel,        \* app.js channel
  timers,         \* the seats a reconnect waits to enter with
  joins, drops    \* what the bounds count

host   == <<shared, seats, granted, link, dial, known, session>>
room   == <<hostSock, claimed, ended, alarm, guestSock>>
wires  == <<toHost, fromHost, toPage, fromPage>>
pageVars == <<page, screen, finished, joining, channel, timers>>
counts == <<joins, drops>>
vars   == <<host, room, wires, pageVars, counts>>

NoPage    == [role |-> "none", ready |-> FALSE, shut |-> FALSE, seat |-> 0]
NoSession == [at |-> "none", seat |-> 0]

TypeOK ==
  /\ shared \in BOOLEAN /\ seats \subseteq Seats /\ granted \in 0 .. MaxJoins
  /\ link \in {"off", "dialing", "up", "done"} /\ dial \in Dials \cup {NoDial}
  /\ known \subseteq Conns
  /\ session \in [Conns -> [at : {"none", "handshake", "first", "asked", "live"},
                            seat : 0 .. MaxJoins]]
  /\ hostSock \in [Dials -> {"free", "digest", "open", "closing"}]
  /\ {claimed, ended, alarm, finished} \subseteq BOOLEAN
  /\ guestSock \in [Conns -> {"free", "open", "closing"}]
  /\ \A h \in Dials : \A i \in 1 .. Len(toHost[h]) : toHost[h][i].c \in Conns \cup {NoConn}
  /\ \A c \in Conns : \A i \in 1 .. Len(toPage[c]) : toPage[c][i].n \in 0 .. MaxJoins
  /\ page \in [Conns -> [role : {"none", "join", "enter"}, ready : BOOLEAN,
                         shut : BOOLEAN, seat : 0 .. MaxJoins]]
  /\ screen \in {"form", "wait", "live", "over"}
  /\ {joining, channel} \subseteq Conns \cup {NoConn}
  /\ timers \subseteq Seats
  /\ joins \in Nat /\ drops \in Nat

Init ==
  /\ shared = TRUE /\ seats = {} /\ granted = 0
  /\ link = "off" /\ dial = NoDial /\ known = {}
  /\ session = [c \in Conns |-> NoSession]
  /\ hostSock = [h \in Dials |-> "free"]
  /\ claimed = FALSE /\ ended = FALSE /\ alarm = FALSE
  /\ guestSock = [c \in Conns |-> "free"]
  /\ toHost = [h \in Dials |-> <<>>] /\ fromHost = [h \in Dials |-> <<>>]
  /\ toPage = [c \in Conns |-> <<>>] /\ fromPage = [c \in Conns |-> <<>>]
  /\ page = [c \in Conns |-> NoPage]
  /\ screen = "form" /\ finished = FALSE /\ joining = NoConn /\ channel = NoConn
  /\ timers = {} /\ joins = 0 /\ drops = 0

Drop == drops < MaxDrops /\ drops' = drops + 1

-----------------------------------------------------------------------------
(* The room: relay/src/room.ts.                                            *)

OpenHosts  == {h \in Dials : hostSock[h] = "open"}
OpenGuests == {c \in Conns : guestSock[c] = "open"}

\* lpm still holds its end of h.
Held(h) == link \in {"dialing", "up"} /\ dial = h

\* What a socket hears last is how it closed.
Over(q) == q # <<>> /\ q[Len(q)].t \in Codes

\* Queues after msgs go to the host over h, or frames to the pages of cs; a page
\* that is closing its socket hears only how it closed.
ToHost(h, msgs) == IF Held(h) THEN [toHost EXCEPT ![h] = @ \o msgs] ELSE toHost
ToPages(cs, f)  ==
  [c \in Conns |-> IF /\ c \in cs /\ page[c].role # "none" /\ ~Over(toPage[c])
                      /\ page[c].shut => f.t \in Codes
                   THEN Append(toPage[c], f) ELSE toPage[c]]

\* close(ws, code) on every open guest socket of cs.
CloseGuests(cs, code) ==
  /\ guestSock' = [c \in Conns |-> IF c \in cs \cap OpenGuests THEN "closing" ELSE guestSock[c]]
  /\ toPage' = ToPages(cs \cap OpenGuests, Frame(code, 0))

\* Its word to the open host, if there is one.
Announce(t, c, n) ==
  toHost' = [h \in Dials |-> IF h \in OpenHosts THEN ToHost(h, <<Tagged(t, c, n)>>)[h] ELSE toHost[h]]

\* Mutant: the guests stay.
NoneDisplaced == {}

\* The guests a new host's connection turns away: their sessions lived in the one
\* that just went away.
Displaced == OpenGuests

\* Room.host, once the token is digested: the host's, so an ended room reopens
\* and whoever held the place before is replaced.
RoomHost(h) ==
  /\ hostSock[h] = "digest"
  /\ ended' = FALSE /\ claimed' = TRUE /\ alarm' = FALSE
  /\ hostSock' = [d \in Dials |-> IF d = h THEN "open"
                                  ELSE IF d \in OpenHosts THEN "closing" ELSE hostSock[d]]
  /\ toHost' = [d \in Dials |-> IF d = h THEN ToHost(d, <<Plain("upgraded")>>)[d]
                                ELSE IF d \in OpenHosts THEN ToHost(d, <<Plain("bye")>>)[d]
                                ELSE toHost[d]]
  /\ CloseGuests(Displaced, "hostLeft")
  /\ UNCHANGED <<host, fromHost, fromPage, pageVars, counts>>

\* Room.guest, or the refusal before it.
RoomGuest(c) ==
  LET refusal == CASE ended -> "ended"
                   [] ~ended /\ OpenHosts = {} -> "offline"
                   [] OTHER -> "full"
      taken   == {g \in Conns : guestSock[g] # "free"}
      admits  == ~ended /\ OpenHosts # {} /\ Cardinality(taken) < MAX_GUESTS
  IN
  /\ fromPage[c] # <<>> /\ Head(fromPage[c]).t = "connect"
  /\ fromPage' = [fromPage EXCEPT ![c] = Tail(@)]
  /\ IF admits
     THEN /\ guestSock' = [guestSock EXCEPT ![c] = "open"]
          /\ Announce("open", c, 0)
          /\ UNCHANGED toPage
     ELSE /\ toPage' = ToPages({c}, Frame(refusal, 0))
          /\ UNCHANGED <<guestSock, toHost>>
  /\ UNCHANGED <<host, hostSock, claimed, ended, alarm, fromHost, pageVars, counts>>

\* webSocketMessage from a guest: on to the host, or its socket is closed.
RoomForwards(c) ==
  /\ fromPage[c] # <<>> /\ Head(fromPage[c]).t \notin {"connect", "bye"}
  /\ fromPage' = [fromPage EXCEPT ![c] = Tail(@)]
  /\ IF guestSock[c] = "free" THEN UNCHANGED <<guestSock, toPage, toHost>>
     ELSE IF OpenHosts = {} THEN CloseGuests({c}, "offline") /\ UNCHANGED toHost
     ELSE Announce(Head(fromPage[c]).t, c, Head(fromPage[c]).n) /\ UNCHANGED <<guestSock, toPage>>
  /\ UNCHANGED <<host, hostSock, claimed, ended, alarm, fromHost, pageVars, counts>>

\* webSocketClose or webSocketError of a guest: the close is answered, and left
\* tells the host.
GuestLeft(c) ==
  /\ fromPage[c] # <<>> /\ Head(fromPage[c]).t = "bye"
  /\ fromPage' = [fromPage EXCEPT ![c] = Tail(@)]
  /\ guestSock' = [guestSock EXCEPT ![c] = "free"]
  /\ toPage' = ToPages({c} \cap OpenGuests, Frame("lost", 0))
  /\ IF guestSock[c] = "free" THEN UNCHANGED toHost ELSE Announce("close", c, 0)
  /\ UNCHANGED <<host, hostSock, claimed, ended, alarm, fromHost, pageVars, counts>>

\* Mutant: the one that is going counts.
AnyOpen(h) == OpenHosts # {}

\* Another host is there than h, which is going.
OthersOpen(h) == OpenHosts \ {h} # {}

\* webSocketClose or webSocketError of the host: with no other host there, the
\* guests are let go and the room is to be forgotten.
HostLeft(h) ==
  /\ hostSock[h] \in {"open", "closing"}
  /\ fromHost[h] # <<>> /\ Head(fromHost[h]).t = "bye"
  /\ fromHost' = [fromHost EXCEPT ![h] = Tail(@)]
  /\ hostSock' = [hostSock EXCEPT ![h] = "free"]
  /\ IF OthersOpen(h) THEN UNCHANGED <<guestSock, toPage, alarm>>
     ELSE /\ CloseGuests(Conns, "offline")
          /\ alarm' = (alarm \/ claimed)
  /\ UNCHANGED <<host, claimed, ended, toHost, fromPage, pageVars, counts>>

\* command "close" from the host.
RoomClosesGuest(h) ==
  /\ hostSock[h] \in {"open", "closing"}
  /\ fromHost[h] # <<>> /\ Head(fromHost[h]).t = "close"
  /\ fromHost' = [fromHost EXCEPT ![h] = Tail(@)]
  /\ CloseGuests({Head(fromHost[h]).c}, "closedByHost")
  /\ UNCHANGED <<host, hostSock, claimed, ended, alarm, toHost, fromPage, pageVars, counts>>

\* command "end": every socket closes and the room says it ended for a while.
RoomEnds(h) ==
  /\ hostSock[h] \in {"open", "closing"}
  /\ fromHost[h] # <<>> /\ Head(fromHost[h]).t = "end"
  /\ fromHost' = [fromHost EXCEPT ![h] = Tail(@)]
  /\ CloseGuests(Conns, "ended")
  /\ hostSock' = [d \in Dials |-> IF d \in OpenHosts THEN "closing" ELSE hostSock[d]]
  /\ toHost' = [d \in Dials |-> IF d \in OpenHosts THEN ToHost(d, <<Plain("bye")>>)[d] ELSE toHost[d]]
  /\ claimed' = FALSE /\ ended' = TRUE /\ alarm' = TRUE
  /\ UNCHANGED <<host, fromPage, pageVars, counts>>

\* toGuest: a frame to the guest it names, if its socket is still there.
RoomDelivers(h) ==
  /\ hostSock[h] \in {"open", "closing"}
  /\ fromHost[h] # <<>> /\ Head(fromHost[h]).t \notin {"bye", "close", "end"}
  /\ fromHost' = [fromHost EXCEPT ![h] = Tail(@)]
  /\ LET m == Head(fromHost[h]) IN
       toPage' = ToPages({m.c} \cap OpenGuests, Frame(m.t, m.n))
  /\ UNCHANGED <<host, room, toHost, fromPage, pageVars, counts>>

\* alarm: a room without its host is forgotten.
RoomForgets ==
  /\ MayForget /\ alarm
  /\ alarm' = FALSE
  /\ IF OpenHosts # {} THEN UNCHANGED <<claimed, ended>>
     ELSE claimed' = FALSE /\ ended' = FALSE
  /\ UNCHANGED <<host, hostSock, guestSock, wires, pageVars, counts>>

-----------------------------------------------------------------------------
(* The sharing machine: sharerelay.rs, peer/guest.rs, tabshare.rs.         *)

FreeDials ==
  {h \in Dials : hostSock[h] = "free" /\ toHost[h] = <<>> /\ fromHost[h] = <<>> /\ ~Held(h)}

\* run: dial while the tab is shared.
Dial(h) ==
  /\ link = "off" /\ shared /\ h \in FreeDials
  /\ link' = "dialing" /\ dial' = h
  /\ hostSock' = [hostSock EXCEPT ![h] = "digest"]
  /\ UNCHANGED <<shared, seats, granted, known, session, claimed, ended, alarm, guestSock,
                 wires, pageVars, counts>>

\* serve_room gives its connection up: the sessions it ran go with it.
HangUp(msgs, next) ==
  /\ link' = next
  /\ known' = {}
  /\ session' = [c \in Conns |-> NoSession]
  /\ toHost' = [toHost EXCEPT ![dial] = <<>>]
  /\ fromHost' = [fromHost EXCEPT ![dial] = @ \o msgs]

\* The dial times out here; the relay may still be at it.
DialFails ==
  /\ link = "dialing" /\ Drop
  /\ HangUp(<<Plain("bye")>>, "off")
  /\ UNCHANGED <<shared, seats, granted, dial, room, toPage, fromPage, pageVars,
                 joins>>

Dialed ==
  /\ link = "dialing" /\ toHost[dial] # <<>> /\ Head(toHost[dial]).t = "upgraded"
  /\ link' = "up"
  /\ toHost' = [toHost EXCEPT ![dial] = Tail(@)]
  /\ UNCHANGED <<shared, seats, granted, dial, known, session, room, fromHost, toPage, fromPage,
                 pageVars, counts>>

\* The share ended: say so if connected, and stop dialing.
EndsRoom ==
  /\ ~shared
  /\ \/ link = "up" /\ HangUp(<<Plain("end"), Plain("bye")>>, "done")
     \/ link = "off" /\ link' = "done" /\ UNCHANGED <<known, session, toHost, fromHost>>
  /\ UNCHANGED <<shared, seats, granted, dial, room, toPage, fromPage, pageVars, counts>>

Msg == Head(toHost[dial])

\* serve_room reads a message of one of these kinds.
Reads(kinds) ==
  /\ link \in {"dialing", "up"} /\ toHost[dial] # <<>> /\ Msg.t \in kinds
  /\ link = "dialing" => Msg.t = "bye"

Rest == [toHost EXCEPT ![dial] = Tail(@)]
Says(msgs) == fromHost' = [fromHost EXCEPT ![dial] = @ \o msgs]

\* The connection to the relay closed, or was replaced.
ReadsClose ==
  /\ Reads({"bye"})
  /\ HangUp(<<Plain("bye")>>, IF link = "dialing" /\ ~shared THEN "done" ELSE "off")
  /\ UNCHANGED <<shared, seats, granted, dial, room, toPage, fromPage, pageVars, counts>>

\* announce "open": a session for the new guest, unless there are too many.
ReadsOpen ==
  /\ Reads({"open"})
  /\ toHost' = Rest
  /\ IF Cardinality(known) >= MAX_GUESTS
     THEN Says(<<Tagged("close", Msg.c, 0)>>) /\ UNCHANGED <<known, session>>
     ELSE /\ known' = known \cup {Msg.c}
          /\ session' = [session EXCEPT ![Msg.c] = [at |-> "handshake", seat |-> 0]]
          /\ UNCHANGED fromHost
  /\ UNCHANGED <<shared, seats, granted, link, dial, room, toPage, fromPage, pageVars, counts>>

\* A session ends and has its guest's socket closed, frames first.
EndSession(c, frames) ==
  /\ known' = known \ {c}
  /\ session' = [session EXCEPT ![c] = NoSession]
  /\ Says(Append(frames, Tagged("close", c, 0)))

\* announce "close": the guest is gone, and its session with it.
ReadsGone ==
  /\ Reads({"close"})
  /\ toHost' = Rest
  /\ IF session[Msg.c].at = "none"
     THEN known' = known \ {Msg.c} /\ UNCHANGED <<session, fromHost>>
     ELSE EndSession(Msg.c, <<>>)
  /\ UNCHANGED <<shared, seats, granted, link, dial, room, toPage, fromPage, pageVars, counts>>

\* forward, and the guest's session: the handshake, then its first frame, then
\* what a guest that was let in may say.  A guest this connection never heard
\* announced is ignored.
ReadsFrame ==
  LET c == Msg.c
      s == session[c]
  IN
  /\ Reads({"first", "join", "auth"})
  /\ toHost' = Rest
  /\ \/ /\ s.at = "handshake" /\ Msg.t = "first"
        /\ session' = [session EXCEPT ![c].at = "first"]
        /\ Says(<<Tagged("reply", c, 0)>>)
        /\ UNCHANGED known
     \/ /\ s.at = "first" /\ Msg.t = "join" /\ shared
        /\ session' = [session EXCEPT ![c].at = "asked"]
        /\ UNCHANGED <<known, fromHost>>
     \/ /\ s.at = "first" /\ Msg.t = "join" /\ ~shared
        /\ EndSession(c, <<Tagged("error", c, 0)>>)
     \/ /\ s.at = "first" /\ Msg.t = "auth" /\ Msg.n \in seats
        /\ session' = [session EXCEPT ![c] = [at |-> "live", seat |-> Msg.n]]
        /\ Says(<<Tagged("ready", c, 0)>>)
        /\ UNCHANGED known
     \/ /\ s.at = "first" /\ Msg.t = "auth" /\ Msg.n \notin seats
        /\ EndSession(c, <<Tagged("error", c, 0)>>)
     \/ /\ s.at = "none"
        /\ UNCHANGED <<known, session, fromHost>>
  /\ UNCHANGED <<shared, seats, granted, link, dial, room, toPage, fromPage, pageVars, counts>>

\* The person at the machine answers a join, or nobody does in time.
Answer(c) ==
  /\ session[c].at = "asked"
  /\ \/ /\ shared
        /\ granted' = granted + 1
        /\ seats' = seats \cup {granted + 1}
        /\ EndSession(c, <<Tagged("joined", c, granted + 1)>>)
     \/ /\ EndSession(c, <<Tagged("error", c, 0)>>)
        /\ UNCHANGED <<seats, granted>>
  /\ UNCHANGED <<shared, link, dial, room, toHost, toPage, fromPage, pageVars, counts>>

\* A guest that says nothing is let go.
SessionTimesOut(c) ==
  /\ session[c].at \in {"handshake", "first"} /\ Drop
  /\ EndSession(c, <<>>)
  /\ UNCHANGED <<shared, seats, granted, link, dial, room, toHost, toPage, fromPage, pageVars,
                 joins>>

\* The share is stopped, or its terminal ends; or one guest is removed.
Stop ==
  /\ shared
  /\ shared' = FALSE /\ seats' = {}
  /\ UNCHANGED <<granted, link, dial, known, session, room, wires, pageVars, counts>>

RemoveGuest(n) ==
  /\ n \in seats
  /\ seats' = seats \ {n}
  /\ UNCHANGED <<shared, granted, link, dial, known, session, room, wires, pageVars, counts>>

\* The session of a guest no longer let in tells it so and ends; one removed
\* before it was listed as a viewer is not told.
SessionEnds(c) ==
  /\ session[c].at = "live" /\ session[c].seat \notin seats
  /\ \E told \in BOOLEAN : EndSession(c, IF told THEN <<Tagged("stopped", c, 0)>> ELSE <<>>)
  /\ UNCHANGED <<shared, seats, granted, link, dial, room, toHost, toPage, fromPage, pageVars,
                 counts>>

-----------------------------------------------------------------------------
(* The guest's page: relay/public/app.js and channel.js.                   *)

FreeConns ==
  {c \in Conns :
     /\ page[c].role = "none" /\ guestSock[c] = "free"
     /\ toPage[c] = <<>> /\ fromPage[c] = <<>>
     /\ c \notin known
     /\ \A h \in Dials : \A q \in {toHost[h], fromHost[h]} : \A i \in 1 .. Len(q) : q[i].c # c}

\* Page, queues and screen after it opens the connection c; ws.onopen sends the
\* handshake.
Opens(pg, from, c, role, n) ==
  /\ page' = [pg EXCEPT ![c] = [role |-> role, ready |-> FALSE, shut |-> FALSE, seat |-> n]]
  /\ fromPage' = [from EXCEPT ![c] = <<Frame("connect", 0), Frame("first", 0)>>]

\* channel.close() on the connections of cs: the sockets are closing, what they
\* held for the page is not delivered any more, and how they closed comes later.
How(q) == IF Over(q) THEN <<q[Len(q)]>> ELSE <<>>
Closing(pg, cs) == [c \in Conns |-> IF c \in cs THEN [pg[c] EXCEPT !.shut = TRUE] ELSE pg[c]]
Undelivered(to, cs) == [c \in Conns |-> IF c \in cs THEN How(to[c]) ELSE to[c]]
SaysBye(from, cs) ==
  [c \in Conns |-> IF c \in cs /\ ~page[c].shut THEN Append(from[c], Frame("bye", 0)) ELSE from[c]]

\* finish: over, and the channel closed.
Finish ==
  LET cs == {channel} \cap Conns IN
  /\ finished' = TRUE /\ screen' = "over" /\ channel' = NoConn
  /\ page' = Closing(page, cs)
  /\ fromPage' = SaysBye(fromPage, cs)

\* The guest says who they are.
Join(c) ==
  /\ screen = "form" /\ joins < MaxJoins /\ c \in FreeConns
  /\ joins' = joins + 1
  /\ joining' = c /\ screen' = "wait"
  /\ Opens(page, fromPage, c, "join", 0)
  /\ UNCHANGED <<host, room, toHost, fromHost, toPage, finished, channel, timers, drops>>

\* cancelJoin: hangs up, at once if the handshake is done.
CancelJoin ==
  LET cs == IF page[joining].ready THEN {joining} ELSE {} IN
  /\ screen = "wait" /\ joining # NoConn
  /\ joining' = NoConn /\ screen' = "form"
  /\ page' = Closing(page, cs)
  /\ fromPage' = SaysBye(fromPage, cs)
  /\ toPage' = Undelivered(toPage, cs)
  /\ UNCHANGED <<host, room, toHost, fromHost, finished, channel, timers, joins, drops>>

\* The relay delivers a frame of one of these kinds.
Hears(c, kinds) == page[c].role # "none" /\ toPage[c] # <<>> /\ Head(toPage[c]).t \in kinds

\* The handshake is done.  A join given up meanwhile hangs up; a join asks, an
\* entry shows its seat.
HearsReply(c) ==
  /\ Hears(c, {"reply"})
  /\ IF page[c].role = "join" /\ joining # c
     THEN /\ page' = Closing([page EXCEPT ![c].ready = TRUE], {c})
          /\ fromPage' = SaysBye(fromPage, {c})
          /\ toPage' = Undelivered(toPage, {c})
          /\ UNCHANGED channel
     ELSE /\ page' = [page EXCEPT ![c].ready = TRUE]
          /\ toPage' = [toPage EXCEPT ![c] = Tail(@)]
          /\ channel' = IF page[c].role = "enter" THEN c ELSE channel
          /\ fromPage' = [fromPage EXCEPT ![c] = Append(@,
               IF page[c].role = "enter" THEN Frame("auth", page[c].seat) ELSE Frame("join", 0))]
  /\ UNCHANGED <<host, room, toHost, fromHost, screen, finished, joining, timers, counts>>

\* shareJoined, noted until the host hangs up.
HearsJoined(c) ==
  /\ Hears(c, {"joined"})
  /\ toPage' = [toPage EXCEPT ![c] = Tail(@)]
  /\ page' = IF joining = c THEN [page EXCEPT ![c].seat = Head(toPage[c]).n] ELSE page
  /\ UNCHANGED <<host, room, toHost, fromHost, fromPage, screen, finished, joining, channel,
                 timers, counts>>

HearsReady(c) ==
  /\ Hears(c, {"ready"})
  /\ toPage' = [toPage EXCEPT ![c] = Tail(@)]
  /\ screen' = "live"
  /\ UNCHANGED <<host, room, toHost, fromHost, page, fromPage, finished, joining, channel,
                 timers, counts>>

\* error and shareEnded: the page is done.
HearsEnd(c) ==
  LET rest == [toPage EXCEPT ![c] = Tail(@)] IN
  /\ Hears(c, {"error", "stopped"})
  /\ IF page[c].role = "join" /\ joining # c
     THEN toPage' = rest /\ UNCHANGED <<page, fromPage, screen, finished, channel>>
     ELSE Finish /\ toPage' = Undelivered(rest, {channel})
  /\ UNCHANGED <<host, room, toHost, fromHost, joining, timers, counts>>

\* Mutants: only a connection that was established is tried again; a join is, too.
WaitsIfReady(c, code) == ~finished /\ page[c].role = "enter" /\ page[c].ready /\ code # "ended"
WaitsAnyway(c, code)  == ~finished /\ code # "ended"

\* reconnect is called, and waits: the page is not finished and sharing did not end.
Waits(c, code) == ~finished /\ page[c].role = "enter" /\ code # "ended"

\* onClose, or connect's rejection: a socket closed with code.  A join that was
\* let in enters; one that was not is over, and so is the page once sharing
\* ended; else the page waits and tries again.  onClose forgets the channel,
\* whichever connection that is by now.
Closed(c, code) ==
  LET p      == page[c]
      mine   == p.role = "join" /\ joining = c
      enters == mine /\ p.seat # 0 /\ ~finished
      over   == ~finished /\ ((mine /\ p.seat = 0) \/ (p.role = "enter" /\ code = "ended"))
      chan   == IF p.role = "enter" /\ p.ready THEN NoConn ELSE channel
      cs     == IF over THEN {chan} ELSE {}
      gone   == [page EXCEPT ![c] = NoPage]
      bye    == SaysBye(fromPage, {c} \cup cs)
  IN
  /\ joining' = IF mine THEN NoConn ELSE joining
  /\ toPage' = Undelivered([toPage EXCEPT ![c] = <<>>], cs)
  /\ timers' = IF Waits(c, code) THEN timers \cup {p.seat} ELSE timers
  /\ finished' = (finished \/ over)
  /\ screen' = IF over THEN "over" ELSE screen
  /\ channel' = IF over THEN NoConn ELSE chan
  /\ IF enters THEN \E d \in FreeConns : Opens(gone, bye, d, "enter", p.seat)
               ELSE page' = Closing(gone, cs \ {c}) /\ fromPage' = bye

HearsClose(c) ==
  /\ Hears(c, Codes)
  /\ Closed(c, Head(toPage[c]).t)
  /\ UNCHANGED <<host, room, toHost, fromHost, counts>>

\* HANDSHAKE_MS passes before the handshake is done.
HandshakeTimesOut(c) ==
  /\ page[c].role # "none" /\ ~page[c].ready /\ ~page[c].shut /\ Drop
  /\ page' = Closing(page, {c})
  /\ fromPage' = SaysBye(fromPage, {c})
  /\ toPage' = Undelivered(toPage, {c})
  /\ UNCHANGED <<host, room, toHost, fromHost, screen, finished, joining, channel, timers, joins>>

\* reconnect's timer: enter, unless the page is finished.
Reconnect(n) ==
  /\ n \in timers
  /\ timers' = timers \ {n}
  /\ IF finished THEN UNCHANGED <<page, fromPage, screen>>
     ELSE /\ \E c \in FreeConns : Opens(page, fromPage, c, "enter", n)
          /\ screen' = IF screen = "live" THEN screen ELSE "wait"
  /\ UNCHANGED <<host, room, toHost, fromHost, toPage, finished, joining, channel, counts>>

\* The guest leaves the tab.  The "forget" it sends first is sealed after the
\* socket began to close, and a socket that is closing sends nothing.
Leave ==
  /\ screen = "live"
  /\ Finish
  /\ toPage' = Undelivered(toPage, {channel})
  /\ UNCHANGED <<host, room, toHost, fromHost, joining, timers, joins, drops>>

Again ==
  /\ screen = "over"
  /\ finished' = FALSE /\ screen' = "form"
  /\ UNCHANGED <<host, room, wires, page, joining, channel, timers, counts>>

-----------------------------------------------------------------------------
(* Connections are lost.                                                   *)

LoseHost(h) ==
  /\ hostSock[h] \in {"open", "closing"} /\ Held(h) /\ Drop
  /\ toHost' = [toHost EXCEPT ![h] = <<Plain("bye")>>]
  /\ fromHost' = [fromHost EXCEPT ![h] = <<Plain("bye")>>]
  /\ UNCHANGED <<host, room, toPage, fromPage, pageVars, joins>>

LoseGuest(c) ==
  /\ page[c].role # "none" /\ Drop
  /\ toPage' = [toPage EXCEPT ![c] = <<Frame("lost", 0)>>]
  /\ fromPage' = [fromPage EXCEPT ![c] = <<Frame("bye", 0)>>]
  /\ page' = Closing(page, {c})
  /\ UNCHANGED <<host, room, toHost, fromHost, screen, finished, joining, channel, timers, joins>>

-----------------------------------------------------------------------------

RoomHears(h)    == RoomHost(h) \/ HostLeft(h) \/ RoomClosesGuest(h) \/ RoomEnds(h) \/ RoomDelivers(h)
RoomHearsPage(c) == RoomGuest(c) \/ RoomForwards(c) \/ GuestLeft(c)

HostSteps ==
  \/ \E h \in Dials : Dial(h)
  \/ Dialed \/ EndsRoom \/ ReadsClose \/ ReadsOpen \/ ReadsGone \/ ReadsFrame

PageHears(c) == HearsReply(c) \/ HearsJoined(c) \/ HearsReady(c) \/ HearsEnd(c) \/ HearsClose(c)

People ==
  \/ \E c \in Conns : Join(c) \/ Answer(c)
  \/ CancelJoin \/ Leave \/ Again \/ Stop
  \/ \E n \in Seats : RemoveGuest(n)

Faults ==
  \/ DialFails \/ RoomForgets
  \/ \E c \in Conns : SessionTimesOut(c) \/ HandshakeTimesOut(c) \/ LoseGuest(c)
  \/ \E h \in Dials : LoseHost(h)

Next ==
  \/ \E h \in Dials : RoomHears(h)
  \/ \E c \in Conns : RoomHearsPage(c) \/ SessionEnds(c) \/ PageHears(c)
  \/ \E n \in Seats : Reconnect(n)
  \/ HostSteps \/ People \/ Faults

Spec == Init /\ [][Next]_vars

\* The room handles every event, lpm keeps dialing and reading, and the browser
\* delivers what arrives and fires its timers.  People owe nothing, and nothing
\* need fail.
LiveSpec ==
  /\ Spec
  /\ \A h \in Dials : WF_vars(RoomHears(h))
  /\ \A c \in Conns : WF_vars(RoomHearsPage(c)) /\ WF_vars(PageHears(c))
  /\ \A n \in Seats : WF_vars(Reconnect(n))
  /\ WF_vars(HostSteps)

-----------------------------------------------------------------------------
(* Properties.                                                             *)

\* No guest waits in a room its host has left: whenever a host's close was handled
\* or its place taken, a guest socket still open has an open host socket.
NoGuestStranded ==
  OpenGuests # {} => OpenHosts # {}

\* A room that keeps anything is claimed by a host that is there, or will be
\* forgotten: no storage is left behind for good.
NothingKeptForGood ==
  (claimed \/ ended) /\ (\A h \in Dials : hostSock[h] \in {"free", "digest"}) => alarm

\* The room and the host agree on who is in it: a guest with an open socket,
\* whose arrival the connected host has read, has a session there or its socket
\* is about to be closed.
HostKnowsGuests ==
  \A c \in OpenGuests, h \in OpenHosts :
    Held(h) /\ link = "up" =>
      \/ session[c].at # "none"
      \/ \E i \in 1 .. Len(toHost[h]) : toHost[h][i].t = "bye" \/ toHost[h][i] = Tagged("open", c, 0)
      \/ \E i \in 1 .. Len(fromHost[h]) : fromHost[h][i].t = "bye" \/ fromHost[h][i] = Tagged("close", c, 0)

\* While the tab stays shared, the page of a guest who was let in comes back to it
\* by itself after the host, the room or the page was cut off, or learns that
\* its place is gone.
ComesBack ==
  \A n \in Seats :
    n \in timers ~> \/ finished \/ ~shared
                    \/ channel # NoConn /\ session[channel].at = "live"
=============================================================================
