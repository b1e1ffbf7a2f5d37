-------------------------- MODULE ShareRoomProofs --------------------------
(***************************************************************************)
(* For every set of connections and every bound: no guest is left in a     *)
(* room its host has gone from, a room that keeps anything is claimed by a *)
(* host that is there or will be forgotten, and the room and the host that *)
(* is connected to it agree on who is in it; and every variable keeps its  *)
(* type.                                                                   *)
(*                                                                         *)
(* The agreement is the heart.  What makes a guest known is an "open" on   *)
(* its way to the host, then a session, and what ends the session is       *)
(* followed by a message "close" on its way back; each step of either end  *)
(* takes the one only by putting the next in its place (GuestsKnown).      *)
(*                                                                         *)
(* That the seats granted never outrun their numbers is a count: a request *)
(* to join is carried to the person at the machine by one errand, in one   *)
(* place at a time (OneErrand), which a seat granted uses up (Counted).    *)
(***************************************************************************)
EXTENDS ShareRoom, SequenceTheorems, FiniteSetTheorems, TLAPS

\* The numbers of the seats, and of none.
Numbers == 0 .. MaxJoins

\* What the host's connections carry, and what the guests' do.
Words == {"open", "close", "end", "bye", "upgraded", "connect", "first", "join", "auth",
          "reply", "joined", "ready", "error", "stopped"} \cup Codes
Message ==
  {m \in [t : Words, c : Conns \cup {NoConn}, n : Numbers] :
     m.c = NoConn => m.t \in {"upgraded", "bye", "end"}}
Note    == [t : Words, n : Numbers]

\* The page's end of a connection; who enters has a seat.
End ==
  {e \in [role : {"none", "join", "enter"}, ready : BOOLEAN, shut : BOOLEAN, seat : Numbers] :
     e.role = "enter" => e.seat # 0}

\* Where a guest's session stands.
Standing == [at : {"none", "handshake", "first", "asked", "live"}, seat : Numbers]

\* The types the argument needs; the connection the page joins over was opened for it.
Shape ==
  /\ hostSock \in [Dials -> {"free", "digest", "open", "closing"}]
  /\ guestSock \in [Conns -> {"free", "open", "closing"}]
  /\ toHost \in [Dials -> Seq(Message)] /\ fromHost \in [Dials -> Seq(Message)]
  /\ toPage \in [Conns -> Seq(Note)] /\ fromPage \in [Conns -> Seq(Note)]
  /\ session \in [Conns -> Standing]
  /\ page \in [Conns -> End]
  /\ granted \in Numbers
  /\ timers \subseteq Seats
  /\ dial \in Dials \cup {NoDial}
  /\ link \in {"dialing", "up"} => dial \in Dials
  /\ {joining, channel} \subseteq Conns \cup {NoConn}
  /\ joining # NoConn => page[joining].role = "join"
  /\ \A c \in Conns : session[c].at # "none" => link = "up"

\* A guest who waits to be let in has a seat to be given.
SeatLeft == \A c \in Conns : session[c].at = "asked" => granted + 1 \in Numbers

\* An ended room has no host; one that keeps anything without a host that is
\* there is to be forgotten.
EndedEmpty == ended => OpenHosts = {}
WillForget == (claimed \/ ended) /\ OpenHosts = {} => alarm

\* On q is the word that c is there, that c goes, or that the connection does.
Opening(q, c) == \E m \in Range(q) : m.t = "bye" \/ m = Tagged("open", c, 0)
Ending(q, c)  == \E m \in Range(q) : m.t = "bye" \/ m = Tagged("close", c, 0)

\* What HostKnowsGuests says of a connected host, from the moment it is the
\* room's: while it still waits to hear so, too.
GuestsKnown ==
  \A c \in OpenGuests, h \in OpenHosts :
    Held(h) => session[c].at # "none" \/ Opening(toHost[h], c) \/ Ending(fromHost[h], c)

\* How a connection gets to ask: the page's request, the word to the host that
\* it came, the handshake of its session, the reply, and then the asking.  What
\* each queue carries of it.
PageErrand    == {m \in Note : m.t \in {"connect", "open", "join"}}
HostErrand(c) == {m \in Message : m.t \in {"open", "join"} /\ m.c = c}
Replies(c)    == {m \in Message : m.t = "reply" /\ m.c = c}
Reply         == {m \in Note : m.t = "reply"}

\* The queue to the host, if lpm still holds its end.
HostQueue == IF link \in {"dialing", "up"} THEN toHost[dial] ELSE <<>>

\* How many of K a queue carries: none, or one at most.
Quiet(q, K) == \A i \in 1 .. Len(q) : q[i] \notin K
Few(q, K)   == \A i, j \in 1 .. Len(q) : q[i] \in K /\ q[j] \in K => i = j

\* It is in one place at most, and there once.
OneErrand(c) ==
  /\ Few(fromPage[c], PageErrand) /\ Few(HostQueue, HostErrand(c))
  /\ \A h \in Dials : Few(fromHost[h], Replies(c))
  /\ Few(toPage[c], Reply)
  /\ \E w \in {"page", "host", "session", "reply", "back"}, g \in Dials \cup {NoDial} :
       /\ w # "page" => Quiet(fromPage[c], PageErrand)
       /\ w # "host" => Quiet(HostQueue, HostErrand(c))
       /\ w # "session" => session[c].at \notin {"handshake", "asked"}
       /\ \A h \in Dials : w # "reply" \/ h # g => Quiet(fromHost[h], Replies(c))
       /\ w # "back" => Quiet(toPage[c], Reply)

\* A join that is on its way to the person at the machine, and one that may still be.
Asks(c) ==
  \/ \E i \in 1 .. Len(fromPage[c]) : fromPage[c][i] \in PageErrand /\ fromPage[c][i].t = "join"
  \/ \E i \in 1 .. Len(HostQueue) : HostQueue[i] \in HostErrand(c) /\ HostQueue[i].t = "join"
  \/ session[c].at = "asked"
MayAsk(c) ==
  \/ \E i \in 1 .. Len(fromPage[c]) : fromPage[c][i] \in PageErrand /\ fromPage[c][i].t # "join"
  \/ \E i \in 1 .. Len(HostQueue) : HostQueue[i] \in HostErrand(c) /\ HostQueue[i].t # "join"
  \/ session[c].at = "handshake"
  \/ \E h \in Dials : ~ Quiet(fromHost[h], Replies(c))
  \/ ~ Quiet(toPage[c], Reply)
Pends(c) == Asks(c) \/ (MayAsk(c) /\ page[c].role = "join")
Pending == {c \in Conns : Pends(c)}

\* Each seat granted, or still to be, is a time the guest asked to join.
Known   == \A c \in Conns : session[c].at # "none" => c \in known
Errands == \A c \in Conns : OneErrand(c)
Counted == /\ IsFiniteSet(Pending)
           /\ granted + Cardinality(Pending) <= joins
           /\ joins \in Numbers

IInv == /\ Shape /\ Known /\ Errands /\ Counted
        /\ NoGuestStranded /\ EndedEmpty /\ WillForget /\ GuestsKnown

-----------------------------------------------------------------------------
(* Queues.                                                                 *)

\* No seat has a number, and every seat; no connection is none.
LEMMA Constants ==
  0 \in Numbers /\ Numbers \subseteq Nat /\ Seats = Numbers \ {0} /\ NoConn \notin Conns
BY BoundsAssumption DEF Numbers, Seats

\* A queue of one message.
LEMMA RangeOne ==
  ASSUME NEW S, NEW x \in S
  PROVE  <<x>> \in Seq(S) /\ Range(<<x>>) = {x}
BY DEF Range

\* A queue of two.
LEMMA RangeTwo ==
  ASSUME NEW S, NEW x \in S, NEW y \in S
  PROVE  <<x, y>> \in Seq(S) /\ Range(<<x, y>>) = {x, y}
<1>1. <<x, y>> \in Seq(S) /\ Len(<<x, y>>) = 2 /\ <<x, y>>[1] = x /\ <<x, y>>[2] = y
  OBVIOUS
<1>2. Range(<<x, y>>) = {<<x, y>>[i] : i \in 1 .. 2}
  BY <1>1, RangeEquality
<1> QED BY <1>1, <1>2

\* The message at the head of a queue, and those behind it.
LEMMA RangeTail ==
  ASSUME NEW S, NEW q \in Seq(S), q # <<>>
  PROVE  /\ Head(q) \in S /\ Tail(q) \in Seq(S)
         /\ Head(q) \in Range(q) /\ Range(q) = {Head(q)} \cup Range(Tail(q))
<1>1. /\ Head(q) \in S /\ Tail(q) \in Seq(S) /\ Len(q) \in Nat \ {0}
      /\ Len(Tail(q)) = Len(q) - 1 /\ Head(q) = q[1]
      /\ \A i \in 1 .. Len(Tail(q)) : Tail(q)[i] = q[i + 1]
  BY HeadTailProperties, EmptySeq
<1>2. Range(q) = {q[i] : i \in 1 .. Len(q)} /\ Range(Tail(q)) = {Tail(q)[i] : i \in 1 .. Len(Tail(q))}
  <2>1. Range(q) = {q[i] : i \in 1 .. Len(q)}
    BY RangeEquality
  <2>2. Range(Tail(q)) = {Tail(q)[i] : i \in 1 .. Len(Tail(q))}
    BY <1>1, RangeEquality
  <2> QED BY <2>1, <2>2
<1>3. \A i \in 1 .. Len(q) : i = 1 \/ (i - 1 \in 1 .. Len(Tail(q)) /\ q[i] = Tail(q)[i - 1])
  BY <1>1
<1>4. q[1] \in Range(q) /\ \A i \in 1 .. Len(Tail(q)) : q[i + 1] \in Range(q)
  <2>1. 1 \in 1 .. Len(q) /\ \A i \in 1 .. Len(Tail(q)) : i + 1 \in 1 .. Len(q)
    BY <1>1
  <2> QED BY <1>2, <2>1
<1>5. ASSUME NEW x \in Range(q) PROVE x = Head(q) \/ x \in Range(Tail(q))
  <2>1. PICK i \in 1 .. Len(q) : x = q[i]
    BY <1>2
  <2> QED BY <1>1, <1>2, <1>3, <2>1
<1>6. ASSUME NEW x \in Range(Tail(q)) PROVE x \in Range(q)
  BY <1>1, <1>2, <1>4
<1> QED BY <1>1, <1>4, <1>5, <1>6

\* A message more.
LEMMA RangeAppend ==
  ASSUME NEW S, NEW q \in Seq(S), NEW x \in S
  PROVE  Append(q, x) \in Seq(S) /\ Range(Append(q, x)) = Range(q) \cup {x}
<1>1. Append(q, x) \in Seq(S) /\ Append(q, x) = q \o <<x>>
  BY AppendProperties, AppendIsConcat
<1>2. PICK r \in Seq(S) : r = <<x>> /\ Range(r) = {x}
  BY RangeOne
<1>3. Range(q \o r) = Range(q) \cup Range(r)
  BY RangeConcatenation
<1> QED BY <1>1, <1>2, <1>3

\* What the relay tells the host is a message, and goes behind what was there.
LEMMA AnnounceQueues ==
  ASSUME Shape, NEW t \in Words, NEW c \in Conns, NEW n \in Numbers, Announce(t, c, n)
  PROVE  /\ toHost' \in [Dials -> Seq(Message)]
         /\ \A h \in Dials : Range(toHost[h]) \subseteq Range(toHost'[h])
         /\ \A h \in OpenHosts : Held(h) => Tagged(t, c, n) \in Range(toHost'[h])
         /\ \A h \in Dials : Range(toHost'[h]) \subseteq Range(toHost[h]) \cup {Tagged(t, c, n)}
<1>1. Tagged(t, c, n) \in Message
  BY Constants DEF Tagged, Message
<1>2. PICK r \in Seq(Message) : r = <<Tagged(t, c, n)>> /\ Range(r) = {Tagged(t, c, n)}
  BY <1>1, RangeOne
<1>3. ASSUME NEW h \in Dials
      PROVE  /\ toHost[h] \o r \in Seq(Message)
             /\ Range(toHost[h] \o r) = Range(toHost[h]) \cup {Tagged(t, c, n)}
             /\ toHost'[h] = IF h \in OpenHosts /\ Held(h) THEN toHost[h] \o r ELSE toHost[h]
  <2>1. toHost[h] \in Seq(Message)
    BY DEF Shape
  <2>2. toHost'[h] = IF h \in OpenHosts /\ Held(h) THEN toHost[h] \o r ELSE toHost[h]
    BY <1>2 DEF Announce, ToHost, Shape
  <2>3. toHost[h] \o r \in Seq(Message) /\ Range(toHost[h] \o r) = Range(toHost[h]) \cup Range(r)
    BY <2>1, ConcatProperties, RangeConcatenation
  <2> QED BY <1>2, <2>2, <2>3
<1>4. toHost' \in [Dials -> Seq(Message)]
  BY <1>3 DEF Shape, Announce
<1> QED BY <1>3, <1>4 DEF OpenHosts

\* What the relay tells pages is a note.
LEMMA PagesType ==
  ASSUME Shape, NEW cs, NEW f \in Note
  PROVE  ToPages(cs, f) \in [Conns -> Seq(Note)]
BY AppendProperties DEF Shape, ToPages

\* Sockets the relay closes are open no longer.
LEMMA CloseGuestsType ==
  ASSUME Shape, NEW cs, NEW code \in Words, CloseGuests(cs, code)
  PROVE  /\ toPage' \in [Conns -> Seq(Note)]
         /\ guestSock' \in [Conns -> {"free", "open", "closing"}]
         /\ OpenGuests' \subseteq OpenGuests \ cs
<1>1. Frame(code, 0) \in Note
  BY Constants DEF Frame, Note
<1> QED BY <1>1, PagesType, Constants DEF CloseGuests, Shape, OpenGuests

\* What lpm says goes behind what it said, and the message it read is gone.
LEMMA SaysQueues ==
  ASSUME Shape, dial \in Dials, NEW msgs \in Seq(Message), Says(msgs)
  PROVE  /\ fromHost' \in [Dials -> Seq(Message)]
         /\ fromHost'[dial] = fromHost[dial] \o msgs
         /\ Range(fromHost'[dial]) = Range(fromHost[dial]) \cup Range(msgs)
         /\ \A h \in Dials : h # dial => fromHost'[h] = fromHost[h]
<1>1. fromHost[dial] \in Seq(Message)
  BY DEF Shape
<1>2. fromHost[dial] \o msgs \in Seq(Message)
  BY <1>1, ConcatProperties
<1>3. /\ fromHost' \in [Dials -> Seq(Message)]
      /\ fromHost'[dial] = fromHost[dial] \o msgs
      /\ \A h \in Dials : h # dial => fromHost'[h] = fromHost[h]
  BY <1>2 DEF Shape, Says
<1> QED BY <1>1, <1>3, RangeConcatenation

\* The message lpm reads leaves its queue, and no other does.
LEMMA RestQueues ==
  ASSUME Shape, dial \in Dials, toHost[dial] # <<>>
  PROVE  /\ Rest \in [Dials -> Seq(Message)]
         /\ Msg \in Message
         /\ Range(toHost[dial]) = {Msg} \cup Range(Rest[dial])
         /\ \A h \in Dials : h # dial => Rest[h] = toHost[h]
<1>1. toHost[dial] \in Seq(Message)
  BY DEF Shape
<1>2. /\ Msg \in Message /\ Tail(toHost[dial]) \in Seq(Message)
      /\ Range(toHost[dial]) = {Msg} \cup Range(Tail(toHost[dial]))
  BY <1>1, RangeTail DEF Msg
<1> QED BY <1>2 DEF Rest, Shape

\* What a page does to its connections keeps their types.
LEMMA ClosingType ==
  ASSUME NEW pg \in [Conns -> End], NEW cs
  PROVE  /\ Closing(pg, cs) \in [Conns -> End]
         /\ \A c \in Conns : /\ Closing(pg, cs)[c].role = pg[c].role
                            /\ Closing(pg, cs)[c].ready = pg[c].ready
BY DEF Closing, End

\* The page says bye on the sockets it closes.
LEMMA SaysByeType ==
  ASSUME NEW qs \in [Conns -> Seq(Note)], NEW cs
  PROVE  SaysBye(qs, cs) \in [Conns -> Seq(Note)]
<1>1. Frame("bye", 0) \in Note
  BY Constants DEF Frame, Note, Words, Codes
<1> QED BY <1>1, AppendProperties DEF SaysBye

\* What a closing socket still hears is one note at most.
LEMMA UndeliveredType ==
  ASSUME NEW qs \in [Conns -> Seq(Note)], NEW cs
  PROVE  Undelivered(qs, cs) \in [Conns -> Seq(Note)]
<1>1. ASSUME NEW q \in Seq(Note) PROVE How(q) \in Seq(Note)
  <2>1. CASE Over(q)
    <3>1. Len(q) \in 1 .. Len(q)
      BY <2>1, EmptySeq DEF Over
    <3>2. q[Len(q)] \in Note
      BY <3>1, ElementOfSeq
    <3> QED BY <2>1, <3>2, RangeOne DEF How
  <2>2. CASE ~Over(q)
    BY <2>2, EmptySeq DEF How
  <2> QED BY <2>1, <2>2
<1> QED BY <1>1 DEF Undelivered

\* A connection the page opens carries the request and the handshake.
LEMMA OpensTypes ==
  ASSUME NEW pg \in [Conns -> End], NEW qs \in [Conns -> Seq(Note)], NEW c \in Conns,
         NEW role \in {"join", "enter"}, NEW n \in Numbers, role = "enter" => n # 0,
         Opens(pg, qs, c, role, n)
  PROVE  /\ page' \in [Conns -> End] /\ fromPage' \in [Conns -> Seq(Note)]
         /\ \A d \in Conns : page'[d].role = IF d = c THEN role ELSE pg[d].role
<1>1. <<Frame("connect", 0), Frame("first", 0)>> \in Seq(Note)
  BY RangeTwo, Constants DEF Frame, Note, Words, Codes
<1>2. [role |-> role, ready |-> FALSE, shut |-> FALSE, seat |-> n] \in End
  BY DEF End
<1> QED BY <1>1, <1>2 DEF Opens

\* The steps of the room keep the types.
LEMMA RoomTypes ==
  ASSUME Shape, \/ \E h \in Dials : RoomHears(h)
                \/ \E c \in Conns : RoomHearsPage(c)
  PROVE  Shape'
<1> USE DEF host, room, wires, pageVars, counts
<1>1. ASSUME NEW h \in Dials, RoomHost(h) PROVE Shape'
  <2>1. toPage' \in [Conns -> Seq(Note)] /\ guestSock' \in [Conns -> {"free", "open", "closing"}]
    BY <1>1, CloseGuestsType, Constants DEF RoomHost, Words, Codes
  <2>2. ASSUME NEW d \in Dials, NEW m \in Message
        PROVE  ToHost(d, <<m>>)[d] \in Seq(Message)
    <3>1. PICK q \in Seq(Message) : q = <<m>>
      BY RangeOne
    <3>2. toHost[d] \in Seq(Message) /\ toHost[d] \o q \in Seq(Message)
      BY <3>1, ConcatProperties DEF Shape
    <3> QED BY <3>1, <3>2 DEF ToHost, Shape
  <2>3. Plain("upgraded") \in Message /\ Plain("bye") \in Message
    BY Constants DEF Plain, Tagged, Message, Words
  <2>4. toHost' \in [Dials -> Seq(Message)]
    BY <1>1, <2>2, <2>3 DEF RoomHost, Shape
  <2>5. hostSock' \in [Dials -> {"free", "digest", "open", "closing"}]
    BY <1>1 DEF RoomHost, Shape
  <2> QED BY <1>1, <2>1, <2>4, <2>5 DEF RoomHost, Shape
<1>2. ASSUME NEW c \in Conns, RoomGuest(c) PROVE Shape'
  <2>1. fromPage' \in [Conns -> Seq(Note)]
    BY <1>2, RangeTail DEF RoomGuest, Shape
  <2>2. toHost' \in [Dials -> Seq(Message)]
    BY <1>2, AnnounceQueues, Constants DEF RoomGuest, Shape, Words
  <2>3. toPage' \in [Conns -> Seq(Note)]
    <3>1. PICK w \in {"ended", "offline", "full"} : toPage' = ToPages({c}, Frame(w, 0)) \/ UNCHANGED toPage
      BY <1>2 DEF RoomGuest
    <3>2. Frame(w, 0) \in Note
      BY Constants DEF Frame, Note, Words, Codes
    <3> QED BY <3>1, <3>2, PagesType, Constants DEF Shape
  <2>4. guestSock' \in [Conns -> {"free", "open", "closing"}]
    BY <1>2 DEF RoomGuest, Shape
  <2> QED BY <1>2, <2>1, <2>2, <2>3, <2>4 DEF RoomGuest, Shape
<1>3. ASSUME NEW c \in Conns, RoomForwards(c) PROVE Shape'
  <2>1. fromPage' \in [Conns -> Seq(Note)] /\ Head(fromPage[c]) \in Note
    BY <1>3, RangeTail DEF RoomForwards, Shape
  <2>2. Head(fromPage[c]).t \in Words /\ Head(fromPage[c]).n \in Numbers
    BY <2>1, Constants DEF Note
  <2>3. toHost' \in [Dials -> Seq(Message)]
    BY <1>3, <2>2, AnnounceQueues, Constants DEF RoomForwards, Shape
  <2>4. toPage' \in [Conns -> Seq(Note)] /\ guestSock' \in [Conns -> {"free", "open", "closing"}]
    BY <1>3, CloseGuestsType, Constants DEF RoomForwards, Shape, Words, Codes
  <2> QED BY <1>3, <2>1, <2>3, <2>4 DEF RoomForwards, Shape
<1>4. ASSUME NEW c \in Conns, GuestLeft(c) PROVE Shape'
  <2>1. fromPage' \in [Conns -> Seq(Note)]
    BY <1>4, RangeTail DEF GuestLeft, Shape
  <2>2. Frame("lost", 0) \in Note
    BY Constants DEF Frame, Note, Words, Codes
  <2>3. toPage' \in [Conns -> Seq(Note)]
    BY <1>4, <2>2, PagesType, Constants DEF GuestLeft
  <2>4. toHost' \in [Dials -> Seq(Message)]
    BY <1>4, AnnounceQueues, Constants DEF GuestLeft, Shape, Words
  <2>5. guestSock' \in [Conns -> {"free", "open", "closing"}]
    BY <1>4 DEF GuestLeft, Shape
  <2> QED BY <1>4, <2>1, <2>3, <2>4, <2>5 DEF GuestLeft, Shape
<1>5. ASSUME NEW h \in Dials, HostLeft(h) \/ RoomClosesGuest(h) \/ RoomEnds(h) \/ RoomDelivers(h)
      PROVE  Shape'
  <2>1. fromHost' \in [Dials -> Seq(Message)] /\ Head(fromHost[h]) \in Message
    <3>1. fromHost' = [fromHost EXCEPT ![h] = Tail(@)] /\ fromHost[h] # <<>>
      BY <1>5 DEF HostLeft, RoomClosesGuest, RoomEnds, RoomDelivers
    <3> QED BY <3>1, RangeTail DEF Shape
  <2>2. toPage' \in [Conns -> Seq(Note)] /\ guestSock' \in [Conns -> {"free", "open", "closing"}]
    <3>1. CASE HostLeft(h)
      BY <3>1, CloseGuestsType, Constants DEF HostLeft, Shape, Words, Codes
    <3>2. CASE RoomClosesGuest(h) \/ RoomEnds(h)
      BY <3>2, CloseGuestsType, Constants DEF RoomClosesGuest, RoomEnds, Words, Codes
    <3>3. CASE RoomDelivers(h)
      <4>1. Frame(Head(fromHost[h]).t, Head(fromHost[h]).n) \in Note
        BY <2>1, Constants DEF Frame, Note, Message
      <4> QED BY <3>3, <4>1, PagesType, Constants DEF RoomDelivers, Shape
    <3> QED BY <1>5, <3>1, <3>2, <3>3
  <2>3. hostSock' \in [Dials -> {"free", "digest", "open", "closing"}]
    BY <1>5 DEF HostLeft, RoomClosesGuest, RoomEnds, RoomDelivers, Shape
  <2>4. toHost' \in [Dials -> Seq(Message)]
    <3>1. CASE RoomEnds(h)
      <4>1. PICK q \in Seq(Message) : q = <<Plain("bye")>>
        BY RangeOne, Constants DEF Plain, Tagged, Message, Words
      <4>2. ASSUME NEW d \in Dials PROVE ToHost(d, q)[d] \in Seq(Message)
        BY ConcatProperties DEF Shape, ToHost
      <4> QED BY <3>1, <4>1, <4>2 DEF RoomEnds, Shape
    <3> QED BY <1>5, <3>1 DEF HostLeft, RoomClosesGuest, RoomDelivers, Shape
  <2>5. UNCHANGED <<host, fromPage, pageVars>>
    BY <1>5 DEF HostLeft, RoomClosesGuest, RoomEnds, RoomDelivers
  <2> QED BY <2>1, <2>2, <2>3, <2>4, <2>5 DEF Shape
<1> QED BY <1>1, <1>2, <1>3, <1>4, <1>5 DEF RoomHears, RoomHearsPage

\* What lpm tags with a guest, or with none, is a message.
LEMMA TaggedType ==
  ASSUME NEW t \in Words, NEW c \in Conns \cup {NoConn}, NEW n \in Numbers,
         c = NoConn => t \in {"upgraded", "bye", "end"}
  PROVE  Tagged(t, c, n) \in Message
BY DEF Tagged, Message

\* A session that ends is followed by the word that closes its guest's socket.
LEMMA EndSessionQueues ==
  ASSUME Shape, dial \in Dials, NEW c \in Conns, NEW frames \in Seq(Message),
         EndSession(c, frames)
  PROVE  /\ fromHost' \in [Dials -> Seq(Message)]
         /\ session' \in [Conns -> Standing]
         /\ \A d \in Conns : session'[d] = IF d = c THEN NoSession ELSE session[d]
         /\ Range(fromHost[dial]) \subseteq Range(fromHost'[dial])
         /\ Tagged("close", c, 0) \in Range(fromHost'[dial])
         /\ \A h \in Dials : h # dial => fromHost'[h] = fromHost[h]
<1>1. Tagged("close", c, 0) \in Message
  BY TaggedType, Constants DEF Words
<1>7. /\ Append(frames, Tagged("close", c, 0)) \in Seq(Message)
      /\ Range(Append(frames, Tagged("close", c, 0))) = Range(frames) \cup {Tagged("close", c, 0)}
  BY <1>1, RangeAppend
<1>2. PICK msgs \in Seq(Message) :
        msgs = Append(frames, Tagged("close", c, 0)) /\ Tagged("close", c, 0) \in Range(msgs)
  BY <1>7
<1>3. Says(msgs)
  BY <1>2 DEF EndSession
<1>4. /\ fromHost' \in [Dials -> Seq(Message)]
      /\ Range(fromHost'[dial]) = Range(fromHost[dial]) \cup Range(msgs)
      /\ \A h \in Dials : h # dial => fromHost'[h] = fromHost[h]
  BY <1>3, SaysQueues
<1>5. NoSession \in Standing
  BY Constants DEF NoSession, Standing
<1>6. session' = [session EXCEPT ![c] = NoSession]
  BY DEF EndSession
<1> QED BY <1>2, <1>4, <1>5, <1>6 DEF Shape

\* A host that hangs up keeps nothing of its connection but its last words.
LEMMA HangUpTypes ==
  ASSUME Shape, dial \in Dials, NEW msgs \in Seq(Message), NEW next \in {"off", "done"},
         HangUp(msgs, next)
  PROVE  /\ fromHost' \in [Dials -> Seq(Message)] /\ toHost' \in [Dials -> Seq(Message)]
         /\ session' \in [Conns -> Standing] /\ \A c \in Conns : session'[c].at = "none"
         /\ link' = next
<1>1. Says(msgs)
  BY DEF HangUp, Says
<1>2. fromHost' \in [Dials -> Seq(Message)]
  BY <1>1, SaysQueues
<1>3. toHost' \in [Dials -> Seq(Message)]
  BY EmptySeq DEF HangUp, Shape
<1>4. NoSession \in Standing /\ NoSession.at = "none"
  BY Constants DEF NoSession, Standing
<1> QED BY <1>2, <1>3, <1>4 DEF HangUp

\* The steps of the sharing machine keep the types.
LEMMA HostTypes ==
  ASSUME Shape, HostSteps \/ DialFails \/ \E h \in Dials : LoseHost(h)
  PROVE  Shape'
<1> USE DEF host, room, wires, pageVars, counts
<1>1. ASSUME NEW h \in Dials, Dial(h) PROVE Shape'
  BY <1>1 DEF Dial, Shape, FreeDials
<1>2. CASE Dialed
  BY <1>2, RangeTail DEF Dialed, Shape
<1>3. PICK bye \in Seq(Message), endBye \in Seq(Message) :
        bye = <<Plain("bye")>> /\ endBye = <<Plain("end"), Plain("bye")>>
  <2>1. Plain("bye") \in Message /\ Plain("end") \in Message
    BY TaggedType, Constants DEF Plain, Words
  <2> QED BY <2>1, RangeOne, RangeTwo
<1>4. CASE EndsRoom
  <2>1. CASE HangUp(endBye, "done") /\ dial \in Dials
    <3>1. /\ fromHost' \in [Dials -> Seq(Message)] /\ toHost' \in [Dials -> Seq(Message)]
          /\ session' \in [Conns -> Standing] /\ \A c \in Conns : session'[c].at = "none"
          /\ link' = "done"
      BY <2>1, HangUpTypes
    <3> QED BY <1>4, <3>1 DEF EndsRoom, Shape
  <2>2. CASE link' = "done" /\ link = "off" /\ UNCHANGED <<known, session, toHost, fromHost>>
    BY <1>4, <2>2 DEF EndsRoom, Shape
  <2> QED BY <1>3, <1>4, <2>1, <2>2 DEF EndsRoom, Shape
<1>5. CASE DialFails \/ ReadsClose
  <2>1. dial \in Dials
    BY <1>5 DEF DialFails, ReadsClose, Reads, Shape
  <2>2. PICK next \in {"off", "done"} : HangUp(bye, next)
    BY <1>3, <1>5 DEF DialFails, ReadsClose
  <2>3. /\ fromHost' \in [Dials -> Seq(Message)] /\ toHost' \in [Dials -> Seq(Message)]
        /\ session' \in [Conns -> Standing] /\ \A c \in Conns : session'[c].at = "none"
        /\ link' = next
    BY <2>1, <2>2, HangUpTypes
  <2>4. UNCHANGED <<dial, room, toPage, fromPage, pageVars, granted>>
    BY <1>5 DEF DialFails, ReadsClose
  <2> QED BY <2>3, <2>4 DEF Shape
<1>6. ASSUME Reads({"open", "close", "first", "join", "auth"})
      PROVE  /\ dial \in Dials /\ link = "up" /\ Msg \in Message /\ Msg.c \in Conns
             /\ Rest \in [Dials -> Seq(Message)]
  <2>1. dial \in Dials /\ link = "up" /\ toHost[dial] # <<>>
    BY <1>6 DEF Reads, Shape
  <2>2. Msg \in Message /\ Rest \in [Dials -> Seq(Message)]
    BY <2>1, RestQueues
  <2>3. Msg.t \notin {"upgraded", "bye", "end"}
    BY <1>6 DEF Reads
  <2> QED BY <2>1, <2>2, <2>3 DEF Message
<1>7. CASE ReadsOpen
  <2>1. /\ dial \in Dials /\ link = "up" /\ Msg \in Message /\ Msg.c \in Conns
        /\ toHost' \in [Dials -> Seq(Message)]
    BY <1>6, <1>7 DEF ReadsOpen, Reads
  <2>2. PICK msgs \in Seq(Message) : msgs = <<Tagged("close", Msg.c, 0)>>
    BY <2>1, TaggedType, RangeOne, Constants DEF Words
  <2>3. fromHost' \in [Dials -> Seq(Message)]
    BY <1>7, <2>1, <2>2, SaysQueues DEF ReadsOpen, Shape
  <2>4. session' \in [Conns -> Standing]
    <3>1. [at |-> "handshake", seat |-> 0] \in Standing
      BY Constants DEF Standing
    <3> QED BY <1>7, <3>1 DEF ReadsOpen, Shape
  <2> QED BY <1>7, <2>1, <2>3, <2>4 DEF ReadsOpen, Shape
<1>8. CASE ReadsGone
  <2>1. /\ dial \in Dials /\ link = "up" /\ Msg \in Message /\ Msg.c \in Conns
        /\ toHost' \in [Dials -> Seq(Message)]
    BY <1>6, <1>8 DEF ReadsGone, Reads
  <2>2. fromHost' \in [Dials -> Seq(Message)] /\ session' \in [Conns -> Standing]
    BY <1>8, <2>1, EndSessionQueues, EmptySeq, Constants DEF ReadsGone, Shape
  <2> QED BY <1>8, <2>1, <2>2 DEF ReadsGone, Shape
<1>9. CASE ReadsFrame
  <2>1. /\ dial \in Dials /\ link = "up" /\ Msg \in Message /\ Msg.c \in Conns
        /\ toHost' \in [Dials -> Seq(Message)]
    BY <1>6, <1>9 DEF ReadsFrame, Reads
  <2>2. ASSUME NEW w \in {"reply", "error", "ready"}
        PROVE  <<Tagged(w, Msg.c, 0)>> \in Seq(Message)
    BY <2>1, TaggedType, RangeOne, Constants DEF Words
  <2>3. Msg.n \in Numbers
    BY <2>1, Constants DEF Message
  <2>4. fromHost' \in [Dials -> Seq(Message)]
    <3>1. \/ UNCHANGED fromHost
          \/ \E w \in {"reply", "error", "ready"} :
               \/ Says(<<Tagged(w, Msg.c, 0)>>)
               \/ EndSession(Msg.c, <<Tagged(w, Msg.c, 0)>>)
      BY <1>9 DEF ReadsFrame
    <3> QED BY <2>1, <2>2, <3>1, SaysQueues, EndSessionQueues, Constants DEF Shape
  <2>5. session' \in [Conns -> Standing]
    <3>1. \/ UNCHANGED session
          \/ session' = [session EXCEPT ![Msg.c].at = "first"]
          \/ session' = [session EXCEPT ![Msg.c].at = "asked"]
          \/ session' = [session EXCEPT ![Msg.c] = [at |-> "live", seat |-> Msg.n]]
          \/ session' = [session EXCEPT ![Msg.c] = NoSession]
      BY <1>9 DEF ReadsFrame, EndSession
    <3>2. NoSession \in Standing /\ [at |-> "live", seat |-> Msg.n] \in Standing
      BY <2>3, Constants DEF NoSession, Standing
    <3>3. ASSUME NEW w \in {"first", "asked"}, session' = [session EXCEPT ![Msg.c].at = w]
          PROVE  session' \in [Conns -> Standing]
      <4>1. \A s \in Standing : [s EXCEPT !.at = w] \in Standing
        BY DEF Standing
      <4> QED BY <3>3, <4>1 DEF Shape
    <3> QED BY <3>1, <3>2, <3>3 DEF Shape
  <2> QED BY <1>9, <2>1, <2>4, <2>5 DEF ReadsFrame, Shape
<1>10. ASSUME NEW h \in Dials, LoseHost(h) PROVE Shape'
  BY <1>3, <1>10 DEF LoseHost, Shape
<1> QED BY <1>1, <1>2, <1>4, <1>5, <1>7, <1>8, <1>9, <1>10 DEF HostSteps

\* What a session says when it ends by itself.
LEMMA SessionTypes ==
  ASSUME Shape, SeatLeft, NEW c \in Conns, Answer(c) \/ SessionTimesOut(c) \/ SessionEnds(c)
  PROVE  /\ Shape' /\ link = "up" /\ dial \in Dials
         /\ \E frames \in Seq(Message) : EndSession(c, frames)
<1> USE DEF host, room, wires, pageVars, counts
<1>1. link = "up" /\ dial \in Dials
  BY DEF Answer, SessionTimesOut, SessionEnds, Shape
<1>2. granted \in Numbers /\ (session[c].at = "asked" => granted + 1 \in Numbers)
  BY DEF Shape, SeatLeft
<1>3. /\ session[c].at = "asked" => <<Tagged("joined", c, granted + 1)>> \in Seq(Message)
      /\ <<Tagged("error", c, 0)>> \in Seq(Message)
      /\ <<Tagged("stopped", c, 0)>> \in Seq(Message)
      /\ <<>> \in Seq(Message)
  BY <1>2, TaggedType, RangeOne, EmptySeq, Constants DEF Words
<1>4. PICK frames \in Seq(Message) : EndSession(c, frames)
  BY <1>3 DEF Answer, SessionTimesOut, SessionEnds
<1>5. fromHost' \in [Dials -> Seq(Message)] /\ session' \in [Conns -> Standing]
  BY <1>1, <1>4, EndSessionQueues, Constants
<1>6. granted' \in Numbers
  BY <1>2 DEF Answer, SessionTimesOut, SessionEnds
<1>7. UNCHANGED <<link, dial, room, toHost, toPage, fromPage, pageVars>>
  BY DEF Answer, SessionTimesOut, SessionEnds
<1> QED BY <1>1, <1>4, <1>5, <1>6, <1>7 DEF Shape

\* The steps of the page keep the types, and touch nothing of the room's or the host's.
LEMMA PageSteps ==
  ASSUME Shape,
         \/ \E c \in Conns : Join(c) \/ PageHears(c) \/ HandshakeTimesOut(c) \/ LoseGuest(c)
         \/ \E n \in Seats : Reconnect(n)
         \/ CancelJoin \/ Leave \/ Again
  PROVE  Shape' /\ UNCHANGED <<host, room, toHost, fromHost>>
<1> USE DEF wires, pageVars, counts
<1> DEFINE Ends   == page' \in [Conns -> End]
           Froms  == fromPage' \in [Conns -> Seq(Note)]
           Tos    == toPage' \in [Conns -> Seq(Note)]
           Refs   == {joining', channel'} \subseteq Conns \cup {NoConn}
           Kept   == UNCHANGED <<host, room, toHost, fromHost>>
           Same   == /\ joining' \in {joining, NoConn}
                     /\ \A d \in Conns : d = joining' => page'[d].role = page[d].role
<1>0. ASSUME Ends, Froms, Tos, Refs, timers' \subseteq Seats, Kept,
             Same \/ (joining' \in Conns /\ page'[joining'].role = "join")
      PROVE  Shape' /\ UNCHANGED <<host, room, toHost, fromHost>>
  BY <1>0 DEF Shape, host, room
<1>1. /\ page \in [Conns -> End] /\ fromPage \in [Conns -> Seq(Note)]
      /\ toPage \in [Conns -> Seq(Note)] /\ timers \subseteq Seats
      /\ {joining, channel} \subseteq Conns \cup {NoConn}
  BY DEF Shape
<1>2. ASSUME NEW c \in Conns, toPage[c] # <<>>
      PROVE  Head(toPage[c]) \in Note /\ [toPage EXCEPT ![c] = Tail(@)] \in [Conns -> Seq(Note)]
  BY <1>1, <1>2, RangeTail
<1>3. ASSUME NEW c \in Conns, Join(c) PROVE Shape' /\ Kept
  <2>1. Ends /\ Froms /\ page'[c].role = "join"
    BY <1>1, <1>3, Constants, OpensTypes DEF Join
  <2> QED BY <1>0, <1>1, <1>3, <2>1 DEF Join
<1>4. CASE CancelJoin
  <2>1. Ends /\ Froms /\ Tos /\ Same
    BY <1>1, <1>4, ClosingType, SaysByeType, UndeliveredType DEF CancelJoin
  <2> QED BY <1>0, <1>1, <1>4, <2>1 DEF CancelJoin
<1>5. CASE Leave
  <2>1. Ends /\ Froms /\ Tos /\ Same
    BY <1>1, <1>5, ClosingType, SaysByeType, UndeliveredType DEF Leave, Finish
  <2> QED BY <1>0, <1>1, <1>5, <2>1 DEF Leave, Finish
<1>6. CASE Again
  BY <1>0, <1>1, <1>6 DEF Again
<1>7. ASSUME NEW c \in Conns, HandshakeTimesOut(c) PROVE Shape' /\ Kept
  <2>1. Ends /\ Same
    BY <1>1, <1>7, ClosingType DEF HandshakeTimesOut
  <2>2. Froms /\ Tos
    BY <1>1, <1>7, SaysByeType, UndeliveredType DEF HandshakeTimesOut
  <2> QED BY <1>0, <1>1, <1>7, <2>1, <2>2 DEF HandshakeTimesOut
<1>8. ASSUME NEW c \in Conns, LoseGuest(c) PROVE Shape' /\ Kept
  <2>1. <<Frame("lost", 0)>> \in Seq(Note) /\ <<Frame("bye", 0)>> \in Seq(Note)
    <3>1. Frame("lost", 0) \in Note /\ Frame("bye", 0) \in Note
      BY Constants DEF Frame, Note, Words, Codes
    <3> QED BY <3>1, RangeOne
  <2>2. Ends /\ Same
    BY <1>1, <1>8, ClosingType DEF LoseGuest
  <2>3. Froms /\ Tos
    BY <1>1, <1>8, <2>1 DEF LoseGuest
  <2> QED BY <1>0, <1>1, <1>8, <2>2, <2>3 DEF LoseGuest
<1>9. ASSUME NEW n \in Seats, Reconnect(n) PROVE Shape' /\ Kept
  <2>1. n \in Numbers /\ n # 0
    BY Constants
  <2>2. Ends /\ Froms /\ Same
    <3>1. CASE UNCHANGED <<page, fromPage>>
      BY <1>1, <1>9, <3>1 DEF Reconnect
    <3>2. ASSUME NEW c \in FreeConns, Opens(page, fromPage, c, "enter", n)
          PROVE  Ends /\ Froms /\ Same
      <4>1. c \in Conns /\ page[c].role = "none" /\ c # joining
        BY Constants DEF FreeConns, Shape
      <4>2. /\ Ends /\ Froms
            /\ \A d \in Conns : page'[d].role = IF d = c THEN "enter" ELSE page[d].role
        <5>1. "enter" \in {"join", "enter"}
          OBVIOUS
        <5> QED BY <1>1, <2>1, <3>2, <4>1, <5>1, OpensTypes
      <4>3. joining' = joining
        BY <1>9 DEF Reconnect
      <4> QED BY <4>1, <4>2, <4>3
    <3> QED BY <1>9, <3>1, <3>2 DEF Reconnect
  <2> QED BY <1>0, <1>1, <1>9, <2>2 DEF Reconnect
<1>10. ASSUME NEW c \in Conns, HearsReply(c) PROVE Shape' /\ Kept
  <2> DEFINE readied == [page EXCEPT ![c].ready = TRUE]
             rest    == [toPage EXCEPT ![c] = Tail(@)]
  <2>1. readied \in [Conns -> End] /\ page[c].seat \in Numbers
    BY <1>1 DEF End
  <2>2. rest \in [Conns -> Seq(Note)]
    BY <1>2, <1>10 DEF HearsReply, Hears
  <2>3. Frame("auth", page[c].seat) \in Note /\ Frame("join", 0) \in Note
    BY <2>1, Constants DEF Frame, Note, Words
  <2>9. \A d \in Conns : readied[d].role = page[d].role
    BY <1>1
  <2>4. ASSUME page[c].role = "join" /\ joining # c PROVE Ends /\ Froms /\ Tos /\ Same
    <3>1. /\ page' = Closing(readied, {c}) /\ fromPage' = SaysBye(fromPage, {c})
          /\ toPage' = Undelivered(toPage, {c})
      BY <1>10, <2>4 DEF HearsReply
    <3>2. joining' = joining
      BY <1>10 DEF HearsReply
    <3> HIDE DEF readied
    <3>3. Ends /\ \A d \in Conns : page'[d].role = readied[d].role
      BY <2>1, <3>1, ClosingType
    <3>4. Froms /\ Tos
      BY <1>1, <3>1, SaysByeType, UndeliveredType
    <3> QED BY <2>9, <3>2, <3>3, <3>4
  <2>5. ASSUME ~(page[c].role = "join" /\ joining # c) PROVE Ends /\ Froms /\ Tos /\ Same
    <3>1. page' = readied /\ toPage' = rest /\ joining' = joining
      BY <1>10, <2>5 DEF HearsReply
    <3>2. PICK f \in Note : fromPage' = [fromPage EXCEPT ![c] = Append(@, f)]
      BY <1>10, <2>3, <2>5 DEF HearsReply
    <3>3. Append(fromPage[c], f) \in Seq(Note)
      BY <1>1, RangeAppend
    <3>4. Froms
      BY <1>1, <3>2, <3>3
    <3> QED BY <2>1, <2>2, <2>9, <3>1, <3>4
  <2>6. Ends /\ Froms /\ Tos /\ Same
    BY <2>4, <2>5
  <2>7. Refs
    BY <1>1, <1>10 DEF HearsReply
  <2>8. Kept /\ UNCHANGED timers
    BY <1>10 DEF HearsReply
  <2> QED BY <1>0, <1>1, <2>6, <2>7, <2>8
<1>11. ASSUME NEW c \in Conns, HearsJoined(c) PROVE Shape' /\ Kept
  <2>1. Head(toPage[c]).n \in Numbers /\ Tos
    BY <1>2, <1>11, Constants DEF HearsJoined, Hears, Note
  <2>2. Ends /\ Same
    <3>1. joining = c => page[c].role = "join"
      BY Constants DEF Shape
    <3> QED BY <1>1, <1>11, <2>1, <3>1 DEF HearsJoined, End
  <2> QED BY <1>0, <1>1, <1>11, <2>1, <2>2 DEF HearsJoined
<1>12. ASSUME NEW c \in Conns, HearsReady(c) PROVE Shape' /\ Kept
  <2>1. Tos
    BY <1>2, <1>12 DEF HearsReady, Hears
  <2> QED BY <1>0, <1>1, <1>12, <2>1 DEF HearsReady
<1>13. ASSUME NEW c \in Conns, HearsEnd(c) PROVE Shape' /\ Kept
  <2> DEFINE rest == [toPage EXCEPT ![c] = Tail(@)]
  <2>1. rest \in [Conns -> Seq(Note)]
    BY <1>2, <1>13 DEF HearsEnd, Hears
  <2>2. ASSUME page[c].role = "join" /\ joining # c PROVE Ends /\ Froms /\ Tos /\ Same
    BY <1>1, <1>13, <2>1, <2>2 DEF HearsEnd
  <2>3. ASSUME ~(page[c].role = "join" /\ joining # c) PROVE Ends /\ Froms /\ Tos /\ Same
    <3>1. Finish /\ toPage' = Undelivered(rest, {channel})
      BY <1>13, <2>3 DEF HearsEnd
    <3>2. PICK cs : page' = Closing(page, cs) /\ fromPage' = SaysBye(fromPage, cs)
      BY <3>1 DEF Finish
    <3>3. channel' = NoConn /\ joining' = joining
      BY <1>13, <3>1 DEF Finish, HearsEnd
    <3> HIDE DEF rest
    <3> QED BY <1>1, <2>1, <3>1, <3>2, <3>3, ClosingType, SaysByeType, UndeliveredType
  <2>4. Ends /\ Froms /\ Tos /\ Same
    BY <2>2, <2>3
  <2>5. Refs
    BY <1>1, <1>13 DEF HearsEnd, Finish
  <2>6. Kept /\ UNCHANGED timers
    BY <1>13 DEF HearsEnd
  <2> QED BY <1>0, <1>1, <2>4, <2>5, <2>6
<1>14. ASSUME NEW c \in Conns, HearsClose(c) PROVE Shape' /\ Kept
  <2> DEFINE gone == [page EXCEPT ![c] = NoPage]
  <2>1. gone \in [Conns -> End] /\ page[c].seat \in Numbers
    BY <1>1, Constants DEF NoPage, End
  <2>2. Tos
    <3>1. [toPage EXCEPT ![c] = <<>>] \in [Conns -> Seq(Note)]
      BY <1>1, EmptySeq
    <3> QED BY <1>14, <3>1, ClosingType, SaysByeType, UndeliveredType DEF HearsClose, Closed
  <2>3. Ends /\ Froms /\ Same
    <3>1. PICK bye \in [Conns -> Seq(Note)] :
            \/ /\ page[c].seat # 0
               /\ \E d \in FreeConns : Opens(gone, bye, d, "enter", page[c].seat)
            \/ (\E cs : page' = Closing(gone, cs)) /\ fromPage' = bye
      BY <1>1, <1>14, SaysByeType DEF HearsClose, Closed
    <3>2. /\ joining' \in {joining, NoConn} /\ joining' # c
          /\ \A d \in Conns : d # c => gone[d].role = page[d].role
      <4>1. joining' = IF page[c].role = "join" /\ joining = c THEN NoConn ELSE joining
        BY <1>14 DEF HearsClose, Closed
      <4>2. joining = c => page[c].role = "join"
        BY Constants DEF Shape
      <4>3. c # NoConn
        BY Constants
      <4> QED BY <1>1, <4>1, <4>2, <4>3
    <3>3. CASE (\E cs : page' = Closing(gone, cs)) /\ fromPage' = bye
      <4> HIDE DEF gone
      <4> QED BY <2>1, <3>2, <3>3, ClosingType
    <3>4. ASSUME NEW d \in FreeConns, Opens(gone, bye, d, "enter", page[c].seat), page[c].seat # 0
          PROVE  Ends /\ Froms /\ Same
      <4>1. d \in Conns /\ page[d].role = "none" /\ d # joining
        BY Constants DEF FreeConns, Shape
      <4> HIDE DEF gone
      <4>2. /\ Ends /\ Froms
            /\ \A x \in Conns : page'[x].role = IF x = d THEN "enter" ELSE gone[x].role
        BY <2>1, <3>4, <4>1, OpensTypes
      <4>3. \A x \in Conns : x = joining' => x # d /\ x # c
        BY <3>2, <4>1, Constants
      <4> QED BY <3>2, <4>2, <4>3
    <3> QED BY <3>1, <3>3, <3>4
  <2>4. timers' \subseteq Seats /\ Refs
    <3>1. page[c].role = "enter" => page[c].seat \in Seats
      BY <1>1, Constants DEF End
    <3> QED BY <1>1, <1>14, <3>1 DEF HearsClose, Closed, Waits
  <2> QED BY <1>0, <1>14, <2>2, <2>3, <2>4 DEF HearsClose
<1> QED BY <1>3, <1>4, <1>5, <1>6, <1>7, <1>8, <1>9, <1>10, <1>11, <1>12, <1>13, <1>14
        DEF PageHears

\* Every step keeps the types.
LEMMA ShapeStep ==
  ASSUME Shape, SeatLeft, [Next]_vars
  PROVE  Shape'
<1> USE DEF host, room, wires, pageVars, counts
<1>1. CASE Stop \/ RoomForgets \/ \E n \in Seats : RemoveGuest(n)
  BY <1>1 DEF Stop, RoomForgets, RemoveGuest, Shape
<1>2. CASE UNCHANGED vars
  BY <1>2 DEF vars, Shape
<1>3. CASE \/ \E c \in Conns : \/ Join(c) \/ PageHears(c) \/ HandshakeTimesOut(c) \/ LoseGuest(c)
           \/ \E n \in Seats : Reconnect(n)
           \/ CancelJoin \/ Leave \/ Again
  BY <1>3, PageSteps
<1>4. CASE (\E h \in Dials : RoomHears(h)) \/ \E c \in Conns : RoomHearsPage(c)
  BY <1>4, RoomTypes
<1>5. CASE HostSteps \/ DialFails \/ \E h \in Dials : LoseHost(h)
  BY <1>5, HostTypes
<1>6. CASE \E c \in Conns : Answer(c) \/ SessionTimesOut(c) \/ SessionEnds(c)
  BY <1>6, SessionTypes
<1>7. CASE Next
  <2>1. CASE People
    BY <1>1, <1>3, <1>6, <2>1 DEF People
  <2>2. CASE Faults
    BY <1>1, <1>3, <1>5, <1>6, <2>2 DEF Faults
  <2> QED BY <1>3, <1>4, <1>5, <1>6, <1>7, <2>1, <2>2 DEF Next
<1> QED BY <1>2, <1>7

-----------------------------------------------------------------------------
(* The room and the host agree.                                            *)

\* Where nobody comes, a word that stays on its queue, or gives way to the next of
\* its guest, leaves every guest known.
LEMMA StillKnown ==
  ASSUME GuestsKnown, OpenGuests' \subseteq OpenGuests, OpenHosts' \subseteq OpenHosts,
         \A h \in OpenHosts' : Held(h)' => Held(h),
         ASSUME NEW c \in OpenGuests', NEW h \in OpenHosts', Held(h), Held(h)'
         PROVE  /\ session[c].at # "none" => session'[c].at # "none" \/ Ending(fromHost'[h], c)
                /\ Opening(toHost[h], c) => \/ Opening(toHost'[h], c)
                                            \/ session'[c].at # "none"
                                            \/ Ending(fromHost'[h], c)
                /\ Ending(fromHost[h], c) => Ending(fromHost'[h], c)
  PROVE  GuestsKnown'
BY DEF GuestsKnown

\* What is still on a queue still says so.
LEMMA MoreSaid ==
  ASSUME NEW q, NEW r, Range(q) \subseteq Range(r), NEW c
  PROVE  (Opening(q, c) => Opening(r, c)) /\ (Ending(q, c) => Ending(r, c))
BY DEF Opening, Ending

\* A word taken off a queue takes only what it said.
LEMMA HeadRead ==
  ASSUME NEW q \in Seq(Message), q # <<>>, NEW c
  PROVE  /\ Head(q).t \notin {"bye", "open"} => (Opening(q, c) => Opening(Tail(q), c))
         /\ Head(q).t \notin {"bye", "close"} => (Ending(q, c) => Ending(Tail(q), c))
         /\ Head(q).t # "bye" /\ Head(q).c # c
              => (Opening(q, c) => Opening(Tail(q), c)) /\ (Ending(q, c) => Ending(Tail(q), c))
<1>1. Range(q) = {Head(q)} \cup Range(Tail(q))
  BY RangeTail
<1> QED BY <1>1 DEF Opening, Ending, Tagged

\* The steps of the room.
LEMMA RoomAgrees ==
  ASSUME IInv, \/ \E h \in Dials : RoomHears(h)
               \/ \E c \in Conns : RoomHearsPage(c)
  PROVE  NoGuestStranded' /\ EndedEmpty' /\ WillForget' /\ GuestsKnown'
<1> USE DEF host, room, wires, pageVars, counts
<1>0. Shape /\ NoGuestStranded /\ EndedEmpty /\ WillForget /\ GuestsKnown
  BY DEF IInv
<1>1. ASSUME NEW h \in Dials, RoomHost(h)
      PROVE  NoGuestStranded' /\ EndedEmpty' /\ WillForget' /\ GuestsKnown'
  <2>1. OpenGuests' = {}
    BY <1>0, <1>1, CloseGuestsType, Constants DEF RoomHost, Displaced, Words, Codes
  <2>2. h \in OpenHosts' /\ ended' = FALSE
    BY <1>0, <1>1 DEF RoomHost, OpenHosts, Shape
  <2> QED BY <2>1, <2>2 DEF NoGuestStranded, EndedEmpty, WillForget, GuestsKnown
<1>2. ASSUME NEW c \in Conns, RoomGuest(c)
      PROVE  NoGuestStranded' /\ EndedEmpty' /\ WillForget' /\ GuestsKnown'
  <2>1. OpenHosts' = OpenHosts /\ UNCHANGED <<ended, claimed, alarm, link, dial, session, fromHost>>
    BY <1>2 DEF RoomGuest, OpenHosts
  <2>2. CASE UNCHANGED <<guestSock, toHost>>
    BY <1>0, <2>1, <2>2
       DEF NoGuestStranded, EndedEmpty, WillForget, GuestsKnown, OpenGuests, Held
  <2>3. CASE ~UNCHANGED <<guestSock, toHost>>
    <3>1. OpenHosts # {} /\ guestSock' = [guestSock EXCEPT ![c] = "open"] /\ Announce("open", c, 0)
      BY <1>2, <2>3 DEF RoomGuest
    <3>2. /\ \A h \in Dials : Range(toHost[h]) \subseteq Range(toHost'[h])
          /\ \A h \in OpenHosts : Held(h) => Tagged("open", c, 0) \in Range(toHost'[h])
      BY <1>0, <3>1, AnnounceQueues, Constants DEF Words
    <3>3. \A g \in OpenGuests' : g = c \/ g \in OpenGuests
      BY <1>0, <3>1 DEF OpenGuests, Shape
    <3>4. ASSUME NEW g \in OpenGuests', NEW h \in OpenHosts', Held(h)'
          PROVE  session'[g].at # "none" \/ Opening(toHost'[h], g) \/ Ending(fromHost'[h], g)
      <4>1. h \in Dials /\ h \in OpenHosts /\ Held(h)
        BY <2>1, <3>4 DEF OpenHosts, Held
      <4>2. CASE g = c
        BY <3>2, <4>1, <4>2 DEF Opening
      <4>3. CASE g \in OpenGuests
        BY <1>0, <2>1, <3>2, <4>1, <4>3, MoreSaid DEF GuestsKnown
      <4> QED BY <3>3, <4>2, <4>3
    <3> QED BY <1>0, <2>1, <3>1, <3>4 DEF NoGuestStranded, EndedEmpty, WillForget, GuestsKnown
  <2> QED BY <2>2, <2>3
<1>3. ASSUME NEW c \in Conns, RoomForwards(c) \/ GuestLeft(c)
      PROVE  NoGuestStranded' /\ EndedEmpty' /\ WillForget' /\ GuestsKnown'
  <2>1. OpenHosts' = OpenHosts /\ UNCHANGED <<ended, claimed, alarm, link, dial, session, fromHost>>
    BY <1>3 DEF RoomForwards, GuestLeft, OpenHosts
  <2>2. OpenGuests' \subseteq OpenGuests
    <3>1. CASE RoomForwards(c)
      BY <1>0, <3>1, CloseGuestsType, Constants DEF RoomForwards, OpenGuests, Words, Codes
    <3>2. CASE GuestLeft(c)
      BY <1>0, <3>2 DEF GuestLeft, OpenGuests, Shape
    <3> QED BY <1>3, <3>1, <3>2
  <2>3. \A h \in Dials : Range(toHost[h]) \subseteq Range(toHost'[h])
    <3>1. CASE RoomForwards(c)
      <4>1. fromPage[c] \in Seq(Note) /\ fromPage[c] # <<>>
        BY <1>0, <3>1 DEF RoomForwards, Shape
      <4>2. Head(fromPage[c]) \in Note
        BY <4>1, RangeTail
      <4>3. Head(fromPage[c]).t \in Words /\ Head(fromPage[c]).n \in Numbers
        BY <4>2, Constants DEF Note
      <4> QED BY <1>0, <3>1, <4>3, AnnounceQueues, Constants DEF RoomForwards
    <3>2. CASE GuestLeft(c)
      BY <1>0, <3>2, AnnounceQueues, Constants DEF GuestLeft, Words
    <3> QED BY <1>3, <3>1, <3>2
  <2>4. GuestsKnown'
    <3>1. ASSUME NEW g \in OpenGuests', NEW h \in OpenHosts', Held(h), Held(h)'
          PROVE  /\ session[g].at # "none" => session'[g].at # "none" \/ Ending(fromHost'[h], g)
                 /\ Opening(toHost[h], g) => \/ Opening(toHost'[h], g)
                                             \/ session'[g].at # "none"
                                             \/ Ending(fromHost'[h], g)
                 /\ Ending(fromHost[h], g) => Ending(fromHost'[h], g)
      BY <2>1, <2>3, MoreSaid DEF OpenHosts
    <3>2. \A h \in OpenHosts' : Held(h)' => Held(h)
      BY <2>1 DEF Held
    <3> QED BY <1>0, <2>1, <2>2, <3>1, <3>2, StillKnown
  <2> QED BY <1>0, <2>1, <2>2, <2>4 DEF NoGuestStranded, EndedEmpty, WillForget
<1>4. ASSUME NEW h \in Dials, HostLeft(h)
      PROVE  NoGuestStranded' /\ EndedEmpty' /\ WillForget' /\ GuestsKnown'
  <2>1. /\ OpenHosts' = OpenHosts \ {h}
        /\ UNCHANGED <<ended, claimed, link, dial, session, toHost>>
        /\ \A d \in Dials : d # h => fromHost'[d] = fromHost[d]
    BY <1>0, <1>4 DEF HostLeft, OpenHosts, Shape
  <2>2. CASE OthersOpen(h)
    <3>1. OpenGuests' = OpenGuests /\ OpenHosts' # {}
      BY <1>4, <2>1, <2>2 DEF HostLeft, OthersOpen, OpenGuests
    <3>2. \A d \in OpenHosts' : d # h /\ d \in Dials /\ d \in OpenHosts
      BY <2>1 DEF OpenHosts
    <3>3. GuestsKnown'
      BY <1>0, <2>1, <3>1, <3>2 DEF GuestsKnown, Held
    <3> QED BY <1>0, <2>1, <3>1, <3>3 DEF NoGuestStranded, EndedEmpty, WillForget
  <2>3. CASE ~OthersOpen(h)
    <3>1. OpenGuests' = {} /\ OpenHosts' = {}
      BY <1>0, <1>4, <2>1, <2>3, CloseGuestsType, Constants
         DEF HostLeft, OthersOpen, OpenGuests, Words, Codes
    <3>2. alarm' = (alarm \/ claimed)
      BY <1>4, <2>3 DEF HostLeft
    <3>3. WillForget'
      BY <1>0, <2>1, <3>2 DEF WillForget, EndedEmpty
    <3> QED BY <3>1, <3>3 DEF NoGuestStranded, EndedEmpty, GuestsKnown
  <2> QED BY <2>2, <2>3
<1>5. ASSUME NEW h \in Dials, RoomClosesGuest(h) \/ RoomDelivers(h)
      PROVE  NoGuestStranded' /\ EndedEmpty' /\ WillForget' /\ GuestsKnown'
  <2>1. OpenHosts' = OpenHosts /\ UNCHANGED <<ended, claimed, alarm, link, dial, session, toHost>>
    BY <1>5 DEF RoomClosesGuest, RoomDelivers, OpenHosts
  <2>2. /\ fromHost[h] \in Seq(Message) /\ fromHost[h] # <<>>
        /\ fromHost'[h] = Tail(fromHost[h]) /\ \A d \in Dials : d # h => fromHost'[d] = fromHost[d]
    BY <1>0, <1>5 DEF RoomClosesGuest, RoomDelivers, Shape
  <2>3. /\ OpenGuests' \subseteq OpenGuests
        /\ Head(fromHost[h]).t # "bye"
        /\ Head(fromHost[h]).t = "close" => Head(fromHost[h]).c \notin OpenGuests'
    BY <1>0, <1>5, CloseGuestsType, Constants DEF RoomClosesGuest, RoomDelivers, OpenGuests, Words, Codes
  <2>4. ASSUME NEW g \in OpenGuests', NEW d \in Dials, Ending(fromHost[d], g)
        PROVE  Ending(fromHost'[d], g)
    BY <2>2, <2>3, <2>4, HeadRead
  <2>5. GuestsKnown'
    BY <1>0, <2>1, <2>3, <2>4 DEF GuestsKnown, Held, OpenHosts
  <2> QED BY <1>0, <2>1, <2>3, <2>5 DEF NoGuestStranded, EndedEmpty, WillForget
<1>6. ASSUME NEW h \in Dials, RoomEnds(h)
      PROVE  NoGuestStranded' /\ EndedEmpty' /\ WillForget' /\ GuestsKnown'
  <2>1. OpenGuests' = {}
    BY <1>0, <1>6, CloseGuestsType, Constants DEF RoomEnds, OpenGuests, Words, Codes
  <2>2. OpenHosts' = {} /\ alarm' = TRUE
    BY <1>0, <1>6 DEF RoomEnds, OpenHosts, Shape
  <2> QED BY <2>1, <2>2 DEF NoGuestStranded, EndedEmpty, WillForget, GuestsKnown
<1> QED BY <1>1, <1>2, <1>3, <1>4, <1>5, <1>6 DEF RoomHears, RoomHearsPage

\* The steps of the sharing machine.
LEMMA HostAgrees ==
  ASSUME IInv, SeatLeft, \/ HostSteps \/ DialFails \/ \E h \in Dials : LoseHost(h)
               \/ \E c \in Conns : Answer(c) \/ SessionTimesOut(c) \/ SessionEnds(c)
  PROVE  NoGuestStranded' /\ EndedEmpty' /\ WillForget' /\ GuestsKnown'
<1> USE DEF host, room, wires, pageVars, counts
<1>0. Shape /\ NoGuestStranded /\ EndedEmpty /\ WillForget /\ GuestsKnown
  BY DEF IInv
<1>1. OpenHosts' = OpenHosts /\ OpenGuests' = OpenGuests /\ UNCHANGED <<ended, claimed, alarm>>
  <2>1. ASSUME NEW h \in Dials, Dial(h)
        PROVE  OpenHosts' = OpenHosts /\ OpenGuests' = OpenGuests /\ UNCHANGED <<ended, claimed, alarm>>
    BY <1>0, <2>1 DEF Dial, FreeDials, OpenHosts, OpenGuests, Shape
  <2>2. CASE UNCHANGED room
    BY <2>2 DEF OpenHosts, OpenGuests
  <2> QED BY <2>1, <2>2 DEF HostSteps, Dialed, EndsRoom, ReadsClose, ReadsOpen, ReadsGone, ReadsFrame,
             DialFails, LoseHost, Answer, SessionTimesOut, SessionEnds
<1>2. NoGuestStranded' /\ EndedEmpty' /\ WillForget'
  BY <1>0, <1>1 DEF NoGuestStranded, EndedEmpty, WillForget
<1> SUFFICES GuestsKnown'
  BY <1>2
<1>3. ASSUME ASSUME NEW c \in OpenGuests, NEW h \in OpenHosts, Held(h), Held(h)'
             PROVE  /\ session[c].at # "none" => session'[c].at # "none" \/ Ending(fromHost'[h], c)
                    /\ Opening(toHost[h], c) => \/ Opening(toHost'[h], c)
                                                \/ session'[c].at # "none"
                                                \/ Ending(fromHost'[h], c)
                    /\ Ending(fromHost[h], c) => Ending(fromHost'[h], c),
             \A h \in OpenHosts' : Held(h)' => Held(h)
      PROVE  GuestsKnown'
  BY <1>0, <1>1, <1>3, StillKnown
<1>4. ASSUME NEW h \in Dials, Dial(h) PROVE GuestsKnown'
  <2>1. link' = "dialing" /\ dial' = h /\ hostSock'[h] # "open"
    BY <1>0, <1>4 DEF Dial, Shape
  <2> QED BY <2>1 DEF GuestsKnown, OpenHosts, Held
<1>5. CASE Dialed
  <2>1. dial \in Dials /\ UNCHANGED <<dial, session, fromHost>> /\ \A h \in Dials : Held(h)' = Held(h)
    BY <1>0, <1>5 DEF Dialed, Held, Shape
  <2>2. /\ toHost[dial] \in Seq(Message) /\ toHost[dial] # <<>> /\ Head(toHost[dial]).t = "upgraded"
        /\ toHost'[dial] = Tail(toHost[dial])
    BY <1>0, <1>5, <2>1 DEF Dialed, Shape
  <2>3. ASSUME NEW c, Opening(toHost[dial], c) PROVE Opening(toHost'[dial], c)
    BY <2>2, <2>3, HeadRead
  <2> QED BY <1>3, <2>1, <2>3 DEF Held, OpenHosts
<1>6. CASE link' \in {"off", "done"}
  BY <1>6 DEF GuestsKnown, Held
<1>7. CASE EndsRoom \/ ReadsClose \/ DialFails
  <2>1. link' \in {"off", "done"}
    BY <1>7 DEF EndsRoom, ReadsClose, DialFails, HangUp
  <2> QED BY <1>6, <2>1
<1>8. ASSUME Reads({"open", "close", "first", "join", "auth"}), toHost' = Rest, UNCHANGED <<link, dial>>
      PROVE  /\ dial \in Dials /\ Msg \in Message /\ Msg.c \in Conns
             /\ Msg.t # "bye" /\ \A h \in Dials : Held(h)' = Held(h)
             /\ \A c : Msg.t # "open" \/ Msg.c # c
                          => (Opening(toHost[dial], c) => Opening(toHost'[dial], c))
  <2>1. dial \in Dials /\ toHost[dial] # <<>> /\ Msg.t # "bye"
    BY <1>0, <1>8 DEF Reads, Shape
  <2>2. toHost[dial] \in Seq(Message) /\ toHost'[dial] = Tail(toHost[dial]) /\ Msg = Head(toHost[dial])
    BY <1>0, <1>8, <2>1 DEF Rest, Shape, Msg
  <2>3. Msg \in Message
    BY <1>0, <2>1, RestQueues
  <2>4. Msg.c \in Conns
    <3>1. Msg.t \notin {"upgraded", "bye", "end"}
      BY <1>8 DEF Reads
    <3> QED BY <2>3, <3>1 DEF Message
  <2>5. \A h \in Dials : Held(h)' = Held(h)
    BY <1>8 DEF Held
  <2> QED BY <2>1, <2>2, <2>3, <2>4, <2>5, HeadRead
<1>9. CASE ReadsOpen
  <2>1. /\ dial \in Dials /\ Msg.c \in Conns /\ \A h \in Dials : Held(h)' = Held(h)
        /\ \A c : Msg.c # c => (Opening(toHost[dial], c) => Opening(toHost'[dial], c))
    BY <1>8, <1>9 DEF ReadsOpen, Reads
  <2>2. PICK m \in Message : m = Tagged("close", Msg.c, 0)
    BY <2>1, TaggedType, Constants DEF Words
  <2>3. PICK msgs \in Seq(Message) : msgs = <<m>> /\ Range(msgs) = {m}
    BY RangeOne
  <2>4. \/ /\ fromHost' = fromHost
           /\ session' = [session EXCEPT ![Msg.c] = [at |-> "handshake", seat |-> 0]]
        \/ session' = session /\ Says(msgs)
    BY <1>9, <2>2, <2>3 DEF ReadsOpen
  <2>5. CASE /\ fromHost' = fromHost
             /\ session' = [session EXCEPT ![Msg.c] = [at |-> "handshake", seat |-> 0]]
    <3>1. \A c \in Conns : /\ session[c].at # "none" => session'[c].at # "none"
                           /\ c = Msg.c => session'[c].at # "none"
      BY <1>0, <2>5 DEF Shape
    <3> QED BY <1>3, <2>1, <2>5, <3>1 DEF Held, OpenHosts, OpenGuests
  <2>6. CASE session' = session /\ Says(msgs)
    <3>1. Range(fromHost'[dial]) = Range(fromHost[dial]) \cup {m}
      BY <1>0, <2>1, <2>3, <2>6, SaysQueues
    <3>2. Range(fromHost[dial]) \subseteq Range(fromHost'[dial]) /\ Ending(fromHost'[dial], Msg.c)
      BY <2>2, <3>1 DEF Ending
    <3>3. \A c : Ending(fromHost[dial], c) => Ending(fromHost'[dial], c)
      BY <3>2, MoreSaid
    <3> QED BY <1>3, <2>1, <2>6, <3>2, <3>3 DEF Held, OpenHosts
  <2> QED BY <2>4, <2>5, <2>6
\* A session that ends is on its way to be closed.
<1>10. ASSUME NEW c \in Conns, NEW frames \in Seq(Message), EndSession(c, frames),
              dial \in Dials
       PROVE  /\ \A g \in Conns : session[g].at # "none"
                                    => session'[g].at # "none" \/ Ending(fromHost'[dial], g)
              /\ \A g : Ending(fromHost[dial], g) => Ending(fromHost'[dial], g)
  <2>1. /\ \A d \in Conns : session'[d] = IF d = c THEN NoSession ELSE session[d]
        /\ Range(fromHost[dial]) \subseteq Range(fromHost'[dial])
        /\ Tagged("close", c, 0) \in Range(fromHost'[dial])
    BY <1>0, <1>10, EndSessionQueues, Constants
  <2>2. Ending(fromHost'[dial], c)
    BY <2>1 DEF Ending
  <2> QED BY <2>1, <2>2, MoreSaid
<1>11. CASE ReadsGone
  <2>1. /\ dial \in Dials /\ Msg.c \in Conns /\ \A h \in Dials : Held(h)' = Held(h)
        /\ \A c : Opening(toHost[dial], c) => Opening(toHost'[dial], c)
    BY <1>8, <1>11 DEF ReadsGone, Reads
  <2>2. \/ UNCHANGED <<session, fromHost>>
        \/ EndSession(Msg.c, <<>>)
    BY <1>11 DEF ReadsGone
  <2>3. /\ \A g \in Conns : session[g].at # "none"
                              => session'[g].at # "none" \/ Ending(fromHost'[dial], g)
        /\ \A g : Ending(fromHost[dial], g) => Ending(fromHost'[dial], g)
    BY <1>10, <2>1, <2>2, EmptySeq
  <2> QED BY <1>3, <2>1, <2>3 DEF Held, OpenHosts, OpenGuests
<1>12. CASE ReadsFrame
  <2>1. /\ dial \in Dials /\ Msg.c \in Conns /\ \A h \in Dials : Held(h)' = Held(h)
        /\ \A c : Opening(toHost[dial], c) => Opening(toHost'[dial], c)
    BY <1>8, <1>12 DEF ReadsFrame, Reads
  <2>2. ASSUME NEW w \in {"reply", "error", "ready"}
        PROVE  <<Tagged(w, Msg.c, 0)>> \in Seq(Message)
    BY <2>1, TaggedType, RangeOne, Constants DEF Words
  <2>3. \/ /\ \A g \in Conns : session[g].at # "none" => session'[g].at # "none"
           /\ \/ fromHost' = fromHost
              \/ \E w \in {"reply", "ready"} : Says(<<Tagged(w, Msg.c, 0)>>)
        \/ EndSession(Msg.c, <<Tagged("error", Msg.c, 0)>>)
    <3>1. \/ UNCHANGED <<session, fromHost>>
          \/ /\ session' = [session EXCEPT ![Msg.c].at = "first"]
             /\ Says(<<Tagged("reply", Msg.c, 0)>>)
          \/ session' = [session EXCEPT ![Msg.c].at = "asked"] /\ UNCHANGED fromHost
          \/ /\ session' = [session EXCEPT ![Msg.c] = [at |-> "live", seat |-> Msg.n]]
             /\ Says(<<Tagged("ready", Msg.c, 0)>>)
          \/ EndSession(Msg.c, <<Tagged("error", Msg.c, 0)>>)
      BY <1>12 DEF ReadsFrame
    <3>2. ASSUME NEW w \in {"first", "asked"}, session' = [session EXCEPT ![Msg.c].at = w],
                 NEW g \in Conns, session[g].at # "none"
          PROVE  session'[g].at # "none"
      BY <1>0, <3>2, Constants DEF Shape, Standing
    <3>3. ASSUME session' = [session EXCEPT ![Msg.c] = [at |-> "live", seat |-> Msg.n]],
                 NEW g \in Conns, session[g].at # "none"
          PROVE  session'[g].at # "none"
      BY <1>0, <3>3 DEF Shape
    <3> QED BY <3>1, <3>2, <3>3
  <2>4. ASSUME NEW w \in {"reply", "ready"}, Says(<<Tagged(w, Msg.c, 0)>>)
        PROVE  \A g : Ending(fromHost[dial], g) => Ending(fromHost'[dial], g)
    <3>1. Range(fromHost[dial]) \subseteq Range(fromHost'[dial])
      BY <1>0, <2>1, <2>2, <2>4, SaysQueues
    <3> QED BY <3>1, MoreSaid
  <2>5. /\ \A g \in Conns : session[g].at # "none"
                              => session'[g].at # "none" \/ Ending(fromHost'[dial], g)
        /\ \A g : Ending(fromHost[dial], g) => Ending(fromHost'[dial], g)
    BY <1>10, <2>1, <2>2, <2>3, <2>4
  <2> QED BY <1>3, <2>1, <2>5 DEF Held, OpenHosts, OpenGuests
<1>13. ASSUME NEW c \in Conns, Answer(c) \/ SessionTimesOut(c) \/ SessionEnds(c) PROVE GuestsKnown'
  <2>1. PICK frames \in Seq(Message) : EndSession(c, frames)
    BY <1>0, <1>13, SessionTypes
  <2>2. dial \in Dials
    BY <1>0, <1>13, SessionTypes
  <2>3. UNCHANGED <<link, dial, toHost>>
    BY <1>13 DEF Answer, SessionTimesOut, SessionEnds
  <2>4. /\ \A g \in Conns : session[g].at # "none"
                              => session'[g].at # "none" \/ Ending(fromHost'[dial], g)
        /\ \A g : Ending(fromHost[dial], g) => Ending(fromHost'[dial], g)
    BY <1>10, <2>1, <2>2
  <2> QED BY <1>3, <2>3, <2>4 DEF Held, OpenHosts, OpenGuests
<1>14. ASSUME NEW h \in Dials, LoseHost(h) PROVE GuestsKnown'
  <2>1. UNCHANGED <<link, dial, session>> /\ Held(h) /\ toHost'[h] = <<Plain("bye")>>
    BY <1>0, <1>14 DEF LoseHost, Shape
  <2>2. \A c : Opening(toHost'[h], c)
    <3>1. Plain("bye") \in Range(toHost'[h])
      BY <2>1, TaggedType, RangeOne, Constants DEF Plain, Words
    <3> QED BY <3>1 DEF Opening, Plain, Tagged
  <2>3. \A d \in OpenHosts' : Held(d)' => d = h
    BY <2>1 DEF Held
  <2> QED BY <2>2, <2>3 DEF GuestsKnown
<1> QED BY <1>4, <1>5, <1>7, <1>9, <1>11, <1>12, <1>13, <1>14 DEF HostSteps

-----------------------------------------------------------------------------
(* Errands.                                                                *)

\* What a queue r carries of K is some of what q carries.
Part(r, q, K) ==
  /\ \A i \in 1 .. Len(r) : r[i] \in K => \E j \in 1 .. Len(q) : q[j] = r[i]
  /\ Few(q, K) => Few(r, K)

\* A queue itself; one with nothing of K.
LEMMA PartQuiet ==
  ASSUME NEW q, NEW r, NEW K
  PROVE  Part(q, q, K) /\ (Quiet(r, K) => Part(r, q, K)) /\ (Part(r, q, K) /\ Quiet(q, K) => Quiet(r, K))
BY DEF Part, Few, Quiet

\* What is left once its head is read.
LEMMA PartTail ==
  ASSUME NEW S, NEW q \in Seq(S), q # <<>>, NEW K
  PROVE  /\ Part(Tail(q), q, K)
         /\ Head(q) \in K => ~ Quiet(q, K)
         /\ Head(q) \in K /\ Few(q, K) => Quiet(Tail(q), K)
<1>1. /\ Len(q) \in Nat \ {0} /\ Len(Tail(q)) = Len(q) - 1 /\ Head(q) = q[1]
      /\ \A i \in 1 .. Len(Tail(q)) : Tail(q)[i] = q[i + 1]
  BY HeadTailProperties, EmptySeq
<1>2. 1 \in 1 .. Len(q) /\ \A i \in 1 .. Len(Tail(q)) : i + 1 \in 1 .. Len(q) /\ i + 1 # 1
  BY <1>1
<1>3. Few(q, K) => Few(Tail(q), K)
  <2>1. ASSUME Few(q, K), NEW i \in 1 .. Len(Tail(q)), NEW j \in 1 .. Len(Tail(q)),
               Tail(q)[i] \in K, Tail(q)[j] \in K
        PROVE  i = j
    <3>1. i + 1 = j + 1
      BY <1>1, <1>2, <2>1 DEF Few
    <3> QED BY <1>1, <3>1
  <2> QED BY <2>1 DEF Few
<1>4. \A i \in 1 .. Len(Tail(q)) : \E j \in 1 .. Len(q) : q[j] = Tail(q)[i]
  BY <1>1, <1>2
<1>5. Head(q) \in K => ~ Quiet(q, K)
  BY <1>1, <1>2 DEF Quiet
<1>6. Head(q) \in K /\ Few(q, K) => Quiet(Tail(q), K)
  BY <1>1, <1>2 DEF Quiet, Few
<1> QED BY <1>3, <1>4, <1>5, <1>6 DEF Part

\* What is there once more is said.
LEMMA PartConcat ==
  ASSUME NEW S, NEW q \in Seq(S), NEW r \in Seq(S), NEW K
  PROVE  /\ Quiet(r, K) => Part(q \o r, q, K)
         /\ Quiet(q, K) => /\ Part(q \o r, r, K)
                           /\ Few(r, K) => Few(q \o r, K)
<1>1. /\ Len(q) \in Nat /\ Len(r) \in Nat /\ Len(q \o r) = Len(q) + Len(r)
      /\ \A i \in 1 .. Len(q) + Len(r) :
           (q \o r)[i] = IF i <= Len(q) THEN q[i] ELSE r[i - Len(q)]
  BY ConcatProperties
<1>2. \A i \in 1 .. Len(q \o r) :
        \/ i \in 1 .. Len(q) /\ (q \o r)[i] = q[i]
        \/ i - Len(q) \in 1 .. Len(r) /\ (q \o r)[i] = r[i - Len(q)]
  BY <1>1
<1>3. ASSUME Quiet(r, K) PROVE Part(q \o r, q, K)
  <2>1. \A i \in 1 .. Len(q \o r) : (q \o r)[i] \in K => i \in 1 .. Len(q) /\ (q \o r)[i] = q[i]
    BY <1>2, <1>3 DEF Quiet
  <2> QED BY <2>1 DEF Part, Few
<1>4. ASSUME Quiet(q, K)
      PROVE  Part(q \o r, r, K) /\ (Few(r, K) => Few(q \o r, K))
  <2>1. \A i \in 1 .. Len(q \o r) :
          (q \o r)[i] \in K => i - Len(q) \in 1 .. Len(r) /\ (q \o r)[i] = r[i - Len(q)]
    BY <1>2, <1>4 DEF Quiet
  <2>2. ASSUME Few(r, K), NEW i \in 1 .. Len(q \o r), NEW j \in 1 .. Len(q \o r),
               (q \o r)[i] \in K, (q \o r)[j] \in K
        PROVE  i = j
    <3>1. i - Len(q) = j - Len(q)
      BY <2>1, <2>2 DEF Few
    <3> QED BY <1>1, <3>1
  <2>3. Few(r, K) => Few(q \o r, K)
    BY <2>2 DEF Few
  <2> QED BY <2>1, <2>3 DEF Part
<1> QED BY <1>3, <1>4

\* One more message.
LEMMA PartAppend ==
  ASSUME NEW S, NEW q \in Seq(S), NEW x \in S, NEW K
  PROVE  /\ x \notin K => Part(Append(q, x), q, K)
         /\ Quiet(q, K) => /\ Few(Append(q, x), K)
                           /\ \A i \in 1 .. Len(Append(q, x)) : Append(q, x)[i] \in K => Append(q, x)[i] = x
<1>1. PICK r \in Seq(S) : r = <<x>>
  BY RangeOne
<1>2. Len(r) = 1 /\ r[1] = x
  BY <1>1
<1>3. Append(q, x) = q \o r
  BY <1>1, AppendIsConcat
<1>4. Few(r, K) /\ (x \notin K => Quiet(r, K))
  BY <1>2 DEF Few, Quiet
<1>5. Quiet(q, K) => \A i \in 1 .. Len(q \o r) : (q \o r)[i] \in K => (q \o r)[i] = x
  BY <1>2, PartConcat DEF Part
<1> QED BY <1>3, <1>4, <1>5, PartConcat

\* A step after which c has no more to ask with than before.
Keeps(c) ==
  /\ Part(fromPage'[c], fromPage[c], PageErrand)
  /\ Part(HostQueue', HostQueue, HostErrand(c))
  /\ session'[c].at \in {"handshake", "asked"} => session'[c].at = session[c].at
  /\ \A h \in Dials : Part(fromHost'[h], fromHost[h], Replies(c))
  /\ Part(toPage'[c], toPage[c], Reply)

\* It leaves c what it was.
LEMMA KeepsErrand ==
  ASSUME NEW c \in Conns, OneErrand(c), Keeps(c)
  PROVE  OneErrand(c)' /\ (Asks(c)' => Asks(c)) /\ (MayAsk(c)' => MayAsk(c))
<1>1. /\ Few(fromPage[c], PageErrand)' /\ Few(HostQueue, HostErrand(c))'
      /\ \A h \in Dials : Few(fromHost[h], Replies(c))'
      /\ Few(toPage[c], Reply)'
  BY DEF OneErrand, Keeps, Part
<1>2. /\ Quiet(fromPage[c], PageErrand) => Quiet(fromPage[c], PageErrand)'
      /\ Quiet(HostQueue, HostErrand(c)) => Quiet(HostQueue, HostErrand(c))'
      /\ session[c].at \notin {"handshake", "asked"} => session'[c].at \notin {"handshake", "asked"}
      /\ \A h \in Dials : Quiet(fromHost[h], Replies(c)) => Quiet(fromHost[h], Replies(c))'
      /\ Quiet(toPage[c], Reply) => Quiet(toPage[c], Reply)'
  BY PartQuiet DEF Keeps
<1>3. OneErrand(c)'
  BY <1>1, <1>2 DEF OneErrand
<1>4. Asks(c)' => Asks(c)
  BY DEF Asks, Keeps, Part, PageErrand, HostErrand
<1>5. MayAsk(c)' => MayAsk(c)
  BY <1>2 DEF MayAsk, Keeps, Part, PageErrand, HostErrand
<1> QED BY <1>3, <1>4, <1>5

\* Where it is, it is alone.
LEMMA Alone ==
  ASSUME NEW c \in Conns, OneErrand(c)
  PROVE  /\ \/ Quiet(fromPage[c], PageErrand)
            \/ /\ Quiet(HostQueue, HostErrand(c)) /\ session[c].at \notin {"handshake", "asked"}
               /\ \A h \in Dials : Quiet(fromHost[h], Replies(c))
               /\ Quiet(toPage[c], Reply)
         /\ \/ Quiet(HostQueue, HostErrand(c))
            \/ /\ Quiet(fromPage[c], PageErrand) /\ session[c].at \notin {"handshake", "asked"}
               /\ \A h \in Dials : Quiet(fromHost[h], Replies(c))
               /\ Quiet(toPage[c], Reply)
         /\ \/ session[c].at \notin {"handshake", "asked"}
            \/ /\ Quiet(fromPage[c], PageErrand) /\ Quiet(HostQueue, HostErrand(c))
               /\ \A h \in Dials : Quiet(fromHost[h], Replies(c))
               /\ Quiet(toPage[c], Reply)
         /\ \A h \in Dials :
              \/ Quiet(fromHost[h], Replies(c))
              \/ /\ Quiet(fromPage[c], PageErrand) /\ Quiet(HostQueue, HostErrand(c))
                 /\ session[c].at \notin {"handshake", "asked"}
                 /\ \A g \in Dials : g # h => Quiet(fromHost[g], Replies(c))
                 /\ Quiet(toPage[c], Reply)
         /\ \/ Quiet(toPage[c], Reply)
            \/ /\ Quiet(fromPage[c], PageErrand) /\ Quiet(HostQueue, HostErrand(c))
               /\ session[c].at \notin {"handshake", "asked"}
               /\ \A h \in Dials : Quiet(fromHost[h], Replies(c))
BY DEF OneErrand

\* The queue to the host, where there is one, is that of its connection.
LEMMA HostQueueType ==
  ASSUME Shape
  PROVE  /\ HostQueue \in Seq(Message)
         /\ \A h \in Dials : Held(h) => HostQueue = toHost[h]
         /\ link \in {"dialing", "up"} => dial \in Dials /\ Held(dial) /\ HostQueue = toHost[dial]
         /\ link \notin {"dialing", "up"} => HostQueue = <<>>
BY EmptySeq DEF Shape, HostQueue, Held

\* Nobody's errand changes but c's.
LEMMA OthersKeep ==
  ASSUME Errands,
         \A c \in Conns : \/ Keeps(c) /\ (page'[c].role = "join" => page[c].role = "join")
                          \/ OneErrand(c)' /\ (Pends(c)' => Pends(c))
  PROVE  Errands' /\ Pending' \subseteq Pending
<1>1. ASSUME NEW c \in Conns PROVE OneErrand(c)' /\ (Pends(c)' => Pends(c))
  BY KeepsErrand DEF Errands, Pends
<1> QED BY <1>1 DEF Errands, Pending

\* What the relay says of a guest is behind what lpm has to read, or lost.
LEMMA AnnounceErrand ==
  ASSUME Shape, NEW t \in Words, NEW c \in Conns, NEW n \in Numbers, Announce(t, c, n),
         UNCHANGED <<link, dial>>
  PROVE  /\ Tagged(t, c, n) \in Message
         /\ HostQueue' = HostQueue \/ HostQueue' = Append(HostQueue, Tagged(t, c, n))
<1>1. Tagged(t, c, n) \in Message
  BY Constants DEF Tagged, Message
<1>2. ASSUME link \in {"dialing", "up"}
      PROVE  HostQueue' = HostQueue \/ HostQueue' = Append(HostQueue, Tagged(t, c, n))
  <2>1. dial \in Dials /\ HostQueue = toHost[dial] /\ HostQueue' = toHost'[dial]
    BY <1>2, HostQueueType DEF HostQueue
  <2>2. toHost'[dial] = IF dial \in OpenHosts THEN ToHost(dial, <<Tagged(t, c, n)>>)[dial] ELSE toHost[dial]
    BY <2>1 DEF Announce
  <2>3. ToHost(dial, <<Tagged(t, c, n)>>)[dial] \in {toHost[dial], toHost[dial] \o <<Tagged(t, c, n)>>}
    BY <2>1 DEF ToHost, Shape
  <2>4. toHost[dial] \o <<Tagged(t, c, n)>> = Append(toHost[dial], Tagged(t, c, n))
    BY <1>1, <2>1, AppendIsConcat DEF Shape
  <2> QED BY <2>1, <2>2, <2>3, <2>4
<1>3. link \notin {"dialing", "up"} => HostQueue' = HostQueue
  BY DEF HostQueue
<1> QED BY <1>1, <1>2, <1>3

\* What the room itself says to the host is about no guest.
LEMMA PlainErrand ==
  ASSUME Shape, UNCHANGED <<link, dial>>, NEW m \in Message, m.t \notin {"open", "join"},
         \A h \in Dials : toHost'[h] = toHost[h] \/ toHost'[h] = toHost[h] \o <<m>>
  PROVE  \A c \in Conns : Part(HostQueue', HostQueue, HostErrand(c))
<1>1. PICK r \in Seq(Message) : r = <<m>>
  BY RangeOne
<1>2. HostQueue' = HostQueue \/ HostQueue' = HostQueue \o r
  BY <1>1, HostQueueType DEF HostQueue
<1>3. \A c \in Conns : Quiet(r, HostErrand(c))
  <2>1. Len(r) = 1 /\ r[1] = m
    BY <1>1
  <2> QED BY <2>1 DEF Quiet, HostErrand
<1>4. ASSUME NEW c \in Conns
      PROVE  /\ Part(HostQueue, HostQueue, HostErrand(c))
             /\ Part(HostQueue \o r, HostQueue, HostErrand(c))
  BY <1>3, HostQueueType, PartQuiet, PartConcat
<1> QED BY <1>2, <1>4

\* A note that is no reply changes nothing of what a page waits for.
LEMMA NoteErrand ==
  ASSUME Shape, NEW cs, NEW f \in Note, f.t # "reply"
  PROVE  \A c \in Conns : Part(ToPages(cs, f)[c], toPage[c], Reply)
<1>1. f \notin Reply
  BY DEF Reply
<1> QED BY <1>1, PartAppend, PartQuiet DEF ToPages, Shape

\* The room passes errands on.
LEMMA RoomErrands ==
  ASSUME Shape, Errands, \/ \E h \in Dials : RoomHears(h)
                         \/ \E c \in Conns : RoomHearsPage(c)
  PROVE  Errands' /\ Pending' \subseteq Pending
<1> USE DEF host, room, wires, pageVars, counts
<1>1. UNCHANGED <<page, session, link, dial>>
  BY DEF RoomHears, RoomHearsPage, RoomHost, HostLeft, RoomClosesGuest, RoomEnds, RoomDelivers,
         RoomGuest, RoomForwards, GuestLeft
<1>2. /\ HostQueue \in Seq(Message)
      /\ fromPage \in [Conns -> Seq(Note)] /\ toPage \in [Conns -> Seq(Note)]
      /\ fromHost \in [Dials -> Seq(Message)]
  BY HostQueueType DEF Shape
<1>3. \A w \in Words \ {"reply"} : Frame(w, 0) \in Note /\ Frame(w, 0).t # "reply"
  BY Constants DEF Frame, Note
<1>4. \A c \in Conns :
        /\ UNCHANGED fromPage => Part(fromPage'[c], fromPage[c], PageErrand)
        /\ UNCHANGED toHost => Part(HostQueue', HostQueue, HostErrand(c))
        /\ UNCHANGED fromHost => \A h \in Dials : Part(fromHost'[h], fromHost[h], Replies(c))
        /\ UNCHANGED toPage => Part(toPage'[c], toPage[c], Reply)
  BY <1>1, PartQuiet DEF HostQueue
<1>5. ASSUME NEW w \in Words \ {"reply"}, NEW cs, toPage' = ToPages(cs, Frame(w, 0))
      PROVE  \A c \in Conns : Part(toPage'[c], toPage[c], Reply)
  BY <1>3, <1>5, NoteErrand
<1>6. ASSUME NEW h \in Dials, fromHost[h] # <<>>, fromHost' = [fromHost EXCEPT ![h] = Tail(@)]
      PROVE  \A c \in Conns : \A d \in Dials : Part(fromHost'[d], fromHost[d], Replies(c))
  BY <1>2, <1>6, PartTail, PartQuiet
<1>7. ASSUME NEW c \in Conns, fromPage[c] # <<>>, fromPage' = [fromPage EXCEPT ![c] = Tail(@)]
      PROVE  \A d \in Conns : Part(fromPage'[d], fromPage[d], PageErrand)
  BY <1>2, <1>7, PartTail, PartQuiet
<1>8. Plain("bye") \in Message /\ Plain("upgraded") \in Message
  BY TaggedType, Constants DEF Plain, Words
<1>9. ASSUME NEW h \in Dials, RoomHost(h) PROVE \A c \in Conns : Keeps(c)
  <2>1. \A c \in Conns : Part(toPage'[c], toPage[c], Reply)
    BY <1>5, <1>9 DEF RoomHost, CloseGuests, Words, Codes
  <2>2. \A c \in Conns : Part(HostQueue', HostQueue, HostErrand(c))
    <3>1. ASSUME link \in {"dialing", "up"}
          PROVE  \E r \in Seq(Message) : /\ \A c \in Conns : Quiet(r, HostErrand(c))
                                         /\ HostQueue' \in {HostQueue, HostQueue \o r}
      <4>1. dial \in Dials /\ HostQueue = toHost[dial] /\ HostQueue' = toHost'[dial]
        BY <1>1, <3>1, HostQueueType DEF HostQueue
      <4>2. PICK m \in {Plain("bye"), Plain("upgraded")} :
              toHost'[dial] = ToHost(dial, <<m>>)[dial] \/ toHost'[dial] = toHost[dial]
        BY <1>9, <4>1 DEF RoomHost
      <4>3. PICK r \in Seq(Message) : r = <<m>>
        BY <1>8, RangeOne
      <4>4. toHost'[dial] \in {toHost[dial], toHost[dial] \o r}
        BY <4>1, <4>2, <4>3 DEF ToHost, Shape
      <4>5. \A c \in Conns : Quiet(r, HostErrand(c))
        <5>1. Len(r) = 1 /\ r[1] = m /\ m.t \notin {"open", "join"}
          BY <4>3 DEF Plain, Tagged
        <5> QED BY <5>1 DEF Quiet, HostErrand
      <4> QED BY <4>1, <4>4, <4>5
    <3>2. CASE link \in {"dialing", "up"}
      <4>1. PICK r \in Seq(Message) : /\ \A c \in Conns : Quiet(r, HostErrand(c))
                                      /\ HostQueue' \in {HostQueue, HostQueue \o r}
        BY <3>1, <3>2
      <4>2. \A c \in Conns : /\ Part(HostQueue, HostQueue, HostErrand(c))
                             /\ Part(HostQueue \o r, HostQueue, HostErrand(c))
        BY <1>2, <4>1, PartConcat, PartQuiet
      <4> QED BY <4>1, <4>2
    <3>3. CASE link \notin {"dialing", "up"}
      BY <1>1, <3>3, PartQuiet DEF HostQueue
    <3> QED BY <3>2, <3>3
  <2>3. UNCHANGED <<fromPage, fromHost>>
    BY <1>9 DEF RoomHost
  <2> QED BY <1>1, <1>4, <2>1, <2>2, <2>3 DEF Keeps
<1>10. ASSUME NEW h \in Dials, HostLeft(h) \/ RoomClosesGuest(h) \/ RoomEnds(h)
       PROVE  \A c \in Conns : Keeps(c)
  <2>1. \A c \in Conns : Part(toPage'[c], toPage[c], Reply)
    <3>1. UNCHANGED toPage \/ \E w \in {"offline", "closedByHost", "ended"} : \E cs : toPage' = ToPages(cs, Frame(w, 0))
      BY <1>10 DEF HostLeft, RoomClosesGuest, RoomEnds, CloseGuests
    <3> QED BY <1>4, <1>5, <3>1 DEF Words, Codes
  <2>2. \A c \in Conns : Part(HostQueue', HostQueue, HostErrand(c))
    <3>1. CASE RoomEnds(h)
      <4>1. \A d \in Dials : toHost'[d] = toHost[d] \/ toHost'[d] = toHost[d] \o <<Plain("bye")>>
        BY <3>1 DEF RoomEnds, ToHost, Shape
      <4>2. Plain("bye").t \notin {"open", "join"}
        BY DEF Plain, Tagged
      <4> QED BY <1>1, <1>8, <4>1, <4>2, PlainErrand
    <3> QED BY <1>4, <1>10, <3>1 DEF HostLeft, RoomClosesGuest
  <2>3. /\ UNCHANGED fromPage
        /\ fromHost[h] # <<>> /\ fromHost' = [fromHost EXCEPT ![h] = Tail(@)]
    BY <1>10 DEF HostLeft, RoomClosesGuest, RoomEnds
  <2> QED BY <1>1, <1>4, <1>6, <2>1, <2>2, <2>3 DEF Keeps
<1>11. ASSUME NEW h \in Dials, RoomDelivers(h)
       PROVE  \A c \in Conns : Keeps(c) \/ (OneErrand(c)' /\ (Pends(c)' => Pends(c)))
  <2> DEFINE m == Head(fromHost[h])
             f == Frame(m.t, m.n)
  <2>1. /\ fromHost[h] # <<>> /\ fromHost' = [fromHost EXCEPT ![h] = Tail(@)]
        /\ toPage' = ToPages({m.c} \cap OpenGuests, f) /\ UNCHANGED <<fromPage, toHost>>
    BY <1>11 DEF RoomDelivers
  <2>2. m \in Message /\ f \in Note
    BY <1>2, <2>1, RangeTail, Constants DEF Message, Note, Frame
  <2>3. ASSUME NEW c \in Conns, Part(toPage'[c], toPage[c], Reply) PROVE Keeps(c)
    BY <1>1, <1>4, <1>6, <2>1, <2>3 DEF Keeps
  <2>4. ASSUME NEW c \in Conns, m \notin Replies(c) PROVE Part(toPage'[c], toPage[c], Reply)
    <3>1. CASE m.t # "reply"
      BY <2>1, <2>2, <3>1, NoteErrand DEF Frame
    <3>2. CASE m.c # c
      BY <1>2, <2>1, <3>2, PartQuiet DEF ToPages
    <3> QED BY <2>2, <2>4, <3>1, <3>2 DEF Replies
  <2>5. ASSUME NEW c \in Conns, m \in Replies(c) PROVE OneErrand(c)' /\ (Pends(c)' => Pends(c))
    <3>1. OneErrand(c)
      BY DEF Errands
    <3>2. ~ Quiet(fromHost[h], Replies(c)) /\ Quiet(fromHost'[h], Replies(c))
      BY <1>2, <2>1, <2>5, <3>1, PartTail DEF OneErrand
    <3>3. /\ Quiet(fromPage[c], PageErrand) /\ Quiet(HostQueue, HostErrand(c))
          /\ session[c].at \notin {"handshake", "asked"}
          /\ \A g \in Dials : g # h => Quiet(fromHost[g], Replies(c))
          /\ Quiet(toPage[c], Reply)
      BY <3>1, <3>2, Alone
    <3>4. /\ Quiet(fromPage'[c], PageErrand) /\ Quiet(HostQueue', HostErrand(c))
          /\ session'[c].at \notin {"handshake", "asked"}
          /\ \A g \in Dials : Quiet(fromHost'[g], Replies(c))
      BY <1>1, <1>2, <2>1, <3>2, <3>3 DEF HostQueue
    <3>5. Few(toPage'[c], Reply)
      <4>1. toPage'[c] = toPage[c] \/ toPage'[c] = Append(toPage[c], f)
        BY <2>1 DEF ToPages
      <4>2. Few(toPage[c], Reply) /\ Few(Append(toPage[c], f), Reply)
        BY <1>2, <2>2, <3>1, <3>3, PartAppend DEF OneErrand
      <4> QED BY <4>1, <4>2
    <3>6. OneErrand(c)'
      BY <3>4, <3>5 DEF OneErrand, Few, Quiet
    <3>7. ~ Asks(c)'
      BY <3>4 DEF Asks, Quiet
    <3>8. MayAsk(c)
      BY <3>2 DEF MayAsk
    <3> QED BY <1>1, <3>6, <3>7, <3>8 DEF Pends
  <2> QED BY <2>3, <2>4, <2>5
<1>22. ASSUME NEW d, NEW m \in Message, m \notin HostErrand(d)
       PROVE  Part(Append(HostQueue, m), HostQueue, HostErrand(d))
  BY <1>2, <1>22, PartAppend
<1>21. ASSUME HostQueue' = HostQueue, NEW d PROVE Part(HostQueue', HostQueue, HostErrand(d))
  BY <1>21, PartQuiet
<1>12. ASSUME NEW c \in Conns, fromPage[c] # <<>>, fromPage' = [fromPage EXCEPT ![c] = Tail(@)],
              UNCHANGED fromHost, \A d \in Conns : Part(toPage'[d], toPage[d], Reply),
              \A d \in Conns : d # c => Part(HostQueue', HostQueue, HostErrand(d))
       PROVE  \A d \in Conns : d # c => Keeps(d)
  BY <1>1, <1>4, <1>7, <1>12 DEF Keeps
<1>13. ASSUME NEW c \in Conns, NEW m \in Message, m.c = c
       PROVE  \A d \in Conns : d # c => Part(Append(HostQueue, m), HostQueue, HostErrand(d))
  <2>1. \A d \in Conns : d # c => m \notin HostErrand(d)
    BY <1>13 DEF HostErrand
  <2> QED BY <1>2, <2>1, PartAppend
\* The page's word for c is on the queue to the host now, or nowhere.
<1>14. ASSUME NEW c \in Conns, NEW m \in Message, m.c = c, fromPage[c] # <<>>,
              Head(fromPage[c]) \in PageErrand,
              m.t = "join" => Head(fromPage[c]).t = "join",
              m.t \in {"open", "join"},
              fromPage' = [fromPage EXCEPT ![c] = Tail(@)], UNCHANGED fromHost,
              Part(toPage'[c], toPage[c], Reply),
              HostQueue' = HostQueue \/ HostQueue' = Append(HostQueue, m)
       PROVE  OneErrand(c)' /\ (Pends(c)' => Pends(c))
  <2>1. OneErrand(c)
    BY DEF Errands
  <2>2. ~ Quiet(fromPage[c], PageErrand) /\ Quiet(fromPage'[c], PageErrand)
    BY <1>2, <1>14, <2>1, PartTail DEF OneErrand
  <2>3. /\ Quiet(HostQueue, HostErrand(c)) /\ session[c].at \notin {"handshake", "asked"}
        /\ \A g \in Dials : Quiet(fromHost[g], Replies(c))
        /\ Quiet(toPage[c], Reply)
    BY <2>1, <2>2, Alone
  <2>4. /\ session'[c].at \notin {"handshake", "asked"}
        /\ \A g \in Dials : Quiet(fromHost'[g], Replies(c))
        /\ Quiet(toPage'[c], Reply)
    BY <1>1, <1>14, <2>3, PartQuiet
  <2>5. /\ Few(HostQueue', HostErrand(c))
        /\ \A i \in 1 .. Len(HostQueue') : HostQueue'[i] \in HostErrand(c) => HostQueue'[i] = m
    <3>1. /\ Few(Append(HostQueue, m), HostErrand(c))
          /\ \A i \in 1 .. Len(Append(HostQueue, m)) :
               Append(HostQueue, m)[i] \in HostErrand(c) => Append(HostQueue, m)[i] = m
      BY <1>2, <2>3, PartAppend
    <3>2. /\ Few(HostQueue, HostErrand(c))
          /\ \A i \in 1 .. Len(HostQueue) : HostQueue[i] \notin HostErrand(c)
      BY <2>3 DEF Quiet, Few
    <3> QED BY <1>14, <3>1, <3>2
  <2>6. OneErrand(c)'
    BY <2>2, <2>4, <2>5 DEF OneErrand, Few, Quiet
  <2>7. Asks(c)' => Asks(c)
    <3>1. Asks(c)' => m.t = "join"
      BY <2>2, <2>4, <2>5 DEF Asks, Quiet
    <3>2. \E i \in 1 .. Len(fromPage[c]) : fromPage[c][i] = Head(fromPage[c])
      <4>1. Head(fromPage[c]) = fromPage[c][1] /\ 1 \in 1 .. Len(fromPage[c])
        BY <1>2, <1>14, HeadTailProperties, EmptySeq
      <4> QED BY <4>1
    <3> QED BY <1>14, <3>1, <3>2 DEF Asks
  <2>8. MayAsk(c)' => Asks(c) \/ MayAsk(c)
    BY <2>2 DEF Asks, MayAsk, Quiet
  <2>9. MayAsk(c)' => m.t # "join"
    BY <2>2, <2>4, <2>5 DEF MayAsk, Quiet
  <2> QED BY <1>1, <2>6, <2>7, <2>8, <2>9 DEF Pends
<1>15. ASSUME NEW c \in Conns, RoomGuest(c)
       PROVE  \A d \in Conns : Keeps(d) \/ (OneErrand(d)' /\ (Pends(d)' => Pends(d)))
  <2>1. /\ fromPage[c] # <<>> /\ Head(fromPage[c]).t = "connect" /\ UNCHANGED fromHost
        /\ fromPage' = [fromPage EXCEPT ![c] = Tail(@)]
    BY <1>15 DEF RoomGuest
  <2>2. \A d \in Conns : Part(toPage'[d], toPage[d], Reply)
    <3>1. UNCHANGED toPage \/ \E w \in {"ended", "offline", "full"} : \E cs : toPage' = ToPages(cs, Frame(w, 0))
      BY <1>15 DEF RoomGuest
    <3> QED BY <1>4, <1>5, <3>1 DEF Words, Codes
  <2>3. /\ Tagged("open", c, 0) \in Message
        /\ HostQueue' = HostQueue \/ HostQueue' = Append(HostQueue, Tagged("open", c, 0))
    <3>1. CASE Announce("open", c, 0)
      BY <1>1, <3>1, AnnounceErrand, Constants DEF Words
    <3>2. CASE UNCHANGED toHost
      BY <1>1, <3>2, TaggedType, Constants DEF HostQueue, Words
    <3> QED BY <1>15, <3>1, <3>2 DEF RoomGuest
  <2>4. Head(fromPage[c]) \in PageErrand
    BY <1>2, <2>1, RangeTail DEF PageErrand
  <2>5. \A d \in Conns : d # c => Part(HostQueue', HostQueue, HostErrand(d))
    <3>1. Tagged("open", c, 0).c = c
      BY DEF Tagged
    <3> QED BY <1>13, <1>21, <2>3, <3>1
  <2>6. \A d \in Conns : d # c => Keeps(d)
    BY <1>12, <2>1, <2>2, <2>5
  <2>7. OneErrand(c)' /\ (Pends(c)' => Pends(c))
    <3>1. /\ Tagged("open", c, 0).c = c /\ Tagged("open", c, 0).t = "open"
      BY DEF Tagged
    <3> QED BY <1>14, <2>1, <2>2, <2>3, <2>4, <3>1
  <2> QED BY <2>6, <2>7
<1>16. ASSUME NEW c \in Conns, RoomForwards(c)
       PROVE  \A d \in Conns : Keeps(d) \/ (OneErrand(d)' /\ (Pends(d)' => Pends(d)))
  <2> DEFINE f == Head(fromPage[c])
             m == Tagged(f.t, c, f.n)
  <2>1. /\ fromPage[c] # <<>> /\ UNCHANGED fromHost
        /\ fromPage' = [fromPage EXCEPT ![c] = Tail(@)]
    BY <1>16 DEF RoomForwards
  <2>2. f \in Note /\ f.t \in Words /\ f.n \in Numbers
    <3>1. fromPage[c] \in Seq(Note)
      BY <1>2
    <3>2. f \in Note
      BY <2>1, <3>1, RangeTail
    <3> QED BY <3>2 DEF Note
  <2>3. \A d \in Conns : Part(toPage'[d], toPage[d], Reply)
    <3>1. UNCHANGED toPage \/ \E cs : toPage' = ToPages(cs, Frame("offline", 0))
      BY <1>16 DEF RoomForwards, CloseGuests
    <3> QED BY <1>4, <1>5, <3>1 DEF Words, Codes
  <2>4. m \in Message /\ (HostQueue' = HostQueue \/ HostQueue' = Append(HostQueue, m))
    <3>1. m \in Message
      BY <2>2, TaggedType, Constants
    <3>2. CASE Announce(f.t, c, f.n)
      BY <1>1, <2>2, <3>2, AnnounceErrand
    <3>3. UNCHANGED toHost => HostQueue' = HostQueue
      BY <1>1 DEF HostQueue
    <3> QED BY <1>16, <3>1, <3>2, <3>3 DEF RoomForwards
  <2>5. m.c = c /\ m.t = f.t
    BY DEF Tagged
  <2>6. \A d \in Conns : d # c => Part(HostQueue', HostQueue, HostErrand(d))
    <3> HIDE DEF m
    <3> QED BY <1>13, <1>21, <2>4, <2>5
  <2>7. \A d \in Conns : d # c => Keeps(d)
    BY <1>12, <2>1, <2>3, <2>6
  <2>8. CASE f.t \in {"open", "join"}
    <3>1. f \in PageErrand
      BY <2>2, <2>8 DEF PageErrand
    <3>2. OneErrand(c)' /\ (Pends(c)' => Pends(c))
      BY <1>14, <2>1, <2>3, <2>4, <2>5, <2>8, <3>1
    <3> QED BY <2>7, <3>2
  <2>9. CASE f.t \notin {"open", "join"}
    <3>1. m \notin HostErrand(c)
      BY <2>5, <2>9 DEF HostErrand
    <3>2. Part(HostQueue', HostQueue, HostErrand(c))
      <4> HIDE DEF m
      <4> QED BY <1>21, <1>22, <2>4, <3>1
    <3>3. Keeps(c)
      BY <1>1, <1>4, <1>7, <2>1, <2>3, <3>2 DEF Keeps
    <3> QED BY <2>7, <3>3
  <2> QED BY <2>8, <2>9
<1>17. ASSUME NEW c \in Conns, GuestLeft(c) PROVE \A d \in Conns : Keeps(d)
  <2>1. /\ fromPage[c] # <<>> /\ UNCHANGED fromHost
        /\ fromPage' = [fromPage EXCEPT ![c] = Tail(@)]
        /\ toPage' = ToPages({c} \cap OpenGuests, Frame("lost", 0))
    BY <1>17 DEF GuestLeft
  <2>2. \A d \in Conns : Part(toPage'[d], toPage[d], Reply)
    BY <1>5, <2>1 DEF Words, Codes
  <2>3. /\ Tagged("close", c, 0) \in Message
        /\ HostQueue' = HostQueue \/ HostQueue' = Append(HostQueue, Tagged("close", c, 0))
    <3>1. CASE Announce("close", c, 0)
      BY <1>1, <3>1, AnnounceErrand, Constants DEF Words
    <3>2. CASE UNCHANGED toHost
      BY <1>1, <3>2, TaggedType, Constants DEF HostQueue, Words
    <3> QED BY <1>17, <3>1, <3>2 DEF GuestLeft
  <2>4. \A d \in Conns : Tagged("close", c, 0) \notin HostErrand(d)
    BY DEF Tagged, HostErrand
  <2>5. \A d \in Conns : Part(HostQueue', HostQueue, HostErrand(d))
    BY <1>21, <1>22, <2>3, <2>4
  <2> QED BY <1>1, <1>4, <1>7, <2>1, <2>2, <2>5 DEF Keeps
<1>18. \A c \in Conns : page'[c].role = "join" => page[c].role = "join"
  BY <1>1
<1>19. CASE \E h \in Dials : RoomHears(h)
  BY <1>9, <1>10, <1>11, <1>18, <1>19, OthersKeep DEF RoomHears
<1>20. CASE \E c \in Conns : RoomHearsPage(c)
  BY <1>15, <1>16, <1>17, <1>18, <1>20, OthersKeep DEF RoomHearsPage
<1> QED BY <1>19, <1>20

\* What lpm says that is no reply leaves the replies what they were.
LEMMA SaysErrand ==
  ASSUME Shape, dial \in Dials, NEW msgs \in Seq(Message), Says(msgs), NEW K, Quiet(msgs, K)
  PROVE  \A h \in Dials : Part(fromHost'[h], fromHost[h], K)
<1>1. /\ fromHost'[dial] = fromHost[dial] \o msgs
      /\ \A h \in Dials : h # dial => fromHost'[h] = fromHost[h]
  BY SaysQueues
<1>2. Part(fromHost[dial] \o msgs, fromHost[dial], K)
  BY PartConcat DEF Shape
<1> QED BY <1>1, <1>2, PartQuiet

\* A session's last words are no reply.
LEMMA EndErrand ==
  ASSUME Shape, dial \in Dials, NEW c \in Conns, NEW frames \in Seq(Message),
         \A i \in 1 .. Len(frames) : frames[i].t # "reply",
         EndSession(c, frames)
  PROVE  \A d \in Conns : \A h \in Dials : Part(fromHost'[h], fromHost[h], Replies(d))
<1> DEFINE msgs == Append(frames, Tagged("close", c, 0))
<1>1. Tagged("close", c, 0) \in Message
  BY TaggedType, Constants DEF Words
<1>2. msgs \in Seq(Message) /\ Says(msgs)
  BY <1>1, AppendProperties DEF EndSession
<1>3. ASSUME NEW d \in Conns PROVE Quiet(msgs, Replies(d))
  <2>1. Quiet(frames, Replies(d)) /\ Tagged("close", c, 0) \notin Replies(d)
    BY DEF Quiet, Replies, Tagged
  <2> QED BY <1>1, <2>1, PartAppend, PartQuiet
<1> HIDE DEF msgs
<1> QED BY <1>2, <1>3, SaysErrand

\* A session that ends, with or without a word.
LEMMA SessionErrand ==
  ASSUME Shape, SeatLeft, Known, NEW c \in Conns, Answer(c) \/ SessionTimesOut(c) \/ SessionEnds(c)
  PROVE  Known' /\ \A d \in Conns : Keeps(d)
<1> USE DEF host, room, wires, pageVars, counts
<1>1. link = "up" /\ dial \in Dials
  BY SessionTypes
<1>2. session[c].at = "asked" => granted + 1 \in Numbers
  BY DEF SeatLeft
<1> DEFINE Ends == \E frames \in Seq(Message) :
                    EndSession(c, frames) /\ \A i \in 1 .. Len(frames) : frames[i].t # "reply"
<1>3. PICK frames \in Seq(Message) :
        EndSession(c, frames) /\ \A i \in 1 .. Len(frames) : frames[i].t # "reply"
  <2>1. ASSUME NEW m \in Message, m.t # "reply", EndSession(c, <<m>>) PROVE Ends
    <3>1. <<m>> \in Seq(Message) /\ \A i \in 1 .. Len(<<m>>) : <<m>>[i].t # "reply"
      BY <2>1
    <3> QED BY <2>1, <3>1
  <2>2. ASSUME EndSession(c, <<>>) PROVE Ends
    <3>1. <<>> \in Seq(Message) /\ \A i \in 1 .. Len(<<>>) : <<>>[i].t # "reply"
      BY EmptySeq
    <3> QED BY <2>2, <3>1
  <2>3. /\ session[c].at = "asked" => Tagged("joined", c, granted + 1) \in Message
        /\ Tagged("error", c, 0) \in Message /\ Tagged("stopped", c, 0) \in Message
        /\ Tagged("joined", c, granted + 1).t # "reply"
        /\ Tagged("error", c, 0).t # "reply" /\ Tagged("stopped", c, 0).t # "reply"
    <3>1. /\ session[c].at = "asked" => Tagged("joined", c, granted + 1) \in Message
          /\ Tagged("error", c, 0) \in Message /\ Tagged("stopped", c, 0) \in Message
      BY <1>2, TaggedType, Constants DEF Words
    <3> QED BY <3>1 DEF Tagged
  <2> QED BY <2>1, <2>2, <2>3 DEF Answer, SessionTimesOut, SessionEnds
<1>4. \A d \in Conns : \A h \in Dials : Part(fromHost'[h], fromHost[h], Replies(d))
  BY <1>1, <1>3, EndErrand
<1>5. UNCHANGED <<link, dial, toHost, fromPage, toPage>>
  BY DEF Answer, SessionTimesOut, SessionEnds
<1>6. known' = known \ {c} /\ \A d \in Conns : session'[d] = IF d = c THEN NoSession ELSE session[d]
  BY <1>3 DEF EndSession, Shape
<1>7. Known'
  BY <1>6 DEF Known, NoSession
<1>8. HostQueue' = HostQueue
  BY <1>5 DEF HostQueue
<1> QED BY <1>4, <1>5, <1>6, <1>7, <1>8, PartQuiet DEF Keeps, NoSession

\* The sharing machine's steps pass errands on.
LEMMA HostErrands ==
  ASSUME Shape, Known, Errands, HostSteps \/ DialFails \/ \E h \in Dials : LoseHost(h)
  PROVE  Known' /\ Errands' /\ Pending' \subseteq Pending
<1> USE DEF host, room, wires, pageVars, counts
<1>1. UNCHANGED <<page, fromPage, toPage>>
  BY DEF HostSteps, Dial, Dialed, EndsRoom, HangUp, ReadsClose, ReadsOpen, ReadsGone, ReadsFrame,
         DialFails, LoseHost
<1>2. \A c \in Conns :
        /\ Part(fromPage'[c], fromPage[c], PageErrand) /\ Part(toPage'[c], toPage[c], Reply)
        /\ UNCHANGED fromHost => \A h \in Dials : Part(fromHost'[h], fromHost[h], Replies(c))
        /\ HostQueue' = HostQueue \/ HostQueue' = <<>> => Part(HostQueue', HostQueue, HostErrand(c))
  <2>1. \A c \in Conns : Quiet(<<>>, HostErrand(c))
    BY EmptySeq DEF Quiet
  <2> QED BY <1>1, <2>1, PartQuiet
<1>3. /\ HostQueue \in Seq(Message)
      /\ fromHost \in [Dials -> Seq(Message)]
  BY HostQueueType DEF Shape
<1>4. ASSUME \A c \in Conns : Keeps(c) \/ (OneErrand(c)' /\ (Pends(c)' => Pends(c)))
      PROVE  Errands' /\ Pending' \subseteq Pending
  BY <1>1, <1>4, OthersKeep
\* A host that hangs up, and one that dials.
<1>5. ASSUME HostQueue' = <<>>, \A c \in Conns : session'[c].at = "none",
             \A c \in Conns : \A h \in Dials : Part(fromHost'[h], fromHost[h], Replies(c))
      PROVE  Known' /\ Errands' /\ Pending' \subseteq Pending
  <2>1. \A c \in Conns : Keeps(c)
    BY <1>2, <1>5 DEF Keeps
  <2> QED BY <1>4, <1>5, <2>1 DEF Known
<1>6. PICK bye \in Seq(Message), endBye \in Seq(Message) :
        /\ bye = <<Plain("bye")>> /\ endBye = <<Plain("end"), Plain("bye")>>
        /\ \A c \in Conns : Quiet(bye, Replies(c)) /\ Quiet(endBye, Replies(c))
  <2>1. Plain("bye") \in Message /\ Plain("end") \in Message
    BY TaggedType, Constants DEF Plain, Words
  <2>2. <<Plain("bye")>> \in Seq(Message) /\ <<Plain("end"), Plain("bye")>> \in Seq(Message)
    BY <2>1, RangeOne, RangeTwo
  <2>3. ASSUME NEW c PROVE Plain("bye") \notin Replies(c) /\ Plain("end") \notin Replies(c)
    BY DEF Plain, Tagged, Replies
  <2>4. ASSUME NEW c PROVE Quiet(<<Plain("bye")>>, Replies(c)) /\ Quiet(<<Plain("end"), Plain("bye")>>, Replies(c))
    BY <2>3 DEF Quiet
  <2> QED BY <2>2, <2>4
<1>7. CASE EndsRoom \/ DialFails \/ ReadsClose
  <2>1. ASSUME NEW msgs \in {bye, endBye}, NEW next \in {"off", "done"}, HangUp(msgs, next), dial \in Dials
        PROVE  Known' /\ Errands' /\ Pending' \subseteq Pending
    <3>1. Says(msgs) /\ msgs \in Seq(Message)
      BY <2>1 DEF HangUp, Says
    <3>2. \A c \in Conns : \A h \in Dials : Part(fromHost'[h], fromHost[h], Replies(c))
      BY <1>6, <2>1, <3>1, SaysErrand
    <3>3. HostQueue' = <<>> /\ \A c \in Conns : session'[c].at = "none"
      BY <2>1 DEF HangUp, HostQueue, NoSession
    <3> QED BY <1>5, <3>2, <3>3
  <2>2. CASE UNCHANGED <<known, session, toHost, fromHost>> /\ link = "off" /\ link' = "done"
    <3>1. HostQueue' = HostQueue
      BY <2>2 DEF HostQueue
    <3>2. \A c \in Conns : Keeps(c)
      BY <1>2, <2>2, <3>1 DEF Keeps
    <3> QED BY <1>4, <2>2, <3>2 DEF Known
  <2>3. link \in {"dialing", "up"} => dial \in Dials
    BY DEF Shape
  <2>4. CASE EndsRoom
    BY <1>6, <2>1, <2>2, <2>3, <2>4 DEF EndsRoom
  <2>5. CASE DialFails
    BY <1>6, <2>1, <2>3, <2>5 DEF DialFails
  <2>6. CASE ReadsClose
    BY <1>6, <2>1, <2>3, <2>6 DEF ReadsClose, Reads
  <2> QED BY <1>7, <2>4, <2>5, <2>6
<1>8. ASSUME NEW h \in Dials, Dial(h) PROVE Known' /\ Errands' /\ Pending' \subseteq Pending
  <2>1. link = "off" /\ dial' = h /\ toHost'[h] = <<>> /\ link' = "dialing" /\ UNCHANGED <<session, fromHost>>
    BY <1>8 DEF Dial, FreeDials
  <2>2. HostQueue' = <<>>
    BY <2>1 DEF HostQueue
  <2>3. \A c \in Conns : session'[c].at = "none"
    BY <2>1 DEF Shape
  <2> QED BY <1>2, <1>5, <2>1, <2>2, <2>3
<1>9. ASSUME NEW h \in Dials, LoseHost(h) PROVE Known' /\ Errands' /\ Pending' \subseteq Pending
  <2>1. /\ HostQueue' = bye /\ UNCHANGED <<known, session>>
        /\ \A d \in Dials : fromHost'[d] = bye \/ fromHost'[d] = fromHost[d]
    BY <1>3, <1>6, <1>9 DEF LoseHost, Held, HostQueue, Shape
  <2>2. \A c \in Conns : Quiet(bye, HostErrand(c))
    <3>1. Len(bye) = 1 /\ bye[1] = Plain("bye")
      BY <1>6
    <3> QED BY <3>1 DEF Quiet, HostErrand, Plain, Tagged
  <2>3. \A c \in Conns : Keeps(c)
    BY <1>2, <1>6, <2>1, <2>2, PartQuiet DEF Keeps
  <2> QED BY <1>4, <2>1, <2>3 DEF Known
\* What is left of the queue lpm reads.
<1>10. ASSUME link \in {"dialing", "up"}, link' \in {"dialing", "up"}, UNCHANGED dial,
              toHost[dial] # <<>>, toHost' = Rest
       PROVE  /\ dial \in Dials /\ Msg \in Message
              /\ \A c \in Conns :
                   /\ Part(HostQueue', HostQueue, HostErrand(c))
                   /\ Msg \in HostErrand(c) => ~ Quiet(HostQueue, HostErrand(c)) /\ Quiet(HostQueue', HostErrand(c))
  <2>1. dial \in Dials /\ HostQueue = toHost[dial] /\ HostQueue' = toHost'[dial]
    BY <1>10, HostQueueType DEF HostQueue
  <2>2. HostQueue' = Tail(HostQueue) /\ HostQueue # <<>> /\ Msg = Head(HostQueue)
    BY <1>10, <2>1 DEF Rest, Msg, Shape
  <2>3. Msg \in Message
    BY <1>10, <2>1, RestQueues
  <2>4. ASSUME NEW c \in Conns
        PROVE  /\ Part(HostQueue', HostQueue, HostErrand(c))
               /\ Msg \in HostErrand(c) => ~ Quiet(HostQueue, HostErrand(c)) /\ Quiet(HostQueue', HostErrand(c))
    <3>1. OneErrand(c)
      BY DEF Errands
    <3> QED BY <1>3, <2>2, <3>1, PartTail DEF OneErrand
  <2> QED BY <2>1, <2>3, <2>4
<1>11. CASE Dialed
  <2>1. /\ toHost[dial] # <<>> /\ toHost' = Rest /\ link \in {"dialing", "up"} /\ link' \in {"dialing", "up"}
        /\ UNCHANGED <<dial, known, session, fromHost>>
    BY <1>11 DEF Dialed, Rest
  <2>2. \A c \in Conns : Keeps(c)
    BY <1>2, <1>10, <2>1 DEF Keeps
  <2> QED BY <1>4, <2>1, <2>2 DEF Known
<1>12. ASSUME Reads({"open", "close", "first", "join", "auth"}), toHost' = Rest, UNCHANGED <<link, dial>>
       PROVE  /\ dial \in Dials /\ Msg \in Message /\ Msg.c \in Conns
              /\ \A c \in Conns :
                   /\ Part(HostQueue', HostQueue, HostErrand(c))
                   /\ Msg \in HostErrand(c) => ~ Quiet(HostQueue, HostErrand(c)) /\ Quiet(HostQueue', HostErrand(c))
  <2>1. toHost[dial] # <<>> /\ link \in {"dialing", "up"} /\ Msg.t \notin {"upgraded", "bye", "end"}
    BY <1>12 DEF Reads
  <2>2. Msg \in Message
    BY <1>10, <1>12, <2>1
  <2>3. Msg.c \in Conns
    BY <2>1, <2>2 DEF Message
  <2> QED BY <1>10, <1>12, <2>1, <2>3
\* Only c's session stands elsewhere, and nothing is said but what ends one.
<1>13. ASSUME \A c \in Conns : Part(HostQueue', HostQueue, HostErrand(c)),
              NEW c \in Conns, \A d \in Conns : d # c => session'[d] = session[d],
              session'[c].at \in {"handshake", "asked"} => session'[c].at = session[c].at,
              known' \in {known, known \ {c}}, session'[c].at # "none" => known' = known /\ session[c].at # "none",
              \A d \in Conns : \A h \in Dials : Part(fromHost'[h], fromHost[h], Replies(d))
       PROVE  Known' /\ Errands' /\ Pending' \subseteq Pending
  <2>1. \A d \in Conns : Keeps(d)
    BY <1>2, <1>13 DEF Keeps
  <2>2. Known'
    BY <1>13 DEF Known
  <2> QED BY <1>4, <2>1, <2>2
\* The word that brings c a session, or lets it ask: c's errand is with the session.
<1>14. ASSUME NEW c \in Conns, Msg \in HostErrand(c), UNCHANGED fromHost,
              ~ Quiet(HostQueue, HostErrand(c)), Quiet(HostQueue', HostErrand(c)),
              Msg.t # "join" => session'[c].at = "handshake",
              Msg.t = "join" => session'[c].at = "asked",
              toHost[dial] # <<>>, link \in {"dialing", "up"}
       PROVE  OneErrand(c)' /\ (Pends(c)' => Pends(c))
  <2>1. OneErrand(c)
    BY DEF Errands
  <2>2. /\ Quiet(fromPage'[c], PageErrand)
        /\ \A h \in Dials : Quiet(fromHost'[h], Replies(c))
        /\ Quiet(toPage'[c], Reply)
    BY <1>1, <1>14, <2>1, Alone
  <2>3. OneErrand(c)'
    BY <1>14, <2>2 DEF OneErrand, Few, Quiet
  <2>4. Msg.t = "join" => Asks(c)
    <3>1. HostQueue = toHost[dial] /\ HostQueue \in Seq(Message)
      BY <1>14, HostQueueType
    <3>2. 1 \in 1 .. Len(HostQueue) /\ HostQueue[1] = Msg
      BY <1>14, <3>1, HeadTailProperties, EmptySeq DEF Msg
    <3> QED BY <1>14, <3>2 DEF Asks
  <2>5. Msg.t # "join" => ~ Asks(c)' /\ (Asks(c) \/ MayAsk(c))
    BY <1>14, <2>2 DEF Asks, MayAsk, Quiet
  <2>6. Msg.t = "join" => ~ MayAsk(c)'
    BY <1>14, <2>2 DEF MayAsk, Quiet
  <2> QED BY <1>1, <2>3, <2>4, <2>5, <2>6 DEF Pends
<1>15. ASSUME NEW c \in Conns, OneErrand(c)' /\ (Pends(c)' => Pends(c)),
              \A d \in Conns : d # c => session'[d] = session[d],
              known' = known \cup {c} \/ (known' = known /\ session[c].at # "none"),
              \A d \in Conns : Part(HostQueue', HostQueue, HostErrand(d)),
              \A d \in Conns : d # c => \A h \in Dials : Part(fromHost'[h], fromHost[h], Replies(d))
       PROVE  Known' /\ Errands' /\ Pending' \subseteq Pending
  <2>1. \A d \in Conns : d # c => Keeps(d)
    BY <1>2, <1>15 DEF Keeps
  <2>2. Known'
    BY <1>15 DEF Known
  <2> QED BY <1>4, <1>15, <2>1, <2>2
<1>16. CASE ReadsOpen
  <2>1. /\ dial \in Dials /\ Msg.c \in Conns /\ Msg \in Message /\ Msg.t = "open"
        /\ \A d \in Conns :
             /\ Part(HostQueue', HostQueue, HostErrand(d))
             /\ Msg \in HostErrand(d) => ~ Quiet(HostQueue, HostErrand(d)) /\ Quiet(HostQueue', HostErrand(d))
        /\ toHost[dial] # <<>> /\ link \in {"dialing", "up"}
    BY <1>12, <1>16 DEF ReadsOpen, Reads
  <2>4. PICK c \in Conns : c = Msg.c
    BY <2>1
  <2>2. CASE Says(<<Tagged("close", c, 0)>>) /\ UNCHANGED <<known, session>>
    <3>1. PICK m \in Message : m = Tagged("close", c, 0) /\ m.t = "close"
      <4>1. Tagged("close", c, 0) \in Message
        BY <2>1, TaggedType, Constants DEF Words
      <4> QED BY <4>1 DEF Tagged
    <3>2. PICK msgs \in Seq(Message) : msgs = <<m>>
      BY RangeOne
    <3>3. \A d \in Conns : Quiet(msgs, Replies(d))
      <4>1. Len(msgs) = 1 /\ msgs[1] = m
        BY <3>2
      <4> QED BY <3>1, <4>1 DEF Quiet, Replies
    <3>4. \A d \in Conns : \A h \in Dials : Part(fromHost'[h], fromHost[h], Replies(d))
      BY <2>1, <2>2, <3>1, <3>2, <3>3, SaysErrand
    <3>5. \A d \in Conns : Keeps(d)
      BY <1>2, <2>1, <2>2, <3>4 DEF Keeps
    <3> QED BY <1>4, <2>2, <3>5 DEF Known
  <2>3. CASE /\ known' = known \cup {c} /\ UNCHANGED fromHost
             /\ session' = [session EXCEPT ![c] = [at |-> "handshake", seat |-> 0]]
    <3>1. Msg \in HostErrand(c)
      BY <2>1, <2>4 DEF HostErrand
    <3>2. session'[c].at = "handshake" /\ \A d \in Conns : d # c => session'[d] = session[d]
      BY <2>1, <2>3 DEF Shape
    <3>3. /\ Msg.t # "join" /\ UNCHANGED fromHost
          /\ ~ Quiet(HostQueue, HostErrand(c)) /\ Quiet(HostQueue', HostErrand(c))
          /\ \A d \in Conns : \A h \in Dials : Part(fromHost'[h], fromHost[h], Replies(d))
      BY <1>2, <2>1, <2>3, <3>1
    <3>4. OneErrand(c)' /\ (Pends(c)' => Pends(c))
      BY <1>14, <2>1, <3>1, <3>2, <3>3
    <3> QED BY <1>15, <2>1, <2>3, <3>2, <3>3, <3>4
  <2> QED BY <1>16, <2>2, <2>3, <2>4 DEF ReadsOpen
<1>17. CASE ReadsGone
  <2>1. /\ dial \in Dials /\ Msg.c \in Conns
        /\ \A d \in Conns : Part(HostQueue', HostQueue, HostErrand(d))
    BY <1>12, <1>17 DEF ReadsGone, Reads
  <2>2. CASE session[Msg.c].at = "none" /\ known' = known \ {Msg.c} /\ UNCHANGED <<session, fromHost>>
    BY <1>2, <1>13, <2>1, <2>2
  <2>3. CASE EndSession(Msg.c, <<>>)
    <3>1. <<>> \in Seq(Message) /\ \A i \in 1 .. Len(<<>>) : <<>>[i].t # "reply"
      BY EmptySeq
    <3>2. \A d \in Conns : \A h \in Dials : Part(fromHost'[h], fromHost[h], Replies(d))
      BY <2>1, <2>3, <3>1, EndErrand
    <3>3. /\ known' = known \ {Msg.c} /\ session'[Msg.c].at = "none"
          /\ \A d \in Conns : d # Msg.c => session'[d] = session[d]
      BY <2>1, <2>3 DEF EndSession, NoSession, Shape
    <3> QED BY <1>13, <2>1, <3>2, <3>3
  <2> QED BY <1>17, <2>2, <2>3 DEF ReadsGone
<1>18. CASE ReadsFrame
  <2>1. /\ dial \in Dials /\ Msg \in Message /\ Msg.c \in Conns
        /\ \A d \in Conns :
             /\ Part(HostQueue', HostQueue, HostErrand(d))
             /\ Msg \in HostErrand(d) => ~ Quiet(HostQueue, HostErrand(d)) /\ Quiet(HostQueue', HostErrand(d))
        /\ toHost[dial] # <<>> /\ link \in {"dialing", "up"}
    BY <1>12, <1>18 DEF ReadsFrame, Reads
  <2>2. PICK c \in Conns : c = Msg.c
    BY <2>1
  <2>3. ASSUME NEW w \in {"reply", "error", "ready"}
        PROVE  /\ Tagged(w, c, 0) \in Message /\ Tagged(w, c, 0).t = w /\ Tagged(w, c, 0).c = c
               /\ <<Tagged(w, c, 0)>> \in Seq(Message)
    <3>1. Tagged(w, c, 0) \in Message
      BY <2>1, <2>2, TaggedType, Constants DEF Words
    <3> QED BY <3>1, RangeOne DEF Tagged
\* The handshake: c's errand is the reply.
  <2>4. CASE /\ session[c].at = "handshake" /\ session' = [session EXCEPT ![c].at = "first"]
             /\ Says(<<Tagged("reply", c, 0)>>) /\ UNCHANGED known
    <3>1. PICK m \in Message : m = Tagged("reply", c, 0) /\ m.t = "reply" /\ m.c = c
      BY <2>3
    <3>2. PICK msgs \in Seq(Message) : msgs = <<m>>
      BY RangeOne
    <3>3. Len(msgs) = 1 /\ msgs[1] = m
      BY <3>2
    <3>4. session'[c].at = "first" /\ \A d \in Conns : d # c => session'[d] = session[d]
      BY <2>2, <2>4 DEF Shape
    <3>5. /\ fromHost'[dial] = fromHost[dial] \o msgs
          /\ \A h \in Dials : h # dial => fromHost'[h] = fromHost[h]
      BY <2>1, <2>4, <3>1, <3>2, SaysQueues
    <3>6. \A d \in Conns : d # c => \A h \in Dials : Part(fromHost'[h], fromHost[h], Replies(d))
      <4>1. \A d \in Conns : d # c => Quiet(msgs, Replies(d))
        BY <3>1, <3>3 DEF Quiet, Replies
      <4> QED BY <2>1, <2>4, <3>1, <3>2, <4>1, SaysErrand
    <3>7. /\ Quiet(fromPage'[c], PageErrand) /\ Quiet(HostQueue', HostErrand(c))
          /\ \A h \in Dials : Quiet(fromHost[h], Replies(c))
          /\ Quiet(toPage'[c], Reply)
      <4>1. OneErrand(c)
        BY DEF Errands
      <4> QED BY <1>1, <2>1, <2>4, <4>1, Alone, PartQuiet
    <3>8. Few(fromHost'[dial], Replies(c))
      <4>1. Few(msgs, Replies(c))
        BY <3>3 DEF Few
      <4> QED BY <1>3, <2>1, <3>5, <3>7, <4>1, PartConcat
    <3>9. OneErrand(c)'
      <4>1. \A h \in Dials : h # dial => Quiet(fromHost'[h], Replies(c))
        BY <3>5, <3>7
      <4>2. /\ Few(fromPage'[c], PageErrand) /\ Few(HostQueue', HostErrand(c))
            /\ \A h \in Dials : Few(fromHost'[h], Replies(c))
            /\ Few(toPage'[c], Reply)
        BY <3>7, <3>8, <4>1 DEF Few, Quiet
      <4>3. session'[c].at \notin {"handshake", "asked"}
        BY <3>4
      <4> QED BY <2>1, <3>7, <4>1, <4>2, <4>3 DEF OneErrand
    <3>10. Pends(c)' => Pends(c)
      <4>1. ~ Asks(c)' /\ MayAsk(c)
        BY <2>4, <3>4, <3>7 DEF Asks, MayAsk, Quiet
      <4> QED BY <1>1, <4>1 DEF Pends
    <3> QED BY <1>15, <2>1, <2>4, <3>4, <3>6, <3>9, <3>10
\* The asking: c's errand is with the person.
  <2>5. CASE /\ Msg.t = "join" /\ session[c].at = "first" /\ session' = [session EXCEPT ![c].at = "asked"]
             /\ UNCHANGED <<known, fromHost>>
    <3>1. Msg \in HostErrand(c)
      BY <2>1, <2>2, <2>5 DEF HostErrand
    <3>2. session'[c].at = "asked" /\ \A d \in Conns : d # c => session'[d] = session[d]
      BY <2>2, <2>5 DEF Shape
    <3>3. OneErrand(c)' /\ (Pends(c)' => Pends(c))
      BY <1>14, <2>1, <2>5, <3>1, <3>2
    <3> QED BY <1>2, <1>15, <2>1, <2>5, <3>2, <3>3
  <2>6. CASE EndSession(c, <<Tagged("error", c, 0)>>)
    <3>1. PICK frames \in Seq(Message) : frames = <<Tagged("error", c, 0)>>
      BY <2>3
    <3>2. \A i \in 1 .. Len(frames) : frames[i].t # "reply"
      BY <2>3, <3>1
    <3>3. \A d \in Conns : \A h \in Dials : Part(fromHost'[h], fromHost[h], Replies(d))
      BY <2>1, <2>6, <3>1, <3>2, EndErrand
    <3>4. /\ known' = known \ {c} /\ session'[c].at = "none"
          /\ \A d \in Conns : d # c => session'[d] = session[d]
      BY <2>6 DEF EndSession, NoSession, Shape
    <3> QED BY <1>13, <2>1, <3>3, <3>4
  <2>7. CASE /\ session[c].at = "first" /\ session' = [session EXCEPT ![c] = [at |-> "live", seat |-> Msg.n]]
             /\ Says(<<Tagged("ready", c, 0)>>) /\ UNCHANGED known
    <3>1. PICK msgs \in Seq(Message) : msgs = <<Tagged("ready", c, 0)>>
      BY <2>3
    <3>2. \A d \in Conns : Quiet(msgs, Replies(d))
      BY <2>3, <3>1 DEF Quiet, Replies
    <3>3. \A d \in Conns : \A h \in Dials : Part(fromHost'[h], fromHost[h], Replies(d))
      BY <2>1, <2>7, <3>1, <3>2, SaysErrand
    <3>4. session'[c].at = "live" /\ \A d \in Conns : d # c => session'[d] = session[d]
      BY <2>7 DEF Shape
    <3> QED BY <1>13, <2>1, <2>7, <3>3, <3>4
  <2>8. CASE session[c].at = "none" /\ UNCHANGED <<known, session, fromHost>>
    BY <1>2, <1>13, <2>1, <2>8
  <2> QED BY <1>18, <2>2, <2>4, <2>5, <2>6, <2>7, <2>8 DEF ReadsFrame
<1> QED BY <1>7, <1>8, <1>9, <1>11, <1>16, <1>17, <1>18 DEF HostSteps

\* Some of what is left is some of what there was.
LEMMA PartTrans ==
  ASSUME NEW p, NEW q, NEW r, NEW K, Part(p, q, K), Part(q, r, K)
  PROVE  Part(p, r, K)
BY DEF Part

\* What a page says and hears once it closes its sockets.
LEMMA ClosingErrand ==
  ASSUME NEW qs \in [Conns -> Seq(Note)], NEW cs, NEW c \in Conns
  PROVE  /\ Part(SaysBye(qs, cs)[c], qs[c], PageErrand)
         /\ Part(Undelivered(qs, cs)[c], qs[c], Reply)
<1>1. Frame("bye", 0) \in Note /\ Frame("bye", 0) \notin PageErrand
  <2>1. Frame("bye", 0) \in Note
    BY Constants DEF Frame, Note, Words
  <2> QED BY <2>1 DEF Frame, PageErrand
<1>2. Part(SaysBye(qs, cs)[c], qs[c], PageErrand)
  BY <1>1, PartAppend, PartQuiet DEF SaysBye
<1>3. Quiet(How(qs[c]), Reply)
  <2>1. CASE Over(qs[c])
    <3>1. How(qs[c]) = <<qs[c][Len(qs[c])]>> /\ qs[c][Len(qs[c])] \notin Reply
      BY <2>1 DEF How, Over, Reply, Codes
    <3> QED BY <3>1 DEF Quiet
  <2>2. CASE ~Over(qs[c])
    BY <2>2, EmptySeq DEF How, Quiet
  <2> QED BY <2>1, <2>2
<1>4. Part(Undelivered(qs, cs)[c], qs[c], Reply)
  BY <1>3, PartQuiet DEF Undelivered
<1> QED BY <1>2, <1>4

\* A connection that is free has no errand, and the one opened has its first.
LEMMA OpensErrand ==
  ASSUME Shape, Known, Errands, UNCHANGED <<host, toHost, fromHost>>, NEW c \in FreeConns,
         fromPage'[c] = <<Frame("connect", 0), Frame("first", 0)>>,
         Part(toPage'[c], toPage[c], Reply)
  PROVE  OneErrand(c)' /\ ~ Asks(c)'
<1> USE DEF host
<1>1. /\ c \in Conns /\ toPage[c] = <<>> /\ c \notin known
      /\ \A h \in Dials : /\ \A i \in 1 .. Len(toHost[h]) : toHost[h][i].c # c
                          /\ \A i \in 1 .. Len(fromHost[h]) : fromHost[h][i].c # c
  BY DEF FreeConns
<1>2. session'[c].at = "none"
  BY <1>1 DEF Known
<1>3. HostQueue' = HostQueue /\ Quiet(HostQueue, HostErrand(c))
  <2>1. CASE link \in {"dialing", "up"}
    BY <1>1, <2>1, HostQueueType DEF HostQueue, Quiet, HostErrand
  <2>2. CASE link \notin {"dialing", "up"}
    BY <2>2, EmptySeq DEF HostQueue, Quiet
  <2> QED BY <2>1, <2>2 DEF HostQueue
<1>4. \A h \in Dials : Quiet(fromHost'[h], Replies(c))
  BY <1>1 DEF Quiet, Replies
<1>5. Quiet(toPage'[c], Reply)
  <2>1. Quiet(toPage[c], Reply)
    BY <1>1, EmptySeq DEF Quiet
  <2> QED BY <2>1, PartQuiet
<1>6. /\ Few(fromPage'[c], PageErrand)
      /\ \A i \in 1 .. Len(fromPage'[c]) : fromPage'[c][i].t # "join"
  <2>1. Len(fromPage'[c]) = 2 /\ fromPage'[c][1].t = "connect" /\ fromPage'[c][2].t = "first"
    BY DEF Frame
  <2>2. \A i \in 1 .. Len(fromPage'[c]) : i = 1 \/ i = 2
    BY <2>1
  <2> QED BY <2>1, <2>2 DEF Few, PageErrand
<1>7. OneErrand(c)'
  BY <1>2, <1>3, <1>4, <1>5, <1>6 DEF OneErrand, Few, Quiet
<1>8. ~ Asks(c)'
  BY <1>2, <1>3, <1>6 DEF Asks, Quiet
<1> QED BY <1>7, <1>8

\* The page's steps pass errands on, and a join begins one.
LEMMA PageErrands ==
  ASSUME Shape, Known, Errands,
         \/ \E c \in Conns : PageHears(c) \/ HandshakeTimesOut(c) \/ LoseGuest(c)
         \/ \E n \in Seats : Reconnect(n)
         \/ CancelJoin \/ Leave \/ Again
  PROVE  Errands' /\ Pending' \subseteq Pending
<1> USE DEF wires, pageVars, counts
<1>1. UNCHANGED <<host, room, toHost, fromHost>>
  BY PageSteps
<1>2. /\ page \in [Conns -> End] /\ fromPage \in [Conns -> Seq(Note)]
      /\ toPage \in [Conns -> Seq(Note)]
  BY DEF Shape
<1>3. ASSUME NEW c \in Conns, Part(fromPage'[c], fromPage[c], PageErrand), Part(toPage'[c], toPage[c], Reply)
      PROVE  Keeps(c)
  BY <1>1, <1>3, PartQuiet DEF Keeps, HostQueue, host
<1>4. ASSUME \A c \in Conns : Part(fromPage'[c], fromPage[c], PageErrand) /\ Part(toPage'[c], toPage[c], Reply),
             \A c \in Conns : page'[c].role = page[c].role
      PROVE  Errands' /\ Pending' \subseteq Pending
  BY <1>3, <1>4, OthersKeep
<1>5. ASSUME NEW c \in Conns
      PROVE  /\ UNCHANGED fromPage => Part(fromPage'[c], fromPage[c], PageErrand)
             /\ UNCHANGED toPage => Part(toPage'[c], toPage[c], Reply)
             /\ \A cs : fromPage' = SaysBye(fromPage, cs) => Part(fromPage'[c], fromPage[c], PageErrand)
             /\ \A cs : toPage' = Undelivered(toPage, cs) => Part(toPage'[c], toPage[c], Reply)
             /\ \A d \in Conns : toPage[d] # <<>> /\ toPage' = [toPage EXCEPT ![d] = Tail(@)] =>
                  Part(toPage'[c], toPage[c], Reply)
             /\ \A cs : page' = Closing(page, cs) => page'[c].role = page[c].role
  <2>1. ASSUME NEW d \in Conns, toPage[d] # <<>>, toPage' = [toPage EXCEPT ![d] = Tail(@)]
        PROVE  Part(toPage'[c], toPage[c], Reply)
    BY <1>2, <2>1, PartTail, PartQuiet
  <2>2. /\ UNCHANGED fromPage => Part(fromPage'[c], fromPage[c], PageErrand)
        /\ UNCHANGED toPage => Part(toPage'[c], toPage[c], Reply)
    BY PartQuiet
  <2>3. ASSUME NEW cs
        PROVE  /\ Part(SaysBye(fromPage, cs)[c], fromPage[c], PageErrand)
               /\ Part(Undelivered(toPage, cs)[c], toPage[c], Reply)
               /\ Closing(page, cs)[c].role = page[c].role
    BY <1>2, ClosingErrand, ClosingType
  <2> QED BY <2>1, <2>2, <2>3
<1>6. CASE CancelJoin \/ Leave \/ \E c \in Conns : HandshakeTimesOut(c)
  <2>1. \E cs : page' = Closing(page, cs) /\ fromPage' = SaysBye(fromPage, cs)
    BY <1>6 DEF CancelJoin, Leave, Finish, HandshakeTimesOut
  <2>2. \E cs : toPage' = Undelivered(toPage, cs)
    BY <1>6 DEF CancelJoin, Leave, HandshakeTimesOut
  <2> QED BY <1>4, <1>5, <2>1, <2>2
<1>7. CASE Again
  <2>1. UNCHANGED <<page, fromPage, toPage>>
    BY <1>7 DEF Again
  <2> QED BY <1>4, <1>5, <2>1
<1>8. ASSUME NEW c \in Conns, LoseGuest(c) PROVE Errands' /\ Pending' \subseteq Pending
  <2>1. /\ toPage' = [toPage EXCEPT ![c] = <<Frame("lost", 0)>>]
        /\ fromPage' = [fromPage EXCEPT ![c] = <<Frame("bye", 0)>>]
        /\ page' = Closing(page, {c})
    BY <1>8 DEF LoseGuest
  <2>2. Quiet(<<Frame("lost", 0)>>, Reply) /\ Quiet(<<Frame("bye", 0)>>, PageErrand)
    BY DEF Quiet, Frame, Reply, PageErrand
  <2>3. \A d \in Conns : Part(fromPage'[d], fromPage[d], PageErrand) /\ Part(toPage'[d], toPage[d], Reply)
    BY <1>2, <2>1, <2>2, PartQuiet
  <2> QED BY <1>4, <1>5, <2>1, <2>3
<1>9. ASSUME NEW n \in Seats, Reconnect(n) PROVE Errands' /\ Pending' \subseteq Pending
  <2>1. CASE UNCHANGED <<page, fromPage>>
    <3>1. UNCHANGED toPage
      BY <1>9 DEF Reconnect
    <3> QED BY <1>4, <1>5, <2>1, <3>1
  <2>2. ASSUME NEW c \in FreeConns, Opens(page, fromPage, c, "enter", n)
        PROVE  Errands' /\ Pending' \subseteq Pending
    <3>1. /\ c \in Conns /\ page'[c].role = "enter" /\ UNCHANGED toPage
          /\ fromPage'[c] = <<Frame("connect", 0), Frame("first", 0)>>
          /\ \A d \in Conns : d # c => page'[d] = page[d] /\ fromPage'[d] = fromPage[d]
      BY <1>2, <1>9, <2>2 DEF Opens, Reconnect, FreeConns
    <3>2. \A d \in Conns : Part(toPage'[d], toPage[d], Reply)
      BY <1>5, <3>1
    <3>3. OneErrand(c)' /\ ~ Pends(c)'
      BY <1>1, <3>1, <3>2, OpensErrand DEF Pends
    <3>4. \A d \in Conns : d # c => Keeps(d) /\ page'[d].role = page[d].role
      BY <1>3, <3>1, <3>2, PartQuiet
    <3> QED BY <3>3, <3>4, OthersKeep
  <2> QED BY <1>9, <2>1, <2>2 DEF Reconnect
<1>10. ASSUME NEW c \in Conns, HearsJoined(c) \/ HearsReady(c) PROVE Errands' /\ Pending' \subseteq Pending
  <2>1. toPage[c] # <<>> /\ toPage' = [toPage EXCEPT ![c] = Tail(@)] /\ UNCHANGED fromPage
    BY <1>10 DEF HearsJoined, HearsReady, Hears
  <2>2. page' = page \/ \E n : page' = [page EXCEPT ![c].seat = n]
    BY <1>10 DEF HearsJoined, HearsReady
  <2>3. ASSUME NEW n, page' = [page EXCEPT ![c].seat = n], NEW d \in Conns
        PROVE  page'[d].role = page[d].role
    <3>1. page[c] \in End /\ page'[d] = IF d = c THEN [page[c] EXCEPT !.seat = n] ELSE page[d]
      BY <1>2, <2>3
    <3>2. [page[c] EXCEPT !.seat = n].role = page[c].role
      BY <3>1 DEF End
    <3> QED BY <3>1, <3>2
  <2> QED BY <1>4, <1>5, <2>1, <2>2, <2>3
<1>11. ASSUME NEW c \in Conns, HearsEnd(c) PROVE Errands' /\ Pending' \subseteq Pending
  <2> DEFINE rest == [toPage EXCEPT ![c] = Tail(@)]
  <2>1. rest \in [Conns -> Seq(Note)] /\ \A d \in Conns : Part(rest[d], toPage[d], Reply)
    BY <1>2, <1>11, PartTail, PartQuiet, RangeTail DEF HearsEnd, Hears
  <2>2. CASE toPage' = rest /\ UNCHANGED <<page, fromPage>>
    BY <1>4, <1>5, <2>1, <2>2
  <2>3. CASE Finish /\ toPage' = Undelivered(rest, {channel})
    <3> HIDE DEF rest
    <3>1. \A d \in Conns : Part(toPage'[d], rest[d], Reply)
      BY <2>1, <2>3, ClosingErrand
    <3>2. \A d \in Conns : Part(toPage'[d], toPage[d], Reply)
      BY <2>1, <3>1, PartTrans
    <3>3. \E cs : page' = Closing(page, cs) /\ fromPage' = SaysBye(fromPage, cs)
      BY <2>3 DEF Finish
    <3> QED BY <1>4, <1>5, <3>2, <3>3
  <2> QED BY <1>11, <2>2, <2>3 DEF HearsEnd
\* The handshake is done: a join asks, or hangs up.
<1>12. ASSUME NEW c \in Conns, HearsReply(c) PROVE Errands' /\ Pending' \subseteq Pending
  <2>1. CASE /\ page' = Closing([page EXCEPT ![c].ready = TRUE], {c})
             /\ fromPage' = SaysBye(fromPage, {c}) /\ toPage' = Undelivered(toPage, {c})
    <3>1. PICK pg \in [Conns -> End] : /\ pg = [page EXCEPT ![c].ready = TRUE]
                                       /\ \A d \in Conns : pg[d].role = page[d].role
      <4>1. page[c] \in End /\ [page[c] EXCEPT !.ready = TRUE] \in End
            /\ [page[c] EXCEPT !.ready = TRUE].role = page[c].role
        BY <1>2 DEF End
      <4> DEFINE q == [page EXCEPT ![c].ready = TRUE]
      <4>2. \A d \in Conns : q[d] = IF d = c THEN [page[c] EXCEPT !.ready = TRUE] ELSE page[d]
        BY <1>2
      <4>3. q \in [Conns -> End]
        BY <1>2, <4>1
      <4> QED BY <4>1, <4>2, <4>3
    <3>2. \A d \in Conns : page'[d].role = page[d].role
      <4>1. \A d \in Conns : Closing(pg, {c})[d].role = pg[d].role
        BY <3>1 DEF Closing, End
      <4> QED BY <2>1, <3>1, <4>1
    <3> QED BY <1>4, <1>5, <2>1, <3>2
  <2>2. CASE /\ page' = [page EXCEPT ![c].ready = TRUE]
             /\ toPage' = [toPage EXCEPT ![c] = Tail(@)]
             /\ fromPage' = [fromPage EXCEPT ![c] = Append(@,
                  IF page[c].role = "enter" THEN Frame("auth", page[c].seat) ELSE Frame("join", 0))]
    <3>1. toPage[c] # <<>> /\ Head(toPage[c]).t = "reply" /\ page[c].role # "none"
      BY <1>12 DEF HearsReply, Hears
    <3>2. toPage[c] \in Seq(Note) /\ fromPage[c] \in Seq(Note) /\ page[c] \in End
      BY <1>2
    <3>3. Head(toPage[c]) \in Reply
      BY <3>1, <3>2, RangeTail DEF Reply
    <3>4. \A d \in Conns : page'[d].role = page[d].role
      BY <1>2, <2>2 DEF End
    <3>5. \A d \in Conns : d # c => Keeps(d)
      <4>1. \A d \in Conns : Part(toPage'[d], toPage[d], Reply)
        BY <1>5, <2>2, <3>1
      <4>2. \A d \in Conns : d # c => Part(fromPage'[d], fromPage[d], PageErrand)
        BY <1>2, <2>2, PartQuiet
      <4> QED BY <1>3, <4>1, <4>2
    <3>6. /\ Quiet(fromPage[c], PageErrand) /\ Quiet(HostQueue, HostErrand(c))
          /\ session[c].at \notin {"handshake", "asked"}
          /\ \A h \in Dials : Quiet(fromHost[h], Replies(c))
          /\ ~ Quiet(toPage[c], Reply)
      <4>1. OneErrand(c)
        BY DEF Errands
      <4>2. ~ Quiet(toPage[c], Reply)
        BY <3>1, <3>2, <3>3, PartTail
      <4> QED BY <4>1, <4>2, Alone
    <3>7. Quiet(toPage'[c], Reply)
      <4>1. Few(toPage[c], Reply)
        BY DEF Errands, OneErrand
      <4>2. toPage'[c] = Tail(toPage[c])
        BY <1>2, <2>2
      <4> QED BY <3>1, <3>2, <3>3, <4>1, <4>2, PartTail
    <3>8. HostQueue' = HostQueue /\ session' = session /\ fromHost' = fromHost
      BY <1>1 DEF HostQueue, host
    <3>9. PICK f \in Note : /\ fromPage'[c] = Append(fromPage[c], f)
                            /\ f.t = (IF page[c].role = "enter" THEN "auth" ELSE "join")
      <4>1. Frame("auth", page[c].seat) \in Note /\ Frame("join", 0) \in Note
        BY <3>2, Constants DEF Frame, Note, Words, End
      <4>2. Frame("auth", page[c].seat).t = "auth" /\ Frame("join", 0).t = "join"
        BY DEF Frame
      <4> QED BY <1>2, <2>2, <4>1, <4>2
    <3>10. /\ Few(fromPage'[c], PageErrand)
           /\ \A i \in 1 .. Len(fromPage'[c]) : fromPage'[c][i] \in PageErrand => fromPage'[c][i] = f
      BY <3>2, <3>6, <3>9, PartAppend
    <3>11. OneErrand(c)'
      <4>1. /\ Few(HostQueue', HostErrand(c)) /\ \A h \in Dials : Few(fromHost'[h], Replies(c))
            /\ Few(toPage'[c], Reply)
        BY <3>6, <3>7, <3>8 DEF Few, Quiet
      <4> QED BY <3>6, <3>7, <3>8, <3>10, <4>1 DEF OneErrand
    <3>12. Pends(c)' => Pends(c)
      <4>1. MayAsk(c)
        BY <3>6 DEF MayAsk
      <4>2. CASE page[c].role = "enter"
        <5>1. f \notin PageErrand
          BY <3>9, <4>2 DEF PageErrand
        <5>2. Quiet(fromPage'[c], PageErrand)
          BY <3>10, <5>1 DEF Quiet
        <5>3. ~ Asks(c)' /\ ~ MayAsk(c)'
          BY <3>6, <3>7, <3>8, <5>2 DEF Asks, MayAsk, Quiet
        <5> QED BY <5>3 DEF Pends
      <4>3. CASE page[c].role = "join"
        BY <4>1, <4>3 DEF Pends
      <4> QED BY <3>1, <3>2, <4>2, <4>3 DEF End
    <3> QED BY <3>4, <3>5, <3>11, <3>12, OthersKeep
  <2> QED BY <1>12, <2>1, <2>2 DEF HearsReply
\* A socket closed: the page closes another, or enters over one.
<1>13. ASSUME NEW c \in Conns, HearsClose(c) PROVE Errands' /\ Pending' \subseteq Pending
  <2>1. PICK cs, bs, gone, to :
          /\ gone = [page EXCEPT ![c] = NoPage] /\ to = [toPage EXCEPT ![c] = <<>>]
          /\ toPage' = Undelivered(to, cs)
          /\ \/ \E d \in FreeConns : \E n : Opens(gone, SaysBye(fromPage, bs), d, "enter", n)
             \/ (\E ds : page' = Closing(gone, ds)) /\ fromPage' = SaysBye(fromPage, bs)
    BY <1>13 DEF HearsClose, Closed
  <2>2. gone \in [Conns -> End] /\ to \in [Conns -> Seq(Note)]
    BY <1>2, <2>1, EmptySeq, Constants DEF NoPage, End
  <2>3. \A d \in Conns : gone[d].role = "join" => page[d].role = "join"
    BY <1>2, <2>1 DEF NoPage
  <2>4. \A d \in Conns : Part(toPage'[d], toPage[d], Reply)
    <3>1. Quiet(<<>>, Reply)
      BY DEF Quiet
    <3>2. \A d \in Conns : Part(to[d], toPage[d], Reply)
      BY <1>2, <2>1, <3>1, PartQuiet
    <3>3. \A d \in Conns : Part(toPage'[d], to[d], Reply)
      BY <2>1, <2>2, ClosingErrand
    <3> QED BY <3>2, <3>3, PartTrans
  <2>5. \A d \in Conns : Part(SaysBye(fromPage, bs)[d], fromPage[d], PageErrand)
    BY <1>2, ClosingErrand
  <2>6. ASSUME NEW ds, page' = Closing(gone, ds), fromPage' = SaysBye(fromPage, bs)
        PROVE  Errands' /\ Pending' \subseteq Pending
    <3>1. \A d \in Conns : page'[d].role = "join" => page[d].role = "join"
      BY <2>2, <2>3, <2>6, ClosingType
    <3>2. \A d \in Conns : Keeps(d)
      BY <1>3, <2>4, <2>5, <2>6
    <3> QED BY <3>1, <3>2, OthersKeep
  <2>7. ASSUME NEW d \in FreeConns, NEW n, Opens(gone, SaysBye(fromPage, bs), d, "enter", n)
        PROVE  Errands' /\ Pending' \subseteq Pending
    <3>1. PICK from \in [Conns -> Seq(Note)] : from = SaysBye(fromPage, bs)
      BY <1>2, SaysByeType
    <3>2. /\ d \in Conns /\ page'[d].role = "enter"
          /\ fromPage'[d] = <<Frame("connect", 0), Frame("first", 0)>>
          /\ \A e \in Conns : e # d => page'[e] = gone[e] /\ fromPage'[e] = from[e]
      BY <2>2, <2>7, <3>1 DEF Opens, FreeConns
    <3>3. OneErrand(d)' /\ ~ Pends(d)'
      BY <1>1, <2>4, <3>2, OpensErrand DEF Pends
    <3>4. \A e \in Conns : e # d => Keeps(e) /\ (page'[e].role = "join" => page[e].role = "join")
      BY <1>3, <2>3, <2>4, <2>5, <3>1, <3>2
    <3> QED BY <3>3, <3>4, OthersKeep
  <2> QED BY <2>1, <2>6, <2>7
<1> QED BY <1>6, <1>7, <1>8, <1>9, <1>10, <1>11, <1>12, <1>13 DEF PageHears

\* The guest asks to join, once more: an errand begins.
LEMMA JoinErrand ==
  ASSUME Shape, Known, Errands, NEW c \in Conns, Join(c)
  PROVE  /\ Known' /\ Errands' /\ Pending' \subseteq Pending \cup {c}
         /\ UNCHANGED granted /\ joins' = joins + 1 /\ joins < MaxJoins
<1> USE DEF host, wires, pageVars, counts
<1>1. /\ UNCHANGED <<host, room, toHost, fromHost, toPage>>
      /\ c \in FreeConns /\ Opens(page, fromPage, c, "join", 0)
      /\ joins' = joins + 1 /\ joins < MaxJoins
  BY DEF Join
<1>2. /\ fromPage'[c] = <<Frame("connect", 0), Frame("first", 0)>>
      /\ \A d \in Conns : d # c => page'[d] = page[d] /\ fromPage'[d] = fromPage[d]
  BY <1>1 DEF Opens, Shape
<1>3. OneErrand(c)'
  <2>1. Part(toPage'[c], toPage[c], Reply)
    BY <1>1, PartQuiet
  <2> QED BY <1>1, <1>2, <2>1, OpensErrand
<1>4. ASSUME NEW d \in Conns, d # c PROVE OneErrand(d)' /\ (Pends(d)' => Pends(d))
  <2>1. Keeps(d)
    BY <1>1, <1>2, <1>4, PartQuiet DEF Keeps, HostQueue
  <2>2. page'[d] = page[d]
    BY <1>2, <1>4
  <2> QED BY <2>1, <2>2, KeepsErrand DEF Errands, Pends
<1>5. Errands' /\ Pending' \subseteq Pending \cup {c}
  BY <1>3, <1>4 DEF Errands, Pending
<1>6. Known' /\ UNCHANGED granted
  BY <1>1 DEF Known
<1> QED BY <1>1, <1>5, <1>6

\* A session that ends has no errand; the join that is answered was one.
LEMMA SessionCounts ==
  ASSUME Shape, SeatLeft, Known, Errands, NEW c \in Conns,
         Answer(c) \/ SessionTimesOut(c) \/ SessionEnds(c)
  PROVE  /\ Known' /\ Errands' /\ UNCHANGED joins
         /\ \/ UNCHANGED granted /\ Pending' \subseteq Pending
            \/ granted' = granted + 1 /\ c \in Pending /\ Pending' \subseteq Pending \ {c}
<1> USE DEF host, room, wires, pageVars, counts
<1>1. Known' /\ \A d \in Conns : Keeps(d)
  BY SessionErrand
<1>2. UNCHANGED <<page, joins>>
  BY DEF Answer, SessionTimesOut, SessionEnds
<1>3. Errands' /\ Pending' \subseteq Pending
  BY <1>1, <1>2, OthersKeep
<1>4. UNCHANGED granted \/ (granted' = granted + 1 /\ session[c].at = "asked" /\ session'[c].at = "none")
  <2>1. UNCHANGED granted \/ (granted' = granted + 1 /\ session[c].at = "asked"
                              /\ session' = [session EXCEPT ![c] = NoSession])
    BY DEF Answer, SessionTimesOut, SessionEnds, EndSession
  <2> QED BY <2>1 DEF Shape, NoSession
<1>5. ASSUME session[c].at = "asked", session'[c].at = "none"
      PROVE  c \in Pending /\ c \notin Pending'
  <2>1. c \in Pending
    BY <1>5 DEF Pending, Pends, Asks
  <2>2. /\ Quiet(fromPage[c], PageErrand) /\ Quiet(HostQueue, HostErrand(c))
        /\ \A h \in Dials : Quiet(fromHost[h], Replies(c))
        /\ Quiet(toPage[c], Reply)
    BY <1>5, Alone DEF Errands
  <2>3. /\ Quiet(fromPage'[c], PageErrand) /\ Quiet(HostQueue', HostErrand(c))
        /\ \A h \in Dials : Quiet(fromHost'[h], Replies(c))
        /\ Quiet(toPage'[c], Reply)
    BY <1>1, <2>2, PartQuiet DEF Keeps
  <2>4. ~ Asks(c)' /\ ~ MayAsk(c)'
    BY <1>5, <2>3 DEF Asks, MayAsk, Quiet
  <2> QED BY <2>1, <2>4 DEF Pending, Pends
<1> QED BY <1>1, <1>2, <1>3, <1>4, <1>5

\* Who waits to be let in asked for a seat none was granted for yet.
LEMMA SeatsSuffice ==
  ASSUME Shape, Counted
  PROVE  SeatLeft
<1> SUFFICES ASSUME NEW c \in Conns, session[c].at = "asked" PROVE granted + 1 \in Numbers
  BY DEF SeatLeft
<1>1. IsFiniteSet(Pending) /\ c \in Pending
  BY DEF Counted, Pending, Pends, Asks
<1>2. Cardinality(Pending) \in Nat /\ Cardinality(Pending) # 0
  BY <1>1, FS_CardinalityType, FS_EmptySet
<1>3. granted \in Nat /\ joins \in Numbers /\ granted + Cardinality(Pending) <= joins
  BY Constants DEF Shape, Counted
<1> QED BY <1>2, <1>3, BoundsAssumption DEF Numbers

\* A seat more is a join less, and a join more was counted.
LEMMA CountsStep ==
  ASSUME Shape, Counted, NEW c,
         \/ UNCHANGED <<granted, joins>> /\ Pending' \subseteq Pending
         \/ UNCHANGED joins /\ granted' = granted + 1 /\ c \in Pending /\ Pending' \subseteq Pending \ {c}
         \/ UNCHANGED granted /\ joins' = joins + 1 /\ joins < MaxJoins /\ Pending' \subseteq Pending \cup {c}
  PROVE  Counted'
<1>1. /\ IsFiniteSet(Pending) /\ Cardinality(Pending) \in Nat
      /\ granted \in Nat /\ joins \in Numbers /\ MaxJoins \in Nat
      /\ granted + Cardinality(Pending) <= joins
  BY FS_CardinalityType, Constants, BoundsAssumption DEF Shape, Counted
<1>2. ASSUME NEW T, IsFiniteSet(T), Pending' \subseteq T
      PROVE  /\ IsFiniteSet(Pending') /\ Cardinality(Pending') \in Nat
             /\ Cardinality(T) \in Nat /\ Cardinality(Pending') <= Cardinality(T)
  BY <1>2, FS_Subset, FS_CardinalityType
<1>3. CASE UNCHANGED <<granted, joins>> /\ Pending' \subseteq Pending
  <2>1. IsFiniteSet(Pending') /\ Cardinality(Pending') \in Nat /\ Cardinality(Pending') <= Cardinality(Pending)
    BY <1>1, <1>2, <1>3
  <2>2. granted' + Cardinality(Pending') <= joins'
    BY <1>1, <1>3, <2>1 DEF Numbers
  <2> QED BY <1>1, <1>3, <2>1, <2>2 DEF Counted
<1>4. CASE UNCHANGED joins /\ granted' = granted + 1 /\ c \in Pending /\ Pending' \subseteq Pending \ {c}
  <2>1. IsFiniteSet(Pending \ {c}) /\ Cardinality(Pending \ {c}) = Cardinality(Pending) - 1
    BY <1>1, <1>4, FS_RemoveElement
  <2>2. IsFiniteSet(Pending') /\ Cardinality(Pending') \in Nat /\ Cardinality(Pending') <= Cardinality(Pending) - 1
    BY <1>2, <1>4, <2>1
  <2>3. granted' + Cardinality(Pending') <= joins'
    BY <1>1, <1>4, <2>2 DEF Numbers
  <2> QED BY <1>1, <1>4, <2>2, <2>3 DEF Counted
<1>5. CASE UNCHANGED granted /\ joins' = joins + 1 /\ joins < MaxJoins /\ Pending' \subseteq Pending \cup {c}
  <2>1. IsFiniteSet(Pending \cup {c}) /\ Cardinality(Pending \cup {c}) \in {Cardinality(Pending), Cardinality(Pending) + 1}
    BY <1>1, FS_AddElement
  <2>2. IsFiniteSet(Pending') /\ Cardinality(Pending') \in Nat /\ Cardinality(Pending') <= Cardinality(Pending) + 1
    BY <1>1, <1>2, <1>5, <2>1
  <2>3. granted' + Cardinality(Pending') <= joins'
    BY <1>1, <1>5, <2>2 DEF Numbers
  <2>4. joins' \in Numbers
    BY <1>1, <1>5 DEF Numbers
  <2> QED BY <2>2, <2>3, <2>4 DEF Counted
<1> QED BY <1>3, <1>4, <1>5

\* No step makes a seat out of nothing.
LEMMA ErrandsStep ==
  ASSUME Shape, Known, Errands, Counted, [Next]_vars
  PROVE  Known' /\ Errands' /\ Counted'
<1> USE DEF host, room, wires, pageVars, counts
<1>0. SeatLeft
  BY SeatsSuffice
<1>1. CASE \/ \E c \in Conns : PageHears(c) \/ HandshakeTimesOut(c) \/ LoseGuest(c)
           \/ \E n \in Seats : Reconnect(n)
           \/ CancelJoin \/ Leave \/ Again
  <2>1. UNCHANGED host
    BY <1>1, PageSteps
  <2>2. UNCHANGED joins
    BY <1>1 DEF PageHears, HearsReply, HearsJoined, HearsReady, HearsEnd, HearsClose,
                HandshakeTimesOut, LoseGuest, Reconnect, CancelJoin, Leave, Again
  <2>3. Errands' /\ Pending' \subseteq Pending
    BY <1>1, PageErrands
  <2> QED BY <2>1, <2>2, <2>3, CountsStep DEF Known
<1>2. CASE \E c \in Conns : Join(c)
  BY <1>2, JoinErrand, CountsStep
<1>3. CASE HostSteps \/ DialFails \/ \E h \in Dials : LoseHost(h)
  <2>1. UNCHANGED <<granted, joins>>
    BY <1>3 DEF HostSteps, Dial, Dialed, EndsRoom, ReadsClose, ReadsOpen, ReadsGone, ReadsFrame,
                DialFails, LoseHost
  <2> QED BY <1>3, <2>1, HostErrands, CountsStep
<1>4. CASE \E c \in Conns : Answer(c) \/ SessionTimesOut(c) \/ SessionEnds(c)
  BY <1>0, <1>4, SessionCounts, CountsStep
<1>5. CASE (\E h \in Dials : RoomHears(h)) \/ \E c \in Conns : RoomHearsPage(c)
  <2>1. UNCHANGED <<host, counts>>
    BY <1>5 DEF RoomHears, RoomHearsPage, RoomHost, HostLeft, RoomClosesGuest, RoomEnds, RoomDelivers,
                RoomGuest, RoomForwards, GuestLeft
  <2> QED BY <1>5, <2>1, RoomErrands, CountsStep DEF Known
<1>6. CASE Stop \/ RoomForgets \/ UNCHANGED vars \/ \E n \in Seats : RemoveGuest(n)
  <2>1. UNCHANGED <<granted, link, dial, known, session, wires, page, joins>>
    BY <1>6 DEF Stop, RoomForgets, RemoveGuest, vars
  <2>2. \A c \in Conns : Keeps(c)
    BY <2>1, PartQuiet DEF Keeps, HostQueue
  <2> QED BY <2>1, <2>2, OthersKeep, CountsStep DEF Known
<1>7. CASE Next
  <2>1. CASE People
    BY <1>1, <1>2, <1>4, <1>6, <2>1 DEF People
  <2>2. CASE Faults
    BY <1>1, <1>3, <1>4, <1>6, <2>2 DEF Faults
  <2> QED BY <1>1, <1>3, <1>4, <1>5, <1>7, <2>1, <2>2 DEF Next
<1> QED BY <1>6, <1>7

\* The types the argument has no use for.
PlainTypes ==
  /\ shared \in BOOLEAN /\ seats \subseteq Seats /\ known \subseteq Conns
  /\ link \in {"off", "dialing", "up", "done"}
  /\ {claimed, ended, alarm, finished} \subseteq BOOLEAN
  /\ screen \in {"form", "wait", "live", "over"}
  /\ drops \in Nat

\* The sharing machine's own variables keep theirs: a seat it grants has a number, and
\* a guest it knows was announced.
LEMMA HostPlain ==
  ASSUME IInv, PlainTypes, [Next]_vars
  PROVE  /\ shared' \in BOOLEAN /\ seats' \subseteq Seats /\ known' \subseteq Conns
         /\ link' \in {"off", "dialing", "up", "done"}
<1> USE DEF host, room, wires, pageVars, counts
<1>0. Shape /\ SeatLeft /\ granted \in Nat
  BY SeatsSuffice, Constants DEF IInv, Shape
<1> DEFINE Fine == /\ shared' \in BOOLEAN /\ seats' \subseteq Seats /\ known' \subseteq Conns
                   /\ link' \in {"off", "dialing", "up", "done"}
<1>1. CASE UNCHANGED host
  BY <1>1 DEF PlainTypes
<1>2. CASE \/ \E c \in Conns : Join(c) \/ PageHears(c) \/ HandshakeTimesOut(c) \/ LoseGuest(c)
           \/ \E n \in Seats : Reconnect(n)
           \/ CancelJoin \/ Leave \/ Again
  <2>1. UNCHANGED host
    BY <1>0, <1>2, PageSteps
  <2> QED BY <1>1, <2>1
<1>3. CASE (\E h \in Dials : RoomHears(h) \/ LoseHost(h)) \/ RoomForgets \/ \E c \in Conns : RoomHearsPage(c)
  <2>1. UNCHANGED host
    BY <1>3 DEF RoomHears, RoomHearsPage, RoomHost, HostLeft, RoomClosesGuest, RoomEnds, RoomDelivers,
                RoomGuest, RoomForwards, GuestLeft, RoomForgets, LoseHost
  <2> QED BY <1>1, <2>1
<1>4. CASE Stop \/ UNCHANGED vars \/ \E n \in Seats : RemoveGuest(n)
  BY <1>4 DEF Stop, RemoveGuest, vars, PlainTypes
<1>5. CASE HostSteps \/ DialFails
  <2>1. UNCHANGED <<shared, seats>>
    BY <1>5 DEF HostSteps, Dial, Dialed, EndsRoom, ReadsClose, ReadsOpen, ReadsGone, ReadsFrame, DialFails
  <2>2. link' = link \/ link' \in {"off", "dialing", "up", "done"}
    BY <1>5 DEF HostSteps, Dial, Dialed, EndsRoom, ReadsClose, ReadsOpen, ReadsGone, ReadsFrame, DialFails,
                HangUp
  <2>3. known' \subseteq known \/ (ReadsOpen /\ known' = known \cup {Msg.c})
    BY <1>5 DEF HostSteps, Dial, Dialed, EndsRoom, ReadsClose, ReadsOpen, ReadsGone, ReadsFrame, DialFails,
                HangUp, EndSession
  <2>4. ReadsOpen => Msg.c \in Conns
    <3>1. ReadsOpen => dial \in Dials /\ toHost[dial] # <<>> /\ Msg.t = "open"
      BY <1>0 DEF ReadsOpen, Reads, Shape
    <3> QED BY <1>0, <3>1, RestQueues DEF Message
  <2> QED BY <2>1, <2>2, <2>3, <2>4 DEF PlainTypes
<1>6. ASSUME NEW c \in Conns, Answer(c) \/ SessionTimesOut(c) \/ SessionEnds(c) PROVE Fine
  <2>1. UNCHANGED <<shared, link>> /\ known' \subseteq known
    BY <1>6 DEF Answer, SessionTimesOut, SessionEnds, EndSession
  <2>2. seats' = seats \/ (session[c].at = "asked" /\ seats' = seats \cup {granted + 1})
    BY <1>6 DEF Answer, SessionTimesOut, SessionEnds
  <2>3. session[c].at = "asked" => granted + 1 \in Seats
    BY <1>0, Constants DEF SeatLeft
  <2> QED BY <2>1, <2>2, <2>3 DEF PlainTypes
<1>7. CASE Next
  <2>1. CASE People
    BY <1>2, <1>4, <1>6, <2>1 DEF People
  <2>2. CASE Faults
    BY <1>2, <1>3, <1>5, <1>6, <2>2 DEF Faults
  <2> QED BY <1>2, <1>3, <1>5, <1>6, <1>7, <2>1, <2>2 DEF Next
<1> QED BY <1>4, <1>7

\* So do the room's and the page's.
LEMMA RestPlain ==
  ASSUME PlainTypes, [Next]_vars
  PROVE  /\ {claimed', ended', alarm', finished'} \subseteq BOOLEAN
         /\ screen' \in {"form", "wait", "live", "over"}
         /\ drops' \in Nat
<1> USE DEF host, room, wires, pageVars, counts
<1>1. /\ {claimed, ended, alarm, finished} \subseteq BOOLEAN
      /\ screen \in {"form", "wait", "live", "over"} /\ drops \in Nat
  BY DEF PlainTypes
<1>2. ASSUME NEW h \in Dials, RoomHears(h)
      PROVE  /\ {claimed', ended', alarm'} \subseteq BOOLEAN /\ UNCHANGED <<finished, screen, drops>>
  BY <1>1, <1>2 DEF RoomHears, RoomHost, HostLeft, RoomClosesGuest, RoomEnds, RoomDelivers
<1>3. CASE RoomForgets
  BY <1>1, <1>3 DEF RoomForgets
<1>4. CASE \E c \in Conns : RoomHearsPage(c)
  BY <1>1, <1>4 DEF RoomHearsPage, RoomGuest, RoomForwards, GuestLeft
<1>5. CASE HostSteps \/ Stop \/ UNCHANGED vars \/ \E n \in Seats : RemoveGuest(n)
  <2>1. UNCHANGED <<claimed, ended, alarm, finished, screen, drops>>
    BY <1>5 DEF HostSteps, Dial, Dialed, EndsRoom, ReadsClose, ReadsOpen, ReadsGone, ReadsFrame,
                Stop, RemoveGuest, vars
  <2> QED BY <1>1, <2>1
<1>6. CASE \/ DialFails \/ \E h \in Dials : LoseHost(h)
           \/ \E c \in Conns : Answer(c) \/ SessionTimesOut(c) \/ SessionEnds(c)
  <2>1. UNCHANGED <<claimed, ended, alarm, finished, screen>> /\ drops' \in {drops, drops + 1}
    BY <1>6 DEF DialFails, LoseHost, Answer, SessionTimesOut, SessionEnds, Drop
  <2> QED BY <1>1, <2>1
<1>7. CASE \/ \E c \in Conns : Join(c) \/ PageHears(c) \/ HandshakeTimesOut(c) \/ LoseGuest(c)
           \/ \E n \in Seats : Reconnect(n)
           \/ CancelJoin \/ Leave \/ Again
  <2>1. ASSUME NEW c \in Conns, Join(c) \/ HandshakeTimesOut(c) \/ LoseGuest(c)
        PROVE  /\ UNCHANGED <<room, finished>> /\ screen' \in {screen, "wait"}
               /\ drops' \in {drops, drops + 1}
    BY <2>1 DEF Join, HandshakeTimesOut, LoseGuest, Drop
  <2>2. ASSUME NEW n \in Seats, Reconnect(n)
        PROVE  UNCHANGED <<room, finished, drops>> /\ screen' \in {screen, "wait"}
    BY <2>2 DEF Reconnect
  <2>3. CancelJoin => UNCHANGED <<room, finished, drops>> /\ screen' = "form"
    BY DEF CancelJoin
  <2>4. Leave => UNCHANGED <<room, drops>> /\ finished' = TRUE /\ screen' = "over"
    BY DEF Leave, Finish
  <2>5. Again => UNCHANGED <<room, drops>> /\ finished' = FALSE /\ screen' = "form"
    BY DEF Again
  <2>6. ASSUME NEW c \in Conns, HearsReply(c) \/ HearsJoined(c) \/ HearsReady(c)
        PROVE  UNCHANGED <<room, finished, drops>> /\ screen' \in {screen, "live"}
    BY <2>6 DEF HearsReply, HearsJoined, HearsReady
  <2>7. ASSUME NEW c \in Conns, HearsEnd(c)
        PROVE  /\ UNCHANGED <<room, drops>> /\ screen' \in {screen, "over"}
               /\ finished' = finished \/ finished' = TRUE
    BY <2>7 DEF HearsEnd, Finish
  <2>8. ASSUME NEW c \in Conns, HearsClose(c)
        PROVE  /\ UNCHANGED <<room, drops>> /\ screen' \in {screen, "over"}
               /\ finished' \in BOOLEAN
    BY <2>8 DEF HearsClose, Closed
  <2>9. UNCHANGED room
    BY <1>7, <2>1, <2>2, <2>3, <2>4, <2>5, <2>6, <2>7, <2>8 DEF PageHears
  <2>10. screen' \in {screen, "form", "wait", "live", "over"}
    BY <1>7, <2>1, <2>2, <2>3, <2>4, <2>5, <2>6, <2>7, <2>8 DEF PageHears
  <2>11. drops' \in {drops, drops + 1}
    BY <1>7, <2>1, <2>2, <2>3, <2>4, <2>5, <2>6, <2>7, <2>8 DEF PageHears
  <2>12. finished' = finished \/ finished' \in BOOLEAN
    BY <1>7, <2>1, <2>2, <2>3, <2>4, <2>5, <2>6, <2>7, <2>8 DEF PageHears
  <2> QED BY <1>1, <2>9, <2>10, <2>11, <2>12
<1>8. CASE Next
  <2>1. CASE People
    BY <1>5, <1>6, <1>7, <2>1 DEF People
  <2>2. CASE Faults
    BY <1>3, <1>6, <1>7, <2>2 DEF Faults
  <2> QED BY <1>1, <1>2, <1>4, <1>5, <1>6, <1>7, <1>8, <2>1, <2>2 DEF Next
<1> QED BY <1>5, <1>8

-----------------------------------------------------------------------------
(* The theorems.                                                           *)

\* Shape and the agreement hold at the start and every step keeps them.
THEOREM Invariance == Spec => []IInv
<1> USE DEF host, room, wires, pageVars, counts
<1>1. Init => IInv
  <2> SUFFICES ASSUME Init PROVE IInv
    OBVIOUS
  <2>1. Shape
    BY EmptySeq, Constants DEF Init, Shape, NoSession, NoPage, Standing, End
  <2>2. /\ \A c \in Conns : /\ fromPage[c] = <<>> /\ toPage[c] = <<>> /\ session[c].at = "none"
                          /\ page[c].role = "none"
        /\ \A h \in Dials : fromHost[h] = <<>>
        /\ HostQueue = <<>>
    BY DEF Init, HostQueue, NoSession, NoPage
  <2>3. \A K : Quiet(<<>>, K) /\ Few(<<>>, K)
    BY EmptySeq DEF Quiet, Few
  <2>4. Known /\ Errands
    BY <2>2, <2>3 DEF Known, Errands, OneErrand
  <2>5. Pending = {}
    <3>1. \A c \in Conns : ~ Asks(c) /\ ~ MayAsk(c)
      BY <2>2, <2>3 DEF Asks, MayAsk, Quiet
    <3> QED BY <3>1 DEF Pending, Pends
  <2>6. Counted
    BY <2>5, FS_EmptySet, Constants DEF Init, Counted
  <2> QED BY <2>1, <2>4, <2>6
            DEF Init, IInv, NoGuestStranded, EndedEmpty, WillForget, GuestsKnown, OpenGuests
<1>2. IInv /\ [Next]_vars => IInv'
  <2> SUFFICES ASSUME IInv, [Next]_vars PROVE IInv'
    OBVIOUS
  <2>0. /\ Shape /\ SeatLeft /\ Known /\ Errands /\ Counted
        /\ NoGuestStranded /\ EndedEmpty /\ WillForget /\ GuestsKnown
    BY SeatsSuffice DEF IInv
  <2>1. Shape' /\ Known' /\ Errands' /\ Counted'
    BY <2>0, ShapeStep, ErrandsStep
  <2>2. CASE /\ UNCHANGED <<hostSock, guestSock, claimed, ended, alarm>>
             /\ UNCHANGED <<link, dial, session, toHost, fromHost>>
    BY <2>0, <2>1, <2>2
       DEF IInv, NoGuestStranded, EndedEmpty, WillForget, GuestsKnown, OpenGuests, OpenHosts, Held
  <2>3. CASE \/ \E c \in Conns : \/ Join(c) \/ PageHears(c) \/ HandshakeTimesOut(c) \/ LoseGuest(c)
             \/ \E n \in Seats : Reconnect(n)
             \/ CancelJoin \/ Leave \/ Again
    <3>1. UNCHANGED <<host, room, toHost, fromHost>>
      BY <2>0, <2>3, PageSteps
    <3> QED BY <2>2, <3>1
  <2>4. CASE Stop \/ UNCHANGED vars \/ \E n \in Seats : RemoveGuest(n)
    BY <2>2, <2>4 DEF Stop, RemoveGuest, vars
  <2>5. CASE RoomForgets
    <3>1. OpenHosts' = OpenHosts /\ OpenGuests' = OpenGuests /\ UNCHANGED <<host, wires>>
      BY <2>5 DEF RoomForgets, OpenHosts, OpenGuests
    <3>2. IF OpenHosts # {} THEN UNCHANGED <<claimed, ended>> ELSE claimed' = FALSE /\ ended' = FALSE
      BY <2>5 DEF RoomForgets
    <3>3. GuestsKnown' /\ NoGuestStranded'
      BY <2>0, <3>1 DEF GuestsKnown, NoGuestStranded, Held
    <3>4. EndedEmpty' /\ WillForget'
      BY <2>0, <3>1, <3>2 DEF EndedEmpty, WillForget
    <3> QED BY <2>1, <3>3, <3>4 DEF IInv
  <2>6. CASE (\E h \in Dials : RoomHears(h)) \/ \E c \in Conns : RoomHearsPage(c)
    BY <2>1, <2>6, RoomAgrees DEF IInv
  <2>7. CASE \/ HostSteps \/ DialFails \/ \E h \in Dials : LoseHost(h)
             \/ \E c \in Conns : Answer(c) \/ SessionTimesOut(c) \/ SessionEnds(c)
    BY <2>0, <2>1, <2>7, HostAgrees DEF IInv
  <2>8. CASE Next
    <3>1. CASE People
      BY <2>3, <2>4, <2>7, <3>1 DEF People
    <3>2. CASE Faults
      BY <2>3, <2>5, <2>7, <3>2 DEF Faults
    <3> QED BY <2>3, <2>6, <2>7, <2>8, <3>1, <3>2 DEF Next
  <2> QED BY <2>4, <2>8
<1> QED BY <1>1, <1>2, PTL DEF Spec

\* Every variable of the room, the sharing machine and the page keeps its type; no
\* seat is granted that nobody asked for.
THEOREM TypeCorrect == Spec => []TypeOK
<1>1. Init => PlainTypes
  <2> SUFFICES ASSUME Init PROVE PlainTypes
    OBVIOUS
  <2>1. shared \in BOOLEAN /\ {claimed, ended, alarm, finished} \subseteq BOOLEAN
    BY Zenon DEF Init
  <2>2. seats \subseteq Seats /\ known \subseteq Conns /\ drops \in Nat
    BY DEF Init
  <2>3. link \in {"off", "dialing", "up", "done"} /\ screen \in {"form", "wait", "live", "over"}
    BY DEF Init
  <2> QED BY <2>1, <2>2, <2>3 DEF PlainTypes
<1>2. IInv /\ PlainTypes /\ [Next]_vars => PlainTypes'
  BY HostPlain, RestPlain DEF PlainTypes
<1>3. IInv /\ PlainTypes => TypeOK
  <2> SUFFICES ASSUME IInv, PlainTypes PROVE TypeOK
    OBVIOUS
  <2>1. Shape /\ joins \in Nat
    BY Constants DEF IInv, Counted
  <2>2. \A h \in Dials : \A i \in 1 .. Len(toHost[h]) : toHost[h][i].c \in Conns \cup {NoConn}
    <3>1. \A h \in Dials : \A i \in 1 .. Len(toHost[h]) : toHost[h][i] \in Message
      BY <2>1, ElementOfSeq DEF Shape
    <3> QED BY <3>1 DEF Message
  <2>3. \A c \in Conns : \A i \in 1 .. Len(toPage[c]) : toPage[c][i].n \in 0 .. MaxJoins
    <3>1. \A c \in Conns : \A i \in 1 .. Len(toPage[c]) : toPage[c][i] \in Note
      BY <2>1, ElementOfSeq DEF Shape
    <3> QED BY <3>1 DEF Note, Numbers
  <2>4. page \in [Conns -> [role : {"none", "join", "enter"}, ready : BOOLEAN,
                            shut : BOOLEAN, seat : 0 .. MaxJoins]]
    BY <2>1 DEF Shape, End, Numbers
  <2>5. session \in [Conns -> [at : {"none", "handshake", "first", "asked", "live"},
                               seat : 0 .. MaxJoins]]
    BY <2>1 DEF Shape, Standing, Numbers
  <2>6. granted \in 0 .. MaxJoins
    BY <2>1 DEF Shape, Numbers
  <2> QED BY <2>1, <2>2, <2>3, <2>4, <2>5, <2>6 DEF Shape, PlainTypes, TypeOK
<1> QED BY <1>1, <1>2, <1>3, Invariance, PTL DEF Spec

\* Room.host, webSocketClose and the commands leave no guest's socket open once the
\* host they spoke to is gone.
THEOREM GuestsHaveHost == Spec => []NoGuestStranded
<1>1. IInv => NoGuestStranded
  BY DEF IInv
<1> QED BY <1>1, Invariance, PTL

\* What the room keeps in storage is a present host's, or its alarm is set.
THEOREM StorageIsTemporary == Spec => []NothingKeptForGood
<1>1. IInv => NothingKeptForGood
  BY DEF IInv, WillForget, NothingKeptForGood, OpenHosts
<1> QED BY <1>1, Invariance, PTL

\* A guest with an open socket has a session at the connected host, or the word that
\* it came, or that it goes, is still on the host's connection.
THEOREM RoomAndHostAgree == Spec => []HostKnowsGuests
<1>1. ASSUME IInv PROVE HostKnowsGuests
  <2>1. ASSUME NEW c \in OpenGuests, NEW h \in OpenHosts, Held(h)
        PROVE  \/ session[c].at # "none"
               \/ \E i \in 1 .. Len(toHost[h]) :
                    toHost[h][i].t = "bye" \/ toHost[h][i] = Tagged("open", c, 0)
               \/ \E i \in 1 .. Len(fromHost[h]) :
                    fromHost[h][i].t = "bye" \/ fromHost[h][i] = Tagged("close", c, 0)
    <3>1. toHost[h] \in Seq(Message) /\ fromHost[h] \in Seq(Message)
      BY <1>1 DEF IInv, Shape, OpenHosts
    <3>2. \A q \in Seq(Message) : \A m \in Range(q) : \E i \in 1 .. Len(q) : q[i] = m
      BY RangeEquality
    <3>3. session[c].at # "none" \/ Opening(toHost[h], c) \/ Ending(fromHost[h], c)
      BY <1>1, <2>1 DEF IInv, GuestsKnown
    <3> QED BY <3>1, <3>2, <3>3 DEF Opening, Ending
  <2> QED BY <2>1 DEF HostKnowsGuests
<1> QED BY <1>1, Invariance, PTL
=============================================================================
