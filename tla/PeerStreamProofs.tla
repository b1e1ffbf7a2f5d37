-------------------------- MODULE PeerStreamProofs --------------------------
(***************************************************************************)
(* What holds of the stream of a terminal's output for every bound on the  *)
(* chunks, the queues, the ring and the switches of hosting: the types,    *)
(* and that no chunk comes twice to a screen of a connection that          *)
(* subscribed once (NeverTwice).                                           *)
(*                                                                         *)
(* The types rest on a count: an offset was pushed for every chunk emitted *)
(* and skipped for every switch (TotalInv).  That nothing comes twice is   *)
(* about order: the frame being sent, the queue and the wire, in the order *)
(* they will be read, each begin where the one before ended or later, and  *)
(* the first begins at the offset the screen holds or later (Sent).        *)
(***************************************************************************)
EXTENDS PeerStream, SequenceTheorems, TLAPS

\* The bounds are natural numbers, and neither the ring nor a replay is empty
\* for want of room.
LEMMA Bounds ==
  /\ MaxChunks \in Nat /\ MaxToggles \in Nat /\ MaxUp \in Nat /\ MaxWire \in Nat
  /\ RING_CAP \in Nat /\ SEED_CAP \in Nat /\ OUT_QUEUE \in Nat
  /\ SEED_CAP > 0 /\ RING_CAP > 0
  BY BoundsAssumption

\* The tail of a sequence: the last members, in their order.
LEMMA LastNTail ==
  ASSUME NEW S, NEW s \in Seq(S), NEW n \in Nat
  PROVE  /\ LastN(s, n) \in Seq(S)
         /\ Len(LastN(s, n)) = IF Len(s) > n THEN n ELSE Len(s)
         /\ \A i \in 1 .. Len(LastN(s, n)) :
              LastN(s, n)[i] = s[Len(s) - Len(LastN(s, n)) + i]
<1> DEFINE l == Len(s)
           k == IF l > n THEN n ELSE l
<1>1. l \in Nat /\ k \in 0 .. l
  OBVIOUS
<1>2. LastN(s, n) = SubSeq(s, l - k + 1, l)
  <2>1. l - k + 1 = IF l > n THEN l - n + 1 ELSE 1
    BY <1>1
  <2> HIDE DEF k
  <2> QED
    BY <2>1 DEF LastN
<1> HIDE DEF k
<1>3. \A i \in l - k + 1 .. l : s[i] \in S
  BY <1>1
<1>4. /\ SubSeq(s, l - k + 1, l) \in Seq(S)
      /\ Len(SubSeq(s, l - k + 1, l))
           = IF l - k + 1 <= l THEN l - (l - k + 1) + 1 ELSE 0
      /\ \A i \in 1 .. l - (l - k + 1) + 1 :
           SubSeq(s, l - k + 1, l)[i] = s[(l - k + 1) + i - 1]
  <2>1. l - k + 1 \in Int /\ l \in Int
    BY <1>1
  <2> HIDE DEF l
  <2> QED
    BY <1>3, <2>1, SubSeqProperties
<1>5. LastN(s, n) \in Seq(S) /\ Len(LastN(s, n)) = k
  BY <1>1, <1>2, <1>4
<1>6. ASSUME NEW i \in 1 .. k
      PROVE  LastN(s, n)[i] = s[l - k + i]
  <2>1. i \in 1 .. l - (l - k + 1) + 1 /\ (l - k + 1) + i - 1 = l - k + i
    BY <1>1
  <2> QED
    BY <1>2, <1>4, <2>1
<1> QED
  BY <1>5, <1>6 DEF k

-----------------------------------------------------------------------------
(* The offset the stream has got to stays within the bounds: every chunk   *)
(* that has been pushed was emitted, and every gap was switched for.       *)

TotalInv ==
  /\ tee = "push" => emitted > 0
  /\ total + (IF tee = "push" THEN 1 ELSE 0) + (IF applying THEN 1 ELSE 0)
       <= emitted + toggles

\* The flush thread sends a frame it has made.
Counted == TypeOK /\ TotalInv /\ (tee = "send" => frame \in Frame)

\* Empty queues are within their bounds.
LEMMA NothingLeft ==
  /\ <<>> \in Seq(Frame) /\ <<>> \in Seq(MaybeOffset) /\ <<>> \in Seq(Chunks)
  /\ Len(<<>>) = 0
  /\ 0 <= OUT_QUEUE /\ 0 <= MaxWire /\ 0 <= RING_CAP
  BY EmptySeq, Bounds

\* The numbers of the state are natural numbers.
LEMMA Numbers ==
  ASSUME TypeOK
  PROVE  /\ emitted \in Nat /\ toggles \in Nat /\ base \in Nat
         /\ Len(buf) \in Nat /\ total \in Nat
         /\ emitted <= MaxChunks /\ toggles <= MaxToggles
  BY Bounds DEF TypeOK, Offsets, total

\* A push moves the stream on by one and keeps the tail of what was held.
LEMMA PushRing ==
  ASSUME Counted, TeePush
  PROVE  /\ emitted \in Chunks
         /\ base' \in Nat /\ base' >= base
         /\ buf' \in Seq(Chunks) /\ Len(buf') \in 1 .. RING_CAP
         /\ total' = total + 1
         /\ buf'[Len(buf')] = emitted
         /\ \A i \in 1 .. Len(buf') - 1 :
              /\ i + (base' - base) \in 1 .. Len(buf)
              /\ buf'[i] = buf[i + (base' - base)]
<1> DEFINE all == Append(buf, emitted)
<1>1. emitted \in Chunks /\ buf \in Seq(Chunks) /\ base \in Nat /\ Len(buf) \in Nat
  BY Numbers, Bounds DEF Counted, TypeOK, TotalInv, TeePush, Chunks
<1>2. /\ all \in Seq(Chunks) /\ Len(all) = Len(buf) + 1
      /\ \A i \in 1 .. Len(buf) : all[i] = buf[i]
      /\ all[Len(buf) + 1] = emitted
  BY <1>1, AppendProperties
<1>3. buf' = LastN(all, RING_CAP) /\ base' = base + (Len(all) - Len(buf'))
  BY DEF TeePush, Push
<1> HIDE DEF all
<1>4. /\ buf' \in Seq(Chunks)
      /\ Len(buf') = IF Len(all) > RING_CAP THEN RING_CAP ELSE Len(all)
      /\ \A i \in 1 .. Len(buf') : buf'[i] = all[Len(all) - Len(buf') + i]
  <2>1. RING_CAP \in Nat
    BY Bounds
  <2>2. /\ LastN(all, RING_CAP) \in Seq(Chunks)
        /\ Len(LastN(all, RING_CAP)) = IF Len(all) > RING_CAP THEN RING_CAP ELSE Len(all)
        /\ \A i \in 1 .. Len(LastN(all, RING_CAP)) :
             LastN(all, RING_CAP)[i] = all[Len(all) - Len(LastN(all, RING_CAP)) + i]
    BY <1>2, <2>1, LastNTail
  <2> QED
    BY <1>3, <2>2
<1>5. Len(buf') \in 1 .. RING_CAP /\ base' \in Nat /\ base' >= base
  BY <1>1, <1>2, <1>3, <1>4, Bounds
<1>6. total' = total + 1
  BY <1>1, <1>2, <1>3, <1>5 DEF total
<1>7. buf'[Len(buf')] = emitted
  BY <1>1, <1>2, <1>4, <1>5
<1>8. ASSUME NEW i \in 1 .. Len(buf') - 1
      PROVE  /\ i + (base' - base) \in 1 .. Len(buf)
             /\ buf'[i] = buf[i + (base' - base)]
  <2>1. i + (base' - base) \in 1 .. Len(buf)
    <3>1. base' - base = Len(buf) + 1 - Len(buf') /\ base' - base \in Nat
      BY <1>1, <1>2, <1>3, <1>5
    <3>2. Len(buf') \in Nat /\ i \in Nat /\ 1 <= i /\ i <= Len(buf') - 1
      BY <1>5, Bounds
    <3> QED
      BY <1>1, <3>1, <3>2
  <2>2. buf'[i] = all[i + (base' - base)]
    <3>1. Len(buf') \in Nat /\ i \in 1 .. Len(buf')
      BY <1>5, Bounds
    <3>2. buf'[i] = all[Len(all) - Len(buf') + i]
      BY <1>4, <3>1
    <3>3. Len(all) - Len(buf') + i = i + (base' - base)
      BY <1>1, <1>2, <1>3, <3>1
    <3> QED
      BY <3>2, <3>3
  <2> QED
    BY <1>2, <2>1, <2>2
<1> QED
  BY <1>1, <1>4, <1>5, <1>6, <1>7, <1>8

\* Retiring the offsets handed out empties the ring, and moves the stream by one
\* if there was any.
LEMMA RetireRing ==
  ASSUME TypeOK, ApplyRetires
  PROVE  /\ buf' = <<>> /\ Len(buf') = 0
         /\ base' \in Nat /\ total' = base'
         /\ base' = IF Exists THEN total + 1 ELSE 0
         /\ ~ Exists => total = 0
<1>1. base \in Nat /\ Len(<<>>) = 0
  BY Numbers, EmptySeq
<1> QED
  BY <1>1, Numbers DEF ApplyRetires, Invalidate, Exists, total

\* A sub's answer is the tail of the ring: what it begins with follows the
\* offset it begins at, which for a resume is the one asked for.
LEMMA AnswerTail ==
  ASSUME TypeOK, NEW from \in MaybeOffset
  PROVE  LET a == Answer(from)
         IN  /\ a \in Frame
             /\ a.off = total
             /\ Len(a.d) \in Nat
             /\ Start(a) \in base .. total
             /\ \A i \in 1 .. Len(a.d) :
                  /\ Start(a) - base + i \in 1 .. Len(buf)
                  /\ a.d[i] = buf[Start(a) - base + i]
             /\ a.reset /\ a.d = <<>> => buf = <<>>
             /\ ~ a.reset => from = {Start(a)}
<1> DEFINE a == Answer(from)
<1>1. /\ buf \in Seq(Chunks) /\ base \in Nat /\ Len(buf) \in Nat
      /\ total = base + Len(buf) /\ total \in Offsets
  BY Numbers DEF TypeOK, total
<1>2. \A f \in Offsets : UNION {Since(g) : g \in {f}} = Since(f)
  OBVIOUS
<1>3. CASE a.reset
  <2>1. a.d = Seed /\ a.off = total /\ a = [d |-> Seed, off |-> total, reset |-> TRUE]
    BY <1>3 DEF Answer
  <2>2. /\ Seed \in Seq(Chunks)
        /\ Len(Seed) = IF Len(buf) > SEED_CAP THEN SEED_CAP ELSE Len(buf)
        /\ \A i \in 1 .. Len(Seed) : Seed[i] = buf[Len(buf) - Len(Seed) + i]
    BY <1>1, LastNTail, Bounds DEF Seed
  <2>3. Len(Seed) \in 0 .. Len(buf) /\ (Seed = <<>> => Len(buf) = 0)
    BY <1>1, <2>2, Bounds
  <2>4. buf = <<>> <=> Len(buf) = 0
    BY <1>1, EmptySeq
  <2>5. Start(a) = base + (Len(buf) - Len(Seed))
    BY <1>1, <2>1, <2>3 DEF Start
  <2>6. a \in Frame
    BY <1>1, <2>1, <2>2 DEF Frame
  <2> HIDE DEF a
  <2>7. Start(a) \in base .. total /\ Len(a.d) \in Nat
    BY <1>1, <2>1, <2>3, <2>5
  <2>8. ASSUME NEW i \in 1 .. Len(a.d)
        PROVE  /\ Start(a) - base + i \in 1 .. Len(buf)
               /\ a.d[i] = buf[Start(a) - base + i]
    <3>1. Start(a) - base + i = Len(buf) - Len(Seed) + i
      BY <1>1, <2>1, <2>3, <2>5
    <3> QED
      BY <1>1, <2>1, <2>2, <2>3, <3>1
  <2>9. a.d = <<>> => buf = <<>>
    BY <2>1, <2>3, <2>4
  <2> QED
    BY <1>3, <2>1, <2>6, <2>7, <2>8, <2>9 DEF a
<1>4. CASE ~ a.reset
  <2>1. UNION {Since(f) : f \in from} # {}
    BY <1>4 DEF Answer
  <2>2. PICK f \in Offsets : from = {f}
    BY <2>1 DEF MaybeOffset
  <2>3. Since(f) # {}
    BY <2>1, <2>2
  <2>4. f \in base .. total /\ Since(f) = {SubSeq(buf, f - base + 1, Len(buf))}
    BY <1>1, <2>3, Bounds DEF Since, Offsets
  <2> DEFINE m == SubSeq(buf, f - base + 1, Len(buf))
  <2>5. /\ m \in Seq(Chunks)
        /\ Len(m) = total - f
        /\ \A i \in 1 .. Len(m) : m[i] = buf[f - base + i]
    <3>1. f - base + 1 \in Int /\ Len(buf) \in Int
      BY <1>1, <2>4
    <3>2. \A i \in f - base + 1 .. Len(buf) : buf[i] \in Chunks
      BY <1>1, <2>4
    <3>3. /\ m \in Seq(Chunks)
          /\ Len(m) = IF f - base + 1 <= Len(buf)
                        THEN Len(buf) - (f - base + 1) + 1 ELSE 0
          /\ \A i \in 1 .. Len(buf) - (f - base + 1) + 1 :
               m[i] = buf[(f - base + 1) + i - 1]
      BY <3>1, <3>2, SubSeqProperties
    <3> HIDE DEF m
    <3> QED
      BY <1>1, <2>4, <3>3
  <2>6. a = [d |-> m, off |-> total, reset |-> FALSE]
    <3>1. UNION {Since(g) : g \in from} = {m}
      BY <1>2, <2>2, <2>4
    <3> QED
      BY <3>1 DEF Answer
  <2> HIDE DEF m
  <2>7. Start(a) = f
    BY <1>1, <2>4, <2>5, <2>6 DEF Start
  <2>8. a \in Frame
    BY <1>1, <2>5, <2>6 DEF Frame
  <2> HIDE DEF a
  <2>9. ASSUME NEW i \in 1 .. Len(a.d)
        PROVE  /\ Start(a) - base + i \in 1 .. Len(buf)
               /\ a.d[i] = buf[Start(a) - base + i]
    <3>1. Start(a) - base + i = f - base + i /\ f - base + i \in 1 .. Len(buf)
      BY <1>1, <2>4, <2>5, <2>6, <2>7
    <3> QED
      BY <2>5, <2>6, <3>1
  <2>10. a.off = total /\ Len(a.d) \in Nat /\ Start(a) \in base .. total
    BY <1>1, <2>4, <2>5, <2>6, <2>7
  <2> QED
    BY <1>4, <2>2, <2>7, <2>8, <2>9, <2>10 DEF a
<1> QED
  BY <1>3, <1>4

\* The frame the flush thread makes of a chunk it has pushed.
LEMMA PushFrame ==
  ASSUME Counted, TeePush
  PROVE  /\ total' \in Offsets
         /\ [d |-> <<emitted>>, off |-> total', reset |-> FALSE] \in Frame
<1>1. total' = total + 1 /\ emitted \in Chunks
  BY PushRing
<1>2. total + 1 <= emitted + toggles
  BY Numbers DEF Counted, TotalInv, TeePush
<1>3. total' \in Offsets
  BY <1>1, <1>2, Numbers, Bounds DEF Counted, Offsets
<1>4. <<emitted>> \in Seq(Chunks)
  BY <1>1
<1> QED
  BY <1>3, <1>4 DEF Frame

\* The flush thread and the switch of hosting keep the types and the count.
LEMMA RingCounted ==
  ASSUME Counted, Emit \/ TeePush \/ TeeSend \/ Apply \/ ApplyRetires
  PROVE  Counted'
<1> USE DEF Counted, ringVars, teeVars, applyVars, hostVars, viewerVars
<1>1. CASE Emit
  <2>1. emitted' \in 0 .. MaxChunks /\ emitted' > 0
    <3>1. emitted + 1 \in Nat /\ emitted + 1 <= MaxChunks /\ emitted + 1 > 0
      BY <1>1, Numbers, Bounds DEF Emit
    <3> QED
      BY <1>1, <3>1 DEF Emit
  <2>2. total' = total
    BY <1>1 DEF Emit, total
  <2>3. TotalInv'
    BY <1>1, <2>1, <2>2, Numbers DEF Emit, TotalInv
  <2>4. TypeOK' /\ (tee' = "send" => frame' \in Frame)
    BY <1>1, <2>1 DEF Emit, TypeOK
  <2> QED
    BY <2>3, <2>4
<1>2. CASE TeePush
  <2>1. base' \in Offsets /\ base' + Len(buf') \in Offsets
    BY <1>2, PushRing, PushFrame, Bounds DEF total, Offsets
  <2>2. TotalInv'
    BY <1>2, PushRing, Numbers DEF TeePush, TotalInv
  <2>3. /\ frame' \in Frame \cup {<<>>}
        /\ tee' \in {"idle", "send"}
        /\ tee' = "send" => frame' \in Frame
    BY <1>2, PushFrame DEF TeePush, TypeOK
  <2>4. TypeOK'
    BY <1>2, <2>1, <2>3, PushRing, Bounds DEF TeePush, TypeOK
  <2> QED
    BY <2>2, <2>3, <2>4
<1>3. CASE TeeSend
  <2>1. queue' \in Seq(Frame) /\ Len(queue') <= OUT_QUEUE
    BY <1>3, AppendProperties, Bounds DEF TeeSend, TypeOK
  <2>2. total' = total
    BY <1>3 DEF TeeSend, total
  <2>3. TotalInv'
    BY <1>3, <2>2, Numbers DEF TeeSend, TotalInv
  <2> QED
    BY <1>3, <2>1, <2>3 DEF TeeSend, TypeOK
<1>4. CASE Apply
  <2>1. toggles' \in 0 .. MaxToggles
    BY <1>4, Numbers, Bounds DEF Apply
  <2>2. total' = total
    BY <1>4 DEF Apply, total
  <2>3. TotalInv'
    BY <1>4, <2>2, Numbers DEF Apply, TotalInv
  <2> QED
    BY <1>4, <2>1, <2>3 DEF Apply, TypeOK
<1>5. CASE ApplyRetires
  <2>1. /\ buf' = <<>> /\ Len(buf') = 0 /\ base' \in Nat /\ total' = base'
        /\ total' <= total + 1
    BY <1>5, RetireRing, Numbers
  <2>2. TotalInv'
    BY <1>5, <2>1, Numbers DEF ApplyRetires, TotalInv
  <2>3. base' \in Offsets /\ base' + Len(buf') \in Offsets
    <3>1. total + 1 <= emitted + toggles
      BY <1>5, Numbers DEF TotalInv, ApplyRetires
    <3>2. base' \in Nat /\ base' <= total + 1
      BY <2>1
    <3>3. base' \in Offsets
      BY <3>1, <3>2, Numbers, Bounds DEF Offsets
    <3> QED
      BY <2>1, <3>3 DEF total
  <2>4. buf' \in Seq(Chunks)
    BY <2>1, EmptySeq
  <2> QED
    <3>1. Len(buf') <= RING_CAP
      BY <2>1, Bounds
    <3>2. TypeOK'
      BY <1>5, <2>3, <2>4, <3>1 DEF ApplyRetires, TypeOK
    <3> QED
      BY <1>5, <2>2, <3>2 DEF ApplyRetires
<1> QED
  BY <1>1, <1>2, <1>3, <1>4, <1>5

\* Asking for a stream keeps the types.
LEMMA AskTypes ==
  ASSUME TypeOK, NEW from \in MaybeOffset, Ask(from)
  PROVE  up' \in Seq(MaybeOffset)
  BY AppendProperties DEF Ask, TypeOK

\* An offset that moves on is one, or is lost.
LEMMA AdvanceTypes ==
  ASSUME TypeOK, NEW end \in Offsets, NEW len \in Nat
  PROVE  UNION {AdvanceOffset(h, end, len) : h \in held} \in MaybeOffset
<1>1. CASE held = {}
  BY <1>1 DEF MaybeOffset
<1>2. CASE held # {}
  <2>1. PICK h \in Offsets : held = {h}
    BY <1>2 DEF TypeOK, MaybeOffset
  <2>2. UNION {AdvanceOffset(g, end, len) : g \in held} = AdvanceOffset(h, end, len)
    BY <2>1
  <2>3. AdvanceOffset(h, end, len) \in MaybeOffset
    BY DEF AdvanceOffset, MaybeOffset
  <2> QED
    BY <2>2, <2>3
<1> QED
  BY <1>1, <1>2

\* A step that leaves the ring and the terminal's output alone leaves the count.
LEMMA CountKept ==
  ASSUME Counted, UNCHANGED <<ringVars, emitted, applyVars>>,
         tee' = tee \/ tee' # "push"
  PROVE  TotalInv'
<1>1. total' = total /\ (tee' = "push" => tee = "push")
  BY DEF total, ringVars
<1> QED
  BY <1>1, Numbers DEF Counted, TotalInv, applyVars

\* The connection and the viewer keep the types and the count.
LEMMA LinkCounted ==
  ASSUME Counted, Drop \/ Host \/ Connect \/ Reload \/ Viewer \/ PaceEnds
  PROVE  Counted'
<1> USE DEF Counted, ringVars, teeVars, applyVars, hostVars, viewerVars
<1>1. CASE Drop \/ Retired
  <2>1. /\ queue' \in Seq(Frame) /\ Len(queue') <= OUT_QUEUE
        /\ wire' \in Seq(Frame) /\ Len(wire') <= MaxWire
        /\ up' \in Seq(MaybeOffset)
    BY <1>1, NothingLeft DEF Drop, Retired, Closed
  <2>2. TypeOK' /\ tee' # "send"
    BY <1>1, <2>1 DEF Drop, Retired, Closed, TypeOK
  <2>3. TotalInv'
    BY <1>1, CountKept DEF Drop, Retired, Closed
  <2> QED
    BY <2>2, <2>3
<1>2. CASE WriteQueued
  <2>1. /\ Head(queue) \in Frame /\ Tail(queue) \in Seq(Frame)
        /\ Len(Tail(queue)) = Len(queue) - 1
    BY <1>2, HeadTailProperties DEF WriteQueued, TypeOK
  <2>2. /\ Append(wire, Head(queue)) \in Seq(Frame)
        /\ Len(Append(wire, Head(queue))) = Len(wire) + 1
    BY <2>1, AppendProperties DEF TypeOK
  <2>3. TypeOK'
    BY <1>2, <2>1, <2>2, Bounds DEF WriteQueued, TypeOK
  <2>4. TotalInv'
    BY <1>2, CountKept DEF WriteQueued
  <2> QED
    BY <1>2, <2>3, <2>4 DEF WriteQueued
<1>3. CASE QueueEmpty \/ ReadNothing \/ PaceEnds
  <2>1. TypeOK'
    <3>1. CASE QueueEmpty
      BY <3>1 DEF QueueEmpty, TypeOK
    <3>2. CASE ReadNothing
      BY <3>2 DEF ReadNothing, TypeOK
    <3>3. CASE PaceEnds
      BY <3>3 DEF PaceEnds, TypeOK
    <3> QED
      BY <1>3, <3>1, <3>2, <3>3
  <2>2. TotalInv'
    BY <1>3, CountKept DEF QueueEmpty, ReadNothing, PaceEnds
  <2> QED
    BY <1>3, <2>1, <2>2 DEF QueueEmpty, ReadNothing, PaceEnds
<1>4. CASE Attach
  <2>1. Head(up) \in MaybeOffset /\ Tail(up) \in Seq(MaybeOffset)
    BY <1>4, HeadTailProperties DEF Attach, TypeOK
  <2>2. Answer(Head(up)) \in Frame
    BY <2>1, AnswerTail
  <2>3. wire' \in Seq(Frame) /\ Len(wire') <= MaxWire
    BY <1>4, <2>2, AppendProperties, Bounds DEF Attach, TypeOK
  <2>4. TotalInv'
    BY <1>4, CountKept DEF Attach
  <2> QED
    BY <1>4, <2>1, <2>3, <2>4 DEF Attach, TypeOK
<1>5. CASE Connect
  <2>1. TypeOK'
    BY <1>5 DEF Connect, TypeOK
  <2>2. TotalInv'
    BY <1>5, CountKept DEF Connect
  <2> QED
    BY <1>5, <2>1, <2>2 DEF Connect
<1>6. CASE Reload
  <2>1. {} \in MaybeOffset /\ <<>> \in Seq(Chunks)
    BY DEF MaybeOffset
  <2>2. up' \in Seq(MaybeOffset)
    BY <1>6, <2>1, AskTypes DEF Reload, TypeOK
  <2>3. TotalInv'
    BY <1>6, CountKept DEF Reload
  <2> QED
    BY <1>6, <2>1, <2>2, <2>3 DEF Reload, TypeOK
<1>7. CASE Viewer
  <2>1. wire # <<>>
    BY <1>7 DEF Viewer, ReceiveReplay, ReceiveMore
  <2>2. /\ Head(wire) \in Frame
        /\ Tail(wire) \in Seq(Frame) /\ Len(Tail(wire)) = Len(wire) - 1
    BY <2>1, HeadTailProperties DEF TypeOK
  <2>3. Head(wire).d \in Seq(Chunks) /\ Head(wire).off \in Offsets
    BY <2>2 DEF Frame
  <2>4. wire' \in Seq(Frame) /\ Len(wire') <= MaxWire
    <3>1. Len(wire) \in Nat /\ Len(wire) <= MaxWire
      BY DEF TypeOK
    <3>2. wire' = Tail(wire)
      BY <1>7 DEF Viewer, ReceiveReplay, ReceiveMore
    <3> QED
      BY <2>2, <3>1, <3>2, Bounds
  <2>5. TotalInv'
    BY <1>7, CountKept DEF Viewer, ReceiveReplay, ReceiveMore
  <2>6. CASE ReceiveReplay
    <3>1. held' \in MaybeOffset
      BY <2>3, <2>6 DEF ReceiveReplay, MaybeOffset
    <3> QED
      BY <2>3, <2>4, <2>5, <2>6, <3>1 DEF ReceiveReplay, TypeOK
  <2>7. CASE ReceiveMore
    <3>1. screen' \in Seq(Chunks)
      BY <2>3, <2>7, ConcatProperties DEF ReceiveMore, TypeOK
    <3>2. held' \in MaybeOffset
      <4>1. Len(Head(wire).d) \in Nat
        BY <2>3
      <4>2. held' = UNION {AdvanceOffset(h, Head(wire).off, Len(Head(wire).d)) : h \in held}
        BY <2>7 DEF ReceiveMore, ExtendOffset
      <4> QED
        BY <2>3, <4>1, <4>2, AdvanceTypes
    <3>3. up' \in Seq(MaybeOffset) /\ paced' \in BOOLEAN
      BY <2>7, AskTypes DEF ReceiveMore, ExtendOffset, TypeOK, MaybeOffset
    <3> QED
      BY <2>4, <2>5, <2>7, <3>1, <3>2, <3>3 DEF ReceiveMore, TypeOK
  <2> QED
    BY <1>7, <2>6, <2>7 DEF Viewer
<1> QED
  BY <1>1, <1>2, <1>3, <1>4, <1>5, <1>6, <1>7 DEF Host

\* The types and the count hold throughout.
LEMMA CountedStep ==
  ASSUME Counted, [Next]_vars
  PROVE  Counted'
<1>1. CASE Next
  BY <1>1, RingCounted, LinkCounted DEF Next, Tee
<1>2. CASE UNCHANGED vars
  BY <1>2 DEF vars, ringVars, teeVars, applyVars, hostVars, viewerVars,
              Counted, TypeOK, TotalInv, total
<1> QED
  BY <1>1, <1>2

\* The stream begins empty.
LEMMA CountedInit ==
  ASSUME Init
  PROVE  Counted
<1>1. /\ buf \in Seq(Chunks) /\ Len(buf) = 0 /\ screen \in Seq(Chunks)
      /\ queue \in Seq(Frame) /\ Len(queue) <= OUT_QUEUE
      /\ wire \in Seq(Frame) /\ Len(wire) <= MaxWire
      /\ up \in Seq(MaybeOffset)
  BY NothingLeft DEF Init
<1>2. base \in Offsets /\ base + Len(buf) \in Offsets /\ held \in MaybeOffset
  BY <1>1, Bounds DEF Init, Offsets, MaybeOffset
<1>3. TypeOK
  <2>1. /\ Len(buf) <= RING_CAP
        /\ emitted \in 0 .. MaxChunks /\ toggles \in 0 .. MaxToggles
    BY <1>1, Bounds DEF Init
  <2> QED
    BY <1>1, <1>2, <2>1 DEF Init, TypeOK
<1>4. TotalInv
  BY <1>1 DEF Init, TotalInv, total
<1> QED
  BY <1>3, <1>4 DEF Init, Counted

\* Every variable keeps its type: the ring and the queues their bounds, and the
\* stream never runs past the offsets.
THEOREM TypeCorrect == Spec => []TypeOK
<1>1. Counted => TypeOK
  BY DEF Counted
<1> QED
  BY <1>1, CountedInit, CountedStep, PTL DEF Spec

-----------------------------------------------------------------------------
(* What is on its way, and what a connection has of it.                    *)

\* A frame of the stream: it ends where the stream has been, and does not begin
\* before it.
Within(f) == f.off <= total /\ Len(f.d) <= f.off

WithinInv ==
  /\ \A i \in 1 .. Len(wire) : Within(wire[i])
  /\ \A i \in 1 .. Len(queue) : Within(queue[i])
  /\ tee = "send" => Within(frame)
  /\ \A h \in held : h <= total
  /\ ~ Exists => screen = <<>>

\* Nothing is sent to a viewer that has not subscribed, and the first sub it
\* sends resumes from what it holds.
LinkInv ==
  /\ ~ link => ~ subscribed /\ ~ stale /\ up = <<>>
  /\ ~ subscribed => wire = <<>> /\ queue = <<>> /\ tee # "send" /\ ~ again
  /\ ~ subscribed /\ up # <<>> => held = {} \/ Head(up) = held
  /\ applying /\ link => stale

Sent == Counted /\ WithinInv /\ LinkInv

\* The stream moves on, and a ring that is there stays.
LEMMA StreamGrows ==
  ASSUME Counted, [Next]_vars
  PROVE  /\ total' \in Nat /\ total' >= total
         /\ Exists => Exists'
<1>1. Counted'
  BY CountedStep
<1>2. total' \in Nat /\ total \in Nat /\ base \in Nat /\ base' \in Nat
      /\ Len(buf) \in Nat
  BY <1>1, Bounds DEF Counted, TypeOK, Offsets, total
<1>3. CASE TeePush
  <2>1. buf' # <<>>
    BY <1>3, PushRing, EmptySeq, Bounds
  <2> QED
    BY <1>2, <1>3, <2>1, PushRing DEF Exists
<1>4. CASE ApplyRetires
  BY <1>2, <1>4, RetireRing DEF Exists, Counted
<1>5. CASE UNCHANGED ringVars
  BY <1>2, <1>5 DEF ringVars, total, Exists
<1> QED
  BY <1>3, <1>4, <1>5
     DEF Next, Emit, Tee, TeeSend, Apply, Drop, Host, WriteQueued, QueueEmpty,
         ReadNothing, Attach, Retired, Closed, Connect, Reload, Viewer,
         ReceiveReplay, ReceiveMore, PaceEnds, vars, ringVars

\* A frame of the stream stays one.
LEMMA WithinKept ==
  ASSUME Counted, [Next]_vars, NEW f \in Frame, Within(f)
  PROVE  Within(f)'
<1>1. total \in Nat /\ total' \in Nat /\ total' >= total /\ f.off \in Nat
  BY StreamGrows, Numbers, Bounds DEF Counted, Frame, Offsets
<1> QED
  BY <1>1 DEF Within

\* The members of a queue to which one is added, and from which one is taken.
LEMMA Queued ==
  ASSUME NEW q \in Seq(Frame), NEW f \in Frame
  PROVE  /\ Append(q, f) \in Seq(Frame) /\ Append(q, f) # <<>>
         /\ \A i \in 1 .. Len(Append(q, f)) :
              Append(q, f)[i] = f \/ (i \in 1 .. Len(q) /\ Append(q, f)[i] = q[i])
<1> DEFINE a == Append(q, f)
<1>1. /\ Len(q) \in Nat
      /\ a \in Seq(Frame) /\ a # <<>>
      /\ Len(a) = Len(q) + 1
      /\ \A i \in 1 .. Len(q) : a[i] = q[i]
      /\ a[Len(q) + 1] = f
  BY AppendProperties
<1> HIDE DEF a
<1>2. \A i \in 1 .. Len(a) : i = Len(q) + 1 \/ i \in 1 .. Len(q)
  BY <1>1
<1>3. ASSUME NEW i \in 1 .. Len(a)
      PROVE  a[i] = f \/ (i \in 1 .. Len(q) /\ a[i] = q[i])
  <2>1. CASE i = Len(q) + 1
    BY <1>1, <2>1
  <2>2. CASE i \in 1 .. Len(q)
    BY <1>1, <2>2
  <2> QED
    BY <1>2, <2>1, <2>2
<1> QED
  BY <1>1, <1>3 DEF a

\* See Queued.
LEMMA Unqueued ==
  ASSUME NEW q \in Seq(Frame), q # <<>>
  PROVE  /\ Head(q) \in Frame /\ Tail(q) \in Seq(Frame)
         /\ 1 \in 1 .. Len(q) /\ Head(q) = q[1]
         /\ \A i \in 1 .. Len(Tail(q)) :
              i + 1 \in 1 .. Len(q) /\ Tail(q)[i] = q[i + 1]
<1>1. Len(q) \in Nat /\ Len(q) >= 1
  BY EmptySeq
<1>2. /\ Head(q) \in Frame /\ Tail(q) \in Seq(Frame)
      /\ Len(Tail(q)) = Len(q) - 1
      /\ \A i \in 1 .. Len(Tail(q)) : Tail(q)[i] = q[i + 1]
  BY HeadTailProperties
<1>3. \A i \in 1 .. Len(Tail(q)) : i + 1 \in 1 .. Len(q)
  BY <1>1, <1>2
<1>4. Head(q) = q[1] /\ 1 \in 1 .. Len(q)
  BY <1>1
<1> QED
  BY <1>2, <1>3, <1>4

\* The connection keeps to what it was asked.
LEMMA LinkStep ==
  ASSUME Counted, LinkInv, [Next]_vars
  PROVE  LinkInv'
<1> USE DEF LinkInv, ringVars, teeVars, applyVars, hostVars, viewerVars
<1>1. CASE Emit \/ TeePush \/ TeeSend
  BY <1>1 DEF Emit, TeePush, TeeSend
<1>2. CASE Apply \/ ApplyRetires
  BY <1>2 DEF Apply, ApplyRetires, Counted, TypeOK
<1>3. CASE Drop \/ Retired
  BY <1>3 DEF Drop, Retired, Closed
<1>4. CASE WriteQueued \/ QueueEmpty \/ ReadNothing \/ PaceEnds
  BY <1>4 DEF WriteQueued, QueueEmpty, ReadNothing, PaceEnds
<1>5. CASE Attach
  BY <1>5 DEF Attach, Counted, TypeOK
<1>6. CASE Connect
  BY <1>6 DEF Connect
<1>7. CASE Reload
  BY <1>7 DEF Reload
<1>8. CASE Viewer
  BY <1>8 DEF Viewer, ReceiveReplay, ReceiveMore
<1>9. CASE UNCHANGED vars
  BY <1>9 DEF vars
<1> QED
  BY <1>1, <1>2, <1>3, <1>4, <1>5, <1>6, <1>7, <1>8, <1>9 DEF Next, Tee, Host

\* What a viewer receives is of the stream, and a replay of nothing is the only
\* frame before the stream has begun.
LEMMA Received ==
  ASSUME Sent, Viewer
  PROVE  /\ Head(wire) \in Frame /\ Within(Head(wire)) /\ wire # <<>>
         /\ wire' = Tail(wire)
         /\ Head(wire).d \in Seq(Chunks) /\ Len(Head(wire).d) \in Nat
         /\ Head(wire).off \in Nat /\ Head(wire).off <= total
         /\ ~ Exists => Head(wire).d = <<>>
         /\ \A h \in held : h \in Nat /\ h <= total
<1>1. wire # <<>> /\ wire \in Seq(Frame) /\ wire' = Tail(wire)
  BY DEF Viewer, ReceiveReplay, ReceiveMore, Sent, Counted, TypeOK
<1>2. Head(wire) \in Frame /\ Within(Head(wire))
  BY <1>1, Unqueued DEF Sent, WithinInv
<1>3. /\ Head(wire).d \in Seq(Chunks) /\ Len(Head(wire).d) \in Nat
      /\ Head(wire).off \in Nat /\ Head(wire).off <= total
      /\ Len(Head(wire).d) <= Head(wire).off
  BY <1>2, Bounds DEF Frame, Offsets, Within
<1>4. ASSUME ~ Exists
      PROVE  Head(wire).d = <<>>
  <2>1. total = 0
    BY <1>4, Numbers, EmptySeq DEF Exists, total, Sent, Counted
  <2>2. Len(Head(wire).d) = 0
    BY <1>3, <2>1
  <2> QED
    BY <1>3, <2>2, EmptySeq
<1>5. \A h \in held : h \in Nat /\ h <= total
  BY Bounds DEF Sent, WithinInv, Counted, TypeOK, MaybeOffset, Offsets
<1> QED
  BY <1>1, <1>2, <1>3, <1>4, <1>5

\* Whatever is on its way, or held, is of the stream.
LEMMA WithinStep ==
  ASSUME Sent, [Next]_vars
  PROVE  WithinInv'
<1>0. /\ Counted /\ WithinInv /\ LinkInv
      /\ wire \in Seq(Frame) /\ queue \in Seq(Frame)
      /\ tee = "send" => frame \in Frame
      /\ total' \in Nat /\ total \in Nat /\ total' >= total
      /\ Exists => Exists'
      /\ \A h \in held : h \in Nat
  BY StreamGrows, Numbers, Bounds DEF Sent, Counted, TypeOK, MaybeOffset, Offsets
<1>1. \A f \in Frame : Within(f) => f.off <= total' /\ Len(f.d) <= f.off
  BY <1>0, WithinKept DEF Within
<1>2. \A h \in held : h <= total'
  BY <1>0 DEF WithinInv
<1>3. ASSUME wire' = wire \/ wire' = <<>>
      PROVE  (\A i \in 1 .. Len(wire) : Within(wire[i]))'
  BY <1>0, <1>1, <1>3, EmptySeq DEF WithinInv, Within
<1>4. ASSUME queue' = queue \/ queue' = <<>>
      PROVE  (\A i \in 1 .. Len(queue) : Within(queue[i]))'
  BY <1>0, <1>1, <1>4, EmptySeq DEF WithinInv, Within
<1>5. ASSUME tee' = "send" => tee = "send" /\ frame' = frame
      PROVE  (tee = "send" => Within(frame))'
  BY <1>0, <1>1, <1>5 DEF WithinInv, Within
<1>6. CASE Emit \/ Apply \/ ApplyRetires \/ QueueEmpty \/ ReadNothing \/ PaceEnds
            \/ Drop \/ Retired \/ Connect \/ UNCHANGED vars
  BY <1>0, <1>2, <1>3, <1>4, <1>5, <1>6
     DEF WithinInv, Emit, Apply, ApplyRetires, QueueEmpty, ReadNothing, PaceEnds, Drop,
         Retired, Closed, Connect, vars, ringVars, teeVars, applyVars, hostVars, viewerVars
<1>7. CASE TeePush
  <2>1. emitted \in Chunks /\ total' = total + 1
    BY <1>0, <1>7, PushRing
  <2>2. (tee = "send" => Within(frame))'
    <3>1. Len(<<emitted>>) = 1
      OBVIOUS
    <3>2. tee' = "send" => frame' = [d |-> <<emitted>>, off |-> total', reset |-> FALSE]
      BY <1>7 DEF TeePush
    <3>3. tee' = "send" => frame'.off = total' /\ frame'.d = <<emitted>>
      BY <3>2
    <3>4. total' >= 1 /\ total' <= total'
      BY <1>0, <2>1
    <3> QED
      BY <3>1, <3>3, <3>4 DEF Within
  <2>3. UNCHANGED <<wire, queue, screen, held>>
    BY <1>7 DEF TeePush, hostVars, viewerVars
  <2> QED
    BY <1>0, <1>2, <1>3, <1>4, <2>2, <2>3 DEF WithinInv
<1>8. CASE TeeSend
  <2>1. UNCHANGED <<wire, screen, held, base, buf>> /\ tee' = "idle"
    BY <1>8 DEF TeeSend, ringVars, viewerVars
  <2>2. (\A i \in 1 .. Len(queue) : Within(queue[i]))'
    <3>1. CASE queue' = queue
      BY <1>4, <3>1
    <3>2. CASE queue' = Append(queue, frame)
      <4>1. \A i \in 1 .. Len(queue') :
              \/ queue'[i] = frame
              \/ i \in 1 .. Len(queue) /\ queue'[i] = queue[i]
        BY <1>0, <1>8, <3>2, Queued DEF TeeSend
      <4>2. frame \in Frame /\ Within(frame)
        BY <1>0, <1>8 DEF TeeSend, WithinInv
      <4> QED
        BY <1>0, <1>1, <4>1, <4>2 DEF WithinInv, Within
    <3> QED
      BY <1>8, <3>1, <3>2 DEF TeeSend
  <2> QED
    BY <1>0, <1>2, <1>3, <2>1, <2>2 DEF WithinInv
<1>9. CASE WriteQueued
  <2>1. UNCHANGED <<screen, held, tee, frame>>
    BY <1>9 DEF WriteQueued, teeVars, viewerVars
  <2>2. /\ Head(queue) \in Frame /\ Within(Head(queue))
        /\ \A i \in 1 .. Len(queue') :
             i + 1 \in 1 .. Len(queue) /\ queue'[i] = queue[i + 1]
    BY <1>0, <1>9, Unqueued DEF WriteQueued, WithinInv
  <2>3. (\A i \in 1 .. Len(queue) : Within(queue[i]))'
    BY <1>0, <1>1, <2>2 DEF WithinInv, Within
  <2>4. \A i \in 1 .. Len(wire') :
          \/ wire'[i] = Head(queue)
          \/ i \in 1 .. Len(wire) /\ wire'[i] = wire[i]
    BY <1>0, <1>9, <2>2, Queued DEF WriteQueued
  <2>5. (\A i \in 1 .. Len(wire) : Within(wire[i]))'
    BY <1>0, <1>1, <2>2, <2>4, SMTT(30) DEF WithinInv, Within
  <2> QED
    BY <1>0, <1>2, <1>5, <2>1, <2>3, <2>5 DEF WithinInv
<1>10. CASE Attach
  <2>1. UNCHANGED <<queue, screen, held, tee, frame>>
    BY <1>10 DEF Attach, teeVars, viewerVars
  <2> DEFINE a == Answer(Head(up))
  <2>2. Head(up) \in MaybeOffset
    BY <1>10, HeadTailProperties DEF Attach, Sent, Counted, TypeOK
  <2>3. /\ a \in Frame /\ a.off = total /\ Len(a.d) \in Nat
        /\ Start(a) \in base .. total
    BY <1>0, <2>2, AnswerTail DEF Counted
  <2> HIDE DEF a
  <2>4. Within(a)
    BY <1>0, <2>3, Numbers DEF Within, Start, Counted
  <2>5. \A i \in 1 .. Len(wire') :
          wire'[i] = a \/ (i \in 1 .. Len(wire) /\ wire'[i] = wire[i])
    BY <1>0, <1>10, <2>3, Queued DEF Attach, a
  <2>6. (\A i \in 1 .. Len(wire) : Within(wire[i]))'
    BY <1>0, <1>1, <2>3, <2>4, <2>5 DEF WithinInv, Within
  <2> QED
    BY <1>0, <1>2, <1>4, <1>5, <2>1, <2>6 DEF WithinInv
<1>11. CASE Reload
  <2>1. UNCHANGED <<wire, queue, tee, frame>> /\ screen' = <<>> /\ held' = {}
    BY <1>11 DEF Reload, teeVars, hostVars
  <2> QED
    BY <1>3, <1>4, <1>5, <2>1 DEF WithinInv
<1>12. CASE Viewer
  <2>1. UNCHANGED <<queue, tee, frame, base, buf>>
    BY <1>12 DEF Viewer, ReceiveReplay, ReceiveMore, ringVars, teeVars, hostVars
  <2>2. (\A i \in 1 .. Len(wire) : Within(wire[i]))'
    <3>1. \A i \in 1 .. Len(wire') :
            i + 1 \in 1 .. Len(wire) /\ wire'[i] = wire[i + 1]
      BY <1>0, <1>12, Received, Unqueued, SMTT(30)
    <3> QED
      BY <1>0, <1>1, <3>1 DEF WithinInv, Within
  <2>3. \A h \in held' : h <= total'
    <3>1. CASE ReceiveReplay
      BY <1>0, <1>12, <3>1, Received DEF ReceiveReplay
    <3>2. CASE ReceiveMore
      <4> DEFINE f == Head(wire)
      <4>1. held' = UNION {AdvanceOffset(h, f.off, Len(f.d)) : h \in held}
        BY <3>2 DEF ReceiveMore, ExtendOffset
      <4>2. \A g \in held' : \E h \in held : g = f.off \/ g = h
        BY <4>1 DEF AdvanceOffset
      <4>3. f.off \in Nat /\ f.off <= total'
        BY <1>0, <1>12, Received
      <4> QED
        BY <1>2, <4>2, <4>3
    <3> QED
      BY <1>12, <3>1, <3>2 DEF Viewer
  <2>4. ~ Exists' => screen' = <<>>
    <3>1. ASSUME ~ Exists
          PROVE  screen' = <<>>
      <4>1. screen = <<>> /\ Head(wire).d = <<>>
        BY <1>0, <1>12, <3>1, Received DEF WithinInv
      <4>2. <<>> \o <<>> = <<>>
        OBVIOUS
      <4> QED
        BY <1>12, <4>1, <4>2 DEF Viewer, ReceiveReplay, ReceiveMore
    <3> QED
      BY <1>0, <3>1
  <2> QED
    BY <1>4, <1>5, <2>1, <2>2, <2>3, <2>4 DEF WithinInv
<1> QED
  BY <1>6, <1>7, <1>8, <1>9, <1>10, <1>11, <1>12 DEF Next, Tee, Host

\* Nothing is on its way at first.
LEMMA SentInit ==
  ASSUME Init
  PROVE  Sent
<1>1. WithinInv
  BY EmptySeq DEF Init, WithinInv
<1>2. LinkInv
  BY DEF Init, LinkInv
<1> QED
  BY <1>1, <1>2, CountedInit DEF Sent

\* See WithinStep and LinkStep.
LEMMA SentStep ==
  ASSUME Sent, [Next]_vars
  PROVE  Sent'
  BY CountedStep, WithinStep, LinkStep DEF Sent

-----------------------------------------------------------------------------
(* No chunk comes twice: what is on its way follows in the order of its    *)
(* offsets, and what is held comes before it.                              *)

Follows(s) == \A i \in 2 .. Len(s) : Start(s[i]) >= s[i - 1].off

\* A frame ends no earlier than it begins.
LEMMA Spans ==
  ASSUME NEW f \in Frame
  PROVE  f.off \in Nat /\ Len(f.d) \in Nat /\ Start(f) \in Int /\ Start(f) <= f.off
  BY Bounds DEF Frame, Offsets, Start

\* A frame that begins where the others have ended follows them ...
LEMMA FollowsAppend ==
  ASSUME NEW s \in Seq(Frame), NEW f \in Frame, Follows(s),
         \A i \in 1 .. Len(s) : s[i].off <= Start(f)
  PROVE  Follows(Append(s, f))
<1> DEFINE a == Append(s, f)
<1>1. /\ Len(s) \in Nat /\ Len(a) = Len(s) + 1
      /\ \A i \in 1 .. Len(s) : a[i] = s[i]
      /\ a[Len(s) + 1] = f
  BY AppendProperties
<1> HIDE DEF a
<1>2. ASSUME NEW i \in 2 .. Len(a)
      PROVE  Start(a[i]) >= a[i - 1].off
  <2>1. i - 1 \in 1 .. Len(s) /\ a[i - 1] = s[i - 1]
    BY <1>1
  <2>2. CASE i = Len(s) + 1
    <3>1. s[i - 1].off <= Start(f) /\ a[i] = f
      BY <1>1, <2>1, <2>2
    <3>2. Start(f) \in Int /\ s[i - 1].off \in Int
      BY <2>1, Spans
    <3> QED
      BY <2>1, <3>1, <3>2
  <2>3. CASE i # Len(s) + 1
    <3>1. i \in 2 .. Len(s) /\ a[i] = s[i]
      BY <1>1, <2>3
    <3> QED
      BY <2>1, <3>1 DEF Follows
  <2> QED
    BY <2>2, <2>3
<1> QED
  BY <1>2 DEF Follows, a

\* ... those before it still follow one another when it is dropped ...
LEMMA FollowsFront ==
  ASSUME NEW s \in Seq(Frame), NEW f \in Frame, Follows(Append(s, f))
  PROVE  Follows(s)
<1> DEFINE a == Append(s, f)
<1>1. /\ Len(s) \in Nat /\ Len(a) = Len(s) + 1
      /\ \A i \in 1 .. Len(s) : a[i] = s[i]
      /\ Follows(a)
  BY AppendProperties
<1> HIDE DEF a
<1>2. ASSUME NEW i \in 2 .. Len(s)
      PROVE  Start(s[i]) >= s[i - 1].off
  <2>1. i \in 2 .. Len(a) /\ a[i] = s[i] /\ a[i - 1] = s[i - 1]
    BY <1>1
  <2> QED
    BY <1>1, <2>1 DEF Follows
<1> QED
  BY <1>2 DEF Follows

\* ... and those after the first when that one has come.
LEMMA FollowsTail ==
  ASSUME NEW s \in Seq(Frame), s # <<>>, Follows(s)
  PROVE  /\ Follows(Tail(s))
         /\ Tail(s) # <<>> => Start(Head(Tail(s))) >= Head(s).off
<1> DEFINE t == Tail(s)
<1>1. /\ Len(s) \in Nat /\ t \in Seq(Frame) /\ Len(t) = Len(s) - 1
      /\ \A i \in 1 .. Len(t) : t[i] = s[i + 1]
      /\ Head(s) = s[1]
  BY HeadTailProperties
<1> HIDE DEF t
<1>2. ASSUME NEW i \in 2 .. Len(t)
      PROVE  Start(t[i]) >= t[i - 1].off
  <2>1. i + 1 \in 2 .. Len(s) /\ t[i] = s[i + 1] /\ t[i - 1] = s[i] /\ (i + 1) - 1 = i
    <3>1. i - 1 \in 1 .. Len(t) /\ (i - 1) + 1 = i
      BY <1>1
    <3> QED
      BY <1>1, <3>1
  <2> QED
    BY <2>1 DEF Follows
<1>3. ASSUME t # <<>>
      PROVE  Start(Head(t)) >= Head(s).off
  <2>1. Head(t) = t[1] /\ 1 \in 1 .. Len(t) /\ 2 \in 2 .. Len(s) /\ t[1] = s[2]
    <3>1. Len(t) >= 1 /\ Head(t) = t[1]
      BY <1>1, <1>3, EmptySeq
    <3> QED
      BY <1>1, <3>1
  <2>2. Start(s[2]) >= s[2 - 1].off
    BY <2>1 DEF Follows
  <2> QED
    BY <1>1, <2>1, <2>2
<1> QED
  BY <1>2, <1>3 DEF Follows, t

\* What is on its way, with and without the frame being sent.
LEMMA ComingParts ==
  ASSUME Counted
  PROVE  /\ wire \o queue \in Seq(Frame)
         /\ Coming \in Seq(Frame)
         /\ tee # "send" => Coming = wire \o queue
         /\ tee = "send" => frame \in Frame /\ Coming = Append(wire \o queue, frame)
<1>1. wire \in Seq(Frame) /\ queue \in Seq(Frame)
  BY DEF Counted, TypeOK
<1>2. wire \o queue \in Seq(Frame)
  BY <1>1, ConcatProperties
<1>3. CASE tee = "send"
  <2>1. frame \in Frame
    BY <1>3 DEF Counted
  <2>2. Append(wire \o queue, frame) = (wire \o queue) \o <<frame>>
    BY <1>2, <2>1, AppendIsConcat
  <2> QED
    BY <1>2, <1>3, <2>1, <2>2, AppendProperties DEF Coming
<1>4. CASE tee # "send"
  <2>1. (wire \o queue) \o <<>> = wire \o queue
    BY <1>2, ConcatEmptySeq
  <2> QED
    BY <1>2, <1>4, <2>1 DEF Coming
<1> QED
  BY <1>2, <1>3, <1>4

\* Each frame on its way ends where the stream has been.
LEMMA ComingWithin ==
  ASSUME Sent
  PROVE  \A i \in 1 .. Len(wire \o queue) : (wire \o queue)[i].off <= total
<1> DEFINE c == wire \o queue
<1>1. wire \in Seq(Frame) /\ queue \in Seq(Frame) /\ Len(wire) \in Nat /\ Len(queue) \in Nat
  BY DEF Sent, Counted, TypeOK
<1>2. /\ Len(c) = Len(wire) + Len(queue)
      /\ \A i \in 1 .. Len(wire) + Len(queue) :
           c[i] = IF i <= Len(wire) THEN wire[i] ELSE queue[i - Len(wire)]
  BY <1>1, ConcatProperties
<1> HIDE DEF c
<1>3. ASSUME NEW i \in 1 .. Len(c)
      PROVE  c[i].off <= total
  <2>1. CASE i <= Len(wire)
    <3>1. i \in 1 .. Len(wire) /\ c[i] = wire[i]
      BY <1>1, <1>2, <2>1
    <3> QED
      BY <3>1 DEF Sent, WithinInv, Within
  <2>2. CASE ~ (i <= Len(wire))
    <3>1. i - Len(wire) \in 1 .. Len(queue) /\ c[i] = queue[i - Len(wire)]
      BY <1>1, <1>2, <2>2
    <3> QED
      BY <3>1 DEF Sent, WithinInv, Within
  <2> QED
    BY <2>1, <2>2
<1> QED
  BY <1>3 DEF c

\* Frames that only move from one queue to the next keep their order.
LEMMA Moved ==
  ASSUME NEW w \in Seq(Frame), NEW q \in Seq(Frame)
  PROVE  /\ q # <<>> => Append(w, Head(q)) \o Tail(q) = w \o q
         /\ \A f \in Frame : w \o Append(q, f) = Append(w \o q, f)
<1>1. ASSUME q # <<>>
      PROVE  Append(w, Head(q)) \o Tail(q) = w \o q
  <2> DEFINE h == Head(q)
             t == Tail(q)
  <2>1. h \in Frame /\ t \in Seq(Frame) /\ Len(t) = Len(q) - 1 /\ Len(q) \in Nat
        /\ \A i \in 1 .. Len(t) : t[i] = q[i + 1]
    BY <1>1, HeadTailProperties
  <2>2. h = q[1] /\ Len(q) >= 1
    BY <1>1, EmptySeq
  <2> DEFINE a == Append(w, h)
  <2>3. /\ a \in Seq(Frame) /\ Len(a) = Len(w) + 1 /\ Len(w) \in Nat
        /\ \A i \in 1 .. Len(w) : a[i] = w[i]
        /\ a[Len(w) + 1] = h
    BY <2>1, AppendProperties
  <2> HIDE DEF a, h, t
  <2> DEFINE left  == a \o t
             right == w \o q
  <2>4. /\ left \in Seq(Frame) /\ Len(left) = Len(a) + Len(t)
        /\ \A i \in 1 .. Len(a) + Len(t) :
             left[i] = IF i <= Len(a) THEN a[i] ELSE t[i - Len(a)]
    BY <2>1, <2>3, ConcatProperties
  <2>5. /\ right \in Seq(Frame) /\ Len(right) = Len(w) + Len(q)
        /\ \A i \in 1 .. Len(w) + Len(q) :
             right[i] = IF i <= Len(w) THEN w[i] ELSE q[i - Len(w)]
    BY ConcatProperties
  <2> HIDE DEF left, right
  <2>6. Len(left) = Len(right)
    BY <2>1, <2>2, <2>3, <2>4, <2>5
  <2>7. ASSUME NEW i \in 1 .. Len(left)
        PROVE  left[i] = right[i]
    <3>1. CASE i <= Len(w)
      <4>1. i \in 1 .. Len(w) /\ i \in 1 .. Len(a) + Len(t) /\ i \in 1 .. Len(w) + Len(q)
            /\ i <= Len(a)
        BY <2>1, <2>3, <2>4, <2>5, <2>6, <3>1
      <4>2. left[i] = a[i] /\ right[i] = w[i]
        BY <2>4, <2>5, <3>1, <4>1
      <4> QED
        BY <2>3, <4>1, <4>2
    <3>2. CASE i = Len(w) + 1
      BY <2>1, <2>2, <2>3, <2>4, <2>5, <2>6, <3>2
    <3>3. CASE i > Len(w) + 1
      <4>1. /\ left[i] = t[i - Len(a)] /\ right[i] = q[i - Len(w)]
            /\ i - Len(a) \in 1 .. Len(t) /\ i - Len(a) + 1 = i - Len(w)
        BY <2>1, <2>3, <2>4, <2>5, <2>6, <3>3
      <4> QED
        BY <2>1, <4>1
    <3> QED
      BY <2>3, <2>4, <3>1, <3>2, <3>3, <2>1
  <2>8. left = right
    BY <2>4, <2>5, <2>6, <2>7, SeqEqual
  <2> QED
    BY <2>8 DEF left, right, a, h, t
<1>2. ASSUME NEW f \in Frame
      PROVE  w \o Append(q, f) = Append(w \o q, f)
  <2>1. <<f>> \in Seq(Frame) /\ w \o q \in Seq(Frame)
    BY ConcatProperties
  <2>2. Append(q, f) = q \o <<f>> /\ Append(w \o q, f) = (w \o q) \o <<f>>
    BY <2>1, AppendIsConcat
  <2>3. (w \o q) \o <<f>> = w \o (q \o <<f>>)
    BY <2>1, ConcatAssociative
  <2> QED
    BY <2>2, <2>3
<1> QED
  BY <1>1, <1>2

\* The first of what is on its way is the first on the wire.
LEMMA FirstOnWire ==
  ASSUME NEW w \in Seq(Frame), NEW s \in Seq(Frame), w # <<>>
  PROVE  /\ w \o s # <<>>
         /\ Head(w \o s) = Head(w)
         /\ Tail(w \o s) = Tail(w) \o s
<1> DEFINE c == w \o s
           t == Tail(w)
<1>1. /\ c \in Seq(Frame) /\ Len(c) = Len(w) + Len(s)
      /\ Len(w) \in Nat /\ Len(s) \in Nat /\ Len(w) >= 1
      /\ \A i \in 1 .. Len(w) + Len(s) : c[i] = IF i <= Len(w) THEN w[i] ELSE s[i - Len(w)]
  BY ConcatProperties, EmptySeq
<1> HIDE DEF c
<1>2. c # <<>> /\ Head(c) = c[1] /\ Head(w) = w[1] /\ c[1] = w[1]
  BY <1>1, EmptySeq
<1>3. /\ Tail(c) \in Seq(Frame) /\ Len(Tail(c)) = Len(c) - 1
      /\ \A i \in 1 .. Len(Tail(c)) : Tail(c)[i] = c[i + 1]
  BY <1>1, <1>2, HeadTailProperties
<1>4. /\ t \in Seq(Frame) /\ Len(t) = Len(w) - 1
      /\ \A i \in 1 .. Len(t) : t[i] = w[i + 1]
  BY HeadTailProperties
<1> HIDE DEF t
<1> DEFINE left  == Tail(c)
           right == t \o s
<1>5. /\ right \in Seq(Frame) /\ Len(right) = Len(t) + Len(s)
      /\ \A i \in 1 .. Len(t) + Len(s) : right[i] = IF i <= Len(t) THEN t[i] ELSE s[i - Len(t)]
  BY <1>4, ConcatProperties
<1> HIDE DEF left, right
<1>6. /\ left \in Seq(Frame) /\ Len(left) = Len(w) + Len(s) - 1
      /\ \A i \in 1 .. Len(left) : left[i] = c[i + 1]
  BY <1>1, <1>3 DEF left
<1>7. ASSUME NEW i \in 1 .. Len(left)
      PROVE  left[i] = right[i]
  <2>1. i + 1 \in 1 .. Len(w) + Len(s) /\ i \in 1 .. Len(t) + Len(s)
    BY <1>1, <1>4, <1>6
  <2>2. CASE i <= Len(t)
    <3>1. i + 1 <= Len(w) /\ i \in 1 .. Len(t)
      BY <1>1, <1>4, <2>1, <2>2
    <3> QED
      BY <1>1, <1>4, <1>5, <1>6, <2>1, <2>2, <3>1
  <2>3. CASE ~ (i <= Len(t))
    <3>1. ~ (i + 1 <= Len(w)) /\ (i + 1) - Len(w) = i - Len(t)
      BY <1>1, <1>4, <2>1, <2>3
    <3>2. left[i] = s[(i + 1) - Len(w)]
      BY <1>1, <1>6, <2>1, <3>1
    <3>3. right[i] = s[i - Len(t)]
      BY <1>5, <2>1, <2>3
    <3> QED
      BY <3>1, <3>2, <3>3
  <2> QED
    BY <2>2, <2>3
<1>8. left = right
  BY <1>1, <1>4, <1>5, <1>6, <1>7, SeqEqual
<1> QED
  BY <1>2, <1>8 DEF left, right, c, t

\* A step that leaves what is on its way, or all but the last of it, keeps the
\* order; so does one that clears it, and one that loses what is held.
LEMMA OrderKept ==
  ASSUME Counted, NeverTwice, ~ again' => ~ again,
         held' = held \/ held' = {},
         \/ Coming' = Coming
         \/ Coming' = <<>>
         \/ \E f \in Frame : Coming' \in Seq(Frame) /\ Coming = Append(Coming', f)
  PROVE  NeverTwice'
<1>1. SUFFICES ASSUME ~ again'
               PROVE  /\ Follows(Coming')
                      /\ \A h \in held' : Coming' # <<>> /\ ~ Head(Coming').reset
                                            => Start(Head(Coming')) >= h
  BY DEF NeverTwice, Follows, Start
<1>2. /\ Follows(Coming)
      /\ \A h \in held : Coming # <<>> /\ ~ Head(Coming).reset
                           => Start(Head(Coming)) >= h
  BY <1>1 DEF NeverTwice, Follows
<1>3. CASE Coming' = Coming
  BY <1>2, <1>3
<1>4. CASE Coming' = <<>>
  BY <1>4, EmptySeq DEF Follows
<1>5. CASE \E f \in Frame : Coming' \in Seq(Frame) /\ Coming = Append(Coming', f)
  <2>1. PICK f \in Frame : Coming' \in Seq(Frame) /\ Coming = Append(Coming', f)
    BY <1>5
  <2>2. Follows(Coming')
    BY <1>2, <2>1, FollowsFront
  <2>3. Coming' # <<>> => Coming # <<>> /\ Head(Coming) = Head(Coming')
    BY <2>1, HeadTailAppend, AppendProperties
  <2> QED
    BY <1>2, <2>2, <2>3
<1> QED
  BY <1>3, <1>4, <1>5

\* The chunk just pushed begins where the stream had got to, past all that is on
\* its way and all that is held.
LEMMA PushFollows ==
  ASSUME Sent, NeverTwice, TeePush
  PROVE  NeverTwice'
<1> DEFINE c == wire \o queue
           f == [d |-> <<emitted>>, off |-> total', reset |-> FALSE]
<1>1. /\ c \in Seq(Frame) /\ Coming = c /\ UNCHANGED <<wire, queue, held, again>>
      /\ \A i \in 1 .. Len(c) : c[i].off <= total
  BY ComingParts, ComingWithin DEF Sent, TeePush, hostVars, viewerVars
<1>2. CASE tee' = "idle"
  <2>1. Coming' = Coming
    BY <1>1, <1>2, ConcatEmptySeq DEF Coming
  <2> QED
    BY <1>1, <2>1, OrderKept DEF Sent
<1>3. CASE tee' = "send"
  <2>1. frame' = f /\ f \in Frame /\ total \in Nat /\ total' = total + 1
    BY <1>3, PushFrame, PushRing, Numbers DEF TeePush, Sent, Counted
  <2>2. Start(f) = total
    <3>1. Len(<<emitted>>) = 1
      OBVIOUS
    <3> QED
      BY <2>1, <3>1 DEF Start
  <2> HIDE DEF f
  <2>3. Coming' = Append(c, f)
    BY <1>1, <1>3, <2>1, AppendIsConcat DEF Coming
  <2>4. SUFFICES ASSUME ~ again'
                 PROVE  /\ Follows(Coming')
                        /\ \A h \in held' : Coming' # <<>> /\ ~ Head(Coming').reset
                                              => Start(Head(Coming')) >= h
    BY DEF NeverTwice, Follows, Start
  <2>5. /\ Follows(c)
        /\ \A h \in held : c # <<>> /\ ~ Head(c).reset => Start(Head(c)) >= h
    BY <1>1, <2>4 DEF NeverTwice, Follows
  <2>6. Follows(Append(c, f))
    BY <1>1, <2>1, <2>2, <2>5, FollowsAppend
  <2>7. Head(Append(c, f)) = IF c = <<>> THEN f ELSE Head(c)
    BY <1>1, <2>1, HeadTailAppend
  <2>8. \A h \in held : h <= total
    BY DEF Sent, WithinInv
  <2>9. \A h \in held : total >= h
    BY <2>1, <2>8, Bounds DEF Sent, Counted, TypeOK, MaybeOffset, Offsets
  <2> QED
    BY <1>1, <2>2, <2>3, <2>5, <2>6, <2>7, <2>9
<1> QED
  BY <1>2, <1>3 DEF TeePush

\* The answer to the first sub is a replay, or begins with what is held.
LEMMA AttachFollows ==
  ASSUME Sent, NeverTwice, Attach
  PROVE  NeverTwice'
<1> DEFINE a == Answer(Head(up))
<1>1. SUFFICES ASSUME ~ again'
               PROVE  /\ Follows(Coming')
                      /\ \A h \in held' : Coming' # <<>> /\ ~ Head(Coming').reset
                                            => Start(Head(Coming')) >= h
  BY DEF NeverTwice, Follows, Start
<1>2. /\ wire = <<>> /\ queue = <<>> /\ tee # "send" /\ UNCHANGED <<queue, tee, held>>
      /\ wire' = Append(wire, a)
      /\ held = {} \/ Head(up) = held
      /\ Head(up) \in MaybeOffset
  BY <1>1, HeadTailProperties
     DEF Attach, Sent, LinkInv, Counted, TypeOK, teeVars, viewerVars
<1>3. a \in Frame /\ (~ a.reset => Head(up) = {Start(a)}) /\ Start(a) \in Int
  BY <1>2, AnswerTail, Spans DEF Sent, Counted
<1> HIDE DEF a
<1>4. Coming' = <<a>>
  <2>1. wire' = <<a>>
    BY <1>2, <1>3
  <2>2. Coming' = (wire' \o <<>>) \o <<>>
    BY <1>2 DEF Coming
  <2> QED
    BY <1>3, <2>1, <2>2, ConcatEmptySeq
<1>5. Follows(<<a>>) /\ Head(<<a>>) = a
  <2>1. Len(<<a>>) = 1 /\ Head(<<a>>) = a
    OBVIOUS
  <2> QED
    BY <2>1 DEF Follows
<1> QED
  BY <1>2, <1>3, <1>4, <1>5

\* What has come is held, up to where the next frame begins.
LEMMA ReceiveFollows ==
  ASSUME Sent, NeverTwice, Viewer
  PROVE  NeverTwice'
<1> DEFINE s == queue \o (IF tee = "send" THEN <<frame>> ELSE <<>>)
           f == Head(wire)
<1>1. SUFFICES ASSUME ~ again'
               PROVE  /\ Follows(Coming')
                      /\ \A h \in held' : Coming' # <<>> /\ ~ Head(Coming').reset
                                            => Start(Head(Coming')) >= h
  BY DEF NeverTwice, Follows, Start
<1>2. /\ wire \in Seq(Frame) /\ wire # <<>> /\ wire' = Tail(wire) /\ Tail(wire) \in Seq(Frame)
      /\ f \in Frame /\ s \in Seq(Frame) /\ queue \in Seq(Frame)
      /\ (IF tee = "send" THEN <<frame>> ELSE <<>>) \in Seq(Frame)
      /\ UNCHANGED <<queue, tee, frame, again>>
  <2>1. /\ wire \in Seq(Frame) /\ queue \in Seq(Frame)
        /\ (IF tee = "send" THEN <<frame>> ELSE <<>>) \in Seq(Frame)
    BY DEF Sent, Counted, TypeOK
  <2>2. UNCHANGED <<queue, tee, frame, again>>
    BY DEF Viewer, ReceiveReplay, ReceiveMore, teeVars, hostVars
  <2> QED
    BY <2>1, <2>2, Received, Unqueued, ConcatProperties
<1>3. Coming = wire \o s /\ Coming' = Tail(wire) \o s
  <2> DEFINE x == IF tee = "send" THEN <<frame>> ELSE <<>>
  <2>1. Coming = (wire \o queue) \o x /\ Coming' = (Tail(wire) \o queue) \o x
    BY <1>2 DEF Coming
  <2>2. x \in Seq(Frame) /\ s = queue \o x
    BY <1>2
  <2> HIDE DEF x, s
  <2>3. (wire \o queue) \o x = wire \o (queue \o x)
    BY <1>2, <2>2, ConcatAssociative, SMTT(30)
  <2>4. (Tail(wire) \o queue) \o x = Tail(wire) \o (queue \o x)
    <3> DEFINE t == Tail(wire)
    <3>1. t \in Seq(Frame) /\ queue \in Seq(Frame)
      BY <1>2
    <3> HIDE DEF t
    <3>2. (t \o queue) \o x = t \o (queue \o x)
      BY <2>2, <3>1, ConcatAssociative, SMTT(30)
    <3> QED
      BY <3>2 DEF t
  <2> QED
    BY <2>1, <2>2, <2>3, <2>4
<1>4. Coming \in Seq(Frame) /\ Coming # <<>> /\ Head(Coming) = f /\ Coming' = Tail(Coming)
  BY <1>2, <1>3, FirstOnWire, ConcatProperties
<1>5. /\ Follows(Coming)
      /\ \A h \in held : ~ f.reset => Start(f) >= h
  BY <1>1, <1>2, <1>4 DEF NeverTwice, Follows
<1>6. /\ Follows(Coming')
      /\ Coming' # <<>> => Head(Coming') \in Frame /\ Start(Head(Coming')) >= f.off
  BY <1>4, <1>5, FollowsTail, HeadTailProperties
<1>7. ASSUME NEW h \in held'
      PROVE  h \in Nat /\ h <= f.off
  <2>1. f.off \in Nat /\ Start(f) \in Int /\ Start(f) <= f.off
    BY <1>2, Spans
  <2>2. CASE ReceiveReplay
    BY <2>1, <2>2 DEF ReceiveReplay
  <2>3. CASE ReceiveMore
    <3>1. PICK g \in held : h \in AdvanceOffset(g, f.off, Len(f.d))
      BY <2>3 DEF ReceiveMore, ExtendOffset
    <3>2. g \in Nat /\ Start(f) >= g
      BY <1>5, <2>3, Received DEF ReceiveMore
    <3>3. h = f.off \/ (h = g /\ ~ (f.off > g))
      BY <3>1 DEF AdvanceOffset
    <3> QED
      BY <2>1, <3>2, <3>3
  <2> QED
    BY <2>2, <2>3 DEF Viewer
<1>8. f.off \in Nat
  BY <1>2, Spans
<1> HIDE DEF f
<1>9. ASSUME NEW h \in held', Coming' # <<>>
      PROVE  Start(Head(Coming')) >= h
  <2>1. Start(Head(Coming')) \in Int
    BY <1>6, <1>9, Spans
  <2> QED
    BY <1>6, <1>7, <1>8, <1>9, <2>1
<1> QED
  BY <1>6, <1>9

\* Nothing else puts a frame on its way.
LEMMA OnceStep ==
  ASSUME Sent, NeverTwice, [Next]_vars
  PROVE  NeverTwice'
<1>0. /\ Counted /\ wire \in Seq(Frame) /\ queue \in Seq(Frame)
      /\ tee = "send" => frame \in Frame
      /\ wire \o queue \in Seq(Frame)
  BY ConcatProperties DEF Sent, Counted, TypeOK
<1>1. CASE TeePush
  BY <1>1, PushFollows
<1>2. CASE TeeSend
  <2>1. /\ tee = "send" /\ tee' # "send" /\ UNCHANGED <<wire, held, again>>
        /\ Coming = Append(wire \o queue, frame)
        /\ Coming' = (wire \o queue') \o <<>>
    BY <1>0, <1>2, ComingParts DEF TeeSend, Coming, viewerVars
  <2>2. CASE queue' = queue
    <3>1. Coming' \in Seq(Frame) /\ Coming = Append(Coming', frame)
      BY <1>0, <2>1, <2>2, ConcatEmptySeq
    <3> QED
      BY <1>0, <2>1, <3>1, OrderKept
  <2>3. CASE queue' = Append(queue, frame)
    <3>1. wire \o queue' = Append(wire \o queue, frame)
      BY <1>0, <2>1, <2>3, Moved
    <3>2. Coming' = Coming
      BY <1>0, <2>1, <3>1, AppendProperties, ConcatEmptySeq
    <3> QED
      BY <1>0, <2>1, <3>2, OrderKept
  <2> QED
    BY <1>2, <2>2, <2>3 DEF TeeSend
<1>3. CASE WriteQueued
  <2>1. wire' \o queue' = wire \o queue
    BY <1>0, <1>3, Moved DEF WriteQueued
  <2>2. Coming' = Coming /\ UNCHANGED <<held, again>>
    BY <1>3, <2>1 DEF WriteQueued, Coming, teeVars, viewerVars
  <2> QED
    BY <1>0, <2>2, OrderKept
<1>4. CASE Attach
  BY <1>4, AttachFollows
<1>5. CASE Viewer
  BY <1>5, ReceiveFollows
<1>6. CASE Drop \/ Retired
  <2>1. /\ wire' = <<>> /\ queue' = <<>> /\ tee' # "send" /\ held' = held
    BY <1>6, <1>0 DEF Drop, Retired, Closed, viewerVars
  <2>2. Coming' = <<>>
    BY <2>1 DEF Coming
  <2>3. Len(<<>>) = 0
    BY EmptySeq
  <2> QED
    BY <2>2, <2>3 DEF NeverTwice
<1>7. CASE Emit
  <2>1. Coming' = Coming /\ UNCHANGED <<held, again>>
    BY <1>7 DEF Emit, Coming, hostVars, viewerVars
  <2> QED
    BY <1>0, <2>1, OrderKept
<1>8. CASE Apply \/ ApplyRetires \/ QueueEmpty \/ ReadNothing \/ Connect \/ PaceEnds
            \/ UNCHANGED vars
  <2>1. Coming' = Coming /\ UNCHANGED <<held, again>>
    BY <1>8 DEF Apply, ApplyRetires, QueueEmpty, ReadNothing, Connect, PaceEnds, Coming,
                vars, teeVars, hostVars, viewerVars
  <2> QED
    BY <1>0, <2>1, OrderKept
<1>9. CASE Reload
  <2>1. Coming' = Coming /\ held' = {} /\ again' = again
    BY <1>9 DEF Reload, Coming, teeVars, hostVars
  <2> QED
    BY <1>0, <2>1, OrderKept
<1> QED
  BY <1>1, <1>2, <1>3, <1>4, <1>5, <1>6, <1>7, <1>8, <1>9 DEF Next, Tee, Host

\* No chunk comes twice: a resume begins where the screen stopped, and every frame
\* after it where the one before it ended, or later.
THEOREM OneOrTheOther == Spec => []NeverTwice
<1>1. Init => Sent /\ NeverTwice
  <2>1. ASSUME Init
        PROVE  NeverTwice
    <3>1. Coming = <<>> /\ Len(<<>>) = 0
      BY <2>1, EmptySeq DEF Init, Coming
    <3> QED
      BY <3>1 DEF NeverTwice
  <2> QED
    BY <2>1, SentInit
<1>2. Sent /\ NeverTwice /\ [Next]_vars => (Sent /\ NeverTwice)'
  BY SentStep, OnceStep
<1> QED
  BY <1>1, <1>2, PTL DEF Spec

-----------------------------------------------------------------------------
(***************************************************************************)
(* No offset the ring would honour belongs to a screen with a hole         *)
(* (ResumableMeansWhole), for every bound on the stream.                   *)
(*                                                                         *)
(* The argument is about epochs.  Every switch of hosting starts one, when *)
(* invalidate_all moves the ring past every offset handed out.  Within an  *)
(* epoch no chunk is missing: the chunk that ends at an offset is the      *)
(* offset and a constant, in the ring, in a frame and on a screen.  Across *)
(* epochs chunks may be missing, and there the gap of one in the offsets   *)
(* keeps what was held before from ever being extended: a frame begins     *)
(* past it.  What remains is that frames of an old epoch do not come after *)
(* those of the new one, which is what a connection whose generation has   *)
(* passed is closed for.                                                   *)
(***************************************************************************)

\* While the ring is recorded, its last chunk is the last one emitted, or the one
\* before the chunk about to be pushed.
RingInv ==
  ~ applying /\ buf # <<>> /\ (listening \/ tee = "push") =>
    /\ listening
    /\ buf[Len(buf)] = IF tee = "push" THEN emitted - 1 ELSE emitted

(* An epoch begins at offset e, and its chunk that ends at o is o + k.     *)

\* A frame of the epoch.
Told(f, e, k) ==
  /\ Start(f) >= e
  /\ \A i \in 1 .. Len(f.d) : f.d[i] = Start(f) + i + k
  /\ f.reset /\ f.d = <<>> => f.off = e

InRing(e, k) ==
  /\ buf = <<>> => e = base
  /\ \A i \in 1 .. Len(buf) : buf[i] = base + i + k

\* On the wire the epoch's frames come last ...
OnWire(e, k) ==
  /\ \A i \in 1 .. Len(wire) : wire[i].off >= e => Told(wire[i], e, k)
  /\ \A i, j \in 1 .. Len(wire) : i < j /\ wire[i].off >= e => wire[j].off >= e

\* ... and unless the connection is from before the epoch there are no others.
Current(e, k) ==
  ~ stale =>
    /\ \A i \in 1 .. Len(wire) : wire[i].off >= e
    /\ \A i \in 1 .. Len(queue) : queue[i].off >= e /\ Told(queue[i], e, k)
    /\ tee = "send" => frame.off >= e /\ Told(frame, e, k)

\* A screen that has got to an offset of the epoch shows the stream up to it.
Shown(e, k) ==
  \A h \in held : h >= e =>
    /\ ~ Holed
    /\ screen = <<>> => h = e
    /\ screen # <<>> => buf # <<>> /\ \E j \in 1 .. Len(screen) : screen[j] >= h + k
    /\ \A i \in 1 .. Len(wire) : wire[i].off >= e

Epoch(e, k) == InRing(e, k) /\ OnWire(e, k) /\ Current(e, k) /\ Shown(e, k)

EpochInv == ~ applying => \E e \in 0 .. base, k \in Int : Epoch(e, k)

IInv == Sent /\ RingInv /\ EpochInv

-----------------------------------------------------------------------------
(* Lemmas.                                                                 *)

\* A screen with a hole, of any screen.
HoleIn(s) == \E i \in 2 .. Len(s) : \A j \in 1 .. i - 1 : s[j] + 1 < s[i]

\* Chunks that follow the offset x, on a screen that shows the stream up to x or
\* shows nothing, leave no hole.
LEMMA NoHole ==
  ASSUME NEW s \in Seq(Chunks), NEW d \in Seq(Chunks), NEW x \in Int,
         \A i \in 1 .. Len(d) : d[i] = x + i,
         ~ HoleIn(s),
         s # <<>> => \E j \in 1 .. Len(s) : s[j] >= x
  PROVE  ~ HoleIn(s \o d)
<1> DEFINE c == s \o d
<1>1. /\ c \in Seq(Chunks) /\ Len(c) = Len(s) + Len(d) /\ Len(s) \in Nat /\ Len(d) \in Nat
      /\ \A i \in 1 .. Len(s) + Len(d) : c[i] = IF i <= Len(s) THEN s[i] ELSE d[i - Len(s)]
  BY ConcatProperties
<1> HIDE DEF c
<1>2. \A i \in 1 .. Len(s) : s[i] \in Int
  BY Bounds DEF Chunks
<1>3. ASSUME NEW i \in 2 .. Len(c)
      PROVE  \E j \in 1 .. i - 1 : ~ (c[j] + 1 < c[i])
  <2>1. CASE i <= Len(s)
    <3>1. PICK j \in 1 .. i - 1 : ~ (s[j] + 1 < s[i])
      BY <1>1, <2>1 DEF HoleIn
    <3>2. c[j] = s[j] /\ c[i] = s[i]
      BY <1>1, <2>1, <3>1
    <3> QED
      BY <3>1, <3>2
  <2>2. CASE i = Len(s) + 1
    <3>1. s # <<>>
      BY <1>1, <2>2, EmptySeq
    <3>2. PICK j \in 1 .. Len(s) : s[j] >= x
      BY <3>1
    <3>3. j \in 1 .. i - 1 /\ c[j] = s[j] /\ c[i] = d[1] /\ d[1] = x + 1
      <4>1. /\ j \in 1 .. i - 1 /\ j \in 1 .. Len(s) + Len(d) /\ j <= Len(s)
            /\ i \in 1 .. Len(s) + Len(d) /\ ~ (i <= Len(s)) /\ i - Len(s) = 1
            /\ 1 \in 1 .. Len(d)
        BY <1>1, <2>2
      <4> QED
        BY <1>1, <4>1
    <3>4. ~ (s[j] + 1 < x + 1)
      BY <1>2, <3>2
    <3> QED
      BY <3>3, <3>4
  <2>3. CASE i > Len(s) + 1
    <3>1. /\ i - 1 \in 1 .. i - 1
          /\ i - Len(s) \in 1 .. Len(d) /\ (i - 1) - Len(s) \in 1 .. Len(d)
      BY <1>1, <2>3
    <3>2. c[i] = d[i - Len(s)] /\ c[i - 1] = d[(i - 1) - Len(s)]
      <4>1. /\ i \in 1 .. Len(s) + Len(d) /\ i - 1 \in 1 .. Len(s) + Len(d)
            /\ ~ (i <= Len(s)) /\ ~ (i - 1 <= Len(s))
        BY <1>1, <2>3
      <4>2. c[i] = d[i - Len(s)]
        BY <1>1, <4>1
      <4> DEFINE n == i - 1
      <4>3. c[n] = d[n - Len(s)]
        <5> HIDE DEF n
        <5>1. n \in 1 .. Len(s) + Len(d) /\ ~ (n <= Len(s))
          BY <4>1 DEF n
        <5> QED
          BY <1>1, <5>1
      <4> QED
        BY <4>2, <4>3
    <3>3. c[i] = x + (i - Len(s)) /\ c[i - 1] = x + ((i - 1) - Len(s))
      BY <3>1, <3>2
    <3>4. ~ (c[i - 1] + 1 < c[i])
      BY <1>1, <3>3
    <3> QED
      BY <3>1, <3>4
  <2> QED
    BY <1>1, <2>1, <2>2, <2>3
<1> QED
  BY <1>3 DEF HoleIn, c

\* The ring's last chunk is the last emitted, until hosting is switched.
LEMMA RingStep ==
  ASSUME Counted, RingInv, [Next]_vars
  PROVE  RingInv'
<1> USE DEF RingInv
<1>1. emitted \in Nat
  BY Numbers DEF Counted
<1>2. CASE Emit
  <2>1. /\ UNCHANGED <<base, buf, listening, applying>> /\ tee = "idle"
        /\ emitted' = emitted + 1 /\ tee' = IF listening THEN "push" ELSE "idle"
    BY <1>2 DEF Emit, ringVars, applyVars
  <2> QED
    BY <1>1, <2>1
<1>3. CASE TeePush
  <2>1. buf'[Len(buf')] = emitted /\ tee = "push" /\ tee' # "push"
        /\ UNCHANGED <<emitted, listening, applying>>
    BY <1>3, PushRing DEF TeePush, applyVars
  <2> QED
    BY <2>1
<1>4. CASE Apply \/ ApplyRetires
  BY <1>4 DEF Apply, ApplyRetires, Invalidate
<1>5. CASE /\ UNCHANGED <<base, buf, listening, applying, emitted>>
           /\ tee' = "push" => tee = "push"
           /\ tee = "push" => tee' = "push"
  BY <1>5
<1> QED
  BY <1>2, <1>3, <1>4, <1>5
     DEF Next, Tee, TeeSend, Drop, Host, WriteQueued, QueueEmpty, ReadNothing, Attach,
         Retired, Closed, Connect, Reload, Viewer, ReceiveReplay, ReceiveMore, PaceEnds,
         vars, ringVars, teeVars, applyVars

\* A step that leaves the ring alone and puts nothing new on its way or on the
\* screen keeps the epoch.
LEMMA EpochQuiet ==
  ASSUME NEW e, NEW k, Epoch(e, k),
         UNCHANGED ringVars,
         \/ UNCHANGED <<wire, queue, stale>> /\ (tee' = "send" => tee = "send" /\ frame' = frame)
         \/ wire' = <<>> /\ queue' = <<>> /\ tee' # "send",
         UNCHANGED <<held, screen>> \/ held' = {}
  PROVE  Epoch(e, k)'
<1> USE DEF ringVars
<1>1. Len(<<>>) = 0
  BY EmptySeq
<1>2. InRing(e, k)'
  BY DEF Epoch, InRing
<1>3. OnWire(e, k)'
  BY <1>1 DEF Epoch, OnWire
<1>4. Current(e, k)'
  BY <1>1 DEF Epoch, Current
<1>5. Shown(e, k)'
  BY <1>1 DEF Epoch, Shown, Holed
<1> QED
  BY <1>2, <1>3, <1>4, <1>5 DEF Epoch

\* The frame the flush thread queues is of the epoch.
LEMMA EpochSend ==
  ASSUME Counted, NEW e, NEW k, Epoch(e, k), TeeSend
  PROVE  Epoch(e, k)'
<1>1. /\ UNCHANGED <<base, buf, wire, stale, held, screen>>
      /\ tee = "send" /\ tee' # "send" /\ frame \in Frame /\ queue \in Seq(Frame)
  BY DEF TeeSend, ringVars, viewerVars, Counted, TypeOK
<1>2. \A i \in 1 .. Len(queue') :
        queue'[i] = frame \/ (i \in 1 .. Len(queue) /\ queue'[i] = queue[i])
  BY <1>1, Queued DEF TeeSend
<1>3. InRing(e, k)'
  BY <1>1 DEF Epoch, InRing
<1>4. OnWire(e, k)'
  BY <1>1 DEF Epoch, OnWire
<1>5. Current(e, k)'
  BY <1>1, <1>2 DEF Epoch, Current
<1>6. Shown(e, k)'
  BY <1>1 DEF Epoch, Shown, Holed
<1> QED
  BY <1>3, <1>4, <1>5, <1>6 DEF Epoch

\* What a frame added to the wire does to it.
LEMMA OnWireAppend ==
  ASSUME wire \in Seq(Frame), NEW f \in Frame, NEW e \in Int, NEW k,
         OnWire(e, k), f.off >= e, Told(f, e, k), wire' = Append(wire, f)
  PROVE  /\ OnWire(e, k)'
         /\ (\A i \in 1 .. Len(wire) : wire[i].off >= e)
              => (\A i \in 1 .. Len(wire) : wire[i].off >= e)'
<1>1. /\ Len(wire) \in Nat /\ Len(wire') = Len(wire) + 1
      /\ \A i \in 1 .. Len(wire) : wire'[i] = wire[i]
      /\ wire'[Len(wire) + 1] = f
  BY AppendProperties
<1>2. \A i \in 1 .. Len(wire') :
        i \in 1 .. Len(wire) \/ (i = Len(wire) + 1 /\ wire'[i] = f)
  BY <1>1
<1>3. \A i \in 1 .. Len(wire') : wire'[i].off >= e => Told(wire'[i], e, k)
  BY <1>1, <1>2 DEF OnWire
<1>4. ASSUME NEW i \in 1 .. Len(wire'), NEW j \in 1 .. Len(wire'),
             i < j, wire'[i].off >= e
      PROVE  wire'[j].off >= e
  <2>1. i \in 1 .. Len(wire)
    BY <1>1, <1>4
  <2> QED
    BY <1>1, <1>2, <1>4, <2>1 DEF OnWire
<1>5. OnWire(e, k)'
  BY <1>3, <1>4 DEF OnWire
<1>6. ASSUME \A i \in 1 .. Len(wire) : wire[i].off >= e
      PROVE  (\A i \in 1 .. Len(wire) : wire[i].off >= e)'
  BY <1>1, <1>2, <1>6
<1> QED
  BY <1>5, <1>6

\* The host writes only what is of the epoch: a connection whose generation has
\* passed writes nothing that was queued.
LEMMA EpochWrite ==
  ASSUME Counted, NEW e \in Int, NEW k, Epoch(e, k), WriteQueued
  PROVE  Epoch(e, k)'
<1>1. /\ UNCHANGED <<base, buf, stale, tee, frame, held, screen>> /\ ~ stale
      /\ wire \in Seq(Frame) /\ queue \in Seq(Frame) /\ queue # <<>>
      /\ wire' = Append(wire, Head(queue)) /\ queue' = Tail(queue)
  BY DEF WriteQueued, ringVars, teeVars, viewerVars, Counted, TypeOK
<1>2. /\ Head(queue) \in Frame /\ Head(queue).off >= e /\ Told(Head(queue), e, k)
      /\ \A i \in 1 .. Len(queue') :
           i + 1 \in 1 .. Len(queue) /\ queue'[i] = queue[i + 1]
  BY <1>1, Unqueued DEF Epoch, Current
<1>3. InRing(e, k)'
  BY <1>1 DEF Epoch, InRing
<1>4. OnWire(e, k)' /\ (\A i \in 1 .. Len(wire) : wire[i].off >= e)'
  BY <1>1, <1>2, OnWireAppend DEF Epoch, Current
<1>5. Current(e, k)'
  BY <1>1, <1>2, <1>4 DEF Epoch, Current
<1>6. Shown(e, k)'
  BY <1>1, <1>4 DEF Epoch, Shown, Holed
<1> QED
  BY <1>3, <1>4, <1>5, <1>6 DEF Epoch

\* An answer is read from the ring, and is of the epoch.
LEMMA EpochAttach ==
  ASSUME Counted, NEW e \in 0 .. base, NEW k \in Int, Epoch(e, k), Attach
  PROVE  Epoch(e, k)'
<1> DEFINE a == Answer(Head(up))
<1>1. /\ UNCHANGED <<base, buf, stale, queue, tee, frame, held, screen>>
      /\ wire \in Seq(Frame) /\ wire' = Append(wire, a)
      /\ Head(up) \in MaybeOffset
      /\ base \in Nat /\ total \in Nat /\ e \in Int
  BY HeadTailProperties, Numbers
     DEF Attach, ringVars, teeVars, viewerVars, Counted, TypeOK
<1>2. /\ a \in Frame
      /\ a.off = total
      /\ Len(a.d) \in Nat
      /\ Start(a) \in base .. total
      /\ \A i \in 1 .. Len(a.d) :
           /\ Start(a) - base + i \in 1 .. Len(buf)
           /\ a.d[i] = buf[Start(a) - base + i]
      /\ a.reset /\ a.d = <<>> => buf = <<>>
  BY <1>1, AnswerTail DEF Counted
<1> HIDE DEF a
<1>3. Start(a) \in Int /\ Start(a) >= e /\ a.off >= e
  BY <1>1, <1>2
<1>4. \A i \in 1 .. Len(a.d) : a.d[i] = Start(a) + i + k
  <2> TAKE i \in 1 .. Len(a.d)
  <2>1. a.d[i] = base + (Start(a) - base + i) + k
    BY <1>2 DEF Epoch, InRing
  <2> QED
    BY <1>1, <1>2, <1>3, <2>1
<1>5. a.reset /\ a.d = <<>> => a.off = e
  <2>1. buf = <<>> => total = base
    BY <1>1, EmptySeq DEF total
  <2> QED
    BY <1>2, <2>1 DEF Epoch, InRing
<1>6. Told(a, e, k)
  BY <1>3, <1>4, <1>5 DEF Told
<1>7. InRing(e, k)'
  BY <1>1 DEF Epoch, InRing
<1>8. /\ OnWire(e, k)'
      /\ (\A i \in 1 .. Len(wire) : wire[i].off >= e)
           => (\A i \in 1 .. Len(wire) : wire[i].off >= e)'
  BY <1>1, <1>2, <1>3, <1>6, OnWireAppend DEF Epoch
<1>9. Current(e, k)'
  BY <1>1, <1>8 DEF Epoch, Current
<1>10. Shown(e, k)'
  BY <1>1, <1>8 DEF Epoch, Shown, Holed
<1> QED
  BY <1>7, <1>8, <1>9, <1>10 DEF Epoch

\* Before the epoch's first chunk its frames are empty, and so is the screen.
LEMMA BeforeFirst ==
  ASSUME Counted, NEW e \in 0 .. base, NEW k, buf = <<>>, InRing(e, k),
         NEW f \in Frame, Within(f), f.off >= e, Told(f, e, k)
  PROVE  \A l \in Int : Told(f, e, l)
<1>1. total = e
  BY Numbers, EmptySeq DEF InRing, total, Counted
<1>2. f.off \in Nat /\ Len(f.d) \in Nat /\ Start(f) = f.off - Len(f.d) /\ e \in Int
  BY Spans, Numbers DEF Start, Counted
<1>3. f.off = e /\ Len(f.d) = 0
  BY <1>1, <1>2 DEF Told, Within
<1> QED
  BY <1>3 DEF Told

\* A push goes on with the epoch: the chunk is the one after the ring's last, or
\* the epoch's first.
LEMMA EpochPush ==
  ASSUME Sent, RingInv, ~ applying, TeePush,
         NEW e \in 0 .. base, NEW k \in Int, Epoch(e, k)
  PROVE  \E l \in Int : Epoch(e, l)'
<1>1. /\ tee = "push" /\ UNCHANGED <<wire, queue, stale, held, screen, emitted>>
      /\ wire \in Seq(Frame) /\ queue \in Seq(Frame)
      /\ base \in Nat /\ total \in Nat /\ emitted \in Nat /\ e \in Int
      /\ total = base + Len(buf) /\ Len(buf) \in Nat
  BY Numbers DEF TeePush, hostVars, viewerVars, Sent, Counted, TypeOK, total
<1>2. /\ base' \in Nat /\ base' >= base
      /\ buf' # <<>> /\ Len(buf') \in Nat /\ Len(buf') >= 1
      /\ total' = total + 1 /\ total' = base' + Len(buf')
      /\ buf'[Len(buf')] = emitted
      /\ \A i \in 1 .. Len(buf') - 1 :
           /\ i + (base' - base) \in 1 .. Len(buf)
           /\ buf'[i] = buf[i + (base' - base)]
  <2>1. buf' # <<>>
    BY PushRing, EmptySeq, Bounds DEF Sent
  <2> QED
    BY <2>1, PushRing, Bounds DEF Sent, total
<1>3. PICK l \in Int : emitted = total' + l
  <2>1. emitted - total' \in Int /\ emitted = total' + (emitted - total')
    BY <1>1, <1>2
  <2> QED
    BY <2>1
<1>4. buf # <<>> => l = k
  <2>1. ASSUME buf # <<>>
        PROVE  l = k
    <3>1. buf[Len(buf)] = emitted - 1 /\ Len(buf) \in 1 .. Len(buf)
      BY <1>1, <2>1, EmptySeq DEF RingInv, Sent, Counted, TypeOK
    <3>2. buf[Len(buf)] = base + Len(buf) + k
      BY <3>1 DEF Epoch, InRing
    <3> QED
      <4>1. emitted - 1 = total + k /\ emitted = total + 1 + l
        BY <1>1, <1>2, <1>3, <3>1, <3>2
      <4> QED
        BY <1>1, <1>3, <4>1
  <2> QED
    BY <2>1
<1>5. InRing(e, l)'
  <2>1. ASSUME NEW i \in 1 .. Len(buf')
        PROVE  buf'[i] = base' + i + l
    <3>1. CASE i = Len(buf')
      BY <1>2, <1>3, <3>1
    <3>2. CASE i # Len(buf')
      <4>1. i \in 1 .. Len(buf') - 1
        BY <1>2, <3>2
      <4>2. /\ i + (base' - base) \in 1 .. Len(buf)
            /\ buf'[i] = base + (i + (base' - base)) + k
        BY <1>2, <4>1 DEF Epoch, InRing
      <4>3. buf # <<>>
        BY <4>2, EmptySeq
      <4> QED
        <5>1. l = k /\ i \in Nat
          BY <1>4, <4>1, <4>3
        <5>2. base + (i + (base' - base)) = base' + i
          BY <1>1, <1>2, <5>1, SMTT(30)
        <5> QED
          BY <4>2, <5>1, <5>2
    <3> QED
      BY <3>1, <3>2
  <2> QED
    BY <1>2, <2>1 DEF InRing
<1>6. \A f \in Frame : Within(f) /\ f.off >= e /\ Told(f, e, k) => Told(f, e, l)
  BY <1>3, <1>4, BeforeFirst DEF Epoch, Sent
<1>7. OnWire(e, l)'
  <2>1. \A i \in 1 .. Len(wire) : wire[i].off >= e => Told(wire[i], e, l)
    BY <1>1, <1>6 DEF Epoch, OnWire, Sent, WithinInv
  <2> QED
    BY <1>1, <2>1 DEF Epoch, OnWire
<1>8. Current(e, l)'
  <2>1. ASSUME ~ stale
        PROVE  \A i \in 1 .. Len(queue) : queue[i].off >= e /\ Told(queue[i], e, l)
    BY <1>1, <1>6, <2>1 DEF Epoch, Current, Sent, WithinInv
  <2>2. tee' = "send" => frame'.off >= e /\ Told(frame', e, l)
    <3> DEFINE f == [d |-> <<emitted>>, off |-> total', reset |-> FALSE]
    <3>1. tee' = "send" => frame' = f
      BY DEF TeePush
    <3>2. Start(f) = total /\ total >= e /\ total' >= e
      <4>1. Len(f.d) = 1 /\ f.off = total'
        OBVIOUS
      <4> QED
        BY <1>1, <1>2, <4>1, SMTT(30) DEF Start
    <3>3. \A i \in 1 .. Len(f.d) : f.d[i] = Start(f) + i + l
      <4>1. \A i \in 1 .. Len(f.d) : i = 1 /\ f.d[i] = emitted
        OBVIOUS
      <4>2. emitted = total + 1 + l
        BY <1>1, <1>2, <1>3
      <4> QED
        BY <3>2, <4>1, <4>2
    <3>4. ~ f.reset /\ f.off = total'
      OBVIOUS
    <3>5. Told(f, e, l)
      BY <3>2, <3>3, <3>4 DEF Told
    <3> QED
      BY <3>1, <3>2, <3>4, <3>5
  <2> QED
    BY <1>1, <2>1, <2>2 DEF Epoch, Current
<1>9. Shown(e, l)'
  BY <1>1, <1>2, <1>4 DEF Epoch, Shown, Holed
<1> QED
  BY <1>3, <1>5, <1>7, <1>8, <1>9 DEF Epoch

\* What a frame of the epoch does to a screen that shows the stream up to g, the
\* offset the frame begins at or a later one.
LEMMA Extended ==
  ASSUME NEW s \in Seq(Chunks), NEW f \in Frame, NEW e \in Int, NEW k \in Int, NEW g \in Int,
         Told(f, e, k), Start(f) <= g, ~ HoleIn(s), g >= e,
         s = <<>> => g = e,
         s # <<>> => \E j \in 1 .. Len(s) : s[j] >= g + k,
         NEW h \in Int, h = IF f.off > g THEN f.off ELSE g
  PROVE  /\ ~ HoleIn(s \o f.d)
         /\ s \o f.d = <<>> => h = e
         /\ s \o f.d # <<>> =>
              /\ s # <<>> \/ f.d # <<>>
              /\ \E j \in 1 .. Len(s \o f.d) : (s \o f.d)[j] >= h + k
<1> DEFINE d == f.d
           x == Start(f) + k
           c == s \o d
<1>1. /\ d \in Seq(Chunks) /\ Len(d) \in Nat /\ f.off \in Nat /\ Start(f) \in Int
      /\ Start(f) = f.off - Len(d) /\ x \in Int /\ Start(f) >= e
      /\ \A i \in 1 .. Len(d) : d[i] = x + i
  <2>1. d \in Seq(Chunks) /\ Len(d) \in Nat /\ f.off \in Nat /\ Start(f) \in Int
        /\ Start(f) = f.off - Len(d)
    BY Spans DEF Frame, Start
  <2>2. \A i \in 1 .. Len(d) : d[i] = Start(f) + i + k
    BY DEF Told
  <2>3. x \in Int /\ \A i \in 1 .. Len(d) : Start(f) + i + k = x + i
    BY <2>1
  <2>4. Start(f) >= e
    BY DEF Told
  <2> HIDE DEF d, x
  <2> QED
    BY <2>1, <2>2, <2>3, <2>4
<1>2. /\ c \in Seq(Chunks) /\ Len(c) = Len(s) + Len(d) /\ Len(s) \in Nat
      /\ \A i \in 1 .. Len(s) + Len(d) : c[i] = IF i <= Len(s) THEN s[i] ELSE d[i - Len(s)]
  BY <1>1, ConcatProperties
<1>3. s # <<>> => \E j \in 1 .. Len(s) : s[j] >= x
  <2>1. \A j \in 1 .. Len(s) : s[j] \in Int
    BY Bounds DEF Chunks
  <2> QED
    BY <1>1, <2>1, SMTT(30)
<1> HIDE DEF c, d, x
<1>4. ~ HoleIn(s \o d)
  BY <1>1, <1>3, NoHole
<1>5. c = <<>> => h = e
  <2>1. ASSUME c = <<>>
        PROVE  h = e
    <3>1. Len(s) = 0 /\ Len(d) = 0 /\ s = <<>>
      BY <1>1, <1>2, <2>1, EmptySeq
    <3> QED
      BY <1>1, <3>1
  <2> QED
    BY <2>1
<1>6. ASSUME c # <<>>
      PROVE  /\ s # <<>> \/ d # <<>>
             /\ \E j \in 1 .. Len(c) : c[j] >= h + k
  <2>1. s # <<>> \/ d # <<>>
    <3>1. s = <<>> /\ d = <<>> => c = <<>>
      BY DEF c
    <3> QED
      BY <1>6, <3>1
  <2>2. CASE f.off > g
    <3>1. Len(d) >= 1 /\ Len(d) \in 1 .. Len(d) /\ h = f.off
      BY <1>1, <2>2
    <3>2. d[Len(d)] = f.off + k
      <4>1. d[Len(d)] = x + Len(d)
        BY <1>1, <3>1
      <4>2. x + Len(d) = f.off + k
        BY <1>1, SMTT(30) DEF x
      <4> QED
        BY <4>1, <4>2
    <3>3. /\ Len(c) \in 1 .. Len(c) /\ Len(c) \in 1 .. Len(s) + Len(d)
          /\ ~ (Len(c) <= Len(s)) /\ Len(c) - Len(s) = Len(d)
      BY <1>1, <1>2, <3>1
    <3>4. c[Len(c)] = d[Len(d)]
      BY <1>2, <3>3
    <3>5. c[Len(c)] >= h + k
      BY <1>1, <3>1, <3>2, <3>4, SMTT(30)
    <3> QED
      BY <2>1, <3>3, <3>5
  <2>3. CASE ~ (f.off > g)
    <3>1. h = g
      BY <2>3
    <3>2. CASE s # <<>>
      <4>1. PICK j \in 1 .. Len(s) : s[j] >= g + k
        BY <3>2
      <4>2. j \in 1 .. Len(c) /\ j \in 1 .. Len(s) + Len(d) /\ j <= Len(s)
        BY <1>1, <1>2
      <4> QED
        BY <1>2, <2>1, <3>1, <4>1, <4>2
    <3>3. CASE s = <<>>
      <4>1. g = e /\ Len(d) = 0 /\ Len(s) = 0
        BY <1>1, <2>3, <3>3, EmptySeq
      <4> QED
        BY <1>2, <1>6, <4>1, EmptySeq
    <3> QED
      BY <3>2, <3>3
  <2> QED
    BY <2>2, <2>3
<1> QED
  BY <1>4, <1>5, <1>6 DEF c, d

\* The viewer stays within the epoch, or outside it: a frame of the epoch begins
\* past whatever was held before.
LEMMA EpochReceive ==
  ASSUME Sent, NEW e \in 0 .. base, NEW k \in Int, Epoch(e, k), Viewer
  PROVE  Epoch(e, k)'
<1> DEFINE f == Head(wire)
<1>1. /\ UNCHANGED <<base, buf, stale, queue, tee, frame>>
      /\ wire \in Seq(Frame) /\ wire' = Tail(wire) /\ wire # <<>>
      /\ f \in Frame /\ Within(f) /\ 1 \in 1 .. Len(wire) /\ f = wire[1]
      /\ \A i \in 1 .. Len(wire') :
           i + 1 \in 1 .. Len(wire) /\ wire'[i] = wire[i + 1]
      /\ e \in Int /\ screen \in Seq(Chunks)
  <2>1. UNCHANGED <<base, buf, stale, queue, tee, frame>>
    BY DEF Viewer, ReceiveReplay, ReceiveMore, ringVars, teeVars, hostVars
  <2>2. wire \in Seq(Frame) /\ screen \in Seq(Chunks) /\ e \in Int
    BY Numbers DEF Sent, Counted, TypeOK
  <2>3. wire # <<>> /\ wire' = Tail(wire) /\ f \in Frame /\ Within(f)
    BY Received
  <2> QED
    BY <2>1, <2>2, <2>3, Unqueued
<1>2. f.off \in Nat /\ Len(f.d) \in Nat /\ Start(f) \in Int /\ Start(f) = f.off - Len(f.d)
      /\ f.d \in Seq(Chunks)
  BY <1>1, Spans DEF Start, Frame
<1>3. f.off >= e => Told(f, e, k)
  BY <1>1 DEF Epoch, OnWire
<1>4. f.off >= e => \A i \in 1 .. Len(wire') : wire'[i].off >= e
  <2> SUFFICES ASSUME f.off >= e, NEW i \in 1 .. Len(wire')
               PROVE  wire'[i].off >= e
    OBVIOUS
  <2>1. i + 1 \in 1 .. Len(wire) /\ wire'[i] = wire[i + 1] /\ 1 < i + 1
    BY <1>1
  <2> QED
    BY <1>1, <2>1 DEF Epoch, OnWire
<1>5. f.off >= e /\ f.d # <<>> => buf # <<>>
  <2> SUFFICES ASSUME f.off >= e, buf = <<>>
               PROVE  f.d = <<>>
    OBVIOUS
  <2>1. total = e
    BY Numbers, EmptySeq DEF Epoch, InRing, total, Sent, Counted
  <2>2. Len(f.d) = 0
    BY <1>1, <1>2, <1>3, <2>1 DEF Told, Within
  <2> QED
    BY <1>2, <2>2, EmptySeq
<1> HIDE DEF f
<1>6. InRing(e, k)'
  BY <1>1 DEF Epoch, InRing
<1>7. OnWire(e, k)'
  <2>1. \A i \in 1 .. Len(wire') : wire'[i].off >= e => Told(wire'[i], e, k)
    BY <1>1 DEF Epoch, OnWire
  <2>2. ASSUME NEW i \in 1 .. Len(wire'), NEW j \in 1 .. Len(wire'),
               i < j, wire'[i].off >= e
        PROVE  wire'[j].off >= e
    <3>1. i + 1 < j + 1
      BY <2>2
    <3>2. /\ i + 1 \in 1 .. Len(wire) /\ j + 1 \in 1 .. Len(wire)
          /\ wire'[i] = wire[i + 1] /\ wire'[j] = wire[j + 1]
      BY <1>1
    <3> QED
      BY <2>2, <3>1, <3>2 DEF Epoch, OnWire
  <2> QED
    BY <2>1, <2>2 DEF OnWire
<1>8. Current(e, k)'
  BY <1>1 DEF Epoch, Current
<1>9. Shown(e, k)'
  <2> SUFFICES ASSUME NEW h \in held', h >= e
               PROVE  /\ ~ HoleIn(screen')
                      /\ screen' = <<>> => h = e
                      /\ screen' # <<>> =>
                           buf # <<>> /\ \E j \in 1 .. Len(screen') : screen'[j] >= h + k
                      /\ \A i \in 1 .. Len(wire') : wire'[i].off >= e
    BY <1>1 DEF Shown, Holed, HoleIn
  <2>1. CASE ReceiveReplay
    <3>1. h = f.off /\ screen' = f.d /\ f.reset
      BY <2>1 DEF ReceiveReplay, f
    <3>2. Told(f, e, k)
      BY <1>3, <3>1
    <3>3. /\ ~ HoleIn(<<>>) /\ <<>> \o f.d = f.d /\ <<>> \in Seq(Chunks)
      BY <1>2, ConcatEmptySeq, EmptySeq DEF HoleIn
    <3>4. ~ HoleIn(f.d)
      <4>1. \A i \in 1 .. Len(f.d) : f.d[i] = Start(f) + i + k
        BY <3>2 DEF Told
      <4>2. Start(f) + k \in Int /\ \A i \in 1 .. Len(f.d) : f.d[i] = (Start(f) + k) + i
        BY <1>2, <4>1
      <4> QED
        BY <1>2, <3>3, <4>2, NoHole
    <3>5. f.d = <<>> => h = e
      BY <3>1, <3>2 DEF Told
    <3>6. ASSUME f.d # <<>>
          PROVE  \E j \in 1 .. Len(f.d) : f.d[j] >= h + k
      <4>1. Len(f.d) \in 1 .. Len(f.d)
        BY <1>2, <3>6, EmptySeq
      <4>2. f.d[Len(f.d)] = Start(f) + Len(f.d) + k
        BY <3>2, <4>1 DEF Told
      <4>3. f.d[Len(f.d)] >= h + k
        BY <1>2, <3>1, <4>2
      <4> QED
        BY <4>1, <4>3
    <3> QED
      BY <1>4, <1>5, <3>1, <3>4, <3>5, <3>6
  <2>2. CASE ReceiveMore
    <3>1. PICK g \in held : h \in AdvanceOffset(g, f.off, Len(f.d))
      BY <2>2 DEF ReceiveMore, ExtendOffset, f
    <3>2. g \in Nat
      BY Received
    <3>3. /\ ~ (f.off > g + Len(f.d))
          /\ h = IF f.off > g THEN f.off ELSE g
      BY <3>1 DEF AdvanceOffset
    <3>4. h \in Int /\ Start(f) <= g
      BY <1>2, <3>2, <3>3
    <3>5. g >= e
      <4>1. ASSUME ~ (g >= e)
            PROVE  FALSE
        <5>1. h = f.off /\ f.off >= e
          BY <1>1, <1>2, <3>2, <3>3, <4>1
        <5>2. Start(f) >= e
          BY <1>3, <5>1 DEF Told
        <5> QED
          BY <1>1, <1>2, <3>2, <3>4, <4>1, <5>2
      <4> QED
        BY <4>1
    <3>6. /\ ~ HoleIn(screen)
          /\ screen = <<>> => g = e
          /\ screen # <<>> => buf # <<>> /\ \E j \in 1 .. Len(screen) : screen[j] >= g + k
          /\ f.off >= e
      BY <1>1, <3>5 DEF Epoch, Shown, Holed, HoleIn
    <3>7. screen' = screen \o f.d
      BY <2>2 DEF ReceiveMore, f
    <3>8. /\ ~ HoleIn(screen \o f.d)
          /\ screen \o f.d = <<>> => h = e
          /\ screen \o f.d # <<>> =>
               /\ screen # <<>> \/ f.d # <<>>
               /\ \E j \in 1 .. Len(screen \o f.d) : (screen \o f.d)[j] >= h + k
      <4>1. /\ screen \in Seq(Chunks) /\ f \in Frame /\ e \in Int /\ g \in Int
            /\ Told(f, e, k)
        BY <1>1, <1>3, <3>2, <3>6
      <4>2. screen # <<>> => \E j \in 1 .. Len(screen) : screen[j] >= g + k
        BY <3>6
      <4> QED
        BY <3>3, <3>4, <3>5, <3>6, <4>1, <4>2, Extended
    <3> QED
      BY <1>4, <1>5, <3>6, <3>7, <3>8
  <2> QED
    BY <2>1, <2>2 DEF Viewer
<1> QED
  BY <1>6, <1>7, <1>8, <1>9 DEF Epoch

-----------------------------------------------------------------------------
(* Steps.                                                                  *)

\* invalidate_all begins an epoch: every offset handed out is before it, and what
\* is queued is for a connection whose generation has passed.
LEMMA EpochRetire ==
  ASSUME Sent, ApplyRetires
  PROVE  EpochInv'
<1>1. /\ UNCHANGED <<stale, wire, queue, tee, frame, held, screen>> /\ applying
      /\ wire \in Seq(Frame)
  BY DEF ApplyRetires, teeVars, hostVars, viewerVars, Sent, Counted, TypeOK
<1>2. /\ buf' = <<>> /\ Len(buf') = 0 /\ base' \in Nat
      /\ base' = IF Exists THEN total + 1 ELSE 0
      /\ ~ Exists => total = 0
      /\ total \in Nat
  BY RetireRing, Numbers DEF Sent, Counted
<1>3. PICK b \in Nat : b = base'
  BY <1>2
<1>4. InRing(b, 0)'
  BY <1>2, <1>3 DEF InRing
<1>5. Current(b, 0)'
  <2>1. ASSUME ~ stale
        PROVE  wire = <<>> /\ queue = <<>> /\ tee # "send"
    BY <1>1, <2>1 DEF Sent, LinkInv
  <2> QED
    BY <1>1, <2>1, EmptySeq DEF Current
<1>6. \A i \in 1 .. Len(wire) : /\ wire[i] \in Frame /\ wire[i].off \in Nat
                                /\ wire[i].off <= total /\ Len(wire[i].d) <= wire[i].off
                                /\ Len(wire[i].d) \in Nat
                                /\ Start(wire[i]) = wire[i].off - Len(wire[i].d)
  BY <1>1, Spans DEF Sent, WithinInv, Within, Start
<1>7. \A h \in held : h \in Nat /\ h <= total
  BY Bounds DEF Sent, WithinInv, Counted, TypeOK, MaybeOffset, Offsets
<1>8. CASE Exists
  <2>1. b = total + 1
    BY <1>2, <1>3, <1>8
  <2>2. OnWire(b, 0)'
    <3>1. \A i \in 1 .. Len(wire) : ~ (wire[i].off >= b)
      BY <1>2, <1>6, <2>1
    <3> QED
      BY <1>1, <3>1 DEF OnWire
  <2>3. Shown(b, 0)'
    <3>1. \A h \in held : ~ (h >= b)
      BY <1>2, <1>7, <2>1
    <3> QED
      BY <1>1, <3>1 DEF Shown
  <2> QED
    BY <1>3, <1>4, <1>5, <2>2, <2>3 DEF EpochInv, Epoch
<1>9. CASE ~ Exists
  <2>1. b = 0 /\ total = 0 /\ screen = <<>>
    BY <1>2, <1>3, <1>9 DEF Sent, WithinInv
  <2>2. \A i \in 1 .. Len(wire) : wire[i].off = 0 /\ Len(wire[i].d) = 0
    BY <1>6, <2>1
  <2>3. \A i \in 1 .. Len(wire) : Told(wire[i], 0, 0)
    BY <1>6, <2>2 DEF Told
  <2>4. OnWire(b, 0)'
    BY <1>1, <2>1, <2>2, <2>3 DEF OnWire
  <2>5. Shown(b, 0)'
    <3>1. ~ Holed' /\ \A h \in held : h = 0
      BY <1>1, <1>7, <2>1, EmptySeq DEF Holed
    <3>2. \A i \in 1 .. Len(wire) : wire[i].off >= 0
      BY <2>2
    <3> QED
      BY <1>1, <2>1, <3>1, <3>2 DEF Shown
  <2> QED
    BY <1>3, <1>4, <1>5, <2>4, <2>5 DEF EpochInv, Epoch
<1> QED
  BY <1>8, <1>9

\* Every other step stays within the epoch.
LEMMA EpochStep ==
  ASSUME Sent, RingInv, EpochInv, [Next]_vars
  PROVE  EpochInv'
<1>1. CASE ApplyRetires
  BY <1>1, EpochRetire
<1>2. CASE Apply
  BY <1>2 DEF Apply, EpochInv
<1>3. CASE ~ ApplyRetires /\ ~ Apply
  <2>1. applying' = applying
    BY <1>3 DEF Next, Emit, Tee, TeePush, TeeSend, Drop, Host, WriteQueued, QueueEmpty,
                ReadNothing, Attach, Retired, Closed, Connect, Reload, Viewer,
                ReceiveReplay, ReceiveMore, PaceEnds, vars, applyVars
  <2>2. SUFFICES ASSUME ~ applying
                 PROVE  \E e \in 0 .. base', k \in Int : Epoch(e, k)'
    BY <2>1 DEF EpochInv
  <2>3. PICK e \in 0 .. base, k \in Int : Epoch(e, k)
    BY <2>2 DEF EpochInv
  <2>4. base \in Nat /\ e \in Int /\ Counted
    BY Numbers DEF Sent, Counted
  <2>5. CASE TeePush
    <3>1. base' \in Nat /\ base' >= base
      BY <2>4, <2>5, PushRing
    <3>2. e \in 0 .. base'
      BY <2>4, <3>1
    <3> QED
      BY <2>2, <2>3, <2>5, <3>2, EpochPush
  <2>6. CASE base' = base /\ Epoch(e, k)'
    BY <2>3, <2>6
  <2>7. CASE TeeSend \/ WriteQueued \/ Attach \/ Viewer
    <3>1. base' = base
      BY <2>7 DEF TeeSend, WriteQueued, Attach, Viewer, ReceiveReplay, ReceiveMore, ringVars
    <3>2. Epoch(e, k)'
      BY <2>3, <2>4, <2>7, EpochSend, EpochWrite, EpochAttach, EpochReceive
    <3> QED
      BY <2>6, <3>1, <3>2
  <2>8. CASE Emit \/ Drop \/ Retired \/ QueueEmpty \/ ReadNothing \/ Connect \/ Reload
             \/ PaceEnds \/ UNCHANGED vars
    <3>1. /\ UNCHANGED ringVars
          /\ \/ UNCHANGED <<wire, queue, stale>>
                  /\ (tee' = "send" => tee = "send" /\ frame' = frame)
             \/ wire' = <<>> /\ queue' = <<>> /\ tee' # "send"
          /\ UNCHANGED <<held, screen>> \/ held' = {}
      BY <2>4, <2>8
         DEF Emit, Drop, Retired, Closed, QueueEmpty, ReadNothing, Connect, Reload, PaceEnds,
             vars, ringVars, teeVars, hostVars, viewerVars, Counted, TypeOK
    <3>2. Epoch(e, k)'
      BY <2>3, <3>1, EpochQuiet
    <3> QED
      BY <2>6, <3>1, <3>2 DEF ringVars
  <2> QED
    BY <1>3, <2>5, <2>7, <2>8 DEF Next, Tee, Host
<1> QED
  BY <1>1, <1>2, <1>3

\* The stream begins an epoch.
LEMMA EpochInit ==
  ASSUME Init
  PROVE  RingInv /\ EpochInv
<1>1. Len(<<>>) = 0
  BY EmptySeq
<1>2. RingInv
  BY DEF Init, RingInv
<1>3. Epoch(0, 0)
  BY <1>1 DEF Init, Epoch, InRing, OnWire, Current, Shown
<1>4. 0 \in 0 .. base /\ 0 \in Int
  BY DEF Init
<1> QED
  BY <1>2, <1>3, <1>4 DEF EpochInv

\* The epochs hold throughout.
THEOREM Invariance == Spec => []IInv
<1>1. Init => IInv
  BY SentInit, EpochInit DEF IInv
<1>2. IInv /\ [Next]_vars => IInv'
  BY SentStep, RingStep, EpochStep DEF IInv, Sent
<1> QED
  BY <1>1, <1>2, PTL DEF Spec

\* No offset the ring would honour belongs to a screen with a hole.
THEOREM ResumesWhole == Spec => []ResumableMeansWhole
<1>1. IInv => ResumableMeansWhole
  <2> SUFFICES ASSUME IInv, NEW h \in held, ~ applying, Since(h) # {}
               PROVE  ~ Holed
    BY DEF ResumableMeansWhole
  <2>1. PICK e \in 0 .. base, k \in Int : Epoch(e, k)
    BY DEF IInv, EpochInv
  <2>2. base \in Nat /\ h \in Nat
    BY Numbers, Bounds, SMTT(30) DEF IInv, Sent, Counted, TypeOK, MaybeOffset, Offsets
  <2>3. h >= base
    BY <2>2 DEF Since
  <2>4. h >= e
    BY <2>2, <2>3
  <2> QED
    BY <2>1, <2>4 DEF Epoch, Shown
<1> QED
  BY <1>1, Invariance, PTL
=============================================================================
