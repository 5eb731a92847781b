--------------------------- MODULE WebChannel_proofs ---------------------------
(***************************************************************************)
(* Proofs about WebChannel, for every set of sessions and every value of   *)
(* the bounds: type correctness; that live events keep their order and are *)
(* held back only for a reason, however the reader behaves; and that a     *)
(* reader who waits for one transcript before opening another sees it      *)
(* whole.                                                                  *)
(***************************************************************************)
EXTENDS WebChannel, SequenceTheorems, TLAPS

-----------------------------------------------------------------------------
(* Queues: what the wires, the tables and the held back events are made of *)

\* A member of a queue is where it stands.
LEMMA MemberIs ==
  ASSUME NEW S, NEW q \in Seq(S)
  PROVE  /\ DOMAIN q = 1 .. Len(q)
         /\ Range(q) \subseteq S
         /\ \A i \in DOMAIN q : q[i] \in S /\ q[i] \in Range(q)
         /\ \A x \in Range(q) : \E i \in DOMAIN q : x = q[i]
  BY DEF Range

\* What a push adds, and what it leaves in place.
LEMMA PushIs ==
  ASSUME NEW S, NEW q \in Seq(S), NEW x \in S
  PROVE  /\ Append(q, x) \in Seq(S)
         /\ Len(Append(q, x)) = Len(q) + 1
         /\ DOMAIN Append(q, x) = 1 .. Len(q) + 1
         /\ \A i \in DOMAIN q : Append(q, x)[i] = q[i]
         /\ Append(q, x)[Len(q) + 1] = x
         /\ Range(Append(q, x)) = Range(q) \cup {x}
  <1>1. /\ Append(q, x) \in Seq(S)
        /\ Len(Append(q, x)) = Len(q) + 1
        /\ \A i \in 1 .. Len(q) : Append(q, x)[i] = q[i]
        /\ Append(q, x)[Len(q) + 1] = x
    BY AppendProperties
  <1>2. DOMAIN Append(q, x) = 1 .. Len(q) + 1 /\ DOMAIN q = 1 .. Len(q) /\ Len(q) \in Nat
    BY <1>1, LenProperties
  <1>3. Range(Append(q, x)) = Range(q) \cup {x}
    BY <1>1, <1>2 DEF Range
  <1> QED
    BY <1>1, <1>2, <1>3

\* What remains once the head is taken.
LEMMA ShiftIs ==
  ASSUME NEW S, NEW q \in Seq(S), q # <<>>
  PROVE  /\ Tail(q) \in Seq(S)
         /\ Len(Tail(q)) = Len(q) - 1
         /\ DOMAIN Tail(q) = 1 .. Len(q) - 1
         /\ \A i \in DOMAIN Tail(q) : i + 1 \in DOMAIN q /\ Tail(q)[i] = q[i + 1]
         /\ Head(q) = q[1] /\ 1 \in DOMAIN q
         /\ Range(q) = Range(Tail(q)) \cup {Head(q)}
  <1>1. /\ Tail(q) \in Seq(S)
        /\ Len(Tail(q)) = Len(q) - 1
        /\ \A i \in 1 .. Len(q) - 1 : Tail(q)[i] = q[i + 1]
        /\ Head(q) = q[1]
        /\ Len(q) \in Nat \ {0}
    BY HeadTailProperties, EmptySeq
  <1>2. DOMAIN Tail(q) = 1 .. Len(q) - 1 /\ DOMAIN q = 1 .. Len(q)
    BY <1>1, LenProperties
  <1>3. Range(q) = Range(Tail(q)) \cup {Head(q)}
    <2>1. ASSUME NEW i \in DOMAIN q PROVE q[i] \in Range(Tail(q)) \cup {Head(q)}
      <3>1. CASE i = 1
        BY <3>1, <1>1
      <3>2. CASE i # 1
        <4>1. i - 1 \in DOMAIN Tail(q) /\ Tail(q)[i - 1] = q[i]
          BY <3>2, <1>1, <1>2
        <4> QED
          BY <4>1 DEF Range
      <3> QED
        BY <3>1, <3>2
    <2>2. \A i \in DOMAIN Tail(q) : Tail(q)[i] \in Range(q)
      <3>1. \A i \in DOMAIN Tail(q) : i + 1 \in DOMAIN q
        BY <1>1, <1>2
      <3> QED
        BY <1>1, <1>2, <3>1 DEF Range
    <2>3. Head(q) \in Range(q)
      BY <1>1, <1>2 DEF Range
    <2> QED
      BY <2>1, <2>2, <2>3 DEF Range
  <1>4. \A i \in DOMAIN Tail(q) : i + 1 \in DOMAIN q
    BY <1>1, <1>2
  <1> QED
    BY <1>1, <1>2, <1>3, <1>4

\* One queue after another.
LEMMA JoinIs ==
  ASSUME NEW S, NEW p \in Seq(S), NEW q \in Seq(S)
  PROVE  /\ p \o q \in Seq(S)
         /\ DOMAIN (p \o q) = 1 .. Len(p) + Len(q)
         /\ \A i \in DOMAIN p : (p \o q)[i] = p[i]
         /\ \A i \in DOMAIN q : (p \o q)[Len(p) + i] = q[i]
         /\ Range(p \o q) = Range(p) \cup Range(q)
  <1>1. p \o q \in Seq(S) /\ Len(p \o q) = Len(p) + Len(q)
    BY ConcatProperties
  <1>2. DOMAIN (p \o q) = 1 .. Len(p) + Len(q) /\ DOMAIN p = 1 .. Len(p) /\ DOMAIN q = 1 .. Len(q)
        /\ Len(p) \in Nat /\ Len(q) \in Nat
    BY <1>1, LenProperties
  <1>3. \A i \in DOMAIN p : i \in DOMAIN (p \o q) /\ (p \o q)[i] = p[i]
    BY <1>2, ConcatProperties
  <1>4. \A i \in DOMAIN q : Len(p) + i \in DOMAIN (p \o q) /\ (p \o q)[Len(p) + i] = q[i]
    BY <1>2, ConcatProperties
  <1>5. \A k \in DOMAIN (p \o q) : (p \o q)[k] \in Range(p) \cup Range(q)
    <2> SUFFICES ASSUME NEW k \in DOMAIN (p \o q) PROVE (p \o q)[k] \in Range(p) \cup Range(q)
      OBVIOUS
    <2>1. CASE k \in DOMAIN p
      BY <2>1, <1>3 DEF Range
    <2>2. CASE k \notin DOMAIN p
      <3>1. k - Len(p) \in DOMAIN q /\ (p \o q)[k] = q[k - Len(p)]
        BY <2>2, <1>2, ConcatProperties
      <3> QED
        BY <3>1 DEF Range
    <2> QED
      BY <2>1, <2>2
  <1>6. Range(p \o q) = Range(p) \cup Range(q)
    BY <1>3, <1>4, <1>5 DEF Range
  <1> QED
    BY <1>1, <1>2, <1>3, <1>4, <1>6

-----------------------------------------------------------------------------
(* The inductive invariant, for any reader *)

IsHistory(i) == down[i].kind = "history"
Histories == {i \in DOMAIN down : IsHistory(i)}

\* The frames sent and handled are within the bound.
Counted == handled + Len(up) <= MaxSubscribes

\* What is stored, read, held back, on the wire or on the screen was posted, and what is stored or
\* read belongs to its session.
Owned ==
  /\ \A s \in Session : Range(table[s]) \subseteq EventsOf(s)
  /\ inserting \subseteq DOMAIN posted
  /\ \A r \in reads : Range(r.events) \subseteq EventsOf(r.sid)
  /\ pending # None => Range(pending) \subseteq DOMAIN posted
  /\ \A i \in DOMAIN down : Range(down[i].events) \subseteq DOMAIN posted
  /\ Range(screen) \subseteq DOMAIN posted

\* Live events stand in order in the queue, and all of the queue after those on the wire.
Ordered ==
  /\ \A i \in DOMAIN down : ~IsHistory(i) => Len(down[i].events) = 1
  /\ OrderKept
  /\ pending # None =>
       /\ \A i, j \in DOMAIN pending : i < j => pending[i] < pending[j]
       /\ \A i \in DOMAIN down, j \in DOMAIN pending :
            ~IsHistory(i) => Head(down[i].events) < pending[j]

Base == TypeOK /\ Counted /\ Owned /\ Ordered /\ PendingMeansReading

-----------------------------------------------------------------------------
(* Types *)

\* JavaScript's null is not a list, and the empty list is one.
LEMMA NullIsNoList ==
  /\ <<>> # None
  /\ \A q \in Seq(Event) : q # None
  <1>1. Event \subseteq Nat
    BY ConstantsOK DEF Event
  <1>2. Seq(Event) \subseteq Seq(Nat)
    BY <1>1, SeqMonotonic
  <1>3. <<>> \in Seq(Event)
    BY EmptySeq
  <1> QED
    BY <1>2, <1>3, ConstantsOK

\* The event frame of handleEvent, field by field.
LEMMA EventFrameIs ==
  \A s, e : EventFrame(s, e).kind = "event" /\ EventFrame(s, e).sid = s /\ EventFrame(s, e).events = <<e>>
  BY DEF EventFrame

\* Event frames and history frames are frames.
LEMMA FramesTyped ==
  /\ \A s \in Session, e \in Event : EventFrame(s, e) \in Frame
  /\ \A r \in Read : HistoryFrame(r) \in Frame
  BY DEF EventFrame, HistoryFrame, Frame, Read

\* The newest rows are rows of the table.
LEMMA HistoryIs ==
  ASSUME NEW s \in Session, table \in [Session -> Seq(Event)]
  PROVE  History(s) \in Seq(Event) /\ Range(History(s)) \subseteq Range(table[s])
  <1> DEFINE rows == table[s]
  <1> DEFINE first == Len(rows) - HistoryLimit + 1
  <1>1. rows \in Seq(Event) /\ Len(rows) \in Nat /\ DOMAIN rows = 1 .. Len(rows)
    BY LenProperties
  <1>2. CASE Len(rows) <= HistoryLimit
    BY <1>1, <1>2 DEF History
  <1>3. CASE ~(Len(rows) <= HistoryLimit)
    <2>1. first \in Int /\ first >= 1 /\ History(s) = SubSeq(rows, first, Len(rows))
      BY <1>1, <1>3, ConstantsOK DEF History
    <2>2. \A i \in first .. Len(rows) : i \in DOMAIN rows /\ rows[i] \in Range(rows)
      BY <1>1, <2>1 DEF Range
    <2>3. History(s) \in Seq(Range(rows))
      BY <1>1, <2>1, <2>2, SubSeqProperties
    <2>4. Range(rows) \subseteq Event
      BY <1>1, MemberIs
    <2> QED
      BY <2>3, <2>4, MemberIs, SeqMonotonic
  <1> QED
    BY <1>2, <1>3

\* What FinishRead puts on the wire after the history: one frame for each event held back.
Drained(r) == [i \in DOMAIN pending |-> EventFrame(r.sid, pending[i])]

\* The queue drained is one event frame for each event held back.
LEMMA DrainedIs ==
  ASSUME NEW r \in Read, pending \in Seq(Event)
  PROVE  /\ Drained(r) \in Seq(Frame)
         /\ DOMAIN Drained(r) = DOMAIN pending /\ Len(Drained(r)) = Len(pending)
         /\ \A i \in DOMAIN pending : Drained(r)[i] = EventFrame(r.sid, pending[i])
  <1>1. DOMAIN pending = 1 .. Len(pending) /\ Len(pending) \in Nat /\ \A i \in DOMAIN pending : pending[i] \in Event
    BY LenProperties
  <1>2. \A i \in DOMAIN pending : EventFrame(r.sid, pending[i]) \in Frame
    BY <1>1, FramesTyped DEF Read
  <1>3. Drained(r) \in [1 .. Len(pending) -> Frame]
    BY <1>1, <1>2 DEF Drained
  <1>4. Drained(r) \in Seq(Frame)
    BY <1>1, <1>3, SeqDef
  <1> QED
    BY <1>1, <1>3, <1>4, LenProperties DEF Drained

\* Each step keeps the types, and the frames within their bound.
LEMMA TypeStep ==
  ASSUME TypeOK, Counted, inserting \subseteq DOMAIN posted, [Next]_vars
  PROVE  TypeOK' /\ Counted'
  <1> USE ConstantsOK
  <1>1. ASSUME NEW s \in Session, PostEvent(s)
        PROVE  TypeOK' /\ Counted'
    <2>1. Len(posted) + 1 \in Event /\ posted' \in Seq(Session) /\ Len(posted') <= MaxEvents
      BY <1>1, PushIs DEF PostEvent, TypeOK, Event
    <2>2. pending' \in Seq(Event) \cup {None} /\ down' \in Seq(Frame)
      <3>1. pending # None => Append(pending, Len(posted) + 1) \in Seq(Event)
        BY <2>1, PushIs DEF TypeOK
      <3>2. Append(down, EventFrame(s, Len(posted) + 1)) \in Seq(Frame)
        BY <2>1, PushIs, FramesTyped DEF TypeOK
      <3> QED
        BY <1>1, <3>1, <3>2 DEF PostEvent, Relay, TypeOK
    <2> QED
      BY <1>1, <2>1, <2>2 DEF PostEvent, TypeOK, Counted, reader
  <1>2. ASSUME NEW e \in inserting, Persist(e)
        PROVE  TypeOK' /\ Counted'
    <2>1. e \in Event /\ posted[e] \in Session
      BY <1>2 DEF TypeOK
    <2>2. Append(table[posted[e]], e) \in Seq(Event)
      BY <2>1, PushIs DEF TypeOK
    <2> QED
      BY <1>2, <2>1, <2>2 DEF Persist, TypeOK, Counted, socket, wire, reader
  <1>3. ASSUME NEW e \in inserting, PersistFail(e)
        PROVE  TypeOK' /\ Counted'
    BY <1>3 DEF PersistFail, Fault, TypeOK, Counted, socket, wire, reader
  <1>4. ASSUME HandleSubscribe
        PROVE  TypeOK' /\ Counted'
    <2>1. Head(up) \in Session /\ up' \in Seq(Session) /\ Len(up') = Len(up) - 1 /\ Len(up) \in Nat /\ Len(up) # 0
      BY <1>4, ShiftIs, HeadTailProperties, LenProperties, EmptySeq DEF HandleSubscribe, TypeOK
    <2>2. handled' \in 0 .. MaxSubscribes /\ handled + 1 \in 1 .. MaxSubscribes /\ Counted'
      BY <1>4, <2>1 DEF HandleSubscribe, TypeOK, Counted
    <2>3. reads' \in SUBSET Read
      <3>1. [id |-> handled + 1, sid |-> Head(up), phase |-> "reading", events |-> <<>>] \in Read
        BY <2>1, <2>2, EmptySeq DEF Read
      <3> QED
        BY <1>4, <3>1 DEF HandleSubscribe, TypeOK
    <2>4. excused' \in SUBSET Event
      <3>1. DOMAIN posted \subseteq Event
        BY LenProperties DEF TypeOK, Event
      <3> QED
        BY <1>4, <3>1 DEF HandleSubscribe, EventsOf
    <2>5. pending' \in Seq(Event)
      BY <1>4, EmptySeq DEF HandleSubscribe
    <2> QED
      BY <1>4, <2>1, <2>2, <2>3, <2>4, <2>5 DEF HandleSubscribe, TypeOK, events, reader
  <1>5. ASSUME NEW r \in reads, ReadHistory(r)
        PROVE  TypeOK' /\ Counted'
    <2>1. r \in Read /\ r.sid \in Session
      BY DEF TypeOK, Read
    <2>2. History(r.sid) \in Seq(Event)
      BY <2>1, HistoryIs DEF TypeOK
    <2>3. [r EXCEPT !.phase = "read", !.events = History(r.sid)] \in Read
      BY <2>1, <2>2 DEF Read
    <2>4. Range(table[r.sid]) \subseteq Event
      BY <2>1, MemberIs DEF TypeOK
    <2> QED
      BY <1>5, <2>3, <2>4 DEF ReadHistory, TypeOK, Counted, events, wire, reader
  <1>6. ASSUME NEW r \in reads, FinishRead(r)
        PROVE  TypeOK' /\ Counted'
    <2>1. r \in Read
      BY DEF TypeOK
    <2>2. Append(down, HistoryFrame(r)) \in Seq(Frame)
      BY <2>1, PushIs, FramesTyped DEF TypeOK
    <2>3. pending # None => Append(down, HistoryFrame(r)) \o Drained(r) \in Seq(Frame)
      BY <2>1, <2>2, DrainedIs, JoinIs DEF TypeOK
    <2> QED
      BY <1>6, <2>2, <2>3 DEF FinishRead, Drained, TypeOK, Counted, events, reader
  <1>7. ASSUME NEW r \in reads, ReadFail(r)
        PROVE  TypeOK' /\ Counted'
    BY <1>7 DEF ReadFail, Fault, TypeOK, Counted, events, wire, reader
  <1>8. ASSUME NEW s \in Session, Open(s)
        PROVE  TypeOK' /\ Counted'
    <2>1. up' \in Seq(Session) /\ handled + Len(up') <= MaxSubscribes
      BY <1>8, PushIs, LenProperties DEF Open, MaySubscribe, TypeOK, Counted
    <2> QED
      BY <1>8, <2>1, EmptySeq DEF Open, TypeOK, Counted, events, socket
  <1>9. ASSUME Leave
        PROVE  TypeOK' /\ Counted'
    BY <1>9, EmptySeq DEF Leave, TypeOK, Counted, events, socket, wire
  <1>10. ASSUME Receive
         PROVE  TypeOK' /\ Counted'
    <2>1. Head(down) \in Frame /\ down' \in Seq(Frame)
      BY <1>10, HeadTailProperties DEF Receive, TypeOK
    <2>2. screen' \in Seq(Event)
      <3>1. Head(down).events \in Seq(Event)
        BY <2>1 DEF Frame
      <3>2. screen \o Head(down).events \in Seq(Event)
        BY <3>1, JoinIs DEF TypeOK
      <3> QED
        BY <1>10, <3>1, <3>2 DEF Receive, TypeOK
    <2> QED
      BY <1>10, <2>1, <2>2 DEF Receive, TypeOK, Counted, events, socket
  <1>11. ASSUME Disconnect
         PROVE  TypeOK' /\ Counted'
    <2>1. up' \in Seq(Session) /\ down' \in Seq(Frame) /\ Len(up') = 0
      BY <1>11, EmptySeq DEF Disconnect
    <2> QED
      <3>1. subscribed' = None /\ pending' = None /\ reads' = {} /\ connected' = FALSE
        BY <1>11 DEF Disconnect
      <3>2. UNCHANGED <<posted, inserting, table, handled, active, screen, excused, abandoned>>
        BY <1>11 DEF Disconnect, events, reader
      <3>3. faults' \in 0 .. MaxFaults
        BY <1>11 DEF Disconnect, Fault, TypeOK
      <3>4. TypeOK'
        BY <2>1, <3>1, <3>2, <3>3 DEF TypeOK
      <3>5. Counted'
        BY <2>1, <3>2 DEF Counted, TypeOK
      <3> QED
        BY <3>4, <3>5
  <1>12. ASSUME Reconnect
         PROVE  TypeOK' /\ Counted'
    <2>1. up' \in Seq(Session) /\ Len(up') <= 1 /\ Len(up') \in Nat
      <3>1. CASE active = None
        BY <1>12, <3>1, EmptySeq DEF Reconnect
      <3>2. CASE active # None
        <4>1. active \in Session /\ up' = <<active>>
          BY <1>12, <3>2 DEF Reconnect, TypeOK
        <4> QED
          BY <4>1
      <3> QED
        BY <3>1, <3>2
    <2>2. handled + 1 <= MaxSubscribes
      BY <1>12, LenProperties DEF Reconnect, MaySubscribe, TypeOK
    <2> QED
      BY <1>12, <2>1, <2>2 DEF Reconnect, TypeOK, Counted, events, socket, reader
  <1>13. CASE UNCHANGED vars
    BY <1>13 DEF vars, events, socket, wire, reader, TypeOK, Counted
  <1> QED
    BY <1>1, <1>2, <1>3, <1>4, <1>5, <1>6, <1>7, <1>8, <1>9, <1>10, <1>11, <1>12, <1>13 DEF Next

-----------------------------------------------------------------------------
(* What is posted stays posted, and in order *)

\* A post adds one event, newer than all before it, to one session.
LEMMA PostAdds ==
  ASSUME TypeOK, NEW s \in Session, PostEvent(s)
  PROVE  /\ DOMAIN posted = 1 .. Len(posted) /\ Len(posted) \in Nat
         /\ DOMAIN posted' = DOMAIN posted \cup {Len(posted) + 1}
         /\ Len(posted) + 1 \in Event
         /\ \A e \in DOMAIN posted : posted'[e] = posted[e] /\ e < Len(posted) + 1
         /\ posted'[Len(posted) + 1] = s
         /\ \A x : EventsOf(x)' = EventsOf(x) \cup (IF x = s THEN {Len(posted) + 1} ELSE {})
  <1>1. /\ DOMAIN posted = 1 .. Len(posted) /\ Len(posted) \in Nat
        /\ DOMAIN posted' = 1 .. Len(posted) + 1
        /\ \A e \in DOMAIN posted : posted'[e] = posted[e]
        /\ posted'[Len(posted) + 1] = s
        /\ Len(posted) + 1 \in Event
    BY PushIs, LenProperties, ConstantsOK DEF PostEvent, TypeOK, Event
  <1>2. DOMAIN posted' = DOMAIN posted \cup {Len(posted) + 1} /\ Len(posted) + 1 \notin DOMAIN posted
    BY <1>1
  <1>3. \A x : EventsOf(x)' = EventsOf(x) \cup (IF x = s THEN {Len(posted) + 1} ELSE {})
    BY <1>1, <1>2 DEF EventsOf
  <1>4. \A e \in DOMAIN posted : e < Len(posted) + 1
    BY <1>1
  <1> QED
    BY <1>1, <1>2, <1>3, <1>4

\* Ownership survives each step.
LEMMA OwnedStep ==
  ASSUME TypeOK, Owned, [Next]_vars
  PROVE  Owned'
  <1> USE NullIsNoList
  <1>1. ASSUME NEW s \in Session, PostEvent(s)
        PROVE  Owned'
    <2> DEFINE e == Len(posted) + 1
    <2>1. /\ DOMAIN posted' = DOMAIN posted \cup {e} /\ e \in Event
          /\ \A x : EventsOf(x) \subseteq EventsOf(x)'
      BY <1>1, PostAdds
    <2>2. Relay(s, e) /\ UNCHANGED <<table, reads, screen>> /\ inserting' \in {inserting, inserting \cup {e}}
      BY <1>1 DEF PostEvent, reader
    <2>3. pending' # None => Range(pending') \subseteq DOMAIN posted'
      <3>1. CASE pending' = pending
        BY <2>1, <3>1 DEF Owned
      <3>2. CASE pending # None /\ pending' = Append(pending, e)
        <4>1. Range(Append(pending, e)) = Range(pending) \cup {e}
          BY <2>1, <3>2, PushIs DEF TypeOK
        <4> QED
          BY <2>1, <3>2, <4>1 DEF Owned
      <3> QED
        BY <2>2, <3>1, <3>2 DEF Relay
    <2>4. \A i \in DOMAIN down' : Range(down'[i].events) \subseteq DOMAIN posted'
      <3>1. CASE down' = down
        BY <2>1, <3>1 DEF Owned
      <3>2. CASE down' = Append(down, EventFrame(s, e))
        <4>1. /\ DOMAIN down' = 1 .. Len(down) + 1 /\ DOMAIN down = 1 .. Len(down)
              /\ \A i \in DOMAIN down : down'[i] = down[i]
              /\ down'[Len(down) + 1] = EventFrame(s, e)
          BY <2>1, <3>2, PushIs, LenProperties, FramesTyped DEF TypeOK
        <4>2. Range(EventFrame(s, e).events) = {e}
          BY DEF EventFrame, Range
        <4>3. Len(down) \in Nat
          BY LenProperties DEF TypeOK
        <4>4. \A i \in DOMAIN down' : i \in DOMAIN down \/ i = Len(down) + 1
          BY <4>1, <4>3
        <4> QED
          BY <2>1, <4>1, <4>2, <4>4 DEF Owned
      <3> QED
        BY <2>2, <3>1, <3>2 DEF Relay
    <2>5. \A x \in Session : Range(table'[x]) \subseteq EventsOf(x)'
      BY <2>1, <2>2 DEF Owned
    <2>6. \A r \in reads' : Range(r.events) \subseteq EventsOf(r.sid)'
      BY <2>1, <2>2 DEF Owned
    <2>7. inserting' \subseteq DOMAIN posted' /\ Range(screen') \subseteq DOMAIN posted'
      BY <2>1, <2>2 DEF Owned
    <2> QED
      BY <2>3, <2>4, <2>5, <2>6, <2>7 DEF Owned
  <1>2. ASSUME NEW e \in inserting, Persist(e)
        PROVE  Owned'
    <2>1. e \in Event /\ e \in DOMAIN posted /\ posted[e] \in Session
      BY DEF TypeOK, Owned
    <2>2. /\ table' = [table EXCEPT ![posted[e]] = Append(@, e)]
          /\ inserting' = inserting \ {e}
          /\ UNCHANGED <<posted, reads, pending, down, screen>>
      BY <1>2 DEF Persist, socket, wire, reader
    <2>3. Range(Append(table[posted[e]], e)) = Range(table[posted[e]]) \cup {e}
      BY <2>1, PushIs DEF TypeOK
    <2>4. \A x \in Session : Range(table'[x]) \subseteq EventsOf(x)'
      BY <2>1, <2>2, <2>3 DEF Owned, EventsOf, TypeOK
    <2> QED
      BY <2>2, <2>4 DEF Owned, EventsOf
  <1>3. ASSUME HandleSubscribe
        PROVE  Owned'
    <2>1. /\ UNCHANGED <<posted, inserting, table, down, screen>> /\ pending' = <<>>
          /\ \A r \in reads' : r \in reads \/ r.events = <<>>
      BY <1>3 DEF HandleSubscribe, events, reader
    <2>2. Range(<<>>) = {}
      BY DEF Range
    <2> QED
      BY <2>1, <2>2 DEF Owned, EventsOf
  <1>4. ASSUME NEW r \in reads, ReadHistory(r)
        PROVE  Owned'
    <2>1. r \in Read /\ r.sid \in Session
      BY DEF TypeOK, Read
    <2>4. UNCHANGED <<posted, inserting, table, pending, down, screen>>
      BY <1>4 DEF ReadHistory, events, wire, reader
    <2> DEFINE n == [r EXCEPT !.phase = "read", !.events = History(r.sid)]
    <2>5. n.sid = r.sid /\ n.events = History(r.sid)
      BY <2>1 DEF Read
    <2>6. \A q \in reads' : q \in reads \/ q = n
      BY <1>4 DEF ReadHistory
    <2> HIDE DEF n
    <2>2. \A q \in reads' : q \in reads \/ (q.sid = r.sid /\ q.events = History(r.sid))
      <3> SUFFICES ASSUME NEW q \in reads', q \notin reads
                   PROVE  q.sid = r.sid /\ q.events = History(r.sid)
        OBVIOUS
      <3>1. q = n
        BY <2>6
      <3> QED
        BY <2>5, <3>1
    <2>3. Range(History(r.sid)) \subseteq EventsOf(r.sid)
      BY <2>1, HistoryIs DEF TypeOK, Owned
    <2> QED
      BY <2>2, <2>3, <2>4 DEF Owned, EventsOf
  <1>5. ASSUME NEW r \in reads, FinishRead(r)
        PROVE  Owned'
    <2> DEFINE d == Append(down, HistoryFrame(r))
    <2>1. /\ UNCHANGED <<posted, inserting, table, screen>> /\ reads' \subseteq reads /\ pending' = None
          /\ down' = IF pending = None THEN d ELSE d \o Drained(r)
      BY <1>5 DEF FinishRead, events, reader, Drained
    <2>2. r \in Read /\ HistoryFrame(r) \in Frame /\ down \in Seq(Frame) /\ d \in Seq(Frame)
      BY PushIs, FramesTyped DEF TypeOK
    <2>3. \A f \in Range(down) : Range(f.events) \subseteq DOMAIN posted
      BY <2>2, MemberIs DEF Owned
    <2>4. Range(HistoryFrame(r).events) \subseteq DOMAIN posted
      BY DEF Owned, HistoryFrame, EventsOf
    <2>5. \A f \in Range(d) : Range(f.events) \subseteq DOMAIN posted
      BY <2>2, <2>3, <2>4, PushIs
    <2>6. ASSUME pending # None
          PROVE  \A f \in Range(Drained(r)) : Range(f.events) \subseteq DOMAIN posted
      <3>1. pending \in Seq(Event)
        BY <2>6 DEF TypeOK
      <3>2. ASSUME NEW i \in DOMAIN pending
            PROVE  Range(Drained(r)[i].events) \subseteq DOMAIN posted
        <4>1. Drained(r)[i].events = <<pending[i]>>
          <5>1. Drained(r)[i] = EventFrame(r.sid, pending[i])
            BY <2>2, <3>1, DrainedIs
          <5> QED
            BY <5>1 DEF EventFrame
        <4>2. Range(<<pending[i]>>) = {pending[i]}
          BY DEF Range
        <4> QED
          BY <2>6, <3>1, <4>1, <4>2, MemberIs DEF Owned
      <3> QED
        BY <2>2, <3>1, <3>2, DrainedIs DEF Range
    <2>7. \A f \in Range(down') : Range(f.events) \subseteq DOMAIN posted
      <3>1. CASE pending = None
        BY <2>1, <2>5, <3>1
      <3>2. CASE pending # None
        <4>1. Drained(r) \in Seq(Frame)
          BY <2>2, <3>2, DrainedIs DEF TypeOK
        <4>2. Range(down') = Range(d) \cup Range(Drained(r))
          BY <2>1, <2>2, <3>2, <4>1, JoinIs
        <4> QED
          BY <2>5, <2>6, <3>2, <4>2
      <3> QED
        BY <3>1, <3>2
    <2>8. \A i \in DOMAIN down' : Range(down'[i].events) \subseteq DOMAIN posted'
      BY <2>1, <2>7 DEF Range
    <2> QED
      BY <2>1, <2>8 DEF Owned, EventsOf
  <1>6. ASSUME Receive
        PROVE  Owned'
    <2>1. /\ UNCHANGED <<posted, inserting, table, reads, pending>>
          /\ down # <<>> /\ down' = Tail(down)
          /\ screen' \in {screen, Head(down).events, screen \o Head(down).events}
      BY <1>6 DEF Receive, events, socket
    <2>2. Head(down) \in Frame /\ Head(down).events \in Seq(Event) /\ Range(Head(down).events) \subseteq DOMAIN posted
      <3>1. Head(down) \in Frame /\ Head(down) = down[1] /\ 1 \in DOMAIN down
        BY <2>1, ShiftIs, HeadTailProperties DEF TypeOK
      <3> QED
        BY <3>1 DEF Owned, Frame
    <2>3. Range(screen') \subseteq DOMAIN posted
      <3>1. Range(screen \o Head(down).events) = Range(screen) \cup Range(Head(down).events)
        BY <2>2, JoinIs DEF TypeOK
      <3> QED
        BY <2>1, <2>2, <3>1 DEF Owned
    <2>4. \A i \in DOMAIN down' : Range(down'[i].events) \subseteq DOMAIN posted
      BY <2>1, ShiftIs DEF TypeOK, Owned
    <2> QED
      BY <2>1, <2>3, <2>4 DEF Owned, EventsOf
  <1>7. ASSUME NEW e \in inserting, PersistFail(e)
        PROVE  Owned'
    BY <1>7 DEF PersistFail, Owned, EventsOf, socket, wire, reader
  <1>8. ASSUME NEW r \in reads, ReadFail(r)
        PROVE  Owned'
    BY <1>8 DEF ReadFail, Owned, EventsOf, events, wire, reader
  <1>9. ASSUME screen' \in {screen, <<>>}, UNCHANGED <<posted, inserting, table, reads, pending, down>>
        PROVE  Owned'
    <2>1. Range(<<>>) = {}
      BY DEF Range
    <2> QED
      BY <1>9, <2>1 DEF Owned, EventsOf
  <1>10. ASSUME NEW s \in Session, Open(s)
         PROVE  Owned'
    BY <1>9, <1>10 DEF Open, events, socket
  <1>11. CASE Leave \/ Reconnect \/ UNCHANGED vars
    BY <1>9, <1>11 DEF Leave, Reconnect, vars, events, socket, wire, reader
  <1>12. ASSUME Disconnect
         PROVE  Owned'
    BY <1>12 DEF Disconnect, Owned, EventsOf, events, reader
  <1> QED
    BY <1>1, <1>2, <1>3, <1>4, <1>5, <1>6, <1>7, <1>8, <1>10, <1>11, <1>12 DEF Next

\* An event frame carries one event, which was posted.
LEMMA LiveFrameIs ==
  ASSUME TypeOK, Owned, Ordered, NEW i \in DOMAIN down, ~IsHistory(i)
  PROVE  Head(down[i].events) \in DOMAIN posted
  <1>1. down[i] \in Frame
    BY MemberIs DEF TypeOK
  <1>2. down[i].events \in Seq(Event) /\ Len(down[i].events) = 1 /\ down[i].events # <<>>
    BY <1>1, EmptySeq DEF Frame, Ordered
  <1>3. Head(down[i].events) \in Range(down[i].events)
    BY <1>2, ShiftIs
  <1> QED
    BY <1>3 DEF Owned

\* An event put at the end of the wire, later than all that is live there, keeps the order.
LEMMA OrderedPush ==
  ASSUME TypeOK, Ordered, NEW s \in Session, NEW e \in Event,
         down' = Append(down, EventFrame(s, e)),
         \A i \in DOMAIN down : ~IsHistory(i) => Head(down[i].events) < e
  PROVE  /\ \A i \in DOMAIN down' : ~IsHistory(i)' => Len(down'[i].events) = 1
         /\ OrderKept'
  <1>1. /\ DOMAIN down' = 1 .. Len(down) + 1 /\ DOMAIN down = 1 .. Len(down)
        /\ \A i \in DOMAIN down : down'[i] = down[i]
        /\ down'[Len(down) + 1] = EventFrame(s, e)
    BY PushIs, LenProperties, FramesTyped DEF TypeOK
  <1>2. Len(down) \in Nat
    BY LenProperties DEF TypeOK
  <1>3. \A i \in DOMAIN down' : i \in DOMAIN down \/ i = Len(down) + 1
    BY <1>1, <1>2
  <1>4. EventFrame(s, e).kind = "event" /\ EventFrame(s, e).events = <<e>>
    BY DEF EventFrame
  <1>5. Head(<<e>>) = e /\ Len(<<e>>) = 1
    OBVIOUS
  <1>6. \A i \in DOMAIN down' : ~IsHistory(i)' => Len(down'[i].events) = 1
    BY <1>1, <1>3, <1>4, <1>5 DEF Ordered, IsHistory
  <1>7. ASSUME NEW i \in DOMAIN down', NEW j \in DOMAIN down', i < j,
               down'[i].kind = "event", down'[j].kind = "event"
        PROVE  Head(down'[i].events) < Head(down'[j].events)
    <2>1. i \in DOMAIN down
      BY <1>1, <1>2, <1>3, <1>7
    <2>2. CASE j \in DOMAIN down
      BY <1>1, <1>7, <2>1, <2>2 DEF Ordered, OrderKept
    <2>3. CASE j = Len(down) + 1
      BY <1>1, <1>4, <1>5, <1>7, <2>1, <2>3 DEF IsHistory
    <2> QED
      BY <1>3, <2>2, <2>3
  <1> QED
    BY <1>6, <1>7 DEF OrderKept

\* The order survives each step.
LEMMA OrderedStep ==
  ASSUME TypeOK, Owned, Ordered, [Next]_vars
  PROVE  Ordered'
  <1> USE NullIsNoList
  <1>0. \A i \in DOMAIN down : down[i] \in Frame /\ (down[i].kind = "event" <=> ~IsHistory(i))
    <2>1. \A i \in DOMAIN down : down[i] \in Frame
      BY MemberIs DEF TypeOK
    <2>2. \A f \in Frame : f.kind \in {"history", "event"}
      BY DEF Frame
    <2> QED
      BY <2>1, <2>2 DEF IsHistory
  <1>1. ASSUME NEW s \in Session, PostEvent(s)
        PROVE  Ordered'
    <2> DEFINE e == Len(posted) + 1
    <2>1. e \in Event /\ \A x \in DOMAIN posted : x < e
      BY <1>1, PostAdds
    <2>2. Relay(s, e)
      BY <1>1 DEF PostEvent
    <2>3. \A i \in DOMAIN down : ~IsHistory(i) => Head(down[i].events) < e
      BY <2>1, LiveFrameIs
    <2> HIDE DEF e
    <2>4. CASE UNCHANGED <<pending, down>>
      BY <2>4 DEF Ordered, OrderKept, IsHistory
    <2>5. CASE pending # None /\ pending' = Append(pending, e) /\ UNCHANGED down
      <3>1. /\ DOMAIN pending' = 1 .. Len(pending) + 1 /\ DOMAIN pending = 1 .. Len(pending)
            /\ \A i \in DOMAIN pending : pending'[i] = pending[i]
            /\ pending'[Len(pending) + 1] = e
        BY <2>1, <2>5, PushIs, LenProperties DEF TypeOK
      <3>2. Len(pending) \in Nat
        BY <2>5, LenProperties DEF TypeOK
      <3>3. \A j \in DOMAIN pending' : j \in DOMAIN pending \/ j = Len(pending) + 1
        BY <3>1, <3>2
      <3>4. \A j \in DOMAIN pending : pending[j] < e
        BY <2>1, <2>5, MemberIs DEF TypeOK, Owned
      <3>5. \A i, j \in DOMAIN pending' : i < j => pending'[i] < pending'[j]
        <4> SUFFICES ASSUME NEW i \in DOMAIN pending', NEW j \in DOMAIN pending', i < j
                     PROVE  pending'[i] < pending'[j]
          OBVIOUS
        <4>1. i \in DOMAIN pending
          BY <3>1, <3>2, <3>3
        <4> QED
          BY <2>5, <3>1, <3>3, <3>4, <4>1 DEF Ordered
      <3>6. \A i \in DOMAIN down, j \in DOMAIN pending' : ~IsHistory(i) => Head(down[i].events) < pending'[j]
        BY <2>3, <2>5, <3>1, <3>3 DEF Ordered
      <3> QED
        BY <2>5, <3>5, <3>6 DEF Ordered, OrderKept, IsHistory
    <2>6. CASE pending = None /\ down' = Append(down, EventFrame(s, e)) /\ UNCHANGED pending
      BY <2>1, <2>3, <2>6, OrderedPush DEF Ordered
    <2> QED
      BY <2>2, <2>4, <2>5, <2>6 DEF Relay
  <1>2. ASSUME HandleSubscribe
        PROVE  Ordered'
    BY <1>2 DEF HandleSubscribe, Ordered, OrderKept, IsHistory
  <1>3. ASSUME NEW r \in reads, FinishRead(r)
        PROVE  Ordered'
    <2> DEFINE d == Append(down, HistoryFrame(r))
    <2>1. /\ pending' = None
          /\ down' = IF pending = None THEN d ELSE d \o Drained(r)
      BY <1>3 DEF FinishRead, Drained
    <2>2. r \in Read /\ HistoryFrame(r) \in Frame /\ HistoryFrame(r).kind = "history" /\ down \in Seq(Frame)
      BY FramesTyped DEF TypeOK, HistoryFrame
    <2>3. /\ d \in Seq(Frame) /\ Len(d) = Len(down) + 1 /\ Len(down) \in Nat
          /\ DOMAIN d = 1 .. Len(down) + 1 /\ DOMAIN down = 1 .. Len(down)
          /\ \A i \in DOMAIN down : d[i] = down[i]
          /\ d[Len(down) + 1] = HistoryFrame(r)
      BY <2>2, PushIs, LenProperties
    <2>4. \A i \in DOMAIN d : i \in DOMAIN down \/ i = Len(down) + 1
      BY <2>3
    <2> HIDE DEF d
    <2>5. CASE pending = None
      <3>1. \A i \in DOMAIN down' : down'[i].kind # "history" => i \in DOMAIN down /\ down'[i] = down[i]
        BY <2>1, <2>2, <2>3, <2>4, <2>5
      <3>2. \A i \in DOMAIN down' : down'[i].kind = "event" => i \in DOMAIN down /\ down'[i] = down[i]
        BY <3>1
      <3> QED
        BY <2>1, <3>1, <3>2 DEF Ordered, OrderKept, IsHistory
    <2>6. CASE pending # None
      <3> DEFINE n == Len(down) + 1
      <3>1. pending \in Seq(Event)
        BY <2>6 DEF TypeOK
      <3>2. /\ Drained(r) \in Seq(Frame) /\ Len(Drained(r)) = Len(pending) /\ DOMAIN Drained(r) = DOMAIN pending
            /\ Len(pending) \in Nat /\ DOMAIN pending = 1 .. Len(pending)
            /\ \A j \in DOMAIN pending : Drained(r)[j].kind = "event" /\ Drained(r)[j].events = <<pending[j]>>
        <4>1. \A j \in DOMAIN pending : Drained(r)[j] = EventFrame(r.sid, pending[j])
          BY <2>2, <3>1, DrainedIs
        <4>2. \A j \in DOMAIN pending : Drained(r)[j].kind = "event" /\ Drained(r)[j].events = <<pending[j]>>
          BY <4>1, EventFrameIs
        <4>3. Drained(r) \in Seq(Frame) /\ Len(Drained(r)) = Len(pending) /\ DOMAIN Drained(r) = DOMAIN pending
          BY <2>2, <3>1, DrainedIs
        <4>4. Len(pending) \in Nat /\ DOMAIN pending = 1 .. Len(pending)
          BY <3>1, LenProperties
        <4> QED
          BY <4>2, <4>3, <4>4
      <3>3. /\ DOMAIN down' = 1 .. n + Len(pending)
            /\ \A i \in DOMAIN d : down'[i] = d[i]
            /\ \A j \in DOMAIN pending : down'[n + j] = Drained(r)[j]
        <4>1. down' = d \o Drained(r)
          BY <2>1, <2>6 DEF d
        <4>2. Drained(r) \in Seq(Frame) /\ Len(Drained(r)) = Len(pending) /\ DOMAIN Drained(r) = DOMAIN pending
          BY <3>2
        <4>3. d \in Seq(Frame) /\ Len(d) = n
          BY <2>3
        <4>4. /\ DOMAIN (d \o Drained(r)) = 1 .. Len(d) + Len(Drained(r))
              /\ \A i \in DOMAIN d : (d \o Drained(r))[i] = d[i]
              /\ \A j \in DOMAIN Drained(r) : (d \o Drained(r))[Len(d) + j] = Drained(r)[j]
          BY <4>2, <4>3, JoinIs
        <4> QED
          BY <4>1, <4>2, <4>3, <4>4
      <3>4. ASSUME NEW i \in DOMAIN down', i \notin DOMAIN down, i # n
            PROVE  i - n \in DOMAIN pending /\ i = n + (i - n)
        BY <2>3, <3>2, <3>3, <3>4
      <3>5. \A i \in DOMAIN down : i \in DOMAIN d /\ down'[i] = down[i]
        BY <2>3, <3>3
      <3>6. down'[n].kind = "history"
        BY <2>2, <2>3, <3>3
      <3>7. \A i \in DOMAIN down' : down'[i].kind # "history" =>
               \/ i \in DOMAIN down /\ down'[i] = down[i]
               \/ i \notin DOMAIN down /\ i - n \in DOMAIN pending /\ down'[i].events = <<pending[i - n]>>
        <4> SUFFICES ASSUME NEW i \in DOMAIN down', down'[i].kind # "history", i \notin DOMAIN down
                     PROVE  i - n \in DOMAIN pending /\ down'[i].events = <<pending[i - n]>>
          BY <3>5
        <4>1. i - n \in DOMAIN pending /\ i = n + (i - n)
          BY <3>4, <3>6
        <4>2. down'[n + (i - n)] = Drained(r)[i - n]
          BY <3>3, <4>1
        <4> QED
          BY <3>2, <4>1, <4>2
      <3> HIDE DEF n
      <3>8. \A j \in DOMAIN pending : Len(<<pending[j]>>) = 1 /\ Head(<<pending[j]>>) = pending[j]
        OBVIOUS
      <3>9. \A i \in DOMAIN down' : down'[i].kind # "history" => Len(down'[i].events) = 1
        BY <3>7, <3>8 DEF Ordered, IsHistory
      <3>10. ASSUME NEW i \in DOMAIN down', NEW j \in DOMAIN down', i < j,
                    down'[i].kind = "event", down'[j].kind = "event"
             PROVE  Head(down'[i].events) < Head(down'[j].events)
        <4>1. CASE i \in DOMAIN down /\ j \in DOMAIN down
          BY <3>5, <3>10, <4>1 DEF Ordered, OrderKept
        <4>2. CASE i \in DOMAIN down /\ j \notin DOMAIN down
          BY <2>6, <3>5, <3>7, <3>8, <3>10, <4>2 DEF Ordered, IsHistory
        <4>3. CASE i \notin DOMAIN down /\ j \in DOMAIN down
          BY <2>3, <3>3, <3>10, <4>3 DEF n
        <4>4. CASE i \notin DOMAIN down /\ j \notin DOMAIN down
          <5>1. /\ i - n \in DOMAIN pending /\ down'[i].events = <<pending[i - n]>>
                /\ j - n \in DOMAIN pending /\ down'[j].events = <<pending[j - n]>>
            BY <3>7, <3>10, <4>4
          <5>2. i - n < j - n
            BY <2>3, <3>3, <3>10 DEF n
          <5> QED
            BY <2>6, <3>8, <5>1, <5>2 DEF Ordered
        <4> QED
          BY <4>1, <4>2, <4>3, <4>4
      <3> QED
        BY <2>1, <3>9, <3>10 DEF Ordered, OrderKept, IsHistory
    <2> QED
      BY <2>5, <2>6
  <1>4. ASSUME Receive
        PROVE  Ordered'
    <2>1. down # <<>> /\ down' = Tail(down) /\ UNCHANGED pending
      BY <1>4 DEF Receive, socket
    <2>2. \A i \in DOMAIN down' : i \in Nat /\ i + 1 \in DOMAIN down /\ down'[i] = down[i + 1]
      BY <2>1, ShiftIs, LenProperties DEF TypeOK
    <2>3. \A i, j \in DOMAIN down' : i < j => i + 1 < j + 1
      BY <2>2
    <2> QED
      BY <2>1, <2>2, <2>3 DEF Ordered, OrderKept, IsHistory
  <1>5. ASSUME Disconnect
        PROVE  Ordered'
    BY <1>5 DEF Disconnect, Ordered, OrderKept
  <1>6. CASE UNCHANGED <<down, pending>>
    BY <1>6 DEF Ordered, OrderKept, IsHistory
  <1>7. ASSUME \/ \E s \in Session : Open(s)
               \/ \E e \in inserting : Persist(e) \/ PersistFail(e)
               \/ \E r \in reads : ReadHistory(r) \/ ReadFail(r)
               \/ Leave \/ Reconnect \/ UNCHANGED vars
        PROVE  UNCHANGED <<down, pending>>
    BY <1>7 DEF Open, Persist, PersistFail, ReadHistory, ReadFail, Leave, Reconnect, vars, events, socket, wire, reader
  <1> QED
    BY <1>1, <1>2, <1>3, <1>4, <1>5, <1>6, <1>7 DEF Next

\* Events are held back for a reason, before and after each step.
LEMMA HeldBackStep ==
  ASSUME PendingMeansReading, [Next]_vars
  PROVE  PendingMeansReading'
  <1>1. ASSUME NEW s \in Session, PostEvent(s)
        PROVE  PendingMeansReading'
    BY <1>1 DEF PostEvent, Relay, PendingMeansReading
  <1>2. ASSUME NEW r \in reads, ReadHistory(r) \/ FinishRead(r) \/ ReadFail(r)
        PROVE  PendingMeansReading'
    BY <1>2 DEF ReadHistory, FinishRead, ReadFail, PendingMeansReading
  <1>3. ASSUME HandleSubscribe \/ Disconnect
        PROVE  PendingMeansReading'
    BY <1>3 DEF HandleSubscribe, Disconnect, PendingMeansReading
  <1>4. CASE UNCHANGED <<pending, reads, abandoned>>
    BY <1>4 DEF PendingMeansReading
  <1>5. ASSUME \/ \E s \in Session : Open(s)
               \/ \E e \in inserting : Persist(e) \/ PersistFail(e)
               \/ Receive \/ Leave \/ Reconnect \/ UNCHANGED vars
        PROVE  UNCHANGED <<pending, reads, abandoned>>
    BY <1>5 DEF Open, Persist, PersistFail, Receive, Leave, Reconnect, vars, events, socket, wire, reader
  <1> QED
    BY <1>1, <1>2, <1>3, <1>4, <1>5 DEF Next

\* The invariant holds at first and is kept by every step.
LEMMA BaseInit == Init => Base
  <1> SUFFICES ASSUME Init PROVE Base
    OBVIOUS
  <1>1. TypeOK
    <2>1. Len(<<>>) = 0 /\ <<>> \in Seq(Session) /\ <<>> \in Seq(Event) /\ <<>> \in Seq(Frame)
      BY EmptySeq
    <2>2. table \in [Session -> Seq(Event)]
      BY <2>1 DEF Init
    <2>3. posted \in Seq(Session) /\ Len(posted) <= MaxEvents /\ up \in Seq(Session)
          /\ down \in Seq(Frame) /\ screen \in Seq(Event)
      BY <2>1, ConstantsOK DEF Init
    <2>4. handled \in 0 .. MaxSubscribes /\ faults \in 0 .. MaxFaults
      BY ConstantsOK DEF Init
    <2> QED
      BY <2>2, <2>3, <2>4 DEF Init, TypeOK
  <1>2. Range(<<>>) = {} /\ DOMAIN <<>> = {} /\ Len(<<>>) = 0
    BY DEF Range
  <1>3. Counted
    BY <1>2, ConstantsOK DEF Init, Counted
  <1>4. Owned
    BY <1>2 DEF Init, Owned
  <1>5. Ordered /\ PendingMeansReading
    BY <1>2 DEF Init, Ordered, OrderKept, PendingMeansReading
  <1> QED
    BY <1>1, <1>3, <1>4, <1>5 DEF Base

\* Each step keeps the invariant.
LEMMA BaseStep == Base /\ [Next]_vars => Base'
  <1> SUFFICES ASSUME Base, [Next]_vars PROVE Base'
    OBVIOUS
  <1>1. TypeOK /\ Counted /\ Owned /\ Ordered /\ PendingMeansReading /\ inserting \subseteq DOMAIN posted
    BY DEF Base, Owned
  <1>2. TypeOK' /\ Counted'
    BY <1>1, TypeStep
  <1>3. Owned'
    BY <1>1, OwnedStep
  <1>4. Ordered'
    BY <1>1, OrderedStep
  <1>5. PendingMeansReading'
    BY <1>1, HeldBackStep
  <1> QED
    BY <1>2, <1>3, <1>4, <1>5 DEF Base

\* The invariant holds of every behaviour.
LEMMA BaseHolds == Spec => []Base
  BY BaseInit, BaseStep, PTL DEF Spec

-----------------------------------------------------------------------------
(* The inductive invariant, for a reader who waits *)

\* The events that the frames after the k-th carry.
CarriedAfter(k) == UNION {Range(down[i].events) : i \in {j \in DOMAIN down : j > k}}

\* At most one backfill is under way: as a frame to the server, as a handler that waits for its
\* history and holds live events back, or as a history on the wire.
OneBackfill ==
  /\ Len(up) <= 1
  /\ up # <<>> => reads = {} /\ Histories = {}
  /\ \A r \in reads : reads = {r} /\ r.sid = subscribed /\ Histories = {} /\ pending # None
  /\ \A k \in Histories : Histories = {k} /\ down[k].sid = subscribed /\ pending = None

\* A socket serves the session the reader has open, or has been asked to; a closed one nothing.
Following ==
  /\ ~connected => up = <<>> /\ reads = {} /\ pending = None /\ down = <<>> /\ subscribed = None
  /\ connected /\ active # None => IF up = <<>> THEN subscribed = active ELSE Head(up) = active

\* What is held back is of the session subscribed to.
HeldBackOwn == pending # None => subscribed # None /\ Range(pending) \subseteq EventsOf(subscribed)

\* Where an event of the session shown is until it is on the screen: in the table or in the history
\* read, in the queue, on the wire behind the history; and then on the screen or on the wire.  Of an
\* abandoned backfill nothing is claimed.
OnItsWay(e) ==
  \/ \E r \in reads :
       \/ r.phase = "reading" /\ e \in Range(table[active])
       \/ r.phase = "read" /\ e \in Range(r.events)
       \/ e \in Range(pending)
  \/ \E k \in Histories : e \in Range(down[k].events) \cup CarriedAfter(k)
  \/ Histories = {} /\ pending = None /\ e \in Range(screen) \cup CarriedAfter(0)
  \/ reads = {} /\ pending # None

Covered ==
  connected /\ active # None /\ up = <<>> =>
    \A e \in EventsOf(active) \ excused : OnItsWay(e)

Patient == OneBackfill /\ Following /\ HeldBackOwn /\ ShowsOnlyActive /\ Covered

\* A live frame put on the wire.
LEMMA LivePush ==
  ASSUME TypeOK, NEW s \in Session, NEW e \in Event, down' = Append(down, EventFrame(s, e))
  PROVE  /\ Histories' = Histories
         /\ \A i \in DOMAIN down : i \in DOMAIN down' /\ down'[i] = down[i]
         /\ \A i \in DOMAIN down' : i \in DOMAIN down \/ down'[i] = EventFrame(s, e)
         /\ \A k \in 0 .. Len(down) : CarriedAfter(k)' = CarriedAfter(k) \cup {e}
         /\ \A k \in Histories : k \in 0 .. Len(down)
         /\ 0 \in 0 .. Len(down)
  <1>1. /\ DOMAIN down' = 1 .. Len(down) + 1 /\ DOMAIN down = 1 .. Len(down)
        /\ \A i \in DOMAIN down : down'[i] = down[i]
        /\ down'[Len(down) + 1] = EventFrame(s, e)
    BY PushIs, LenProperties, FramesTyped DEF TypeOK
  <1>2. Len(down) \in Nat
    BY LenProperties DEF TypeOK
  <1>3. /\ \A i \in DOMAIN down : i \in DOMAIN down'
        /\ \A i \in DOMAIN down' : i \in DOMAIN down \/ i = Len(down) + 1
        /\ Len(down) + 1 \in DOMAIN down'
    BY <1>1, <1>2
  <1>4. Histories' = Histories
    BY <1>1, <1>3, EventFrameIs DEF Histories, IsHistory
  <1>5. Range(EventFrame(s, e).events) = {e}
    BY EventFrameIs DEF Range
  <1>6. ASSUME NEW k \in 0 .. Len(down)
        PROVE  CarriedAfter(k)' = CarriedAfter(k) \cup {e}
    <2>1. Len(down) + 1 > k
      BY <1>2
    <2>2. \A i \in DOMAIN down' : (i \in DOMAIN down /\ down'[i] = down[i]) \/ Range(down'[i].events) = {e}
      BY <1>1, <1>3, <1>5
    <2> QED
      BY <1>1, <1>3, <1>5, <2>1, <2>2 DEF CarriedAfter
  <1>7. \A k \in Histories : k \in 0 .. Len(down)
    BY <1>1, <1>2 DEF Histories
  <1> QED
    BY <1>1, <1>2, <1>3, <1>4, <1>6, <1>7

\* A backfill put on the wire: the history, and behind it what was held back.
LEMMA BackfillPush ==
  ASSUME TypeOK, NEW r \in reads, FinishRead(r), Histories = {}, pending # None,
         NEW n, n = Len(down) + 1
  PROVE  /\ Histories' = {n}
         /\ down'[n] = HistoryFrame(r)
         /\ CarriedAfter(n)' = Range(pending)
         /\ \A i \in DOMAIN down : i \in DOMAIN down' /\ down'[i] = down[i]
         /\ \A i \in DOMAIN down' : \/ i \in DOMAIN down
                                    \/ i = n
                                    \/ \E j \in DOMAIN pending : down'[i] = EventFrame(r.sid, pending[j])
  <1> DEFINE d == Append(down, HistoryFrame(r))
  <1>1. down' = d \o Drained(r)
    BY DEF FinishRead, Drained
  <1>2. r \in Read /\ HistoryFrame(r) \in Frame /\ HistoryFrame(r).kind = "history"
    BY FramesTyped DEF TypeOK, HistoryFrame
  <1>3. /\ d \in Seq(Frame) /\ Len(d) = n /\ Len(down) \in Nat
        /\ DOMAIN d = 1 .. n /\ DOMAIN down = 1 .. Len(down)
        /\ \A i \in DOMAIN down : d[i] = down[i]
        /\ d[n] = HistoryFrame(r)
    BY <1>2, PushIs, LenProperties DEF TypeOK
  <1>4. pending \in Seq(Event)
    BY DEF TypeOK
  <1>5. /\ Drained(r) \in Seq(Frame) /\ Len(Drained(r)) = Len(pending) /\ DOMAIN Drained(r) = DOMAIN pending
        /\ \A j \in DOMAIN pending : Drained(r)[j] = EventFrame(r.sid, pending[j])
    BY <1>2, <1>4, DrainedIs
  <1>6. Len(pending) \in Nat /\ DOMAIN pending = 1 .. Len(pending)
    BY <1>4, LenProperties
  <1> HIDE DEF d
  <1>7. /\ DOMAIN (d \o Drained(r)) = 1 .. Len(d) + Len(Drained(r))
        /\ \A i \in DOMAIN d : (d \o Drained(r))[i] = d[i]
        /\ \A j \in DOMAIN Drained(r) : (d \o Drained(r))[Len(d) + j] = Drained(r)[j]
    <2>1. d \in Seq(Frame) /\ Drained(r) \in Seq(Frame)
      BY <1>3, <1>5
    <2> QED
      BY <2>1, JoinIs
  <1>8. /\ DOMAIN down' = 1 .. n + Len(pending)
        /\ \A i \in DOMAIN d : down'[i] = d[i]
        /\ \A j \in DOMAIN pending : down'[n + j] = EventFrame(r.sid, pending[j])
    BY <1>1, <1>3, <1>5, <1>7
  <1>9. \A i \in DOMAIN down : i \in DOMAIN down' /\ down'[i] = down[i] /\ i # n
    <2>1. \A i \in DOMAIN down : i \in 1 .. n /\ i \in 1 .. n + Len(pending) /\ i # n
      BY <1>3, <1>6
    <2> QED
      BY <1>3, <1>8, <2>1
  <1>10. n \in DOMAIN down' /\ down'[n] = HistoryFrame(r)
    BY <1>3, <1>6, <1>8
  <1>11. ASSUME NEW i \in DOMAIN down', i > n
         PROVE  i - n \in DOMAIN pending /\ down'[i] = EventFrame(r.sid, pending[i - n])
    <2>1. i - n \in DOMAIN pending /\ i = n + (i - n)
      BY <1>3, <1>6, <1>8, <1>11
    <2> QED
      BY <1>8, <2>1
  <1>12. \A j \in DOMAIN pending : n + j \in DOMAIN down' /\ n + j > n
    BY <1>3, <1>6, <1>8
  <1>13. \A i \in DOMAIN down' : i \in DOMAIN down \/ i = n \/ i > n
    BY <1>3, <1>6, <1>8
  <1>14. Histories' = {n}
    <2>1. \A i \in DOMAIN down : down[i].kind # "history"
      BY DEF Histories, IsHistory
    <2>2. ASSUME NEW i \in DOMAIN down', i # n
          PROVE  down'[i].kind # "history"
      <3>1. CASE i \in DOMAIN down
        BY <1>9, <2>1, <3>1
      <3>2. CASE i > n
        BY <1>11, <3>2, EventFrameIs
      <3> QED
        BY <1>13, <2>2, <3>1, <3>2
    <2> QED
      BY <1>2, <1>10, <2>2 DEF Histories, IsHistory
  <1>15. CarriedAfter(n)' = Range(pending)
    <2>1. \A e : Range(<<e>>) = {e}
      BY DEF Range
    <2>2. ASSUME NEW x \in CarriedAfter(n)'
          PROVE  x \in Range(pending)
      <3>1. PICK i \in DOMAIN down' : i > n /\ x \in Range(down'[i].events)
        BY <2>2 DEF CarriedAfter
      <3>2. i - n \in DOMAIN pending /\ down'[i].events = <<pending[i - n]>>
        BY <1>11, <3>1, EventFrameIs
      <3>3. x = pending[i - n]
        BY <2>1, <3>1, <3>2
      <3> QED
        BY <3>2, <3>3 DEF Range
    <2>3. ASSUME NEW x \in Range(pending)
          PROVE  x \in CarriedAfter(n)'
      <3>1. PICK j \in DOMAIN pending : x = pending[j]
        BY <2>3 DEF Range
      <3>2. n + j \in DOMAIN down' /\ n + j > n /\ down'[n + j].events = <<x>>
        BY <1>8, <1>12, <3>1, EventFrameIs
      <3> QED
        BY <2>1, <3>2 DEF CarriedAfter
    <2> QED
      BY <2>2, <2>3
  <1>16. \A i \in DOMAIN down' : \/ i \in DOMAIN down
                                 \/ i = n
                                 \/ \E j \in DOMAIN pending : down'[i] = EventFrame(r.sid, pending[j])
    BY <1>11, <1>13
  <1> QED
    BY <1>9, <1>10, <1>14, <1>15, <1>16

\* A frame taken off the wire.
LEMMA FrameTaken ==
  ASSUME TypeOK, down # <<>>, down' = Tail(down)
  PROVE  /\ Head(down) = down[1] /\ 1 \in DOMAIN down /\ Head(down) \in Frame
         /\ \A i \in DOMAIN down' : i + 1 \in DOMAIN down /\ down'[i] = down[i + 1]
         /\ \A k \in Histories' : k + 1 \in Histories /\ k + 1 # 1
         /\ \A k \in Histories \ {1} : k - 1 \in Histories' /\ k - 1 \in Nat /\ down'[k - 1] = down[k]
         /\ \A k \in Nat : CarriedAfter(k)' = CarriedAfter(k + 1)
         /\ CarriedAfter(0) = Range(Head(down).events) \cup CarriedAfter(1)
  <1>1. /\ DOMAIN down' = 1 .. Len(down) - 1 /\ DOMAIN down = 1 .. Len(down) /\ Len(down) \in Nat
        /\ \A i \in DOMAIN down' : i + 1 \in DOMAIN down /\ down'[i] = down[i + 1]
        /\ Head(down) = down[1] /\ 1 \in DOMAIN down
    BY ShiftIs, LenProperties DEF TypeOK
  <1>2. Head(down) \in Frame
    BY <1>1, MemberIs DEF TypeOK
  <1>3. \A i \in DOMAIN down \ {1} : i - 1 \in DOMAIN down' /\ i - 1 \in Nat /\ i = (i - 1) + 1
    BY <1>1
  <1>4. \A i \in DOMAIN down \ {1} : down'[i - 1] = down[i]
    BY <1>1, <1>3
  <1>5. \A i \in DOMAIN down' : i + 1 # 1
    BY <1>1
  <1>6. \A k \in Histories' : k + 1 \in Histories /\ k + 1 # 1
    BY <1>1, <1>5 DEF Histories, IsHistory
  <1>7. \A k \in Histories \ {1} : k - 1 \in Histories' /\ k - 1 \in Nat /\ down'[k - 1] = down[k]
    BY <1>3, <1>4 DEF Histories, IsHistory
  <1>8. ASSUME NEW k \in Nat
        PROVE  CarriedAfter(k)' = CarriedAfter(k + 1)
    <2>1. \A i \in DOMAIN down' : i > k => i + 1 \in DOMAIN down /\ i + 1 > k + 1 /\ down'[i] = down[i + 1]
      BY <1>1
    <2>2. \A i \in DOMAIN down : i > k + 1 => i # 1 /\ i - 1 > k
      BY <1>1
    <2>3. \A i \in DOMAIN down : i > k + 1 => i - 1 \in DOMAIN down' /\ i - 1 > k /\ down'[i - 1] = down[i]
      BY <1>3, <1>4, <2>2
    <2>4. CarriedAfter(k)' \subseteq CarriedAfter(k + 1)
      BY <2>1 DEF CarriedAfter
    <2>5. CarriedAfter(k + 1) \subseteq CarriedAfter(k)'
      BY <2>3 DEF CarriedAfter
    <2> QED
      BY <2>4, <2>5
  <1>9. CarriedAfter(0) = Range(Head(down).events) \cup CarriedAfter(1)
    <2>1. \A i \in DOMAIN down : i > 0 /\ (i > 1 \/ i = 1)
      BY <1>1
    <2>2. 1 > 0
      OBVIOUS
    <2>3. \A i \in DOMAIN down : i > 1 => i > 0
      BY <2>1
    <2> QED
      BY <1>1, <2>1, <2>2, <2>3 DEF CarriedAfter
  <1> QED
    BY <1>1, <1>2, <1>6, <1>7, <1>8, <1>9

\* Two backfills never overlap.
LEMMA OneBackfillStep ==
  ASSUME PatientReader, TypeOK, OneBackfill, Following, [Next]_vars
  PROVE  OneBackfill'
  <1> USE NullIsNoList
  <1>1. ASSUME NEW s \in Session, PostEvent(s)
        PROVE  OneBackfill'
    <2> DEFINE e == Len(posted) + 1
    <2>1. e \in Event /\ UNCHANGED <<up, reads, subscribed>> /\ Relay(s, e)
      BY <1>1, PostAdds DEF PostEvent
    <2> HIDE DEF e
    <2>2. CASE UNCHANGED <<pending, down>>
      BY <2>1, <2>2 DEF OneBackfill, Histories, IsHistory
    <2>3. CASE pending # None /\ pending' = Append(pending, e) /\ UNCHANGED down
      <3>1. pending' # None
        BY <2>1, <2>3, PushIs DEF TypeOK
      <3> QED
        BY <2>1, <2>3, <3>1 DEF OneBackfill, Histories, IsHistory
    <2>4. CASE pending = None /\ down' = Append(down, EventFrame(s, e)) /\ UNCHANGED pending
      <3>1. Histories' = Histories /\ \A k \in Histories : down'[k] = down[k]
        BY <2>1, <2>4, LivePush DEF Histories
      <3> QED
        BY <2>1, <2>4, <3>1 DEF OneBackfill
    <2> QED
      BY <2>1, <2>2, <2>3, <2>4 DEF Relay
  <1>2. ASSUME HandleSubscribe
        PROVE  OneBackfill'
    <2>1. up # <<>> /\ up' = Tail(up) /\ pending' = <<>> /\ subscribed' = Head(up) /\ UNCHANGED down
      BY <1>2 DEF HandleSubscribe
    <2>2. reads = {} /\ Histories = {} /\ Len(up) <= 1
      BY <2>1 DEF OneBackfill
    <2>3. up' = <<>> /\ Len(up') <= 1
      BY <2>1, <2>2, ShiftIs, EmptySeq, LenProperties DEF TypeOK
    <2>4. reads' = {[id |-> handled + 1, sid |-> subscribed', phase |-> "reading", events |-> <<>>]}
      BY <1>2, <2>2 DEF HandleSubscribe
    <2>5. Histories' = {}
      BY <2>1, <2>2 DEF Histories, IsHistory
    <2> QED
      BY <2>1, <2>3, <2>4, <2>5 DEF OneBackfill
  <1>3. ASSUME NEW r \in reads, ReadHistory(r)
        PROVE  OneBackfill'
    <2> DEFINE n == [r EXCEPT !.phase = "read", !.events = History(r.sid)]
    <2>1. reads' = {n} /\ UNCHANGED <<up, down, subscribed, pending>>
      BY <1>3 DEF ReadHistory, OneBackfill, wire
    <2>2. n.sid = r.sid
      BY DEF TypeOK, Read
    <2>3. Histories' = Histories
      BY <2>1 DEF Histories, IsHistory
    <2> HIDE DEF n
    <2> QED
      BY <2>1, <2>2, <2>3 DEF OneBackfill
  <1>4. ASSUME NEW r \in reads, FinishRead(r)
        PROVE  OneBackfill'
    <2> DEFINE n == Len(down) + 1
    <2>1. reads = {r} /\ r.sid = subscribed /\ Histories = {} /\ pending # None /\ up = <<>>
      BY DEF OneBackfill
    <2>2. reads' = {} /\ UNCHANGED <<up, subscribed>> /\ pending' = None
      BY <1>4, <2>1 DEF FinishRead
    <2>3. Histories' = {n} /\ down'[n] = HistoryFrame(r)
      BY <1>4, <2>1, BackfillPush
    <2>4. HistoryFrame(r).sid = r.sid
      BY DEF HistoryFrame
    <2> HIDE DEF n
    <2> QED
      BY <2>1, <2>2, <2>3, <2>4 DEF OneBackfill
  <1>5. ASSUME NEW r \in reads, ReadFail(r)
        PROVE  OneBackfill'
    BY <1>5 DEF ReadFail, OneBackfill, Histories, IsHistory, wire
  <1>6. ASSUME NEW s \in Session, Open(s)
        PROVE  OneBackfill'
    <2>1. UNCHANGED <<down, subscribed, pending, reads>> /\ Settled
      BY <1>6 DEF Open, socket
    <2>2. up = <<>> /\ reads = {} /\ Histories = {} /\ Len(<<>>) = 0
      BY <2>1 DEF Settled, Histories, IsHistory
    <2>3. up' = up \/ up' = Append(up, s)
      BY <1>6 DEF Open
    <2>4. Len(up') <= 1
      <3>1. Len(up) = 0
        BY <2>2
      <3>2. Len(Append(up, s)) = Len(up) + 1
        BY PushIs DEF TypeOK
      <3>3. CASE up' = up
        BY <3>1, <3>3
      <3>4. CASE up' = Append(up, s)
        BY <3>1, <3>2, <3>4
      <3> QED
        BY <2>3, <3>3, <3>4
    <2> QED
      BY <2>1, <2>2, <2>4 DEF OneBackfill, Histories, IsHistory
  <1>7. ASSUME Receive
        PROVE  OneBackfill'
    <2>1. down # <<>> /\ down' = Tail(down) /\ UNCHANGED <<up, reads, subscribed, pending>>
      BY <1>7 DEF Receive, socket
    <2>2. \A k \in Histories' : k + 1 \in Histories /\ down'[k] = down[k + 1] /\ k \in Int
      BY <2>1, FrameTaken, ShiftIs DEF TypeOK, Histories
    <2>3. \A k, j \in Int : k + 1 = j + 1 => k = j
      OBVIOUS
    <2>4. ASSUME NEW k \in Histories'
          PROVE  Histories' = {k} /\ down'[k].sid = subscribed /\ pending = None
      <3>1. k + 1 \in Histories /\ down'[k] = down[k + 1]
        BY <2>2
      <3>2. Histories = {k + 1} /\ down[k + 1].sid = subscribed /\ pending = None
        BY <3>1 DEF OneBackfill
      <3>3. \A j \in Histories' : j = k
        BY <2>2, <2>3, <3>2
      <3> QED
        BY <3>1, <3>2, <3>3
    <2>5. Histories = {} => Histories' = {}
      BY <2>2
    <2> QED
      BY <2>1, <2>4, <2>5 DEF OneBackfill
  <1>8. ASSUME Disconnect
        PROVE  OneBackfill'
    <2>1. Len(<<>>) = 0 /\ DOMAIN <<>> = {}
      OBVIOUS
    <2> QED
      BY <1>8, <2>1 DEF Disconnect, OneBackfill, Histories
  <1>9. ASSUME Reconnect
        PROVE  OneBackfill'
    <2>1. reads = {} /\ down = <<>> /\ UNCHANGED <<reads, down>> /\ up' \in {<<>>, <<active>>}
      BY <1>9 DEF Reconnect, Following, socket
    <2>2. Len(<<>>) = 0 /\ Len(<<active>>) = 1 /\ DOMAIN <<>> = {}
      OBVIOUS
    <2>3. Len(up') <= 1
      <3>1. CASE up' = <<>>
        BY <3>1
      <3>2. CASE up' = <<active>>
        BY <3>2
      <3> QED
        BY <2>1, <3>1, <3>2
    <2>4. reads' = {} /\ down' = <<>>
      BY <2>1
    <2>5. Histories' = {}
      BY <2>2, <2>4 DEF Histories
    <2> QED
      BY <2>3, <2>4, <2>5 DEF OneBackfill
  <1>10. CASE UNCHANGED <<up, reads, down, subscribed, pending>>
    BY <1>10 DEF OneBackfill, Histories, IsHistory
  <1>11. ASSUME (\E e \in inserting : Persist(e) \/ PersistFail(e)) \/ Leave \/ UNCHANGED vars
         PROVE  UNCHANGED <<up, reads, down, subscribed, pending>>
    BY <1>11 DEF Persist, PersistFail, Leave, vars, socket, wire
  <1> QED
    BY <1>1, <1>2, <1>3, <1>4, <1>5, <1>6, <1>7, <1>8, <1>9, <1>10, <1>11 DEF Next

\* The socket goes on serving the session shown.
LEMMA FollowingStep ==
  ASSUME PatientReader, TypeOK, OneBackfill, Following, [Next]_vars
  PROVE  Following'
  <1>1. ASSUME NEW s \in Session, PostEvent(s)
        PROVE  Following'
    <2>1. None \notin Session
      BY ConstantsOK
    <2> QED
      BY <1>1, <2>1 DEF PostEvent, Relay, Following, reader
  <1>2. ASSUME HandleSubscribe
        PROVE  Following'
    <2>1. up # <<>> /\ up' = Tail(up) /\ subscribed' = Head(up) /\ UNCHANGED <<connected, active>>
      BY <1>2 DEF HandleSubscribe, reader
    <2>2. up' = <<>>
      BY <2>1, ShiftIs, EmptySeq, LenProperties DEF TypeOK, OneBackfill
    <2> QED
      BY <2>1, <2>2 DEF Following
  <1>3. ASSUME NEW r \in reads, ReadHistory(r) \/ FinishRead(r) \/ ReadFail(r)
        PROVE  Following'
    <2>1. connected /\ UNCHANGED <<connected, up, subscribed, active>>
      BY <1>3 DEF Following, ReadHistory, FinishRead, ReadFail, wire, reader
    <2> QED
      BY <2>1 DEF Following
  <1>4. ASSUME NEW s \in Session, Open(s)
        PROVE  Following'
    <2>1. /\ UNCHANGED <<connected, reads, pending, down, subscribed>> /\ active' = s /\ up = <<>>
          /\ up' = IF connected THEN Append(up, s) ELSE up
      BY <1>4 DEF Open, Settled, socket
    <2>2. (up' # <<>> /\ Head(up') = s) \/ (~connected /\ up' = <<>>)
      <3>1. Append(<<>>, s) # <<>> /\ Head(Append(<<>>, s)) = s
        BY EmptySeq, HeadTailAppend, AppendProperties
      <3> QED
        BY <2>1, <3>1
    <2> QED
      BY <2>1, <2>2 DEF Following
  <1>5. ASSUME Receive
        PROVE  Following'
    BY <1>5 DEF Receive, Following, socket
  <1>6. ASSUME Reconnect
        PROVE  Following'
    BY <1>6 DEF Reconnect, Following, reader
  <1>7. ASSUME Leave \/ Disconnect \/ UNCHANGED vars \/ \E e \in inserting : Persist(e) \/ PersistFail(e)
        PROVE  Following'
    BY <1>7 DEF Leave, Disconnect, Persist, PersistFail, Following, vars, socket, wire, reader
  <1> QED
    BY <1>1, <1>2, <1>3, <1>4, <1>5, <1>6, <1>7 DEF Next

\* What is held back stays the subscribed session's own.
LEMMA HeldBackOwnStep ==
  ASSUME TypeOK, Owned, HeldBackOwn, [Next]_vars
  PROVE  HeldBackOwn'
  <1> USE NullIsNoList
  <1>1. ASSUME NEW s \in Session, PostEvent(s)
        PROVE  HeldBackOwn'
    <2>1. /\ Len(posted) + 1 \in Event
          /\ \A x : EventsOf(x)' = EventsOf(x) \cup (IF x = s THEN {Len(posted) + 1} ELSE {})
      BY <1>1, PostAdds
    <2>2. Relay(s, Len(posted) + 1) /\ UNCHANGED subscribed
      BY <1>1 DEF PostEvent
    <2>3. CASE pending' = pending
      BY <2>1, <2>2, <2>3 DEF HeldBackOwn
    <2>4. CASE subscribed = s /\ pending # None /\ pending' = Append(pending, Len(posted) + 1)
      <3>1. Range(pending') = Range(pending) \cup {Len(posted) + 1}
        BY <2>1, <2>4, PushIs DEF TypeOK
      <3> QED
        BY <2>1, <2>2, <2>4, <3>1 DEF HeldBackOwn
    <2> QED
      BY <2>2, <2>3, <2>4 DEF Relay
  <1>2. ASSUME HandleSubscribe
        PROVE  HeldBackOwn'
    <2>1. Range(<<>>) = {}
      BY DEF Range
    <2>2. Head(up) \in Session
      BY <1>2, HeadTailProperties DEF HandleSubscribe, TypeOK
    <2> QED
      BY <1>2, <2>1, <2>2, ConstantsOK DEF HandleSubscribe, HeldBackOwn
  <1>3. CASE pending' = None
    BY <1>3 DEF HeldBackOwn
  <1>4. CASE UNCHANGED <<posted, pending, subscribed>>
    BY <1>4 DEF HeldBackOwn, EventsOf
  <1>5. ASSUME \/ \E s \in Session : Open(s)
               \/ \E e \in inserting : Persist(e) \/ PersistFail(e)
               \/ \E r \in reads : ReadHistory(r) \/ ReadFail(r)
               \/ Leave \/ Receive \/ Reconnect \/ UNCHANGED vars
        PROVE  UNCHANGED <<posted, pending, subscribed>>
    BY <1>5 DEF Open, Persist, PersistFail, ReadHistory, ReadFail, Leave, Receive, Reconnect, vars, events, socket, wire, reader
  <1>6. ASSUME Disconnect \/ \E r \in reads : FinishRead(r)
        PROVE  pending' = None
    BY <1>6 DEF Disconnect, FinishRead
  <1> QED
    BY <1>1, <1>2, <1>3, <1>4, <1>5, <1>6 DEF Next

\* Each step shows, and sends, only events of the session they are shown for or labelled with.
LEMMA ShownStep ==
  ASSUME TypeOK, Owned, OneBackfill, Following, HeldBackOwn, ShowsOnlyActive, [Next]_vars
  PROVE  ShowsOnlyActive'
  <1>0. \A e : Range(<<e>>) = {e}
    BY DEF Range
  <1>1. ASSUME NEW s \in Session, PostEvent(s)
        PROVE  ShowsOnlyActive'
    <2> DEFINE e == Len(posted) + 1
    <2>1. /\ e \in Event /\ posted'[e] = s
          /\ \A x \in DOMAIN posted : posted'[x] = posted[x]
      BY <1>1, PostAdds
    <2>2. Relay(s, e) /\ UNCHANGED <<active, screen>>
      BY <1>1 DEF PostEvent, reader
    <2> HIDE DEF e
    <2>3. \A x \in Range(screen') : active' = posted'[x]
      BY <2>1, <2>2 DEF ShowsOnlyActive, Owned
    <2>4. CASE down' = down
      BY <2>1, <2>3, <2>4 DEF ShowsOnlyActive, Owned
    <2>5. CASE down' = Append(down, EventFrame(s, e))
      <3>1. /\ \A i \in DOMAIN down : down'[i] = down[i]
            /\ \A i \in DOMAIN down' : i \in DOMAIN down \/ down'[i] = EventFrame(s, e)
        BY <2>1, <2>5, LivePush
      <3>2. EventFrame(s, e).sid = s /\ Range(EventFrame(s, e).events) = {e}
        BY <1>0, EventFrameIs
      <3>3. ASSUME NEW i \in DOMAIN down', NEW x \in Range(down'[i].events)
            PROVE  posted'[x] = down'[i].sid
        <4>1. CASE i \in DOMAIN down
          BY <2>1, <3>1, <3>3, <4>1 DEF ShowsOnlyActive, Owned
        <4>2. CASE down'[i] = EventFrame(s, e)
          BY <2>1, <3>2, <3>3, <4>2
        <4> QED
          BY <3>1, <4>1, <4>2
      <3> QED
        BY <2>3, <3>3 DEF ShowsOnlyActive
    <2> QED
      BY <2>2, <2>4, <2>5 DEF Relay
  <1>2. ASSUME NEW r \in reads, FinishRead(r)
        PROVE  ShowsOnlyActive'
    <2> DEFINE n == Len(down) + 1
    <2>1. r.sid = subscribed /\ Histories = {} /\ pending # None
      BY DEF OneBackfill
    <2>2. /\ down'[n] = HistoryFrame(r)
          /\ \A i \in DOMAIN down : down'[i] = down[i]
          /\ \A i \in DOMAIN down' : \/ i \in DOMAIN down
                                     \/ i = n
                                     \/ \E j \in DOMAIN pending : down'[i] = EventFrame(r.sid, pending[j])
      BY <1>2, <2>1, BackfillPush
    <2> HIDE DEF n
    <2>3. UNCHANGED <<posted, active, screen>>
      BY <1>2 DEF FinishRead, events, reader
    <2>4. HistoryFrame(r).sid = r.sid /\ HistoryFrame(r).events = r.events
      BY DEF HistoryFrame
    <2>5. ASSUME NEW i \in DOMAIN down', NEW x \in Range(down'[i].events)
          PROVE  posted[x] = down'[i].sid
      <3>1. CASE i \in DOMAIN down
        BY <2>2, <2>5, <3>1 DEF ShowsOnlyActive
      <3>2. CASE i = n
        BY <2>2, <2>4, <2>5, <3>2 DEF Owned, EventsOf
      <3>3. ASSUME NEW j \in DOMAIN pending, down'[i] = EventFrame(r.sid, pending[j])
            PROVE  posted[x] = down'[i].sid
        <4>0. PICK y : y = pending[j]
          OBVIOUS
        <4>1. x = pending[j] /\ down'[i].sid = subscribed
          <5>1. down'[i].sid = r.sid /\ down'[i].events = <<y>>
            BY <3>3, <4>0, EventFrameIs
          <5>2. x \in Range(<<y>>)
            BY <2>5, <5>1
          <5> QED
            BY <1>0, <2>1, <4>0, <5>1, <5>2
        <4>2. pending[j] \in Range(pending)
          BY DEF Range
        <4> QED
          BY <2>1, <4>1, <4>2 DEF HeldBackOwn, EventsOf
      <3> QED
        BY <2>2, <3>1, <3>2, <3>3
    <2> QED
      BY <2>3, <2>5 DEF ShowsOnlyActive
  <1>3. ASSUME Receive
        PROVE  ShowsOnlyActive'
    <2> DEFINE f == Head(down)
    <2>0. /\ down # <<>> /\ down' = Tail(down) /\ UNCHANGED <<posted, active>>
          /\ screen' = IF f.sid # active THEN screen
                       ELSE IF f.kind = "history" THEN f.events
                       ELSE screen \o f.events
      BY <1>3 DEF Receive, events
    <2> HIDE DEF f
    <2>1. \/ screen' = screen
          \/ f.sid = active /\ screen' \in {f.events, screen \o f.events}
      <3>1. CASE f.sid # active
        <4>1. screen' = screen
          BY <2>0, <3>1
        <4> QED
          BY <4>1
      <3>2. CASE f.sid = active /\ f.kind = "history"
        <4>1. screen' = f.events
          BY <2>0, <3>2
        <4> QED
          BY <3>2, <4>1
      <3>3. CASE f.sid = active /\ f.kind # "history"
        <4>1. screen' = screen \o f.events
          BY <2>0, <3>3
        <4> QED
          BY <3>3, <4>1
      <3> QED
        BY <3>1, <3>2, <3>3
    <2>2. /\ f = down[1] /\ 1 \in DOMAIN down /\ f \in Frame
          /\ \A i \in DOMAIN down' : i + 1 \in DOMAIN down /\ down'[i] = down[i + 1]
      BY <2>0, FrameTaken DEF f
    <2>3. f.events \in Seq(Event) /\ \A x \in Range(f.events) : posted[x] = f.sid
      <3>1. f.events \in Seq(Event)
        BY <2>2 DEF Frame
      <3> QED
        BY <2>2, <3>1 DEF ShowsOnlyActive
    <2>4. Range(screen \o f.events) = Range(screen) \cup Range(f.events)
      BY <2>3, JoinIs DEF TypeOK
    <2>5. \A x \in Range(screen') : active = posted[x]
      BY <2>0, <2>1, <2>3, <2>4 DEF ShowsOnlyActive
    <2> QED
      BY <2>0, <2>2, <2>5 DEF ShowsOnlyActive
  <1>4. CASE screen' = <<>> /\ UNCHANGED <<posted, down>>
    <2>1. Range(<<>>) = {}
      BY DEF Range
    <2> QED
      BY <1>4, <2>1 DEF ShowsOnlyActive
  <1>5. CASE UNCHANGED <<posted, down, active, screen>>
    BY <1>5 DEF ShowsOnlyActive
  <1>6. ASSUME Disconnect
        PROVE  ShowsOnlyActive'
    BY <1>6 DEF Disconnect, ShowsOnlyActive, events, reader
  <1>7. ASSUME Leave \/ \E s \in Session : Open(s)
        PROVE  screen' = <<>> /\ UNCHANGED <<posted, down>>
    BY <1>7 DEF Open, Leave, events, wire
  <1>8. ASSUME \/ \E e \in inserting : Persist(e) \/ PersistFail(e)
               \/ HandleSubscribe
               \/ \E r \in reads : ReadHistory(r) \/ ReadFail(r)
               \/ Reconnect \/ UNCHANGED vars
        PROVE  UNCHANGED <<posted, down, active, screen>>
    BY <1>8 DEF Persist, PersistFail, HandleSubscribe, ReadHistory, ReadFail, Reconnect, vars, events, socket, wire, reader
  <1> QED
    BY <1>1, <1>2, <1>3, <1>4, <1>5, <1>6, <1>7, <1>8 DEF Next

\* No event of the session shown is lost between two steps.
LEMMA CoveredStep ==
  ASSUME TypeOK, Owned, OneBackfill, Following, HeldBackOwn, ShowsOnlyActive, Covered, [Next]_vars
  PROVE  Covered'
  <1> USE NullIsNoList
  <1>1. ASSUME NEW s \in Session, PostEvent(s)
        PROVE  Covered'
    <2> SUFFICES ASSUME connected, active # None, up = <<>>, NEW x \in EventsOf(active)' \ excused
                 PROVE  OnItsWay(x)'
      BY <1>1 DEF PostEvent, Covered, reader
    <2> DEFINE e == Len(posted) + 1
    <2>1. /\ e \in Event
          /\ EventsOf(active)' \subseteq EventsOf(active) \cup (IF active = s THEN {e} ELSE {})
      BY <1>1, PostAdds DEF PostEvent, reader
    <2>2. Relay(s, e) /\ UNCHANGED <<reads, table, active, screen>>
      BY <1>1 DEF PostEvent, reader
    <2>3. subscribed = active /\ (x \in EventsOf(active) => OnItsWay(x))
      BY DEF Following, Covered
    <2> HIDE DEF e
    <2>4. x \in EventsOf(active) \/ (s = active /\ x = e)
      BY <2>1
    <2>5. CASE s # active
      <3>1. UNCHANGED <<pending, down>> /\ OnItsWay(x)
        BY <2>2, <2>3, <2>4, <2>5 DEF Relay
      <3> QED
        BY <2>2, <3>1 DEF OnItsWay, Histories, IsHistory, CarriedAfter
    <2>6. CASE s = active /\ pending # None
      <3>1. pending' = Append(pending, e) /\ down' = down
        BY <2>2, <2>3, <2>6 DEF Relay
      <3>2. pending' # None /\ Range(pending') = Range(pending) \cup {e}
        <4>1. pending \in Seq(Event)
          BY <2>6 DEF TypeOK
        <4>2. Append(pending, e) \in Seq(Event) /\ Range(Append(pending, e)) = Range(pending) \cup {e}
          BY <2>1, <4>1, PushIs
        <4> QED
          BY <3>1, <4>2
      <3>3. Histories' = Histories /\ \A k : CarriedAfter(k)' = CarriedAfter(k)
        BY <3>1 DEF Histories, IsHistory, CarriedAfter
      <3>4. Histories = {}
        BY <2>6 DEF OneBackfill
      <3>5. CASE reads = {}
        BY <2>2, <3>2, <3>5 DEF OnItsWay
      <3>6. CASE reads # {}
        <4>1. x = e \/ (\E r \in reads : \/ r.phase = "reading" /\ x \in Range(table[active])
                                         \/ r.phase = "read" /\ x \in Range(r.events)
                                         \/ x \in Range(pending))
          BY <2>3, <2>4, <2>6, <3>4, <3>6 DEF OnItsWay
        <4> QED
          BY <2>2, <3>2, <3>6, <4>1 DEF OnItsWay
      <3> QED
        BY <3>5, <3>6
    <2>7. CASE s = active /\ pending = None
      <3>1. pending' = pending /\ down' = Append(down, EventFrame(s, e))
        BY <2>2, <2>3, <2>7 DEF Relay
      <3>2. /\ Histories' = Histories
            /\ \A k \in Histories : down'[k] = down[k] /\ CarriedAfter(k)' = CarriedAfter(k) \cup {e}
            /\ CarriedAfter(0)' = CarriedAfter(0) \cup {e}
        BY <2>1, <3>1, LivePush DEF Histories
      <3>3. reads = {}
        BY <2>7 DEF OneBackfill
      <3>4. CASE Histories = {}
        BY <2>2, <2>3, <2>4, <2>7, <3>1, <3>2, <3>3, <3>4 DEF OnItsWay
      <3>5. CASE Histories # {}
        <4>1. x = e \/ \E k \in Histories : x \in Range(down[k].events) \cup CarriedAfter(k)
          BY <2>3, <2>4, <2>7, <3>3, <3>5 DEF OnItsWay
        <4> QED
          BY <3>2, <3>5, <4>1 DEF OnItsWay
      <3> QED
        BY <3>4, <3>5
    <2> QED
      BY <2>5, <2>6, <2>7
  <1>2. ASSUME NEW e \in inserting, Persist(e)
        PROVE  Covered'
    <2>1. /\ e \in Event /\ posted[e] \in Session
          /\ table' = [table EXCEPT ![posted[e]] = Append(@, e)]
          /\ UNCHANGED <<posted, connected, reads, pending, up, down, active, screen, excused>>
      BY <1>2 DEF Persist, TypeOK, Owned, socket, wire, reader
    <2>2. Range(Append(table[posted[e]], e)) = Range(table[posted[e]]) \cup {e}
      BY <2>1, PushIs DEF TypeOK
    <2>3. \A s \in Session : Range(table[s]) \subseteq Range(table'[s])
      BY <2>1, <2>2 DEF TypeOK
    <2>4. active # None => active \in Session
      BY DEF TypeOK
    <2>5. ASSUME NEW x, active # None, OnItsWay(x)
          PROVE  OnItsWay(x)'
      BY <2>1, <2>3, <2>4, <2>5 DEF OnItsWay, Histories, IsHistory, CarriedAfter
    <2> QED
      BY <2>1, <2>5 DEF Covered, EventsOf
  <1>3. ASSUME HandleSubscribe
        PROVE  Covered'
    <2>1. /\ up # <<>> /\ UNCHANGED <<connected, active, posted, table>> /\ excused' = EventsOf(Head(up)) \ Range(table[Head(up)])
          /\ reads' = reads \cup {[id |-> handled + 1, sid |-> Head(up), phase |-> "reading", events |-> <<>>]}
      BY <1>3 DEF HandleSubscribe, events, reader
    <2> SUFFICES ASSUME connected, active # None, NEW x \in EventsOf(active) \ excused'
                 PROVE  OnItsWay(x)'
      BY <2>1 DEF Covered, EventsOf
    <2>2. x \in Range(table[active])
      BY <2>1 DEF Following
    <2> DEFINE n == [id |-> handled + 1, sid |-> Head(up), phase |-> "reading", events |-> <<>>]
    <2>3. n \in reads' /\ n.phase = "reading"
      BY <2>1
    <2> HIDE DEF n
    <2> QED
      BY <2>1, <2>2, <2>3 DEF OnItsWay
  <1>4. ASSUME NEW r \in reads, ReadHistory(r)
        PROVE  Covered'
    <2> DEFINE n == [r EXCEPT !.phase = "read", !.events = History(r.sid)]
    <2>1. /\ r.phase = "reading" /\ reads = {r} /\ r.sid = subscribed /\ Histories = {} /\ pending # None
          /\ reads' = {n}
          /\ UNCHANGED <<posted, table, connected, pending, up, down, active, screen>>
          /\ excused' = excused \cup (Range(table[r.sid]) \ Range(History(r.sid)))
      BY <1>4 DEF ReadHistory, OneBackfill, events, wire, reader
    <2>2. n.phase = "read" /\ n.events = History(r.sid)
      BY DEF TypeOK, Read
    <2> HIDE DEF n
    <2> SUFFICES ASSUME connected, active # None, up = <<>>, NEW x \in EventsOf(active) \ excused'
                 PROVE  OnItsWay(x)'
      BY <2>1 DEF Covered, EventsOf
    <2>3. OnItsWay(x) /\ subscribed = active
      BY <2>1 DEF Covered, Following
    <2>4. x \in Range(table[active]) \/ x \in Range(pending)
      BY <2>1, <2>3 DEF OnItsWay
    <2>5. x \in Range(History(r.sid)) \/ x \in Range(pending)
      BY <2>1, <2>3, <2>4
    <2> QED
      BY <2>1, <2>2, <2>5 DEF OnItsWay
  <1>5. ASSUME NEW r \in reads, FinishRead(r)
        PROVE  Covered'
    <2> DEFINE n == Len(down) + 1
    <2>1. /\ r.phase = "read" /\ reads = {r} /\ Histories = {} /\ pending # None
          /\ UNCHANGED <<posted, connected, up, active, excused>>
      BY <1>5 DEF FinishRead, OneBackfill, events, reader
    <2>2. Histories' = {n} /\ down'[n] = HistoryFrame(r)
      BY <1>5, <2>1, BackfillPush
    <2>3. ASSUME NEW k, k = n
          PROVE  CarriedAfter(k)' = Range(pending)
      BY <1>5, <2>1, <2>3, BackfillPush
    <2>4. HistoryFrame(r).events = r.events
      BY DEF HistoryFrame
    <2> HIDE DEF n
    <2> SUFFICES ASSUME connected, active # None, up = <<>>, NEW x \in EventsOf(active) \ excused
                 PROVE  OnItsWay(x)'
      BY <2>1 DEF Covered, EventsOf
    <2>5. x \in Range(r.events) \/ x \in Range(pending)
      BY <2>1 DEF Covered, OnItsWay
    <2>6. PICK k : k = n
      OBVIOUS
    <2>7. k \in Histories' /\ x \in Range(down'[k].events) \cup CarriedAfter(k)'
      BY <2>2, <2>3, <2>4, <2>5, <2>6
    <2> QED
      BY <2>7 DEF OnItsWay
  <1>6. ASSUME NEW r \in reads, ReadFail(r)
        PROVE  Covered'
    <2>1. reads' = {} /\ pending' # None
      BY <1>6 DEF ReadFail, OneBackfill
    <2> QED
      BY <2>1 DEF Covered, OnItsWay
  <1>7. ASSUME Receive
        PROVE  Covered'
    <2> DEFINE f == Head(down)
    <2>1. /\ down # <<>> /\ down' = Tail(down)
          /\ UNCHANGED <<posted, table, connected, reads, pending, up, active, excused>>
          /\ screen' = IF f.sid # active THEN screen
                       ELSE IF f.kind = "history" THEN f.events
                       ELSE screen \o f.events
      BY <1>7 DEF Receive, events, socket
    <2>2. /\ f = down[1] /\ 1 \in DOMAIN down /\ f \in Frame
          /\ \A k \in Histories' : k + 1 \in Histories /\ k + 1 # 1
          /\ \A k \in Histories \ {1} : k - 1 \in Histories' /\ k - 1 \in Nat /\ down'[k - 1] = down[k]
          /\ \A k \in Nat : CarriedAfter(k)' = CarriedAfter(k + 1)
          /\ CarriedAfter(0) = Range(f.events) \cup CarriedAfter(1)
      BY <2>1, FrameTaken
    <2>3. f.events \in Seq(Event) /\ \A y \in Range(f.events) : posted[y] = f.sid
      <3>1. f \in Frame /\ f = down[1] /\ 1 \in DOMAIN down
        BY <2>2
      <3>2. f.events \in Seq(Event)
        BY <3>1 DEF Frame
      <3> HIDE DEF f
      <3> QED
        BY <3>1, <3>2 DEF ShowsOnlyActive
    <2>4. Range(screen \o f.events) = Range(screen) \cup Range(f.events)
      BY <2>3, JoinIs DEF TypeOK
    <2>5. 1 \in Histories <=> f.kind = "history"
      BY <2>2 DEF Histories, IsHistory
    <2> HIDE DEF f
    <2> SUFFICES ASSUME connected, active # None, up = <<>>, NEW x \in EventsOf(active) \ excused
                 PROVE  OnItsWay(x)'
      BY <2>1 DEF Covered, EventsOf
    <2>6. OnItsWay(x) /\ subscribed = active /\ posted[x] = active
      BY DEF Covered, Following, EventsOf
    <2>7. CASE reads # {}
      <3>1. \E r \in reads : \/ r.phase = "reading" /\ x \in Range(table[active])
                             \/ r.phase = "read" /\ x \in Range(r.events)
                             \/ x \in Range(pending)
        BY <2>6, <2>7 DEF OnItsWay, OneBackfill
      <3> QED
        BY <2>1, <3>1 DEF OnItsWay
    <2>8. CASE reads = {} /\ pending # None
      BY <2>1, <2>8 DEF OnItsWay
    <2>9. CASE reads = {} /\ pending = None /\ Histories = {}
      <3>1. Histories' = {} /\ f.kind # "history"
        BY <2>2, <2>5, <2>9
      <3>2. x \in Range(screen) \cup Range(f.events) \cup CarriedAfter(1)
        BY <2>2, <2>6, <2>9 DEF OnItsWay
      <3>3. CarriedAfter(0)' = CarriedAfter(1)
        <4>1. CarriedAfter(0)' = CarriedAfter(0 + 1)
          BY <2>2
        <4> QED
          BY <4>1
      <3>4. x \in Range(f.events) => x \in Range(screen')
        BY <2>1, <2>3, <2>4, <2>6, <3>1
      <3>5. x \in Range(screen) => x \in Range(screen')
        BY <2>1, <2>4, <3>1
      <3> QED
        BY <2>1, <2>9, <3>1, <3>2, <3>3, <3>4, <3>5 DEF OnItsWay
    <2>10. CASE reads = {} /\ pending = None /\ Histories # {}
      <3>1. PICK k \in Histories : x \in Range(down[k].events) \cup CarriedAfter(k)
        BY <2>6, <2>10 DEF OnItsWay
      <3>2. Histories = {k} /\ down[k].sid = subscribed
        BY DEF OneBackfill
      <3>3. CASE k = 1
        <4>1. Histories' = {}
          BY <2>2, <3>2, <3>3
        <4>2. screen' = f.events
          BY <2>1, <2>2, <2>5, <2>6, <3>2, <3>3
        <4>3. CarriedAfter(0)' = CarriedAfter(1)
          <5>1. CarriedAfter(0)' = CarriedAfter(0 + 1)
            BY <2>2
          <5> QED
            BY <5>1
        <4> QED
          BY <2>1, <2>2, <2>10, <3>1, <3>3, <4>1, <4>2, <4>3 DEF OnItsWay
      <3>4. CASE k # 1
        <4>1. PICK j \in Nat : j = k - 1 /\ j \in Histories' /\ down'[j] = down[k] /\ j + 1 = k
          <5>1. k - 1 \in Histories' /\ k - 1 \in Nat /\ down'[k - 1] = down[k]
            BY <2>2, <3>4
          <5>2. k \in Int
            BY LenProperties DEF Histories, TypeOK
          <5> QED
            BY <5>1, <5>2
        <4>2. CarriedAfter(j)' = CarriedAfter(k)
          BY <2>2, <4>1
        <4> QED
          BY <3>1, <4>1, <4>2 DEF OnItsWay
      <3> QED
        BY <3>3, <3>4
    <2> QED
      BY <2>7, <2>8, <2>9, <2>10
  <1>8. ASSUME NEW s \in Session, Open(s)
        PROVE  Covered'
    <2>1. connected => up' = Append(up, s)
      BY <1>8 DEF Open
    <2>2. Append(up, s) # <<>>
      <3>1. up \in Seq(Session) /\ Append(up, s) \in Seq(Session) /\ DOMAIN Append(up, s) = 1 .. Len(up) + 1
        BY PushIs DEF TypeOK
      <3>2. Len(up) + 1 \in DOMAIN Append(up, s)
        BY <3>1, LenProperties
      <3> QED
        BY <3>2
    <2> QED
      BY <1>8, <2>1, <2>2 DEF Covered, Open
  <1>9. ASSUME Reconnect
        PROVE  Covered'
    <2>1. active' = active /\ (active # None => up' = <<active>>)
      BY <1>9 DEF Reconnect, reader
    <2>2. <<active>> # <<>>
      OBVIOUS
    <2> QED
      BY <2>1, <2>2 DEF Covered
  <1>10. ASSUME Leave \/ Disconnect
         PROVE  Covered'
    BY <1>10 DEF Leave, Disconnect, Covered
  <1>11. CASE UNCHANGED <<posted, table, connected, reads, pending, up, down, active, screen, excused>>
    BY <1>11 DEF Covered, OnItsWay, EventsOf, Histories, IsHistory, CarriedAfter
  <1>12. ASSUME UNCHANGED vars \/ \E e \in inserting : PersistFail(e)
         PROVE  UNCHANGED <<posted, table, connected, reads, pending, up, down, active, screen, excused>>
    BY <1>12 DEF PersistFail, vars, events, socket, wire, reader
  <1> QED
    BY <1>1, <1>2, <1>3, <1>4, <1>5, <1>6, <1>7, <1>8, <1>9, <1>10, <1>11, <1>12 DEF Next


\* The patient reader's invariant holds at first.
LEMMA PatientInit ==
  ASSUME Init
  PROVE  Patient
  <1>1. /\ up = <<>> /\ reads = {} /\ pending = None /\ down = <<>> /\ screen = <<>>
        /\ active = None /\ connected
    BY DEF Init
  <1>2. DOMAIN <<>> = {} /\ Range(<<>>) = {}
    BY DEF Range
  <1>3. Histories = {}
    BY <1>1, <1>2 DEF Histories
  <1> QED
    BY <1>1, <1>2, <1>3 DEF Patient, OneBackfill, Following, HeldBackOwn, ShowsOnlyActive, Covered

\* Each step of a session whose reader waits keeps it.
LEMMA PatientStep ==
  ASSUME PatientReader, Base, Patient, [Next]_vars
  PROVE  Patient'
  BY OneBackfillStep, FollowingStep, HeldBackOwnStep, ShownStep, CoveredStep DEF Base, Patient

\* What is covered is shown once nothing more is on its way.
LEMMA HonestFromPatient ==
  ASSUME Base, Patient
  PROVE  ReaderHonest
  <1>1. ASSUME Quiet
        PROVE  EventsOf(active) \subseteq Range(screen) \cup excused
    <2>1. /\ connected /\ active # None /\ up = <<>> /\ reads = {} /\ pending = None /\ down = <<>>
      BY <1>1 DEF Quiet, Settled
    <2>2. DOMAIN down = {}
      BY <2>1
    <2>3. Histories = {} /\ CarriedAfter(0) = {}
      BY <2>2 DEF Histories, CarriedAfter
    <2>4. ASSUME NEW e \in EventsOf(active) \ excused
          PROVE  e \in Range(screen)
      <3>1. OnItsWay(e)
        BY <2>1 DEF Patient, Covered
      <3> QED
        BY <2>1, <2>3, <3>1 DEF OnItsWay
    <2> QED
      BY <2>4
  <1>2. AllShown
    BY <1>1 DEF AllShown
  <1>3. OrderKept
    BY DEF Base, Ordered
  <1> QED
    BY <1>2, <1>3 DEF ReaderHonest, Base, Patient

-----------------------------------------------------------------------------
(* The theorems *)

\* Every variable of the web channel keeps to its type, whoever reads: the queue of a socket is a
\* list of events or null, and a read that was started is one of a subscribe frame handled.
THEOREM TypesCorrect == Spec => []TypeOK
  <1>1. Base => TypeOK
    BY DEF Base
  <1> QED
    BY <1>1, BaseHolds, PTL

\* handleEvent and the subscribe handler keep live events in the order they were posted, on the wire
\* and in the queue, and nothing is held back once every handler has returned: for a reader who opens
\* one session after another as well as for one who waits.
THEOREM OrderAlwaysKept == Spec => [](OrderKept /\ PendingMeansReading)
  <1>1. Base => OrderKept /\ PendingMeansReading
    BY DEF Base, Ordered
  <1> QED
    BY <1>1, BaseHolds, PTL

\* A reader who waits for a transcript before opening another sees the session that is open, whole and
\* in order: the history and the live events behind it leave no gap, whatever is posted, stored, lost
\* or reconnected meanwhile.
THEOREM ReaderAlwaysHonest == ASSUME PatientReader PROVE Spec => []ReaderHonest
  <1>1. Init => Patient
    BY PatientInit
  <1>2. Base /\ Patient /\ [Next]_vars => Patient'
    BY PatientStep
  <1>3. Base /\ Patient => ReaderHonest
    BY HonestFromPatient
  <1> QED
    BY <1>1, <1>2, <1>3, BaseHolds, PTL DEF Spec
=============================================================================
