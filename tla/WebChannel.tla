------------------------------ MODULE WebChannel ------------------------------
(***************************************************************************)
(* How a transcript reaches a browser: the server's web channel            *)
(* (src/server/web-channel.ts), the event handler that feeds it            *)
(* (src/server/index.ts), the stored transcript (appendEvents, historyFor) *)
(* and the web client's reader (web/src/session.ts, App.tsx, ws.ts).       *)
(*                                                                         *)
(* A child's event is relayed to the subscribed socket first and stored    *)
(* afterwards.  Opening a session subscribes, which backfills: the history *)
(* is selected while live events queue in `pending`, then sent, then the   *)
(* queue is drained.  The SELECT is an await, and so is the INSERT: each   *)
(* takes effect at a step of its own, and subscribe handlers overlap.      *)
(*                                                                         *)
(* One browser tab, whose account owns every session here, and one event   *)
(* per POST.  Left out: notifications for sessions not being viewed, image *)
(* stripping, frame encoding, and session deletion (module SessionStore).  *)
(***************************************************************************)
EXTENDS Naturals, Sequences, Functions

CONSTANTS
  Session,          \* the account's sessions
  None,             \* JavaScript's null
  HistoryLimit,     \* HISTORY_LIMIT, the newest events a backfill carries
  MaxEvents,        \* bound: events posted by the children
  MaxSubscribes,    \* bound: subscribe frames sent
  MaxFaults,        \* bound: failed statements plus dropped connections
  PatientReader     \* does the reader wait for a transcript before opening another?

ASSUME ConstantsOK ==
  /\ None \notin Session \cup Seq(Nat)
  /\ HistoryLimit \in Nat
  /\ MaxEvents \in Nat
  /\ MaxSubscribes \in Nat
  /\ MaxFaults \in Nat
  /\ PatientReader \in BOOLEAN

VARIABLES
  posted,       \* history: the session of each event, in the order they were posted
  inserting,    \* events whose INSERT is in flight
  table,        \* PostgreSQL: each session's rows of table events, in id order
  connected,    \* the WebSocket is open
  subscribed,   \* WebSock.subscribed
  pending,      \* WebSock.pending: null, or the events held back
  reads,        \* subscribe handlers waiting for their history
  handled,      \* subscribe frames handled so far
  up,           \* subscribe frames on the way to the server
  down,         \* frames on the way to the browser
  active,       \* the session the browser shows (activeId)
  screen,       \* the events its transcript was reduced from
  excused,      \* history: events the last backfill could not hold
  abandoned,    \* history: a SELECT has failed since the last subscribe
  faults        \* failed statements and dropped connections so far

events == <<posted, inserting, table>>
socket == <<subscribed, pending, reads, handled>>
wire == <<up, down>>
reader == <<active, screen>>
vars == <<events, connected, socket, wire, reader, excused, abandoned, faults>>

-----------------------------------------------------------------------------
(* Types *)

Event == 1 .. MaxEvents
Frame == [kind : {"history", "event"}, sid : Session, events : Seq(Event)]
Read == [id : 1 .. MaxSubscribes, sid : Session, phase : {"reading", "read"},
         events : Seq(Event)]

TypeOK ==
  /\ posted \in Seq(Session) /\ Len(posted) <= MaxEvents
  /\ inserting \in SUBSET Event
  /\ table \in [Session -> Seq(Event)]
  /\ connected \in BOOLEAN
  /\ subscribed \in Session \cup {None}
  /\ pending \in Seq(Event) \cup {None}
  /\ reads \in SUBSET Read
  /\ handled \in 0 .. MaxSubscribes
  /\ up \in Seq(Session)
  /\ down \in Seq(Frame)
  /\ active \in Session \cup {None}
  /\ screen \in Seq(Event)
  /\ excused \in SUBSET Event
  /\ abandoned \in BOOLEAN
  /\ faults \in 0 .. MaxFaults

Init ==
  /\ posted = <<>>
  /\ inserting = {}
  /\ table = [s \in Session |-> <<>>]
  /\ connected = TRUE
  /\ subscribed = None
  /\ pending = None
  /\ reads = {}
  /\ handled = 0
  /\ up = <<>>
  /\ down = <<>>
  /\ active = None
  /\ screen = <<>>
  /\ excused = {}
  /\ abandoned = FALSE
  /\ faults = 0

Fault == faults < MaxFaults /\ faults' = faults + 1

-----------------------------------------------------------------------------
(* A child posts an event *)

EventsOf(s) == {e \in DOMAIN posted : posted[e] = s}
EventFrame(s, e) == [kind |-> "event", sid |-> s, events |-> <<e>>]

\* Mutant of Relay: the backfill does not hold live events back.
Relay_Races(s, e) ==
  IF subscribed = s
  THEN down' = Append(down, EventFrame(s, e)) /\ UNCHANGED pending
  ELSE UNCHANGED <<pending, down>>

\* handleEvent: only the subscribed socket gets the payload, after the backfill
\* if one is under way.
Relay(s, e) ==
  IF subscribed = s
  THEN IF pending # None
       THEN pending' = Append(pending, e) /\ UNCHANGED down
       ELSE down' = Append(down, EventFrame(s, e)) /\ UNCHANGED pending
  ELSE UNCHANGED <<pending, down>>

\* POST .../worker/events: relayed first; a storable payload is then inserted
\* (a stream_event is not stored).
PostEvent(s) ==
  LET e == Len(posted) + 1 IN
  /\ e <= MaxEvents
  /\ posted' = Append(posted, s)
  /\ Relay(s, e)
  /\ \/ inserting' = inserting \cup {e}
     \/ UNCHANGED inserting
  /\ UNCHANGED <<table, connected, subscribed, reads, handled, up, reader, excused, abandoned, faults>>

\* The INSERT takes effect.
Persist(e) ==
  /\ e \in inserting
  /\ inserting' = inserting \ {e}
  /\ table' = [table EXCEPT ![posted[e]] = Append(@, e)]
  /\ UNCHANGED <<posted, connected, socket, wire, reader, excused, abandoned, faults>>

\* It fails: the error is logged and the child is answered 200 all the same.
PersistFail(e) ==
  /\ e \in inserting
  /\ Fault
  /\ inserting' = inserting \ {e}
  /\ UNCHANGED <<posted, table, connected, socket, wire, reader, excused, abandoned>>

-----------------------------------------------------------------------------
(* The subscribe handler *)

\* Up to its await: the socket is subscribed and live events are held back.
HandleSubscribe ==
  /\ up # <<>>
  /\ LET s == Head(up) IN
       /\ subscribed' = s
       /\ pending' = <<>>
       /\ reads' = reads \cup {[id |-> handled + 1, sid |-> s, phase |-> "reading",
                                events |-> <<>>]}
       /\ excused' = EventsOf(s) \ Range(table[s])
  /\ abandoned' = FALSE
  /\ handled' = handled + 1
  /\ up' = Tail(up)
  /\ UNCHANGED <<events, connected, down, reader, faults>>

\* selectHistory: the newest rows, oldest first.
History(s) ==
  LET rows == table[s] IN
  IF Len(rows) <= HistoryLimit THEN rows
  ELSE SubSeq(rows, Len(rows) - HistoryLimit + 1, Len(rows))

\* PostgreSQL runs the SELECT.
ReadHistory(r) ==
  /\ r \in reads
  /\ r.phase = "reading"
  /\ reads' = (reads \ {r}) \cup {[r EXCEPT !.phase = "read", !.events = History(r.sid)]}
  /\ excused' = excused \cup (Range(table[r.sid]) \ Range(History(r.sid)))
  /\ UNCHANGED <<events, connected, subscribed, pending, handled, wire, reader, abandoned, faults>>

HistoryFrame(r) == [kind |-> "history", sid |-> r.sid, events |-> r.events]

\* Mutant of FinishRead: the queue is not drained.
FinishRead_Drops(r) ==
  /\ r \in reads
  /\ r.phase = "read"
  /\ reads' = reads \ {r}
  /\ down' = Append(down, HistoryFrame(r))
  /\ pending' = None
  /\ UNCHANGED <<events, connected, subscribed, handled, up, reader, excused, abandoned, faults>>

\* After its await: the history, then whatever the socket holds back by now,
\* labelled with the session this handler was called for.  When another handler
\* has already set pending to null, iterating it throws, which is swallowed.
FinishRead(r) ==
  /\ r \in reads
  /\ r.phase = "read"
  /\ reads' = reads \ {r}
  /\ down' = IF pending = None
             THEN Append(down, HistoryFrame(r))
             ELSE Append(down, HistoryFrame(r))
                    \o [i \in DOMAIN pending |-> EventFrame(r.sid, pending[i])]
  /\ pending' = None
  /\ UNCHANGED <<events, connected, subscribed, handled, up, reader, excused, abandoned, faults>>

\* The SELECT fails: handleMsg rejects, and nobody looks.  The socket goes on
\* holding live events back.
ReadFail(r) ==
  /\ r \in reads
  /\ r.phase = "reading"
  /\ Fault
  /\ reads' = reads \ {r}
  /\ abandoned' = TRUE
  /\ UNCHANGED <<events, connected, subscribed, pending, handled, wire, reader, excused>>

-----------------------------------------------------------------------------
(* The browser *)

\* No backfill is on its way.
Settled ==
  /\ up = <<>>
  /\ reads = {}
  /\ \A i \in DOMAIN down : down[i].kind # "history"

\* The bound on subscribe frames, a guard of whatever sends one.
MaySubscribe == handled + Len(up) < MaxSubscribes

\* Mutant of Open: the session shown before is subscribed to.
Open_Stale(s) ==
  /\ active # s
  /\ MaySubscribe
  /\ PatientReader => Settled
  /\ active' = s
  /\ screen' = <<>>
  /\ up' = IF connected THEN Append(up, active) ELSE up
  /\ UNCHANGED <<events, connected, socket, down, excused, abandoned, faults>>

\* Opening a session: its transcript starts empty, and a subscribe frame is sent
\* if the socket is open (otherwise the reconnect will send one).
Open(s) ==
  /\ active # s
  /\ MaySubscribe
  /\ PatientReader => Settled
  /\ active' = s
  /\ screen' = <<>>
  /\ up' = IF connected THEN Append(up, s) ELSE up
  /\ UNCHANGED <<events, connected, socket, down, excused, abandoned, faults>>

\* Back to the list.  The server is not told.
Leave ==
  /\ active # None
  /\ active' = None
  /\ screen' = <<>>
  /\ UNCHANGED <<events, connected, socket, wire, excused, abandoned, faults>>

\* A frame arrives: the history of the session shown replaces the transcript, an
\* event of it is added; frames of any other session are ignored.
Receive ==
  /\ down # <<>>
  /\ down' = Tail(down)
  /\ LET f == Head(down) IN
       screen' = IF f.sid # active THEN screen
                 ELSE IF f.kind = "history" THEN f.events
                 ELSE screen \o f.events
  /\ UNCHANGED <<events, connected, socket, up, active, excused, abandoned, faults>>

\* The connection drops: its socket record goes, what was on the wire is lost, and
\* handlers still waiting write into a closed socket.
Disconnect ==
  /\ connected
  /\ Fault
  /\ connected' = FALSE
  /\ subscribed' = None
  /\ pending' = None
  /\ reads' = {}
  /\ up' = <<>>
  /\ down' = <<>>
  /\ UNCHANGED <<events, handled, reader, excused, abandoned>>

\* The client reconnects and subscribes again to the session it shows.
Reconnect ==
  /\ ~connected
  /\ MaySubscribe
  /\ connected' = TRUE
  /\ up' = IF active = None THEN <<>> ELSE <<active>>
  /\ UNCHANGED <<events, socket, down, reader, excused, abandoned, faults>>

-----------------------------------------------------------------------------

Next ==
  \/ \E s \in Session : PostEvent(s) \/ Open(s)
  \/ \E e \in inserting : Persist(e) \/ PersistFail(e)
  \/ HandleSubscribe
  \/ \E r \in reads : ReadHistory(r) \/ FinishRead(r) \/ ReadFail(r)
  \/ Leave
  \/ Receive
  \/ Disconnect
  \/ Reconnect

Spec == Init /\ [][Next]_vars

\* Messages arrive, PostgreSQL answers and the client reconnects; nobody has to
\* post, open or leave anything.
Fairness ==
  /\ WF_vars(HandleSubscribe)
  /\ WF_vars(\E r \in reads : ReadHistory(r))
  /\ WF_vars(\E r \in reads : FinishRead(r))
  /\ WF_vars(Receive)
  /\ WF_vars(Reconnect)

FairSpec == Spec /\ Fairness

-----------------------------------------------------------------------------
(* Properties *)

\* Nothing more will reach the browser for the session it shows.
Quiet ==
  /\ connected
  /\ active # None
  /\ subscribed = active
  /\ pending = None
  /\ Settled
  /\ down = <<>>

\* The transcript shown holds events of the session shown only, and every frame
\* carries events of the session it names.
ShowsOnlyActive ==
  /\ \A e \in Range(screen) : active = posted[e]
  /\ \A i \in DOMAIN down : \A e \in Range(down[i].events) : posted[e] = down[i].sid

\* Between the history and the live events nothing falls through: once nothing more
\* is on its way, the reader has seen every event of the session except those beyond
\* the history limit and those not stored when the subscription was handled.
AllShown == Quiet => EventsOf(active) \subseteq Range(screen) \cup excused

\* Live events keep the order they were posted in, through the backfill's queue.
OrderKept ==
  \A i, j \in DOMAIN down :
    i < j /\ down[i].kind = "event" /\ down[j].kind = "event"
      => Head(down[i].events) < Head(down[j].events)

\* Events are held back only while a backfill is in flight, or after one was
\* abandoned because its SELECT failed.
PendingMeansReading == pending # None => reads # {} \/ abandoned

\* What the reader sees is the session shown, whole and in order.
ReaderHonest == ShowsOnlyActive /\ AllShown /\ OrderKept /\ PendingMeansReading

\* An event posted while its session is being viewed gets onto the screen, unless
\* the backfill is excused from it or was abandoned, the reader leaves or the
\* connection drops.
EventuallyShown ==
  \A s \in Session, e \in Event :
    (e \in EventsOf(s) /\ active = s /\ subscribed = s)
      ~> (e \in Range(screen) \cup excused \/ abandoned \/ active # s \/ ~connected)
=============================================================================
