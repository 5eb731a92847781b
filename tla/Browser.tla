------------------------------ MODULE Browser ------------------------------
(***************************************************************************)
(* The web client and its channel: the reconnecting socket                 *)
(* (web/src/ws.ts), the app's screens, session list, open session and deep *)
(* link (web/src/App.tsx, auth.ts, deeplink.ts, session.ts) and the        *)
(* server's fan-out of lists, events and notifications                     *)
(* (src/server/web-channel.ts).                                            *)
(*                                                                         *)
(* Frames to the browser take their time; frames to the server are handled *)
(* when they are sent.  React renders and runs its effects before the next *)
(* frame, timer or click.  A worker's event here always carries a          *)
(* notification.  How long the backoff waits, a backfill that overlaps     *)
(* another or fails (module WebChannel) and a second login in the same     *)
(* page are left out.                                                      *)
(***************************************************************************)
EXTENDS Naturals, Sequences, FiniteSets

CONSTANTS
  Sids,          \* sessions of the account
  None,          \* JavaScript's null
  MaxEvents,     \* bound: events of one session
  MaxChanges,    \* bound: sessions that come online, go offline or are swept
  MaxDrops,      \* bound: connections lost or refused
  MaxRetries,    \* bound: presses of the Retry button
  MaxWire        \* bound: frames on their way in one socket

ASSUME BrowserOK ==
  /\ None \notin Sids
  /\ {MaxEvents, MaxChanges, MaxDrops, MaxRetries, MaxWire} \subseteq Nat

VARIABLES
  valid,       \* does the token in use belong to an account?
  screen,      \* "checking" the stored token, the "gate" to log in, or "home"
  socks,       \* WebSockets, oldest first: the last one is ControlSocket.ws
  closed,      \* ControlSocket.closed
  timers,      \* backoff timers running
  connection,  \* what the banner shows
  sessions,    \* Home's session list
  activeId,    \* the open session
  wanted,      \* the deep link not yet followed
  shown,       \* events drawn in the open session
  notes,       \* notifications raised, by event
  live,        \* server: what becomes of each session
  events,      \* server: number of events of each session
  changes, drops, retries,   \* counted against the bounds
  unpushed,    \* history: a list was not pushed because a DELETE failed
  doubled,     \* history: a second socket was opened next to a running timer
  leftover     \* history: a backoff timer was running at logout

socketVars == <<socks, closed, timers, connection>>
homeVars == <<sessions, activeId, wanted, shown>>
serverVars == <<live, events, changes>>
vars == <<valid, screen, socketVars, homeVars, notes, serverVars, drops, retries, unpushed, doubled, leftover>>

Lists == [Sids -> {"none", "active", "offline"}]
EventIds == Sids \X (1 .. MaxEvents)
Frame == [type : {"sessions"}, list : Lists]
         \cup [type : {"event", "notify"}, sid : Sids, n : 1 .. MaxEvents]
         \cup [type : {"history"}, sid : Sids, n : 0 .. MaxEvents]
Sock == [state : {"connecting", "open", "closing", "closed"}, subscribed : Sids \cup {None}, wire : Seq(Frame)]

TypeOK ==
  /\ screen \in {"checking", "gate", "home"}
  /\ socks \in Seq(Sock)
  /\ {valid, closed, unpushed, doubled, leftover} \subseteq BOOLEAN
  /\ {timers, changes, drops, retries} \subseteq Nat
  /\ connection \in {"connecting", "online", "offline"}
  /\ sessions \in Lists /\ live \in [Sids -> {"none", "active", "offline", "gone"}]
  /\ {activeId, wanted} \subseteq Sids \cup {None}
  /\ shown \in Seq(1 .. MaxEvents)
  /\ notes \in [EventIds -> Nat]
  /\ events \in [Sids -> 0 .. MaxEvents]

-----------------------------------------------------------------------------
(* The server's side of the channel (web-channel.ts) *)

Listed(l, s) == s # None /\ l[s] \in {"active", "offline"}
Room == \A i \in DOMAIN socks : Len(socks[i].wire) < MaxWire
Open(i) == socks[i].state = "open"

\* Mutant of Rows: a forgotten session keeps its row.
Rows_All(l) == l

\* sessionsForCredential: the rows of the sessions that exist.
Rows(l) == [s \in Sids |-> IF l[s] = "gone" THEN "none" ELSE l[s]]
ListFrame(l) == [type |-> "sessions", list |-> Rows(l)]
EventFrame(t, s, n) == [type |-> t, sid |-> s, n |-> n]

Send(sk, f) == IF sk.state = "open" THEN [sk EXCEPT !.wire = Append(@, f)] ELSE sk

pushList(sks, l) == [i \in DOMAIN sks |-> Send(sks[i], ListFrame(l))]

\* Mutant of FanOut: a subscribed socket is notified as well.
FanOut_Both(sk, s, n) ==
  Send(IF sk.subscribed = s THEN Send(sk, EventFrame("event", s, n)) ELSE sk, EventFrame("notify", s, n))

\* handleEvent: the event to who views the session, its note to the others.
FanOut(sk, s, n) == Send(sk, EventFrame(IF sk.subscribed = s THEN "event" ELSE "notify", s, n))

\* A subscribe frame, dropped unless the latest socket is open and the session exists.
subscribe(sks, s) ==
  IF sks # <<>> /\ sks[Len(sks)].state = "open" /\ Listed(live, s)
  THEN [sks EXCEPT ![Len(sks)] = Send([@ EXCEPT !.subscribed = s], EventFrame("history", s, events[s]))]
  ELSE sks

\* The worker posts an event.
WorkerEvent(s) ==
  /\ live[s] = "active"
  /\ events[s] < MaxEvents /\ Room
  /\ events' = [events EXCEPT ![s] = @ + 1]
  /\ socks' = [i \in DOMAIN socks |-> FanOut(socks[i], s, events[s] + 1)]
  /\ UNCHANGED <<valid, screen, closed, timers, connection, homeVars, notes, live, changes, drops, retries, unpushed, doubled, leftover>>

\* A session is created or its child connects; the child's stream closes; the sweep takes it.
SessionChange(s, st) ==
  /\ changes < MaxChanges /\ Room
  /\ <<live[s], st>> \in {<<"none", "active">>, <<"offline", "active">>, <<"active", "offline">>, <<"offline", "gone">>}
  /\ changes' = changes + 1
  /\ live' = [live EXCEPT ![s] = st]
  /\ socks' = pushList(socks, live')
  /\ UNCHANGED <<valid, screen, closed, timers, connection, homeVars, notes, events, drops, retries, unpushed, doubled, leftover>>

-----------------------------------------------------------------------------
(* ControlSocket (ws.ts) *)

NewSock == [state |-> "connecting", subscribed |-> None, wire |-> <<>>]
LiveSocks == {i \in DOMAIN socks : socks[i].state \in {"connecting", "open"}}

Connect ==
  /\ socks' = Append(socks, NewSock)
  /\ connection' = "connecting"

\* Mutant of OnOpen: what was open when the connection was lost is not subscribed to again.
OnOpen_Quiet(sks) == sks

\* App's effect on a connection that becomes online.
OnOpen(sks) == IF activeId # None THEN subscribe(sks, activeId) ELSE sks

\* The upgrade is accepted and the list sent.
Opened(i) ==
  /\ socks[i].state = "connecting"
  /\ valid
  /\ LET sks == [socks EXCEPT ![i] = Send([@ EXCEPT !.state = "open"], ListFrame(live))]
     IN IF screen = "home"
        THEN /\ connection' = "online"
             /\ socks' = IF connection = "online" THEN sks ELSE OnOpen(sks)
        ELSE socks' = sks /\ UNCHANGED connection
  /\ UNCHANGED <<valid, screen, closed, timers, homeVars, notes, serverVars, drops, retries, unpushed, doubled, leftover>>

\* Mutant of Backoff: a socket that never opened is not tried again.
Backoff_OnceOpen(i) == ~closed /\ Open(i)

Backoff(i) == ~closed

\* onclose: nothing more once the socket was closed for good.
OnClose(i) ==
  /\ socks' = [socks EXCEPT ![i].state = "closed", ![i].wire = <<>>]
  /\ IF Backoff(i) THEN timers' = timers + 1 /\ connection' = "offline"
     ELSE UNCHANGED <<timers, connection>>

\* The network or the server drops a connection, or refuses one.
Drop(i) ==
  /\ i \in LiveSocks
  /\ drops < MaxDrops
  /\ drops' = drops + 1
  /\ OnClose(i)
  /\ UNCHANGED <<valid, screen, closed, homeVars, notes, serverVars, retries, unpushed, doubled, leftover>>

ClosingDone(i) ==
  /\ socks[i].state = "closing"
  /\ OnClose(i)
  /\ UNCHANGED <<valid, screen, closed, homeVars, notes, serverVars, drops, retries, unpushed, doubled, leftover>>

\* The timer connects, whatever happened while it ran.
TimerFires ==
  /\ timers > 0
  /\ timers' = timers - 1
  /\ Connect
  /\ UNCHANGED <<valid, screen, closed, homeVars, notes, serverVars, drops, retries, unpushed, doubled, leftover>>

\* close() of the latest socket, if it is not closed already.
CloseLatest ==
  socks' = [i \in DOMAIN socks |->
              IF i = Len(socks) /\ i \in LiveSocks THEN [socks[i] EXCEPT !.state = "closing"] ELSE socks[i]]

\* The banner's Retry: close the latest socket, which will back off, or connect at once.
Retry ==
  /\ screen = "home" /\ Listed(sessions, activeId) /\ connection = "offline"
  /\ retries < MaxRetries
  /\ retries' = retries + 1
  /\ IF Len(socks) \in LiveSocks
     THEN CloseLatest /\ UNCHANGED <<connection, doubled>>
     ELSE Connect /\ doubled' = (doubled \/ timers > 0)
  /\ UNCHANGED <<valid, screen, closed, timers, homeVars, notes, serverVars, drops, unpushed, leftover>>

-----------------------------------------------------------------------------
(* App *)

Init ==
  /\ valid \in BOOLEAN
  /\ screen \in {"checking", "gate"}
  /\ socks = <<>>
  /\ closed = FALSE
  /\ timers = 0
  /\ connection = "connecting"
  /\ sessions = [s \in Sids |-> "none"]
  /\ activeId = None
  /\ wanted \in Sids \cup {None}
  /\ shown = <<>>
  /\ notes = [e \in EventIds |-> 0]
  /\ live \in [Sids -> {"none", "active", "offline"}]
  /\ events = [s \in Sids |-> 0]
  /\ changes = 0
  /\ drops = 0
  /\ retries = 0
  /\ unpushed = FALSE
  /\ doubled = FALSE
  /\ leftover = FALSE

\* checkToken: a server that cannot be asked is not a rejection.
checkToken == {"unreachable", IF valid THEN "ok" ELSE "rejected"}

\* Only a rejection logs the user out.
Checked(answer) ==
  /\ screen = "checking"
  /\ answer \in checkToken
  /\ IF answer = "rejected" THEN screen' = "gate" /\ UNCHANGED <<socks, connection>>
     ELSE screen' = "home" /\ Connect
  /\ UNCHANGED <<valid, closed, timers, homeVars, notes, serverVars, drops, retries, unpushed, doubled, leftover>>

\* The gate is passed with a token the server has just vouched for.
LogIn ==
  /\ screen = "gate"
  /\ socks = <<>>
  /\ valid' = TRUE
  /\ screen' = "home"
  /\ Connect
  /\ UNCHANGED <<closed, timers, homeVars, notes, serverVars, drops, retries, unpushed, doubled, leftover>>

\* Home is unmounted and its socket closed for good.
LogOut ==
  /\ screen = "home"
  /\ screen' = "gate"
  /\ closed' = TRUE
  /\ CloseLatest
  /\ leftover' = (timers > 0)
  /\ activeId' = None
  /\ sessions' = [s \in Sids |-> "none"]
  /\ UNCHANGED <<valid, timers, connection, wanted, shown, notes, serverVars, drops, retries, unpushed, doubled>>

\* A session is opened by the reader, who may leave another for it.
OpenSession(s) ==
  /\ screen = "home" /\ Room
  /\ Listed(sessions, s)
  /\ s # activeId
  /\ activeId' = s
  /\ shown' = <<>>
  /\ socks' = subscribe(socks, s)
  /\ UNCHANGED <<valid, screen, closed, timers, connection, sessions, wanted, notes, serverVars, drops, retries, unpushed, doubled, leftover>>

\* The deep link is followed when nothing is open and the list names its session.
Back ==
  /\ screen = "home" /\ Room
  /\ activeId # None
  /\ IF Listed(sessions, wanted)
     THEN /\ activeId' = wanted
          /\ wanted' = None
          /\ socks' = subscribe(socks, wanted)
     ELSE activeId' = None /\ UNCHANGED <<wanted, socks>>
  /\ shown' = <<>>
  /\ UNCHANGED <<valid, screen, closed, timers, connection, sessions, notes, serverVars, drops, retries, unpushed, doubled, leftover>>

Deletable(s) == live[s] = "offline"

\* The confirmation of a row that was offline when its button was pressed.  The frame is dropped
\* unless the socket is open; the server refuses a connected session; if its DELETE fails it has
\* forgotten the session all the same, and pushes no list.
DeleteSession(s, fails) ==
  /\ screen = "home" /\ Room
  /\ sessions[s] # "none"
  /\ activeId' = IF activeId = s THEN None ELSE activeId
  /\ shown' = IF activeId = s THEN <<>> ELSE shown
  /\ IF socks # <<>> /\ Open(Len(socks)) /\ Deletable(s)
     THEN /\ live' = [live EXCEPT ![s] = "gone"]
          /\ socks' = IF fails THEN socks ELSE pushList(socks, live')
          /\ unpushed' = (unpushed \/ fails)
     ELSE UNCHANGED <<live, socks, unpushed>>
  /\ UNCHANGED <<valid, screen, closed, timers, connection, sessions, wanted, notes, events, changes, drops, retries, doubled, leftover>>

\* A list arrives: a chat whose row is gone is unmounted, one whose row is back is mounted and
\* subscribes again, and a deep link it names is followed.
TakeList(l, sks) ==
  /\ sessions' = l
  /\ IF activeId = None /\ Listed(l, wanted)
     THEN activeId' = wanted /\ wanted' = None /\ shown' = <<>> /\ socks' = subscribe(sks, wanted)
     ELSE /\ UNCHANGED <<activeId, wanted>>
          /\ IF Listed(l, activeId) /\ ~Listed(sessions, activeId)
             THEN shown' = <<>> /\ socks' = subscribe(sks, activeId)
             ELSE UNCHANGED shown /\ socks' = sks

Draw(f) == IF f.type = "history" THEN [i \in 1 .. f.n |-> i] ELSE Append(shown, f.n)

\* onmessage, for whichever socket it is.  Once Home is unmounted only notifications have effect.
Deliver(i) ==
  /\ Open(i)
  /\ socks[i].wire # <<>>
  /\ LET f == Head(socks[i].wire)
         sks == [socks EXCEPT ![i].wire = Tail(@)]
     IN /\ IF f.type = "sessions" /\ screen = "home" THEN TakeList(f.list, sks)
           ELSE /\ socks' = sks
                /\ UNCHANGED <<sessions, activeId, wanted>>
                /\ shown' = IF f.type \in {"history", "event"} /\ f.sid = activeId /\ Listed(sessions, activeId)
                            THEN Draw(f) ELSE shown
        /\ notes' = IF f.type \in {"event", "notify"} THEN [notes EXCEPT ![<<f.sid, f.n>>] = @ + 1] ELSE notes
  /\ UNCHANGED <<valid, screen, closed, timers, connection, serverVars, drops, retries, unpushed, doubled, leftover>>

Next ==
  \/ \E s \in Sids : WorkerEvent(s) \/ \E st \in {"active", "offline", "gone"} : SessionChange(s, st)
  \/ \E i \in DOMAIN socks : Opened(i) \/ Drop(i) \/ ClosingDone(i) \/ Deliver(i)
  \/ TimerFires
  \/ Retry
  \/ \E a \in {"ok", "rejected", "unreachable"} : Checked(a)
  \/ LogIn
  \/ LogOut
  \/ \E s \in Sids : OpenSession(s) \/ \E fails \in BOOLEAN : DeleteSession(s, fails)
  \/ Back

\* Connections complete, timers fire and frames arrive; a reader need not do anything.
Fairness ==
  /\ WF_vars(\E i \in DOMAIN socks : i = Len(socks) /\ Opened(i))
  /\ WF_vars(\E i \in DOMAIN socks : ClosingDone(i))
  /\ WF_vars(TimerFires)

Spec == Init /\ [][Next]_vars /\ Fairness

-----------------------------------------------------------------------------
(* Properties *)

\* Nothing more is on its way to a browser that believes it is connected.
Settled ==
  /\ screen = "home"
  /\ connection = "online"
  /\ LiveSocks = {Len(socks)}
  /\ socks[Len(socks)].wire = <<>>

\* Whatever was lost, deleted, left and opened again on the way: once the frames have arrived, the
\* open session shows each of its events once and in order, and the list is the server's, unless
\* a failed DELETE kept it back.  (App.tsx:79-106, session.ts:76-96, web-channel.ts:143-171)
CaughtUp ==
  Settled =>
    /\ Listed(live, activeId) /\ Listed(sessions, activeId) => shown = [i \in 1 .. events[activeId] |-> i]
    /\ ~unpushed => sessions = Rows(live)

\* There is one connection at a time, unless Retry was pressed while the backoff timer ran, and
\* after logout there is none, unless that timer outlived it.  (ws.ts:62-77, 100)
OneConnection ==
  /\ ~doubled => Cardinality(LiveSocks) <= 1
  /\ closed /\ ~doubled /\ ~leftover => LiveSocks = {}

\* An event is notified at most once, as an event or as a note, whichever session is being viewed.
\* (web-channel.ts:157-167, App.tsx:65-71)
NotifiedOnce == ~doubled => \A e \in EventIds : notes[e] <= 1

\* Neither a connection nor a notification is ever doubled.
OnceOnly == OneConnection /\ NotifiedOnce

\* A browser that stays logged in is online again after every loss.  (ws.ts:62-68)
BackOnline ==
  [](screen = "home" /\ valid => <>(connection = "online" \/ screen = "gate"))

=============================================================================
