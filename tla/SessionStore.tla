---------------------------- MODULE SessionStore ----------------------------
(***************************************************************************)
(* The server's session store (src/server/store.ts) with the HTTP handlers *)
(* that drive it (src/server/index.ts) and the SQL it issues               *)
(* (src/server/db.ts): a read cache of sessions written through to         *)
(* PostgreSQL, the index from ingress tokens to sessions, the batched      *)
(* last_activity flush, deletion, the retention sweep, and the SSE streams *)
(* the children hold open.                                                 *)
(*                                                                         *)
(* The process is single threaded, so everything between two awaits is one *)
(* action.  Every await on the pool is an operation in flight: the pool    *)
(* has ten connections, so operations issued in one order may commit in    *)
(* another, and one may fail.  A clock tick is of the order of the TTL     *)
(* (days); no statement outlives a tick.                                   *)
(*                                                                         *)
(* Left out: titles, directories and the digest (a metadata change is a    *)
(* nondeterministic choice), the stored transcript (module WebChannel),    *)
(* environments and their work queue, and the pool-less in-memory mode.    *)
(***************************************************************************)
EXTENDS Naturals, FiniteSets, Functions

CONSTANTS
  ReplSid,            \* ids of /rc sessions (cse_...): a child may present one again
  EnvSid,             \* ids of sessions queued for the one environment (ses_...)
  Token,              \* ingress tokens that can be generated
  Stream,             \* SSE responses
  None,               \* JavaScript's null
  TTL,                \* CCC_SESSION_TTL_DAYS, in ticks
  LoadWindow,         \* CCC_LOAD_WINDOW_DAYS, in ticks
  MaxNow,             \* bound: the last tick
  MaxFaults,          \* bound: failed statements plus process crashes
  MaxInFlight,        \* bound: statements in flight at once
  ReconnectOverlaps   \* may a child's new stream open before the old one's close fires?

Sid == ReplSid \cup EnvSid

ASSUME ConstantsOK ==
  /\ ReplSid \cap EnvSid = {}
  /\ TTL \in Nat \ {0}
  /\ LoadWindow \in Nat
  /\ TTL <= LoadWindow
  /\ MaxNow \in Nat
  /\ MaxFaults \in Nat
  /\ MaxInFlight \in Nat
  /\ None \notin Stream
  /\ ReconnectOverlaps \in BOOLEAN

VARIABLES
  up,               \* the process is running
  now,              \* Date.now(), in ticks
  sessions,         \* Store.sessions: Map from session id to record
  byIngressToken,   \* Store.byIngressToken: Map from token to session id
  dirtyActivity,    \* Store.dirtyActivity
  streams,          \* open SSE responses, each with the session its handler captured
  rows,             \* PostgreSQL: table sessions
  upserts,          \* upsertSession statements in flight
  deletes,          \* deleteSession statements in flight, by session id
  flushes,          \* flushActivity statements in flight
  sweep,            \* the sweepStale call in progress
  issued,           \* random ids and tokens already generated
  deleted,          \* history: ids whose deletion completed with no write of theirs in flight
  faults            \* failed statements and crashes so far

cache == <<sessions, byIngressToken, dirtyActivity>>
inFlight == <<upserts, deletes, flushes>>
vars == <<up, now, cache, streams, rows, inFlight, sweep, issued, deleted, faults>>

-----------------------------------------------------------------------------
(* Types *)

Time == 0 .. MaxNow

PartialFn(S, T) == UNION {[D -> T] : D \in SUBSET S}

SessionRecord == [tok : Token, act : Time, conn : BOOLEAN, sse : Stream \cup {None}]
Row == [tok : Token, act : Time]
Upsert == [sid : Sid, tok : Token, act : Time]
Flush == [ids : SUBSET Sid, acts : PartialFn(Sid, Time), sweeping : BOOLEAN]
SweepPhase == {"idle", "flushing", "flushed", "deleting", "returned"}
SweepCall == [phase : SweepPhase, keep : SUBSET Sid, gone : SUBSET Sid, busy : SUBSET Sid]

TypeOK ==
  /\ up \in BOOLEAN
  /\ now \in Time
  /\ sessions \in PartialFn(Sid, SessionRecord)
  /\ byIngressToken \in PartialFn(Token, Sid)
  /\ dirtyActivity \in SUBSET Sid
  /\ streams \in PartialFn(Stream, [sid : Sid, tok : Token])
  /\ rows \in PartialFn(Sid, Row)
  /\ upserts \in SUBSET Upsert
  /\ deletes \in SUBSET Sid
  /\ flushes \in SUBSET Flush
  /\ sweep \in SweepCall
  /\ issued \in SUBSET (Sid \cup Token)
  /\ deleted \in SUBSET Sid
  /\ faults \in 0 .. MaxFaults

-----------------------------------------------------------------------------
(* Maps *)

Cached == DOMAIN sessions
EmptyMap == [x \in {} |-> None]
Put(m, k, v) == [x \in DOMAIN m \cup {k} |-> IF x = k THEN v ELSE m[x]]
Remove(m, S) == Restrict(m, DOMAIN m \ S)

\* A timestamp the retention cutoff is past, and one outside the load window.
Stale(act) == act + TTL < now
InLoadWindow(act) == now < act + LoadWindow

Connected == {s \in Cached : sessions[s].conn}

SweepIdle == [phase |-> "idle", keep |-> {}, gone |-> {}, busy |-> {}]

Init ==
  /\ up = TRUE
  /\ now = 0
  /\ sessions = EmptyMap
  /\ byIngressToken = EmptyMap
  /\ dirtyActivity = {}
  /\ streams = EmptyMap
  /\ rows = EmptyMap
  /\ upserts = {}
  /\ deletes = {}
  /\ flushes = {}
  /\ sweep = SweepIdle
  /\ issued = {}
  /\ deleted = {}
  /\ faults = 0

-----------------------------------------------------------------------------
(* Creating and describing sessions *)

\* The bound on statements in flight, a guard of whatever issues one.
RoomInFlight ==
  Cardinality(upserts) + Cardinality(deletes) + Cardinality(flushes) < MaxInFlight

\* Mutant of AddSession: only tokens the index still holds are avoided.
AddSession_Reuses(s, t) ==
  /\ RoomInFlight
  /\ t \notin DOMAIN byIngressToken
  /\ issued' = issued \cup {s, t}
  /\ sessions' = Put(sessions, s, [tok |-> t, act |-> now, conn |-> FALSE, sse |-> None])
  /\ byIngressToken' = Put(byIngressToken, t, s)
  /\ upserts' = upserts \cup {[sid |-> s, tok |-> t, act |-> now]}
  /\ deleted' = deleted \ {s}
  /\ UNCHANGED <<up, now, dirtyActivity, streams, rows, deletes, flushes, sweep, faults>>

\* A record put in the cache with a fresh token, and its row requested.
AddSession(s, t) ==
  /\ RoomInFlight
  /\ t \notin issued
  /\ issued' = issued \cup {s, t}
  /\ sessions' = Put(sessions, s, [tok |-> t, act |-> now, conn |-> FALSE, sse |-> None])
  /\ byIngressToken' = Put(byIngressToken, t, s)
  /\ upserts' = upserts \cup {[sid |-> s, tok |-> t, act |-> now]}
  /\ deleted' = deleted \ {s}
  /\ UNCHANGED <<up, now, dirtyActivity, streams, rows, deletes, flushes, sweep, faults>>

\* POST /v1/environments/bridge queues one session for the environment.
PushSessionWork(s, t) ==
  /\ up
  /\ s \in EnvSid \ issued
  /\ AddSession(s, t)

\* POST /v1/code/sessions.
CreateReplSession(s, t) ==
  /\ up
  /\ s \in ReplSid \ issued
  /\ AddSession(s, t)

\* POST /v1/code/sessions/{id}/bridge for an id the cache does not hold: the
\* record is made again, under the same id and a new token.
RecreateSession(s, t) ==
  /\ up
  /\ s \in (ReplSid \cap issued) \ Cached
  /\ AddSession(s, t)

\* patchSession found something new: activity is bumped and the row rewritten.
PatchSession(s) ==
  /\ RoomInFlight
  /\ sessions' = [sessions EXCEPT ![s].act = now]
  /\ upserts' = upserts \cup {[sid |-> s, tok |-> sessions[s].tok, act |-> now]}

\* The same call for a cached session whose metadata differs.  (An unchanged
\* one is answered without touching any state.)
UpdateSessionMeta(s) ==
  /\ up
  /\ s \in Cached
  /\ PatchSession(s)
  /\ UNCHANGED <<up, now, byIngressToken, dirtyActivity, streams, rows, deletes, flushes,
                 sweep, issued, deleted, faults>>

-----------------------------------------------------------------------------
(* The data plane: every request names its session by ingress token *)

\* sessionByIngressToken finds a record; any other request is answered 401.
Authenticates(t) == t \in DOMAIN byIngressToken /\ byIngressToken[t] \in Cached

MarkDirty(s) == dirtyActivity' = dirtyActivity \cup {s}

\* POST .../worker/events, and any relay to the child: touch() bumps the cached
\* time and marks the session for the next flush.  A system:init event that
\* carries a new directory also rewrites the row.
PostEvents(t) ==
  /\ up
  /\ Authenticates(t)
  /\ LET s == byIngressToken[t] IN
       /\ MarkDirty(s)
       /\ \/ /\ sessions' = [sessions EXCEPT ![s].act = now]
             /\ UNCHANGED upserts
          \/ PatchSession(s)
  /\ UNCHANGED <<up, now, byIngressToken, streams, rows, deletes, flushes, sweep, issued,
                 deleted, faults>>

\* sendToChild succeeds only while the record holds an open response.
SendToChild(s) ==
  /\ up
  /\ s \in Cached
  /\ sessions[s].sse # None
  /\ sessions' = [sessions EXCEPT ![s].act = now]
  /\ MarkDirty(s)
  /\ UNCHANGED <<up, now, byIngressToken, streams, rows, inFlight, sweep, issued, deleted,
                 faults>>

\* GET .../worker/events/stream.
OpenStream(t, x) ==
  /\ up
  /\ Authenticates(t)
  /\ x \notin DOMAIN streams
  /\ ReconnectOverlaps \/ \A y \in DOMAIN streams : streams[y].sid # byIngressToken[t]
  /\ LET s == byIngressToken[t] IN
       /\ streams' = Put(streams, x, [sid |-> s, tok |-> t])
       /\ sessions' = [sessions EXCEPT ![s].conn = TRUE, ![s].sse = x, ![s].act = now]
       /\ MarkDirty(s)
  /\ UNCHANGED <<up, now, byIngressToken, rows, inFlight, sweep, issued, deleted, faults>>

\* Mutant of CloseStream: the record keeps its response.
CloseStream_KeepsSse(x) ==
  /\ up
  /\ x \in DOMAIN streams
  /\ sessions' = [s \in Cached |-> IF s = streams[x].sid
                                  THEN [sessions[s] EXCEPT !.conn = FALSE] ELSE sessions[s]]
  /\ streams' = Remove(streams, {x})
  /\ UNCHANGED <<up, now, byIngressToken, dirtyActivity, rows, inFlight, sweep, issued,
                 deleted, faults>>

\* The request's 'close' event: detachSse and markWsConnected(false) on the id
\* the handler captured, whichever response the record holds by then.
CloseStream(x) ==
  /\ up
  /\ x \in DOMAIN streams
  /\ LET s == streams[x].sid IN
       IF s \in Cached
       THEN /\ sessions' = [sessions EXCEPT ![s].conn = FALSE, ![s].sse = None, ![s].act = now]
            /\ MarkDirty(s)
       ELSE UNCHANGED <<sessions, dirtyActivity>>
  /\ streams' = Remove(streams, {x})
  /\ UNCHANGED <<up, now, byIngressToken, rows, inFlight, sweep, issued, deleted, faults>>

\* DELETE /v1/environments/bridge/{id}: the environment's sessions are marked
\* offline; their responses, if any, stay open.
MarkEnvOffline ==
  /\ up
  /\ sessions' = [s \in Cached |-> [sessions[s] EXCEPT !.conn = @ /\ s \notin EnvSid]]
  /\ UNCHANGED <<up, now, byIngressToken, dirtyActivity, streams, rows, inFlight, sweep,
                 issued, deleted, faults>>

-----------------------------------------------------------------------------
(* Deletion *)

\* Mutant of Forget: the token stays in the index.
Forget_KeepsToken(S) ==
  /\ sessions' = Remove(sessions, S)
  /\ UNCHANGED byIngressToken
  /\ dirtyActivity' = dirtyActivity \ (S \cap Cached)

\* Every trace of the sessions in S leaves the cache.
Forget(S) ==
  /\ sessions' = Remove(sessions, S)
  /\ byIngressToken' = Remove(byIngressToken, {sessions[s].tok : s \in S \cap Cached})
  /\ dirtyActivity' = dirtyActivity \ (S \cap Cached)

\* Mutant of DeleteSession: not refused while connected.
DeleteSession_Always(s) ==
  /\ up
  /\ s \in Cached
  /\ RoomInFlight
  /\ Forget({s})
  /\ deletes' = deletes \cup {s}
  /\ UNCHANGED <<up, now, streams, rows, upserts, flushes, sweep, issued, deleted, faults>>

\* A session_delete frame; refused while the session is connected.
DeleteSession(s) ==
  /\ up
  /\ s \in Cached
  /\ ~sessions[s].conn
  /\ RoomInFlight
  /\ Forget({s})
  /\ deletes' = deletes \cup {s}
  /\ UNCHANGED <<up, now, streams, rows, upserts, flushes, sweep, issued, deleted, faults>>

-----------------------------------------------------------------------------
(* The last_activity flush *)

FlushBatch(sweeping) ==
  [ids |-> dirtyActivity,
   acts |-> [s \in dirtyActivity \cap Cached |-> sessions[s].act],
   sweeping |-> sweeping]

\* flushActivity: the dirty set is emptied before the UPDATE is awaited.
IssueFlush(sweeping) ==
  /\ dirtyActivity # {}
  /\ RoomInFlight
  /\ flushes' = flushes \cup {FlushBatch(sweeping)}
  /\ dirtyActivity' = {}

FlushTimer ==
  /\ up
  /\ IssueFlush(FALSE)
  /\ UNCHANGED <<up, now, sessions, byIngressToken, streams, rows, upserts, deletes, sweep,
                 issued, deleted, faults>>

-----------------------------------------------------------------------------
(* The retention sweep *)

\* sweepStale builds the DELETE: the sessions connected at this instant are exempt.
SnapshotKeep == [sweep EXCEPT !.phase = "deleting", !.keep = Connected]

\* The hourly timer.  The pending bumps are flushed first; with none pending the
\* DELETE follows at once.  (busy, a history: the sessions with a recent bump
\* pending, if no other flush may hold some of it up.)
SweepBegin ==
  /\ up
  /\ sweep.phase = "idle"
  /\ LET busy == {s \in dirtyActivity \cap Cached : flushes = {} /\ ~Stale(sessions[s].act)} IN
       \/ /\ IssueFlush(TRUE)
          /\ sweep' = [SweepIdle EXCEPT !.phase = "flushing", !.busy = busy]
       \/ /\ dirtyActivity = {}
          /\ sweep' = [SnapshotKeep EXCEPT !.busy = busy]
          /\ UNCHANGED <<flushes, dirtyActivity>>
  /\ UNCHANGED <<up, now, sessions, byIngressToken, streams, rows, upserts, deletes, issued,
                 deleted, faults>>

\* The flush the sweep waited for has settled, one way or the other.
SweepSnapshot ==
  /\ up
  /\ sweep.phase = "flushed"
  /\ sweep' = SnapshotKeep
  /\ UNCHANGED <<up, now, cache, streams, rows, inFlight, issued, deleted, faults>>

StaleRows == {s \in DOMAIN rows : Stale(rows[s].act)}

\* Mutant of SweepDelete: no session is exempt.
SweepDelete_All ==
  /\ sweep.phase = "deleting"
  /\ sweep' = [sweep EXCEPT !.phase = "returned", !.gone = StaleRows]
  /\ rows' = Remove(rows, StaleRows)
  /\ UNCHANGED <<up, now, cache, streams, inFlight, issued, deleted, faults>>

\* PostgreSQL runs deleteStaleSessions: its rows decide what is stale.
SweepDelete ==
  /\ sweep.phase = "deleting"
  /\ sweep' = [sweep EXCEPT !.phase = "returned", !.gone = StaleRows \ sweep.keep]
  /\ rows' = Remove(rows, StaleRows \ sweep.keep)
  /\ UNCHANGED <<up, now, cache, streams, inFlight, issued, deleted, faults>>

SweepFail ==
  /\ sweep.phase = "deleting"
  /\ faults < MaxFaults
  /\ faults' = faults + 1
  /\ sweep' = SweepIdle
  /\ UNCHANGED <<up, now, cache, streams, rows, inFlight, issued, deleted>>

\* The DELETE's result arrives: what it returned is forgotten, whatever has
\* become of it in the cache meanwhile.
SweepForget ==
  /\ up
  /\ sweep.phase = "returned"
  /\ Forget(sweep.gone)
  /\ sweep' = SweepIdle
  /\ UNCHANGED <<up, now, streams, rows, inFlight, issued, deleted, faults>>

-----------------------------------------------------------------------------
(* PostgreSQL: statements in flight commit in any order, or fail *)

CommitUpsert(u) ==
  /\ u \in upserts
  /\ rows' = Put(rows, u.sid, [tok |-> u.tok, act |-> u.act])
  /\ upserts' = upserts \ {u}
  /\ UNCHANGED <<up, now, cache, streams, deletes, flushes, sweep, issued, deleted, faults>>

\* The request is answered 500, or the error is logged; the cache is not undone.
FailUpsert(u) ==
  /\ u \in upserts
  /\ faults < MaxFaults
  /\ faults' = faults + 1
  /\ upserts' = upserts \ {u}
  /\ UNCHANGED <<up, now, cache, streams, rows, deletes, flushes, sweep, issued, deleted>>

CommitDelete(s) ==
  /\ s \in deletes
  /\ rows' = Remove(rows, {s})
  /\ deletes' = deletes \ {s}
  /\ deleted' = IF s \in Cached \/ \E u \in upserts : u.sid = s THEN deleted
                ELSE deleted \cup {s}
  /\ UNCHANGED <<up, now, cache, streams, upserts, flushes, sweep, issued, faults>>

FailDelete(s) ==
  /\ s \in deletes
  /\ faults < MaxFaults
  /\ faults' = faults + 1
  /\ deletes' = deletes \ {s}
  /\ UNCHANGED <<up, now, cache, streams, rows, upserts, flushes, sweep, issued, deleted>>

\* If the sweep is waiting for this flush, it may go on.
SettleFlush(f, busy) ==
  /\ f \in flushes
  /\ flushes' = flushes \ {f}
  /\ sweep' = IF f.sweeping THEN [sweep EXCEPT !.phase = "flushed", !.busy = busy] ELSE sweep

\* The UPDATE reaches only rows that exist.
CommitFlush(f) ==
  /\ SettleFlush(f, sweep.busy)
  /\ rows' = [s \in DOMAIN rows |->
                IF s \in DOMAIN f.acts THEN [rows[s] EXCEPT !.act = f.acts[s]] ELSE rows[s]]
  /\ UNCHANGED <<up, now, cache, streams, upserts, deletes, issued, deleted, faults>>

\* Mutant of FailFlush: the batch is lost.
FailFlush_Drops(f) ==
  /\ SettleFlush(f, {})
  /\ faults < MaxFaults
  /\ faults' = faults + 1
  /\ UNCHANGED <<up, now, cache, streams, rows, upserts, deletes, issued, deleted>>

\* The batch is marked dirty again, for the next tick of the timer.
FailFlush(f) ==
  /\ SettleFlush(f, {})
  /\ faults < MaxFaults
  /\ faults' = faults + 1
  /\ dirtyActivity' = dirtyActivity \cup f.ids
  /\ UNCHANGED <<up, now, sessions, byIngressToken, streams, rows, upserts, deletes, issued,
                 deleted>>

-----------------------------------------------------------------------------
(* Time, crashes and restarts *)

NothingInFlight == upserts = {} /\ deletes = {} /\ flushes = {} /\ sweep.phase = "idle"

Tick ==
  /\ now < MaxNow
  /\ NothingInFlight
  /\ now' = now + 1
  /\ UNCHANGED <<up, cache, streams, rows, inFlight, sweep, issued, deleted, faults>>

\* The process dies: its memory, its sockets and what it had not yet got done go with it.
Crash ==
  /\ up
  /\ faults < MaxFaults
  /\ faults' = faults + 1
  /\ up' = FALSE
  /\ sessions' = EmptyMap
  /\ byIngressToken' = EmptyMap
  /\ dirtyActivity' = {}
  /\ streams' = EmptyMap
  /\ upserts' = {}
  /\ deletes' = {}
  /\ flushes' = {}
  /\ sweep' = SweepIdle
  /\ UNCHANGED <<now, rows, issued, deleted>>

\* Mutant of Hydrate: a record with no response slot.
Hydrate_NoSse(r) == [tok |-> r.tok, act |-> r.act, conn |-> FALSE]

\* A row as load() puts it in the cache: nobody is connected.
Hydrate(r) == [tok |-> r.tok, act |-> r.act, conn |-> FALSE, sse |-> None]

\* Boot: load(), then the sweep that is awaited before the server listens.  A
\* failure of that sweep is logged and does not stop the boot.
Restart ==
  /\ ~up
  /\ up' = TRUE
  /\ \/ rows' = Remove(rows, StaleRows)
     \/ faults < MaxFaults /\ rows' = rows
  /\ faults' = IF rows' = Remove(rows, StaleRows) THEN faults ELSE faults + 1
  /\ LET loaded == {s \in DOMAIN rows' : InLoadWindow(rows[s].act)} IN
       /\ sessions' = [s \in loaded |-> Hydrate(rows[s])]
       /\ byIngressToken' = [t \in {rows[s].tok : s \in loaded} |->
                               CHOOSE s \in loaded : rows[s].tok = t]
  /\ UNCHANGED <<now, dirtyActivity, streams, inFlight, sweep, issued, deleted>>

-----------------------------------------------------------------------------

Requests ==
  \/ \E s \in Sid, t \in Token :
       PushSessionWork(s, t) \/ CreateReplSession(s, t) \/ RecreateSession(s, t)
  \/ \E s \in Sid : UpdateSessionMeta(s) \/ SendToChild(s) \/ DeleteSession(s)
  \/ \E t \in Token : PostEvents(t) \/ \E x \in Stream : OpenStream(t, x)
  \/ \E x \in Stream : CloseStream(x)
  \/ MarkEnvOffline

Timers == FlushTimer \/ SweepBegin

Commits ==
  \/ \E u \in upserts : CommitUpsert(u)
  \/ \E s \in deletes : CommitDelete(s)
  \/ \E f \in flushes : CommitFlush(f)
  \/ SweepDelete

Failures ==
  \/ \E u \in upserts : FailUpsert(u)
  \/ \E s \in deletes : FailDelete(s)
  \/ \E f \in flushes : FailFlush(f)
  \/ SweepFail
  \/ Crash

Next ==
  \/ Requests
  \/ Timers
  \/ Commits
  \/ Failures
  \/ SweepSnapshot
  \/ SweepForget
  \/ Restart
  \/ Tick

Spec == Init /\ [][Next]_vars

\* The two intervals keep firing, and PostgreSQL answers what it was sent.  No
\* fairness on requests, on failures or on time.
Fairness ==
  /\ WF_vars(FlushTimer)
  /\ WF_vars(SweepBegin)
  /\ WF_vars(SweepSnapshot)
  /\ WF_vars(SweepDelete)
  /\ WF_vars(SweepForget)
  /\ WF_vars(Restart)
  /\ \A s \in Sid : WF_vars(CommitDelete(s))
  /\ WF_vars(\E u \in upserts : CommitUpsert(u))
  /\ WF_vars(\E f \in flushes : CommitFlush(f))

FairSpec == Spec /\ Fairness

-----------------------------------------------------------------------------
(* Safety *)

\* The token index and the session cache describe each other exactly, through
\* creation, deletion, the sweep's deferred forget and a reload: a token
\* authenticates iff a cached session holds it, and to that session only.
TokenIndexExact ==
  /\ \A s \in Cached : /\ sessions[s].tok \in DOMAIN byIngressToken
                       /\ byIngressToken[sessions[s].tok] = s
  /\ \A t \in DOMAIN byIngressToken : /\ byIngressToken[t] \in Cached
                                      /\ sessions[byIngressToken[t]].tok = t

\* A record marked connected holds a response, and a response a record holds is
\* open and was opened for that session: sendToChild never writes to a stream
\* whose close was already handled, however reconnects and recreations interleave.
ChannelLive ==
  \A s \in Cached :
    /\ sessions[s].conn => sessions[s].sse # None
    /\ sessions[s].sse # None => /\ sessions[s].sse \in DOMAIN streams
                                 /\ streams[sessions[s].sse].sid = s

\* Token t stands for session s in the index, in a row, or in a write in flight.
Means(t, s) ==
  \/ t \in DOMAIN byIngressToken /\ byIngressToken[t] = s
  \/ s \in DOMAIN rows /\ rows[s].tok = t
  \/ \E u \in upserts : u.tok = t /\ u.sid = s

\* A token is generated before it means anything, and never comes to mean another
\* session: not in the index, not in PostgreSQL, not in a write still in flight.
TokenMeansOneSession ==
  \A t \in Token, s \in Sid :
    Means(t, s) => /\ t \in issued /\ s \in issued
                   /\ \A s2 \in Sid : Means(t, s2) => s2 = s

\* A child holds a stream it opened with the cached record's token.
HasStream(s) == \E x \in DOMAIN streams : streams[x].tok = sessions[s].tok

\* With one stream per session at a time, the record's view of its child is
\* exact: connected iff a stream is open.  (Sessions of an environment can be
\* marked offline under an open stream.)
ConnectedExact ==
  ReconnectOverlaps \/ \A s \in ReplSid \cap Cached : sessions[s].conn <=> HasStream(s)

\* Deleting an /rc session on request never takes away a session whose child
\* holds an open stream ("Refused while a claude is still connected").
DeleteKeepsLive ==
  [][up' /\ sweep' = sweep =>
       \A s \in ReplSid \cap Cached : HasStream(s) => s \in DOMAIN sessions']_vars

\* The sweep never forgets a session whose child holds an open stream ("Connected
\* sessions are exempt no matter how old their last event is").
SweepKeepsLive ==
  [][up' /\ sweep' # sweep =>
       \A s \in ReplSid \cap Cached : HasStream(s) => s \in DOMAIN sessions']_vars

\* What the sweep can promise: it never forgets a session that was connected when
\* its DELETE was built and has been in the cache since, nor one that PostgreSQL
\* did not report gone.
SweepHonoursKeep ==
  [][up' /\ sweep.phase = "returned" /\ sweep'.phase = "idle" =>
       /\ sweep.keep \cap Cached \subseteq DOMAIN sessions'
       /\ Cached \ DOMAIN sessions' \subseteq sweep.gone]_vars

\* "The pending bumps are flushed FIRST": a session with a recent bump pending when
\* the sweep begins is not deleted by it, as long as that flush succeeds and no
\* other one is in flight.
SweepSparesBusy == sweep.gone \cap sweep.busy = {}

\* A deleted session stays deleted, across reloads and late flushes, unless it is
\* made again or a write of it was still in flight when its DELETE took effect.
DeletedStaysDeleted == deleted \cap Cached = {}

\* What is forgotten is forgotten rightly, and for good: the sweep takes neither a session
\* exempted from it nor one whose activity it was to wait for, and what was deleted does
\* not come back.  (store.ts:382-433)
ForgottenRightly == [](SweepSparesBusy /\ DeletedStaysDeleted) /\ SweepHonoursKeep

\* A record knows whether its child is there, and so deletion spares the child that is.
\* (index.ts:295-305, store.ts:374-389)
LiveKept == []ConnectedExact /\ DeleteKeepsLive

-----------------------------------------------------------------------------
(* Liveness *)

\* A bump of last_activity reaches the session's row, unless the session or the
\* row is deleted or the process dies first: emptying the dirty set before the
\* UPDATE, and re-marking it on failure, loses none.
BumpReachesRow ==
  \A s \in Sid, a \in Time :
    (s \in dirtyActivity \cap Cached /\ sessions[s].act = a)
      ~> (s \notin Cached \/ s \notin DOMAIN rows \/ rows[s].act >= a)

\* Retention makes progress: a row past the TTL is deleted, cached or not, unless
\* its session comes back to life.
StaleIsSwept ==
  \A s \in Sid :
    (s \in DOMAIN rows /\ Stale(rows[s].act))
      ~> (s \notin DOMAIN rows \/ ~Stale(rows[s].act) \/ s \in Connected)

\* The two timers do their work: what is busy is written down, what is stale is swept.
\* (store.ts:200-207, 405-423)
TimersWork == BumpReachesRow /\ StaleIsSwept
=============================================================================
