---------------------------- MODULE Environments ----------------------------
(***************************************************************************)
(* Environments and their work queue (src/server/store.ts:288-323,         *)
(* 436-446, 641-645) behind the bridge control plane                       *)
(* (src/server/index.ts:243-273), in one process with module Accounts,     *)
(* whose tokens every registration presents and whose crashes and restarts *)
(* it shares.  A registration awaits two statements; between them, or      *)
(* before, the same environment may register again, be polled, or be       *)
(* deregistered, and a session be deleted.                                 *)
(*                                                                         *)
(* A session is here its owner, its environment and whether a child is     *)
(* connected; module SessionStore has the rest of it, and the statements   *)
(* of a deletion.  A statement a dying process had sent commits, or not,   *)
(* before the next process reads the tables.  The map of work handed out   *)
(* and not acknowledged is left out: nothing reads it.                     *)
(***************************************************************************)
EXTENDS Accounts, Sequences

CONSTANTS
  EnvIds,        \* environment ids
  BridgeSlots,   \* bound: registrations of environments in progress at once
  MaxSessions    \* bound: sessions created

SessionIds == 1 .. MaxSessions   \* in the order they are drawn

ASSUME EnvironmentsOK == MaxSessions \in Nat

VARIABLES
  envs,         \* Store.envs
  sessions,     \* Store.sessions, those of environments
  envRows,      \* PostgreSQL: table environments, id to owner
  sessionRows,  \* PostgreSQL: table sessions
  bridging,     \* POST /v1/environments/bridge in progress, by slot
  bridges,      \* the injectors: the id each uses, with the token it presents
  streams,      \* sessions whose child holds its event stream open
  drawn,        \* sessions created so far
  polled,       \* history: work handed out, in order
  dropped,      \* history: work lost with a replaced queue or a dead process
  deleted,      \* history: sessions deleted
  offline       \* history: sessions whose environment was deregistered under their stream

envMemory == <<envs, sessions, bridging, streams>>
envTables == <<envRows, sessionRows>>
work == <<polled, dropped>>
envVars == <<envMemory, envTables, bridges, drawn, work, deleted, offline>>

Env == [credential : Tokens, online : BOOLEAN, queue : Seq(SessionIds)]
SessionRow == [credential : Tokens, env : EnvIds]
Session == [credential : Tokens, env : EnvIds, conn : BOOLEAN]
Bridging == [env : EnvIds, phase : {"env"}, sid : {None}]
            \cup [env : EnvIds, phase : {"session"}, sid : SessionIds]

Typed(f, S, T) == DOMAIN f \in SUBSET S /\ \A x \in DOMAIN f : f[x] \in T

EnvTypeOK ==
  /\ TypeOK
  /\ Typed(envs, EnvIds, Env)
  /\ Typed(sessions, SessionIds, Session)
  /\ Typed(envRows, EnvIds, Tokens)
  /\ Typed(sessionRows, SessionIds, SessionRow)
  /\ Typed(bridging, BridgeSlots, Bridging)
  /\ Typed(bridges, EnvIds, Tokens)
  /\ {streams, dropped, deleted, offline} \subseteq SUBSET SessionIds
  /\ drawn \in 0 .. MaxSessions
  /\ polled \in Seq(SessionIds)

EnvInit ==
  /\ envs = EmptyMap
  /\ sessions = EmptyMap
  /\ envRows = EmptyMap
  /\ sessionRows = EmptyMap
  /\ bridging = EmptyMap
  /\ bridges = EmptyMap
  /\ streams = {}
  /\ dropped = {}
  /\ deleted = {}
  /\ offline = {}
  /\ drawn = 0
  /\ polled = <<>>

Polled == {polled[i] : i \in DOMAIN polled}

-----------------------------------------------------------------------------
(* Registration: two awaits *)

\* createEnv: the record is new, whatever the id; a queue it replaces is gone.
createEnv(t) == [credential |-> t, online |-> TRUE, queue |-> <<>>]

Queued(e) == IF e \in DOMAIN envs THEN {envs[e].queue[i] : i \in DOMAIN envs[e].queue} ELSE {}

\* The injector registers with a new id, or again with the one it used before, whether or not the
\* server still knows that and the first answer has come.
Register(e, t) ==
  /\ up
  /\ DOMAIN bridging # BridgeSlots
  /\ Accepted(t)
  /\ e \in DOMAIN bridges => bridges[e] = t
  /\ bridges' = Put(bridges, e, t)
  /\ envs' = Put(envs, e, createEnv(t))
  /\ dropped' = dropped \cup Queued(e)
  /\ bridging' = Put(bridging, CHOOSE b \in BridgeSlots \ DOMAIN bridging : TRUE,
                     [env |-> e, phase |-> "env", sid |-> None])
  /\ UNCHANGED <<sessions, streams, envTables, drawn, polled, deleted, offline>>

\* Mutant of EnvSavedRows: two columns of the INSERT are swapped.
EnvSavedRows_Swapped(b) == Put(envRows, envs[bridging[b].env].credential, bridging[b].env)

\* The rows a registration's statements write.
EnvSavedRows(b) == Put(envRows, bridging[b].env, envs[bridging[b].env].credential)
SessionSavedRows(b) ==
  Put(sessionRows, bridging[b].sid,
      [credential |-> envs[bridging[b].env].credential, env |-> bridging[b].env])

push(q, s) == Append(q, s)

\* upsertEnv is done; pushSessionWork looks the environment up again, which may by now be another
\* record, and goes on to its own await.
EnvSaved(b) ==
  /\ b \in DOMAIN bridging
  /\ bridging[b].phase = "env"
  /\ drawn < MaxSessions
  /\ LET e == bridging[b].env  s == drawn + 1  owner == envs[e].credential
     IN /\ envRows' = EnvSavedRows(b)
        /\ sessions' = Put(sessions, s, [credential |-> owner, env |-> e, conn |-> FALSE])
        /\ envs' = [envs EXCEPT ![e].queue = push(@, s)]
        /\ drawn' = s
        /\ bridging' = [bridging EXCEPT ![b].phase = "session", ![b].sid = s]
  /\ UNCHANGED <<streams, sessionRows, bridges, work, deleted, offline>>

\* upsertSession is done, even if the session was deleted meanwhile.
SessionSaved(b) ==
  /\ b \in DOMAIN bridging
  /\ bridging[b].phase = "session"
  /\ sessionRows' = SessionSavedRows(b)
  /\ bridging' = Without(bridging, b)
  /\ UNCHANGED <<envs, sessions, streams, envRows, bridges, drawn, work, deleted, offline>>

\* A statement fails, perhaps after its commit: the answer is 500, memory stays as it is.
SaveFails(b, committed) ==
  /\ b \in DOMAIN bridging
  /\ envRows' = IF committed /\ bridging[b].phase = "env" THEN EnvSavedRows(b) ELSE envRows
  /\ sessionRows' = IF committed /\ bridging[b].phase = "session" THEN SessionSavedRows(b) ELSE sessionRows
  /\ bridging' = Without(bridging, b)
  /\ UNCHANGED <<envs, sessions, streams, bridges, drawn, work, deleted, offline>>

-----------------------------------------------------------------------------
(* Work *)

\* Mutant of nextWork: handing out the head empties the queue.
nextWork_Drains(env) == [env EXCEPT !.queue = <<>>]

nextWork(env) == [env EXCEPT !.queue = Tail(@)]

\* Mutant of HasWork: a queue of one is taken for empty.
HasWork_OffByOne(e) == e \in DOMAIN envs /\ Len(envs[e].queue) > 1

HasWork(e) == e \in DOMAIN envs /\ envs[e].queue # <<>>

Poll(e) ==
  /\ up
  /\ HasWork(e)
  /\ polled' = Append(polled, Head(envs[e].queue))
  /\ envs' = [envs EXCEPT ![e] = nextWork(@)]
  /\ UNCHANGED <<sessions, bridging, streams, envTables, bridges, drawn, dropped, deleted, offline>>

-----------------------------------------------------------------------------
(* The child of a session, the end of an environment, deletion *)

markWsConnected(s, c) == IF s \in DOMAIN sessions THEN [sessions EXCEPT ![s].conn = c] ELSE sessions

\* The child a bridge started for the work: a session no longer known is answered 401.
OpenStream(s) ==
  /\ up
  /\ s \in (Polled \cap DOMAIN sessions) \ streams
  /\ streams' = streams \cup {s}
  /\ sessions' = markWsConnected(s, TRUE)
  /\ UNCHANGED <<envs, bridging, envTables, bridges, drawn, work, deleted, offline>>

CloseStream(s) ==
  /\ s \in streams
  /\ streams' = streams \ {s}
  /\ sessions' = markWsConnected(s, FALSE)
  /\ offline' = offline \ {s}
  /\ UNCHANGED <<envs, bridging, envTables, bridges, drawn, work, deleted>>

\* Mutant of InEnv: an environment takes every session of its owner with it.
InEnv_Owner(s, e) == sessions[s].credential = envs[e].credential

InEnv(s, e) == sessions[s].env = e

\* The handler of DELETE /v1/environments/bridge/{id}, with markEnvOffline.
Deregister(e) ==
  /\ up
  /\ e \in DOMAIN envs
  /\ envs' = [envs EXCEPT ![e].online = FALSE]
  /\ sessions' = [s \in DOMAIN sessions |->
                    IF InEnv(s, e) THEN [sessions[s] EXCEPT !.conn = FALSE] ELSE sessions[s]]
  /\ offline' = offline \cup {s \in streams \cap DOMAIN sessions : sessions[s].env = e}
  /\ UNCHANGED <<bridging, streams, envTables, bridges, drawn, work, deleted>>

\* Its work, if not polled yet, stays in the queue.
DeleteSession(s) ==
  /\ up
  /\ s \in DOMAIN sessions
  /\ ~sessions[s].conn
  /\ sessions' = Without(sessions, s)
  /\ sessionRows' = Without(sessionRows, s)
  /\ deleted' = deleted \cup {s}
  /\ UNCHANGED <<envs, bridging, streams, envRows, bridges, drawn, work, offline>>

-----------------------------------------------------------------------------
(* The process *)

\* The statements in flight commit, or do not.
EnvCrash ==
  /\ Crash
  /\ \E done \in SUBSET DOMAIN bridging :
       LET sent(p) == {b \in done : bridging[b].phase = p}
           late == {[s |-> bridging[b].sid, row |-> SessionSavedRows(b)[bridging[b].sid]] : b \in sent("session")}
       IN /\ envRows' = [e \in DOMAIN envRows \cup {bridging[b].env : b \in sent("env")} |-> envs[e].credential]
          /\ sessionRows' = [s \in DOMAIN sessionRows \cup {l.s : l \in late} |->
               IF s \in DOMAIN sessionRows THEN sessionRows[s] ELSE (CHOOSE l \in late : l.s = s).row]
  /\ envs' = EmptyMap
  /\ sessions' = EmptyMap
  /\ bridging' = EmptyMap
  /\ streams' = {}
  /\ dropped' = dropped \cup UNION {Queued(e) : e \in DOMAIN envs}
  /\ offline' = {}
  /\ UNCHANGED <<bridges, drawn, polled, deleted>>

\* load(): no queue survives, nobody is connected.
EnvRestart ==
  /\ Restart
  /\ envs' = [e \in DOMAIN envRows |-> [createEnv(envRows[e]) EXCEPT !.online = FALSE]]
  /\ sessions' = [s \in DOMAIN sessionRows |->
       [credential |-> sessionRows[s].credential, env |-> sessionRows[s].env, conn |-> FALSE]]
  /\ UNCHANGED <<bridging, streams, envTables, bridges, drawn, work, deleted, offline>>

EnvNext ==
  \/ \E e \in EnvIds, t \in Tokens : Register(e, t)
  \/ \E b \in BridgeSlots : EnvSaved(b) \/ SessionSaved(b) \/ \E c \in BOOLEAN : SaveFails(b, c)
  \/ \E e \in EnvIds : Poll(e) \/ Deregister(e)
  \/ \E s \in SessionIds : OpenStream(s) \/ CloseStream(s) \/ DeleteSession(s)

ControlInit == Init /\ EnvInit

ControlNext ==
  \/ EnvNext /\ UNCHANGED accountVars
  \/ EnvCrash
  \/ EnvRestart
  \/ \E s \in Slots : Serve(s) /\ UNCHANGED envVars
  \/ Tick /\ UNCHANGED envVars
  \/ (\E o \in orphans, c \in BOOLEAN : OrphanSettles(o, c)) /\ UNCHANGED envVars

\* A bridge polls at the interval it was told, until it deregisters.
ControlSpec ==
  /\ ControlInit
  /\ [][ControlNext]_<<accountVars, envVars>>
  /\ \A e \in EnvIds : WF_<<accountVars, envVars>>(e \in DOMAIN envs /\ envs[e].online /\ Poll(e) /\ UNCHANGED accountVars)

-----------------------------------------------------------------------------
(* Properties *)

\* The work of one environment is handed out in the order it was queued, and no work twice,
\* across registrations that overlap and across restarts.  (store.ts:436-442)
WorkInOrder ==
  \A i, j \in DOMAIN polled : i < j =>
    /\ polled[i] # polled[j]
    /\ polled[i] \in DOMAIN sessions /\ polled[j] \in DOMAIN sessions
       /\ sessions[polled[i]].env = sessions[polled[j]].env => polled[i] < polled[j]

\* Work not yet handed out is in the queue of the record its environment has now, whichever of
\* two registrations made that record, or was lost with a replaced queue or a crash.  The session
\* it names is known, unless it was deleted.  (store.ts:293-320)
WorkKept ==
  \A s \in 1 .. drawn :
    \/ s \in Polled \cup dropped
    \/ \E e \in DOMAIN envs : s \in Queued(e) /\ (s \in DOMAIN sessions \/ s \in deleted)

\* Work goes to the environment it was made for, once and in order, or is known to be lost.
WorkHonest == WorkInOrder /\ WorkKept

\* A session whose child holds a stream is connected, and so safe from deletion, unless its
\* environment was deregistered under that stream.  (store.ts:641-645)
StreamMeansConnected ==
  \A s \in streams \ offline : s \in DOMAIN sessions /\ sessions[s].conn

\* Whoever owns an environment or a session in memory is an account the process accepts, after a
\* restart as before it.  (store.ts:210-231)
OwnersAccepted ==
  up => /\ \A e \in DOMAIN envs : Accepted(envs[e].credential)
        /\ \A s \in DOMAIN sessions : Accepted(sessions[s].credential)

\* Of every session memory knows who owns it and whether its child is there.
SessionsHonest == StreamMeansConnected /\ OwnersAccepted

\* Queued work is handed out, unless it is lost or its bridge goes away.  (index.ts:259)
EventuallyPolled ==
  \A s \in SessionIds :
    drawn >= s ~> s \in Polled \cup dropped \/ \E e \in DOMAIN envs : s \in Queued(e) /\ ~envs[e].online
=============================================================================
