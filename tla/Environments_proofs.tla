-------------------------- MODULE Environments_proofs --------------------------
(***************************************************************************)
(* Proofs about Environments and the accounts it shares a process with,    *)
(* for every set of names, tokens, environments and requests and every     *)
(* value of the bounds: type correctness; that work goes to the            *)
(* environment it was made for, once and in order, or is known to be lost; *)
(* and that streams mean connected sessions and owners are accepted.       *)
(***************************************************************************)
EXTENDS Environments, Accounts_proofs, SequenceTheorems

-----------------------------------------------------------------------------
(* The inductive invariant *)

\* A token in the index leads to the account that presents it.
IndexTrue ==
  \A t \in DOMAIN byToken : byToken[t] \in DOMAIN users /\ users[byToken[t]].token = t

\* A bridge presents one token with its id, of an account in the table; the process, when it takes
\* requests, accepts it.
BridgesTrue ==
  \A e \in DOMAIN bridges : bridges[e] \in TableTokens /\ (up => Accepted(bridges[e]))

\* An environment and its sessions belong to the account whose token their bridge presents.
OwnedBy(c, e) == e \in DOMAIN bridges /\ c = bridges[e]

OwnersTrue ==
  /\ \A e \in DOMAIN envs : OwnedBy(envs[e].credential, e)
  /\ \A e \in DOMAIN envRows : OwnedBy(envRows[e], e)
  /\ \A s \in DOMAIN sessions : OwnedBy(sessions[s].credential, sessions[s].env)
  /\ \A s \in DOMAIN sessionRows : OwnedBy(sessionRows[s].credential, sessionRows[s].env)

\* A registration waits for an environment of memory; a dead process has no memory and no streams.
MemoryTrue ==
  /\ \A b \in DOMAIN bridging : bridging[b].env \in DOMAIN envs
  /\ up => DOMAIN envRows \subseteq DOMAIN envs
  /\ ~up => DOMAIN envs = {} /\ DOMAIN sessions = {} /\ DOMAIN bridging = {} /\ streams = {}

\* The session was made for the environment, as memory, the table or a registration has it.
Made(s, e) ==
  \/ s \in DOMAIN sessions /\ sessions[s].env = e
  \/ s \in DOMAIN sessionRows /\ sessionRows[s].env = e
  \/ \E b \in DOMAIN bridging : bridging[b].phase = "session" /\ bridging[b].sid = s /\ bridging[b].env = e

\* A session is drawn once, for one environment.
MadeOnce ==
  \A s, e : Made(s, e) => s \in 1 .. drawn /\ \A f : Made(s, f) => e = f

\* Every piece of work is in one queue or has been handed out, and stands behind the earlier work of
\* its environment wherever it is.
WorkPlaced ==
  /\ \A i \in DOMAIN polled : polled[i] \in 1 .. drawn
  /\ streams \subseteq Polled
  /\ \A e \in DOMAIN envs : \A s \in Queued(e) :
       /\ s \in 1 .. drawn \ Polled
       /\ \A f \in DOMAIN envs : s \in Queued(f) => e = f
       /\ \A f : Made(s, f) => e = f

WorkSorted ==
  /\ \A e \in DOMAIN envs : \A i, j \in DOMAIN envs[e].queue : i < j => envs[e].queue[i] < envs[e].queue[j]
  /\ \A i, j \in DOMAIN polled : i < j =>
       polled[i] # polled[j] /\ \A e : Made(polled[i], e) /\ Made(polled[j], e) => polled[i] < polled[j]
  /\ \A e \in DOMAIN envs : \A p \in Polled, s \in Queued(e) : Made(p, e) => p < s

EnvInv ==
  /\ IndexTrue /\ BridgesTrue /\ OwnersTrue /\ MemoryTrue
  /\ EnvTypeOK /\ MadeOnce /\ WorkPlaced /\ WorkSorted /\ WorkKept /\ StreamMeansConnected

-----------------------------------------------------------------------------
(* Maps and queues *)

\* Map.set and Map.delete keep a map well typed.
LEMMA TypedPut ==
  ASSUME NEW S, NEW T, NEW f, Typed(f, S, T), NEW k \in S, NEW v \in T
  PROVE  Typed(Put(f, k, v), S, T)
  <1> DEFINE g == Put(f, k, v)
  <1>1. DOMAIN g = DOMAIN f \cup {k} /\ g[k] = v /\ \A x \in DOMAIN f : x # k => g[x] = f[x]
    BY DEF Put
  <1> HIDE DEF g
  <1>2. Typed(g, S, T)
    BY <1>1 DEF Typed
  <1> QED
    BY <1>2 DEF g

\* Map.delete keeps a map well typed.
LEMMA TypedWithout ==
  ASSUME NEW S, NEW T, NEW f, NEW k, Typed(f, S, T)
  PROVE  Typed(Without(f, k), S, T)
  BY DEF Typed, Without, Restrict

-----------------------------------------------------------------------------
(* Accounts: what a token is worth *)

\* A step of the control plane is a step of the accounts, or none.
LEMMA ControlServes ==
  ASSUME [ControlNext]_<<accountVars, envVars>>
  PROVE  [Next]_accountVars
  BY DEF ControlNext, EnvCrash, EnvRestart, Next

\* Rows of the table stay.
LEMMA TokensStay ==
  ASSUME IInv, [Next]_accountVars, NEW t \in TableTokens
  PROVE  t \in TableTokens'
  <1>1. \A u, row : Sent(u, row) => t \in TableTokens'
    BY DEF Sent, insertUser, Put, TableTokens
  <1>2. table' = table => t \in TableTokens'
    BY DEF TableTokens
  <1> QED
    BY <1>1, <1>2 DEF Next, Serve, Sent, StartRegister, StartLogin, Hashed, InsertUser, InsertFails, Registered, LoginRefused,
      LoginVerified, LoginAnswered, Tick, Crash, Restart, OrphanSettles, accountVars

\* The index stays true.
LEMMA IndexStep ==
  ASSUME IInv, IndexTrue, [Next]_accountVars
  PROVE  IndexTrue'
  <1>1. ASSUME NEW s, Registered(s), registering[s].phase = "won"
        PROVE  IndexTrue'
    <2> DEFINE u == registering[s].user  k == RowOf(registering[s]).token
    <2>1. /\ u \notin DOMAIN users
          /\ users' = Put(users, u, RowOf(registering[s])) /\ byToken' = Put(byToken, k, u)
      BY <1>1 DEF Registered, IInv, WinnersFirst
    <2> HIDE DEF u, k
    <2>2. /\ DOMAIN users' = DOMAIN users \cup {u} /\ users'[u].token = k
          /\ \A x \in DOMAIN users : users'[x] = users[x]
      BY <2>1 DEF Put, k
    <2>3. /\ DOMAIN byToken' = DOMAIN byToken \cup {k} /\ byToken'[k] = u
          /\ \A x \in DOMAIN byToken : x # k => byToken'[x] = byToken[x]
      BY <2>1 DEF Put
    <2> QED
      BY <2>2, <2>3 DEF IndexTrue
  <1>2. CASE Restart
    <2>1. users' = table /\ byToken' = Index(table)
      BY <1>2 DEF Restart
    <2> QED
      BY <2>1 DEF Index, IndexTrue
  <1>3. CASE Crash
    BY <1>3, EmptyIs DEF Crash, IndexTrue
  <1>4. CASE UNCHANGED <<users, byToken>>
    BY <1>4 DEF IndexTrue
  <1>5. ASSUME NEW s, Registered(s)
        PROVE  (registering[s].phase = "won") \/ UNCHANGED <<users, byToken>>
    BY <1>5 DEF Registered
  <1> QED
    BY <1>1, <1>2, <1>3, <1>4, <1>5 DEF Next, Serve, StartRegister, StartLogin, Hashed, InsertUser, InsertFails, LoginRefused,
      LoginVerified, LoginAnswered, Tick, OrphanSettles, accountVars, memory

\* A token is accepted iff a known account presents it, and then the table has it.
LEMMA AcceptedIs ==
  ASSUME IInv, IndexTrue, NEW t
  PROVE  /\ Accepted(t) <=> \E u \in DOMAIN users : users[u].token = t
         /\ Accepted(t) => t \in TableTokens
  <1>1. \A u \in DOMAIN users : u # None /\ u \in DOMAIN table /\ users[u] = table[u]
    BY AccountsOK, PartialFnIs DEF IInv, TypeOK, CacheTrue
  <1>2. Accepted(t) => t \in DOMAIN byToken /\ byToken[t] \in DOMAIN users
    BY DEF Accepted, userByToken
  <1>3. Accepted(t) => \E u \in DOMAIN users : users[u].token = t
    BY <1>2 DEF IndexTrue
  <1>4. ASSUME NEW u \in DOMAIN users, users[u].token = t
        PROVE  Accepted(t)
    <2>1. t \in DOMAIN byToken /\ byToken[t] = u
      BY <1>4 DEF IInv, CacheTrue
    <2> QED
      BY <1>1, <2>1 DEF Accepted, userByToken
  <1>5. ASSUME NEW u \in DOMAIN users, users[u].token = t
        PROVE  t \in TableTokens
    BY <1>1, <1>5 DEF TableTokens
  <1> QED
    BY <1>3, <1>4, <1>5

\* A token of the table that is accepted stays so while the process lives, and is again when it is back.
LEMMA AcceptedStays ==
  ASSUME IInv, IndexTrue, [Next]_accountVars, NEW t \in TableTokens, up => Accepted(t)
  PROVE  up' => Accepted(t)'
  <1>1. IInv' /\ IndexTrue'
    BY StepInv, IndexStep
  <1>2. ASSUME NEW u \in DOMAIN users', users'[u].token = t
        PROVE  Accepted(t)'
    <2>1. u # None
      BY <1>1, AccountsOK, PartialFnIs DEF IInv, TypeOK
    <2>2. t \in DOMAIN byToken' /\ byToken'[t] = u
      BY <1>1, <1>2 DEF IInv, CacheTrue
    <2> QED
      BY <2>1, <2>2 DEF Accepted, userByToken
  <1>3. CASE Restart
    <2>1. users' = table
      BY <1>3 DEF Restart
    <2> QED
      BY <1>2, <2>1 DEF TableTokens
  <1>4. CASE Crash
    BY <1>4 DEF Crash
  <1>5. CASE UNCHANGED <<up, users>>
    <2>1. up => \E u \in DOMAIN users : users[u].token = t
      BY AcceptedIs
    <2> QED
      BY <1>2, <1>5, <2>1
  <1>6. ASSUME NEW s, Registered(s), ~ UNCHANGED users
        PROVE  up' => Accepted(t)'
    <2> DEFINE v == registering[s].user
    <2>1. up' = up /\ v \notin DOMAIN users /\ users' = Put(users, v, RowOf(registering[s]))
      BY <1>6 DEF Registered, IInv, WinnersFirst
    <2> HIDE DEF v
    <2>2. up => \E u \in DOMAIN users : users[u].token = t
      BY AcceptedIs
    <2>3. \A u \in DOMAIN users : u \in DOMAIN users' /\ users'[u] = users[u]
      BY <2>1 DEF Put
    <2> QED
      BY <1>2, <2>1, <2>2, <2>3
  <1>7. ASSUME NEW s, Registered(s)
        PROVE  up' = up
    BY <1>7 DEF Registered
  <1> QED
    BY <1>3, <1>4, <1>5, <1>6, <1>7 DEF Next, Serve, StartRegister, StartLogin, Hashed, InsertUser, InsertFails, LoginRefused,
      LoginVerified, LoginAnswered, Tick, OrphanSettles, accountVars, memory

-----------------------------------------------------------------------------
(* What the larger steps do, key by key *)

\* Work queued is sessions drawn from the bound.
LEMMA QueueTyped ==
  ASSUME EnvTypeOK
  PROVE  /\ \A e \in DOMAIN envs : /\ envs[e] \in Env /\ e \in EnvIds
                                   /\ envs[e].queue \in Seq(SessionIds)
                                   /\ Queued(e) = {envs[e].queue[i] : i \in DOMAIN envs[e].queue}
         /\ \A e : Queued(e) \subseteq SessionIds
  <1>1. \A e \in DOMAIN envs : envs[e] \in Env /\ e \in EnvIds
    BY DEF EnvTypeOK, Typed
  <1>2. \A e \in DOMAIN envs : envs[e].queue \in Seq(SessionIds)
    BY <1>1 DEF Env
  <1>3. \A q \in Seq(SessionIds) : \A i \in DOMAIN q : q[i] \in SessionIds
    OBVIOUS
  <1>4. \A e : Queued(e) \subseteq SessionIds
    BY <1>2, <1>3 DEF Queued
  <1> QED
    BY <1>1, <1>2, <1>4 DEF Queued

\* The registration takes a slot that is free.
LEMMA RegisterDoes ==
  ASSUME EnvTypeOK, NEW e \in EnvIds, NEW t \in Tokens, Register(e, t)
  PROVE  /\ up /\ Accepted(t) /\ (e \in DOMAIN bridges => bridges[e] = t)
         /\ bridges' = Put(bridges, e, t) /\ envs' = Put(envs, e, createEnv(t))
         /\ dropped' = dropped \cup Queued(e)
         /\ \E b \in BridgeSlots \ DOMAIN bridging :
              bridging' = Put(bridging, b, [env |-> e, phase |-> "env", sid |-> None])
         /\ UNCHANGED <<sessions, streams, envRows, sessionRows, drawn, polled, deleted, offline>>
  <1>1. \E b : b \in BridgeSlots \ DOMAIN bridging
    BY DEF Register, EnvTypeOK, Typed
  <1>2. (CHOOSE b \in BridgeSlots \ DOMAIN bridging : TRUE) \in BridgeSlots \ DOMAIN bridging
    BY <1>1
  <1> QED
    BY <1>2 DEF Register, envTables

\* A record with another queue.
LEMMA QueueReplaced ==
  ASSUME NEW r \in Env, NEW q \in Seq(SessionIds), NEW n, n = [r EXCEPT !.queue = q]
  PROVE  n \in Env /\ n.queue = q /\ n.credential = r.credential
  BY DEF Env

\* The session drawn is entered in memory and queued with the record its environment has now.
LEMMA EnvSavedDoes ==
  ASSUME EnvTypeOK, MemoryTrue, NEW b, EnvSaved(b), NEW e, e = bridging[b].env, NEW s, s = drawn + 1
  PROVE  /\ b \in DOMAIN bridging /\ e \in DOMAIN envs /\ e \in EnvIds /\ envs[e] \in Env /\ s \in SessionIds
         /\ drawn' = s
         /\ DOMAIN envs' = DOMAIN envs /\ envs'[e] \in Env
         /\ envs'[e].queue = Append(envs[e].queue, s) /\ envs'[e].credential = envs[e].credential
         /\ \A x \in DOMAIN envs : x # e => envs'[x] = envs[x]
         /\ envRows' = Put(envRows, e, envs[e].credential)
         /\ sessions' = Put(sessions, s, [credential |-> envs[e].credential, env |-> e, conn |-> FALSE])
         /\ DOMAIN bridging' = DOMAIN bridging
         /\ bridging'[b] = [env |-> e, phase |-> "session", sid |-> s]
         /\ \A x \in DOMAIN bridging : x # b => bridging'[x] = bridging[x]
         /\ UNCHANGED <<streams, sessionRows, bridges, polled, dropped, deleted, offline>>
  <1>1. b \in DOMAIN bridging /\ e \in DOMAIN envs /\ bridging[b] \in Bridging /\ bridging[b].phase = "env"
    BY DEF EnvSaved, MemoryTrue, EnvTypeOK, Typed
  <1>2. envs[e] \in Env /\ e \in EnvIds /\ envs[e].queue \in Seq(SessionIds)
    BY <1>1, QueueTyped
  <1>3. s \in SessionIds /\ drawn' = s
    <2>1. drawn < MaxSessions /\ drawn \in Nat
      BY DEF EnvSaved, EnvTypeOK
    <2> QED
      BY <2>1, EnvironmentsOK DEF SessionIds, EnvSaved
  <1>4. /\ DOMAIN envs' = DOMAIN envs
        /\ envs'[e] = [envs[e] EXCEPT !.queue = Append(envs[e].queue, s)]
        /\ \A x \in DOMAIN envs : x # e => envs'[x] = envs[x]
    BY <1>1, <1>2 DEF EnvSaved, push
  <1>5. Append(envs[e].queue, s) \in Seq(SessionIds)
    BY <1>2, <1>3, AppendProperties
  <1>7. /\ envs'[e] \in Env /\ envs'[e].queue = Append(envs[e].queue, s)
        /\ envs'[e].credential = envs[e].credential
    <2>1. PICK r \in Env : r = envs[e]
      BY <1>2
    <2>2. PICK q \in Seq(SessionIds) : q = Append(envs[e].queue, s)
      BY <1>5
    <2>3. PICK n : n = envs'[e]
      OBVIOUS
    <2>4. n = [r EXCEPT !.queue = q]
      BY <1>4, <2>1, <2>2, <2>3
    <2>5. n \in Env /\ n.queue = q /\ n.credential = r.credential
      BY <2>4, QueueReplaced
    <2> QED
      BY <2>1, <2>2, <2>3, <2>5
  <1>8. /\ envRows' = Put(envRows, e, envs[e].credential)
        /\ sessions' = Put(sessions, s, [credential |-> envs[e].credential, env |-> e, conn |-> FALSE])
        /\ UNCHANGED <<streams, sessionRows, bridges, polled, dropped, deleted, offline>>
    BY DEF EnvSaved, EnvSavedRows, work
  <1>9. /\ DOMAIN bridging' = DOMAIN bridging
        /\ \A x \in DOMAIN bridging : x # b => bridging'[x] = bridging[x]
        /\ bridging'[b] = [bridging[b] EXCEPT !.phase = "session", !.sid = s]
    BY <1>1 DEF EnvSaved
  <1>10. bridging'[b] = [env |-> e, phase |-> "session", sid |-> s]
    BY <1>1, <1>9 DEF Bridging
  <1> QED
    BY <1>1, <1>2, <1>3, <1>4, <1>7, <1>8, <1>9, <1>10

\* The head of the queue goes, the rest moves up.
LEMMA PollDoes ==
  ASSUME EnvTypeOK, NEW e, Poll(e), NEW s, s = Head(envs[e].queue)
  PROVE  /\ up /\ e \in DOMAIN envs /\ s \in Queued(e) /\ s \in SessionIds
         /\ polled' = Append(polled, s)
         /\ DOMAIN envs' = DOMAIN envs /\ envs'[e] \in Env /\ envs'[e].credential = envs[e].credential
         /\ s = envs[e].queue[1] /\ 1 \in DOMAIN envs[e].queue
         /\ \A i \in DOMAIN envs'[e].queue : /\ i + 1 \in DOMAIN envs[e].queue /\ i + 1 > 1
                                             /\ envs'[e].queue[i] = envs[e].queue[i + 1]
         /\ \A i \in DOMAIN envs[e].queue : i # 1 => \E j \in DOMAIN envs'[e].queue : envs'[e].queue[j] = envs[e].queue[i]
         /\ \A x \in DOMAIN envs : x # e => envs'[x] = envs[x]
         /\ UNCHANGED <<sessions, bridging, streams, envRows, sessionRows, bridges, drawn, dropped, deleted, offline>>
  <1>1. /\ up /\ e \in DOMAIN envs /\ envs[e].queue # <<>> /\ polled' = Append(polled, s)
        /\ UNCHANGED <<sessions, bridging, streams, envRows, sessionRows, bridges, drawn, dropped, deleted, offline>>
    BY DEF Poll, HasWork, envTables
  <1> DEFINE q == envs[e].queue
  <1>2. envs[e] \in Env /\ e \in EnvIds /\ q \in Seq(SessionIds) /\ Queued(e) = {q[i] : i \in DOMAIN q}
    BY <1>1, QueueTyped
  <1>3. /\ DOMAIN envs' = DOMAIN envs
        /\ envs'[e] = [envs[e] EXCEPT !.queue = Tail(q)]
        /\ \A x \in DOMAIN envs : x # e => envs'[x] = envs[x]
    BY <1>1, <1>2 DEF Poll, nextWork
  <1> HIDE DEF q
  <1>5. /\ q # <<>> /\ Tail(q) \in Seq(SessionIds) /\ Len(Tail(q)) = Len(q) - 1 /\ Len(q) \in Nat \ {0}
        /\ \A i \in 1 .. Len(Tail(q)) : Tail(q)[i] = q[i + 1]
    <2>1. q # <<>>
      BY <1>1 DEF q
    <2> QED
      BY <1>2, <2>1, HeadTailProperties, EmptySeq, LenProperties
  <1>6. /\ DOMAIN Tail(q) = 1 .. Len(q) - 1 /\ DOMAIN q = 1 .. Len(q)
    BY <1>2, <1>5
  <1>7. /\ envs'[e] \in Env /\ envs'[e].queue = Tail(q) /\ envs'[e].credential = envs[e].credential
    <2>1. PICK r \in Env : r = envs[e]
      BY <1>2
    <2>2. PICK p \in Seq(SessionIds) : p = Tail(q)
      BY <1>5
    <2>3. PICK n : n = envs'[e]
      OBVIOUS
    <2>4. n = [r EXCEPT !.queue = p]
      BY <1>3, <2>1, <2>2, <2>3
    <2>5. n \in Env /\ n.queue = p /\ n.credential = r.credential
      BY <2>4, QueueReplaced
    <2> QED
      BY <2>1, <2>2, <2>3, <2>5
  <1>8. s = q[1] /\ 1 \in DOMAIN q
    BY <1>2, <1>5, <1>6 DEF q
  <1>9. \A i \in DOMAIN Tail(q) : i + 1 \in DOMAIN q /\ i + 1 > 1 /\ Tail(q)[i] = q[i + 1]
    BY <1>5, <1>6
  <1>10. ASSUME NEW i \in DOMAIN q, i # 1
         PROVE  \E j \in DOMAIN Tail(q) : Tail(q)[j] = q[i]
    <2>1. i - 1 \in DOMAIN Tail(q) /\ (i - 1) + 1 = i
      BY <1>5, <1>6, <1>10
    <2> QED
      BY <1>9, <2>1
  <1>11. s \in Queued(e) /\ s \in SessionIds
    BY <1>2, <1>8
  <1> QED
    BY <1>1, <1>3, <1>7, <1>8, <1>9, <1>10, <1>11 DEF q

\* The row a registration sends for its session.
SentRow(b) == [credential |-> envs[bridging[b].env].credential, env |-> bridging[b].env]

\* What a registration's statements write belongs to its environment.
LEMMA RowsSent ==
  ASSUME EnvTypeOK, MemoryTrue, NEW b \in DOMAIN bridging, NEW e, e = bridging[b].env
  PROVE  /\ e \in EnvIds /\ e \in DOMAIN envs /\ envs[e].credential \in Tokens
         /\ EnvSavedRows(b) = Put(envRows, e, envs[e].credential)
         /\ SentRow(b) \in SessionRow /\ SentRow(b).env = e /\ SentRow(b).credential = envs[e].credential
         /\ bridging[b].phase = "session" =>
              /\ bridging[b].sid \in SessionIds
              /\ SessionSavedRows(b) = Put(sessionRows, bridging[b].sid, SentRow(b))
  <1>1. e \in DOMAIN envs /\ bridging[b] \in Bridging
    BY DEF MemoryTrue, EnvTypeOK, Typed
  <1>2. e \in EnvIds /\ envs[e].credential \in Tokens
    BY <1>1, QueueTyped DEF Env
  <1>3. bridging[b].phase = "session" => bridging[b].sid \in SessionIds
    BY <1>1 DEF Bridging
  <1>4. SentRow(b) \in SessionRow /\ SentRow(b).env = e /\ SentRow(b).credential = envs[e].credential
    BY <1>2 DEF SentRow, SessionRow
  <1> QED
    BY <1>1, <1>2, <1>3, <1>4 DEF EnvSavedRows, SessionSavedRows, SentRow

\* A registration that is done, or that fails, leaves the rows as they were or as it wrote them.
LEMMA SavedDoes ==
  ASSUME EnvTypeOK, MemoryTrue, NEW b, SessionSaved(b) \/ \E c \in BOOLEAN : SaveFails(b, c)
  PROVE  /\ b \in DOMAIN bridging /\ bridging' = Without(bridging, b)
         /\ envRows' \in {envRows, Put(envRows, bridging[b].env, envs[bridging[b].env].credential)}
         /\ \/ sessionRows' = sessionRows
            \/ /\ bridging[b].phase = "session"
               /\ sessionRows' = Put(sessionRows, bridging[b].sid, SentRow(b))
         /\ UNCHANGED <<envs, sessions, streams, bridges, drawn, polled, dropped, deleted, offline>>
  <1>1. b \in DOMAIN bridging /\ bridging' = Without(bridging, b)
    BY DEF SessionSaved, SaveFails
  <1>2. UNCHANGED <<envs, sessions, streams, bridges, drawn, polled, dropped, deleted, offline>>
    BY DEF SessionSaved, SaveFails, work
  <1>3. envRows' \in {envRows, EnvSavedRows(b)}
    BY DEF SessionSaved, SaveFails
  <1>4. \/ sessionRows' = sessionRows
        \/ bridging[b].phase = "session" /\ sessionRows' = SessionSavedRows(b)
    BY DEF SessionSaved, SaveFails
  <1> QED
    BY <1>1, <1>2, <1>3, <1>4, RowsSent

\* What the dying process leaves in the tables.
LEMMA CrashDoes ==
  ASSUME EnvTypeOK, MemoryTrue, EnvCrash
  PROVE  /\ up /\ ~up'
         /\ DOMAIN envs' = {} /\ DOMAIN sessions' = {} /\ DOMAIN bridging' = {} /\ streams' = {} /\ offline' = {}
         /\ dropped' = dropped \cup UNION {Queued(e) : e \in DOMAIN envs}
         /\ \A e \in DOMAIN envRows' : e \in DOMAIN envs /\ envRows'[e] = envs[e].credential
         /\ \A s \in DOMAIN sessionRows' :
              \/ s \in DOMAIN sessionRows /\ sessionRows'[s] = sessionRows[s]
              \/ \E b \in DOMAIN bridging :
                   bridging[b].phase = "session" /\ bridging[b].sid = s /\ sessionRows'[s] = SentRow(b)
         /\ UNCHANGED <<bridges, drawn, polled, deleted>>
  <1>1. PICK done \in SUBSET DOMAIN bridging :
          LET sent(p) == {b \in done : bridging[b].phase = p}
              late == {[s |-> bridging[b].sid, row |-> SessionSavedRows(b)[bridging[b].sid]] : b \in sent("session")}
          IN /\ envRows' = [e \in DOMAIN envRows \cup {bridging[b].env : b \in sent("env")} |-> envs[e].credential]
             /\ sessionRows' = [s \in DOMAIN sessionRows \cup {l.s : l \in late} |->
                  IF s \in DOMAIN sessionRows THEN sessionRows[s] ELSE (CHOOSE l \in late : l.s = s).row]
    BY DEF EnvCrash
  <1> DEFINE last == {b \in done : bridging[b].phase = "session"}
             Late(b) == [s |-> bridging[b].sid, row |-> SessionSavedRows(b)[bridging[b].sid]]
             late == {Late(b) : b \in last}
  <1>2. up /\ ~up' /\ UNCHANGED <<bridges, drawn, polled, deleted>>
    BY DEF EnvCrash, Crash
  <1>3. /\ DOMAIN envs' = {} /\ DOMAIN sessions' = {} /\ DOMAIN bridging' = {} /\ streams' = {} /\ offline' = {}
        /\ dropped' = dropped \cup UNION {Queued(e) : e \in DOMAIN envs}
    BY EmptyIs DEF EnvCrash
  <1>4. \A e \in DOMAIN envRows' : e \in DOMAIN envs /\ envRows'[e] = envs[e].credential
    BY <1>1, <1>2 DEF MemoryTrue
  <1>5. \A b \in last : Late(b).s = bridging[b].sid /\ Late(b).row = SentRow(b)
    <2>1. \A b \in last : b \in DOMAIN bridging /\ SessionSavedRows(b) = Put(sessionRows, bridging[b].sid, SentRow(b))
      BY RowsSent
    <2>2. \A f, k, v : Put(f, k, v)[k] = v
      BY DEF Put
    <2>3. \A b \in last : SessionSavedRows(b)[bridging[b].sid] = SentRow(b)
      BY <2>1, <2>2
    <2> QED
      BY <2>3
  <1>6. /\ DOMAIN sessionRows' = DOMAIN sessionRows \cup {l.s : l \in late}
        /\ \A s \in DOMAIN sessionRows : sessionRows'[s] = sessionRows[s]
        /\ \A s \in {l.s : l \in late} \ DOMAIN sessionRows : sessionRows'[s] = (CHOOSE l \in late : l.s = s).row
    BY <1>1
  <1> HIDE DEF Late
  <1>7. ASSUME NEW s \in DOMAIN sessionRows', s \notin DOMAIN sessionRows
        PROVE  \E b \in DOMAIN bridging :
                 bridging[b].phase = "session" /\ bridging[b].sid = s /\ sessionRows'[s] = SentRow(b)
    <2> DEFINE l == CHOOSE x \in late : x.s = s
    <2>1. l \in late /\ l.s = s
      BY <1>6, <1>7
    <2>2. sessionRows'[s] = l.row
      BY <1>6, <1>7
    <2> HIDE DEF l
    <2>3. PICK b \in last : l = Late(b)
      BY <2>1
    <2> QED
      BY <1>5, <2>1, <2>2, <2>3
  <1> QED
    BY <1>2, <1>3, <1>4, <1>6, <1>7

-----------------------------------------------------------------------------
(* Types, memory and owners *)

\* Each step keeps the types.
LEMMA EnvTypeStep ==
  ASSUME IInv, EnvTypeOK, MemoryTrue, [ControlNext]_<<accountVars, envVars>>
  PROVE  EnvTypeOK'
  <1>0. TypeOK'
    BY ControlServes, TypeStep DEF IInv
  <1>1. ASSUME NEW e \in EnvIds, NEW t \in Tokens, Register(e, t)
        PROVE  EnvTypeOK'
    <2>1. PICK b \in BridgeSlots \ DOMAIN bridging : bridging' = Put(bridging, b, [env |-> e, phase |-> "env", sid |-> None])
      BY <1>1, RegisterDoes
    <2>2. createEnv(t) \in Env /\ [env |-> e, phase |-> "env", sid |-> None] \in Bridging
      BY EmptySeq DEF createEnv, Env, Bridging
    <2>3. /\ bridges' = Put(bridges, e, t) /\ envs' = Put(envs, e, createEnv(t)) /\ dropped' = dropped \cup Queued(e)
          /\ UNCHANGED <<sessions, streams, envRows, sessionRows, drawn, polled, deleted, offline>>
      BY <1>1, RegisterDoes
    <2>4. Queued(e) \subseteq SessionIds
      BY QueueTyped
    <2>5. Typed(envs, EnvIds, Env)' /\ Typed(bridging, BridgeSlots, Bridging)' /\ Typed(bridges, EnvIds, Tokens)'
      <3>1. Typed(envs, EnvIds, Env) /\ Typed(bridging, BridgeSlots, Bridging) /\ Typed(bridges, EnvIds, Tokens)
        BY DEF EnvTypeOK
      <3> HIDE DEF Env
      <3> QED
        BY <2>1, <2>2, <2>3, <3>1 DEF Put, Typed
    <2> QED
      BY <1>0, <2>3, <2>4, <2>5 DEF EnvTypeOK, Typed
  <1>2. ASSUME NEW b \in BridgeSlots, EnvSaved(b)
        PROVE  EnvTypeOK'
    <2>1. PICK e : e = bridging[b].env
      OBVIOUS
    <2>2. PICK s : s = drawn + 1
      OBVIOUS
    <2>3. /\ b \in DOMAIN bridging /\ e \in DOMAIN envs /\ e \in EnvIds /\ envs[e] \in Env /\ s \in SessionIds
          /\ drawn' = s
          /\ DOMAIN envs' = DOMAIN envs /\ envs'[e] \in Env
          /\ \A x \in DOMAIN envs : x # e => envs'[x] = envs[x]
          /\ envRows' = Put(envRows, e, envs[e].credential)
          /\ sessions' = Put(sessions, s, [credential |-> envs[e].credential, env |-> e, conn |-> FALSE])
          /\ DOMAIN bridging' = DOMAIN bridging
          /\ bridging'[b] = [env |-> e, phase |-> "session", sid |-> s]
          /\ \A x \in DOMAIN bridging : x # b => bridging'[x] = bridging[x]
          /\ UNCHANGED <<streams, sessionRows, bridges, polled, dropped, deleted, offline>>
      BY <1>2, <2>1, <2>2, EnvSavedDoes
    <2>4. envs[e].credential \in Tokens
      BY <2>3 DEF Env
    <2>5. [env |-> e, phase |-> "session", sid |-> s] \in Bridging
      BY <2>3 DEF Bridging
    <2>6. [credential |-> envs[e].credential, env |-> e, conn |-> FALSE] \in Session
      BY <2>3, <2>4 DEF Session
    <2>7. Typed(envs, EnvIds, Env)' /\ Typed(bridging, BridgeSlots, Bridging)'
      <3>1. Typed(envs, EnvIds, Env) /\ Typed(bridging, BridgeSlots, Bridging)
        BY DEF EnvTypeOK
      <3> QED
        BY <2>3, <2>5, <3>1 DEF Typed
    <2>8. Typed(sessions, SessionIds, Session)' /\ Typed(envRows, EnvIds, Tokens)'
      <3>1. Typed(sessions, SessionIds, Session) /\ Typed(envRows, EnvIds, Tokens)
        BY DEF EnvTypeOK
      <3> QED
        BY <2>3, <2>4, <2>6, <3>1, TypedPut
    <2>9. drawn' \in 0 .. MaxSessions
      BY <2>3, EnvironmentsOK DEF SessionIds
    <2> QED
      BY <1>0, <2>3, <2>7, <2>8, <2>9 DEF EnvTypeOK, Typed
  <1>3. ASSUME NEW b \in BridgeSlots, SessionSaved(b) \/ \E c \in BOOLEAN : SaveFails(b, c)
        PROVE  EnvTypeOK'
    <2>1. PICK e : e = bridging[b].env
      OBVIOUS
    <2>2. /\ b \in DOMAIN bridging /\ bridging' = Without(bridging, b)
          /\ envRows' \in {envRows, Put(envRows, e, envs[e].credential)}
          /\ \/ sessionRows' = sessionRows
             \/ bridging[b].phase = "session" /\ sessionRows' = Put(sessionRows, bridging[b].sid, SentRow(b))
          /\ UNCHANGED <<envs, sessions, streams, bridges, drawn, polled, dropped, deleted, offline>>
      BY <1>3, <2>1, SavedDoes
    <2>3. /\ e \in EnvIds /\ envs[e].credential \in Tokens /\ SentRow(b) \in SessionRow
          /\ bridging[b].phase = "session" => bridging[b].sid \in SessionIds
      BY <2>1, <2>2, RowsSent
    <2>4. Typed(bridging, BridgeSlots, Bridging)'
      BY <2>2, TypedWithout DEF EnvTypeOK
    <2>5. Typed(envRows, EnvIds, Tokens)' /\ Typed(sessionRows, SessionIds, SessionRow)'
      <3>1. Typed(envRows, EnvIds, Tokens) /\ Typed(sessionRows, SessionIds, SessionRow)
        BY DEF EnvTypeOK
      <3>2. Typed(Put(envRows, e, envs[e].credential), EnvIds, Tokens)
        BY <2>3, <3>1, TypedPut
      <3>3. bridging[b].phase = "session" => Typed(Put(sessionRows, bridging[b].sid, SentRow(b)), SessionIds, SessionRow)
        BY <2>3, <3>1, TypedPut
      <3> QED
        BY <2>2, <3>1, <3>2, <3>3
    <2> QED
      BY <1>0, <2>2, <2>4, <2>5 DEF EnvTypeOK, Typed
  <1>4. ASSUME NEW e \in EnvIds, Poll(e)
        PROVE  EnvTypeOK'
    <2>1. PICK s : s = Head(envs[e].queue)
      OBVIOUS
    <2>2. /\ s \in SessionIds /\ polled' = Append(polled, s)
          /\ DOMAIN envs' = DOMAIN envs /\ e \in DOMAIN envs /\ envs'[e] \in Env
          /\ \A x \in DOMAIN envs : x # e => envs'[x] = envs[x]
          /\ UNCHANGED <<sessions, bridging, streams, envRows, sessionRows, bridges, drawn, dropped, deleted, offline>>
      BY <1>4, <2>1, PollDoes
    <2>3. polled' \in Seq(SessionIds)
      BY <2>2, AppendProperties DEF EnvTypeOK
    <2>4. Typed(envs, EnvIds, Env)'
      <3>1. Typed(envs, EnvIds, Env)
        BY DEF EnvTypeOK
      <3> QED
        BY <2>2, <3>1 DEF Typed
    <2> QED
      BY <1>0, <2>2, <2>3, <2>4 DEF EnvTypeOK, Typed
  <1>5. ASSUME NEW s \in SessionIds, OpenStream(s) \/ CloseStream(s)
        PROVE  EnvTypeOK'
    <2>1. /\ streams' \subseteq streams \cup {s} /\ offline' \subseteq offline
          /\ \E c \in BOOLEAN : sessions' = markWsConnected(s, c)
          /\ UNCHANGED <<envs, bridging, envRows, sessionRows, bridges, drawn, polled, dropped, deleted>>
      BY <1>5 DEF OpenStream, CloseStream, envTables, work
    <2>2. Typed(sessions, SessionIds, Session)'
      <3>1. Typed(sessions, SessionIds, Session)
        BY DEF EnvTypeOK
      <3> QED
        BY <2>1, <3>1 DEF Typed, markWsConnected, Session
    <2> QED
      BY <1>0, <2>1, <2>2 DEF EnvTypeOK, Typed
  <1>6. ASSUME NEW e \in EnvIds, Deregister(e)
        PROVE  EnvTypeOK'
    <2>1. Typed(envs, EnvIds, Env)'
      <3>1. Typed(envs, EnvIds, Env)
        BY DEF EnvTypeOK
      <3> QED
        BY <1>6, <3>1 DEF Deregister, Typed, Env
    <2>2. Typed(sessions, SessionIds, Session)'
      <3>1. Typed(sessions, SessionIds, Session)
        BY DEF EnvTypeOK
      <3> QED
        BY <1>6, <3>1 DEF Deregister, Typed, Session
    <2>3. offline' \subseteq SessionIds
      BY <1>6 DEF Deregister, EnvTypeOK
    <2> QED
      BY <1>0, <1>6, <2>1, <2>2, <2>3 DEF Deregister, EnvTypeOK, Typed, envTables, work
  <1>7. ASSUME NEW s \in SessionIds, DeleteSession(s)
        PROVE  EnvTypeOK'
    <2>1. /\ sessions' = Without(sessions, s) /\ sessionRows' = Without(sessionRows, s) /\ deleted' = deleted \cup {s}
          /\ UNCHANGED <<envs, bridging, streams, envRows, bridges, drawn, polled, dropped, offline>>
      BY <1>7 DEF DeleteSession, work
    <2>2. Typed(sessions, SessionIds, Session)' /\ Typed(sessionRows, SessionIds, SessionRow)'
      BY <2>1, TypedWithout DEF EnvTypeOK
    <2> QED
      BY <1>0, <2>1, <2>2 DEF EnvTypeOK, Typed
  <1>8. ASSUME EnvCrash
        PROVE  EnvTypeOK'
    <2>1. /\ DOMAIN envs' = {} /\ DOMAIN sessions' = {} /\ DOMAIN bridging' = {} /\ streams' = {} /\ offline' = {}
          /\ dropped' = dropped \cup UNION {Queued(e) : e \in DOMAIN envs}
          /\ \A e \in DOMAIN envRows' : e \in DOMAIN envs /\ envRows'[e] = envs[e].credential
          /\ \A s \in DOMAIN sessionRows' :
               \/ s \in DOMAIN sessionRows /\ sessionRows'[s] = sessionRows[s]
               \/ \E b \in DOMAIN bridging :
                    bridging[b].phase = "session" /\ bridging[b].sid = s /\ sessionRows'[s] = SentRow(b)
          /\ UNCHANGED <<bridges, drawn, polled, deleted>>
      BY <1>8, CrashDoes
    <2>2. \A e \in DOMAIN envs : e \in EnvIds /\ envs[e].credential \in Tokens
      BY QueueTyped DEF Env
    <2>3. Typed(envRows, EnvIds, Tokens)'
      BY <2>1, <2>2 DEF Typed
    <2>4. \A b \in DOMAIN bridging : SentRow(b) \in SessionRow /\ (bridging[b].phase = "session" => bridging[b].sid \in SessionIds)
      BY RowsSent
    <2>5. Typed(sessionRows, SessionIds, SessionRow)'
      BY <2>1, <2>4 DEF EnvTypeOK, Typed
    <2>6. \A e : Queued(e) \subseteq SessionIds
      BY QueueTyped
    <2> QED
      BY <1>0, <2>1, <2>3, <2>5, <2>6 DEF EnvTypeOK, Typed
  <1>9. ASSUME EnvRestart
        PROVE  EnvTypeOK'
    <2>1. \A t \in Tokens : [createEnv(t) EXCEPT !.online = FALSE] \in Env
      BY EmptySeq DEF createEnv, Env
    <2>2. Typed(envs, EnvIds, Env)'
      BY <1>9, <2>1 DEF EnvRestart, EnvTypeOK, Typed
    <2>3. Typed(sessions, SessionIds, Session)'
      BY <1>9 DEF EnvRestart, EnvTypeOK, Typed, Session, SessionRow
    <2> QED
      BY <1>0, <1>9, <2>2, <2>3 DEF EnvRestart, EnvTypeOK, Typed, envTables, work
  <1>10. CASE UNCHANGED envVars
    BY <1>0, <1>10 DEF EnvTypeOK, Typed, envVars, envMemory, envTables, work
  <1> QED
    BY <1>1, <1>2, <1>3, <1>4, <1>5, <1>6, <1>7, <1>8, <1>9, <1>10 DEF ControlNext, EnvNext

\* Each step keeps what memory is known to hold.
LEMMA MemoryStep ==
  ASSUME EnvTypeOK, MemoryTrue, [ControlNext]_<<accountVars, envVars>>
  PROVE  MemoryTrue'
  <1>1. ASSUME NEW e \in EnvIds, NEW t \in Tokens, Register(e, t), up' = up
        PROVE  MemoryTrue'
    <2>1. /\ up /\ envs' = Put(envs, e, createEnv(t)) /\ envRows' = envRows
          /\ \E b : bridging' = Put(bridging, b, [env |-> e, phase |-> "env", sid |-> None])
      BY <1>1, RegisterDoes
    <2>2. DOMAIN envs' = DOMAIN envs \cup {e}
      BY <2>1 DEF Put
    <2>3. \A b \in DOMAIN bridging' : bridging'[b].env \in DOMAIN envs'
      BY <2>1, <2>2 DEF Put, MemoryTrue
    <2> QED
      BY <1>1, <2>1, <2>2, <2>3 DEF MemoryTrue
  <1>2. ASSUME NEW b \in BridgeSlots, EnvSaved(b), up' = up
        PROVE  MemoryTrue'
    <2>1. PICK e : e = bridging[b].env
      OBVIOUS
    <2>2. PICK s : s = drawn + 1
      OBVIOUS
    <2>3. /\ b \in DOMAIN bridging /\ e \in DOMAIN envs /\ e \in EnvIds /\ envs[e] \in Env /\ s \in SessionIds
          /\ drawn' = s
          /\ DOMAIN envs' = DOMAIN envs /\ envs'[e] \in Env
          /\ envs'[e].queue = Append(envs[e].queue, s) /\ envs'[e].credential = envs[e].credential
          /\ \A x \in DOMAIN envs : x # e => envs'[x] = envs[x]
          /\ envRows' = Put(envRows, e, envs[e].credential)
          /\ sessions' = Put(sessions, s, [credential |-> envs[e].credential, env |-> e, conn |-> FALSE])
          /\ DOMAIN bridging' = DOMAIN bridging
          /\ bridging'[b] = [env |-> e, phase |-> "session", sid |-> s]
          /\ \A x \in DOMAIN bridging : x # b => bridging'[x] = bridging[x]
          /\ UNCHANGED <<streams, sessionRows, bridges, polled, dropped, deleted, offline>>
      BY <1>2, <2>1, <2>2, EnvSavedDoes
    <2>4. DOMAIN envRows' = DOMAIN envRows \cup {e}
      BY <2>3 DEF Put
    <2>5. up
      BY <2>3 DEF MemoryTrue
    <2> QED
      BY <1>2, <2>3, <2>4, <2>5 DEF MemoryTrue
  <1>3. ASSUME NEW b \in BridgeSlots, SessionSaved(b) \/ \E c \in BOOLEAN : SaveFails(b, c), up' = up
        PROVE  MemoryTrue'
    <2>1. PICK e : e = bridging[b].env
      OBVIOUS
    <2>2. /\ b \in DOMAIN bridging /\ bridging' = Without(bridging, b)
          /\ envRows' \in {envRows, Put(envRows, e, envs[e].credential)}
          /\ UNCHANGED <<envs, sessions, streams>>
      BY <1>3, <2>1, SavedDoes
    <2>3. up /\ e \in DOMAIN envs
      BY <2>1, <2>2 DEF MemoryTrue
    <2>4. DOMAIN envRows' \subseteq DOMAIN envs
      BY <2>2, <2>3 DEF MemoryTrue, Put
    <2>5. \A x \in DOMAIN bridging' : bridging'[x].env \in DOMAIN envs
      BY <2>2 DEF MemoryTrue, Without, Restrict
    <2> QED
      BY <1>3, <2>2, <2>3, <2>4, <2>5 DEF MemoryTrue
  <1>4. ASSUME NEW e \in EnvIds, Poll(e), up' = up
        PROVE  MemoryTrue'
    <2>1. /\ DOMAIN envs' = DOMAIN envs /\ up
          /\ UNCHANGED <<sessions, bridging, streams, envRows>>
      BY <1>4 DEF Poll, envTables
    <2> QED
      BY <1>4, <2>1 DEF MemoryTrue
  <1>5. ASSUME NEW s \in SessionIds, OpenStream(s) \/ DeleteSession(s) \/ CloseStream(s), up' = up
        PROVE  MemoryTrue'
    <2>1. /\ UNCHANGED <<envs, bridging, envRows>>
          /\ up \/ s \in streams
      BY <1>5 DEF OpenStream, DeleteSession, CloseStream, envTables
    <2> QED
      BY <1>5, <2>1 DEF MemoryTrue
  <1>6. ASSUME NEW e \in EnvIds, Deregister(e), up' = up
        PROVE  MemoryTrue'
    <2>1. /\ DOMAIN envs' = DOMAIN envs /\ up /\ UNCHANGED <<bridging, envRows>>
      BY <1>6 DEF Deregister, envTables
    <2> QED
      BY <1>6, <2>1 DEF MemoryTrue
  <1>7. ASSUME EnvCrash
        PROVE  MemoryTrue'
    BY <1>7, CrashDoes DEF MemoryTrue
  <1>8. ASSUME EnvRestart
        PROVE  MemoryTrue'
    BY <1>8 DEF EnvRestart, Restart, MemoryTrue, envTables
  <1>9. CASE UNCHANGED <<envVars, up>>
    BY <1>9 DEF MemoryTrue, envVars, envMemory, envTables
  <1>10. ASSUME ControlNext, ~EnvCrash, ~EnvRestart
         PROVE  up' = up
    BY <1>10 DEF ControlNext, Serve, StartRegister, StartLogin, Hashed, InsertUser, InsertFails, Registered, LoginRefused,
       LoginVerified, LoginAnswered, Tick, OrphanSettles, accountVars
  <1>11. UNCHANGED <<accountVars, envVars>> => UNCHANGED <<envVars, up>>
    BY DEF accountVars
  <1> QED
    BY <1>1, <1>2, <1>3, <1>4, <1>5, <1>6, <1>7, <1>8, <1>9, <1>10, <1>11 DEF ControlNext, EnvNext

\* A bridge keeps the token it presents.
LEMMA BridgesKept ==
  ASSUME EnvTypeOK, MemoryTrue, [ControlNext]_<<accountVars, envVars>>, NEW c, NEW x, OwnedBy(c, x)
  PROVE  OwnedBy(c, x)'
  <1>1. ASSUME NEW e \in EnvIds, NEW t \in Tokens, Register(e, t)
        PROVE  OwnedBy(c, x)'
    <2>1. bridges' = Put(bridges, e, t) /\ (e \in DOMAIN bridges => bridges[e] = t)
      BY <1>1, RegisterDoes
    <2> QED
      BY <2>1 DEF Put, OwnedBy
  <1>2. CASE bridges' = bridges
    BY <1>2 DEF OwnedBy
  <1> QED
    BY <1>1, <1>2 DEF ControlNext, EnvNext, EnvSaved, SessionSaved, SaveFails, Poll, OpenStream, CloseStream, Deregister, DeleteSession,
      EnvCrash, EnvRestart, envVars

\* Each step leaves everything with its owner.
LEMMA OwnersStep ==
  ASSUME EnvTypeOK, MemoryTrue, OwnersTrue, [ControlNext]_<<accountVars, envVars>>
  PROVE  OwnersTrue'
  <1> DEFINE Still(c, x) == x \in DOMAIN bridges' /\ c = bridges'[x]
  <1>0. \A c, x : OwnedBy(c, x) => Still(c, x)
    BY BridgesKept DEF OwnedBy
  <1>1. ASSUME NEW e \in EnvIds, NEW t \in Tokens, Register(e, t)
        PROVE  OwnersTrue'
    <2>1. /\ bridges' = Put(bridges, e, t) /\ envs' = Put(envs, e, createEnv(t))
          /\ UNCHANGED <<sessions, envRows, sessionRows>>
      BY <1>1, RegisterDoes
    <2>2. Still(t, e)
      BY <2>1 DEF Put
    <2>3. /\ DOMAIN envs' = DOMAIN envs \cup {e} /\ envs'[e].credential = t
          /\ \A x \in DOMAIN envs : x # e => envs'[x] = envs[x]
      BY <2>1 DEF Put, createEnv
    <2> QED
      BY <1>0, <2>1, <2>2, <2>3 DEF OwnersTrue, OwnedBy
  <1>2. ASSUME NEW b \in BridgeSlots, EnvSaved(b)
        PROVE  OwnersTrue'
    <2>1. PICK e : e = bridging[b].env
      OBVIOUS
    <2>2. PICK s : s = drawn + 1
      OBVIOUS
    <2>3. /\ b \in DOMAIN bridging /\ e \in DOMAIN envs /\ e \in EnvIds /\ envs[e] \in Env /\ s \in SessionIds
          /\ drawn' = s
          /\ DOMAIN envs' = DOMAIN envs /\ envs'[e] \in Env
          /\ envs'[e].queue = Append(envs[e].queue, s) /\ envs'[e].credential = envs[e].credential
          /\ \A x \in DOMAIN envs : x # e => envs'[x] = envs[x]
          /\ envRows' = Put(envRows, e, envs[e].credential)
          /\ sessions' = Put(sessions, s, [credential |-> envs[e].credential, env |-> e, conn |-> FALSE])
          /\ DOMAIN bridging' = DOMAIN bridging
          /\ bridging'[b] = [env |-> e, phase |-> "session", sid |-> s]
          /\ \A x \in DOMAIN bridging : x # b => bridging'[x] = bridging[x]
          /\ UNCHANGED <<streams, sessionRows, bridges, polled, dropped, deleted, offline>>
      BY <1>2, <2>1, <2>2, EnvSavedDoes
    <2>4. PICK c : c = envs[e].credential /\ OwnedBy(c, e)
      BY <2>3 DEF OwnersTrue
    <2>5. /\ DOMAIN envRows' = DOMAIN envRows \cup {e} /\ envRows'[e] = c
          /\ \A x \in DOMAIN envRows : x # e => envRows'[x] = envRows[x]
      BY <2>3, <2>4 DEF Put
    <2>6. /\ DOMAIN sessions' = DOMAIN sessions \cup {s} /\ sessions'[s].credential = c /\ sessions'[s].env = e
          /\ \A x \in DOMAIN sessions : x # s => sessions'[x] = sessions[x]
      BY <2>3, <2>4 DEF Put
    <2>7. \A x \in DOMAIN envs' : Still(envs'[x].credential, x)
      BY <1>0, <2>3, <2>4 DEF OwnersTrue
    <2>8. \A x \in DOMAIN envRows' : Still(envRows'[x], x)
      BY <1>0, <2>4, <2>5 DEF OwnersTrue
    <2>9. \A x \in DOMAIN sessions' : Still(sessions'[x].credential, sessions'[x].env)
      BY <1>0, <2>4, <2>6 DEF OwnersTrue
    <2> QED
      BY <1>0, <2>3, <2>7, <2>8, <2>9 DEF OwnersTrue, OwnedBy
  <1>3. ASSUME NEW b \in BridgeSlots, SessionSaved(b) \/ \E c \in BOOLEAN : SaveFails(b, c)
        PROVE  OwnersTrue'
    <2>1. PICK e : e = bridging[b].env
      OBVIOUS
    <2>2. PICK s : s = bridging[b].sid
      OBVIOUS
    <2>3. /\ b \in DOMAIN bridging
          /\ envRows' \in {envRows, Put(envRows, e, envs[e].credential)}
          /\ sessionRows' \in {sessionRows, Put(sessionRows, s, SentRow(b))}
          /\ UNCHANGED <<envs, sessions>>
      BY <1>3, <2>1, <2>2, SavedDoes
    <2>4. PICK c : c = envs[e].credential /\ OwnedBy(c, e)
      BY <2>1, <2>3 DEF MemoryTrue, OwnersTrue
    <2>5. SentRow(b).credential = c /\ SentRow(b).env = e
      BY <2>1, <2>3, <2>4, RowsSent
    <2>6. \A x \in DOMAIN envRows' : (x \in DOMAIN envRows /\ envRows'[x] = envRows[x]) \/ (x = e /\ envRows'[x] = c)
      BY <2>3, <2>4 DEF Put
    <2>7. \A x \in DOMAIN sessionRows' :
             (x \in DOMAIN sessionRows /\ sessionRows'[x] = sessionRows[x]) \/ (x = s /\ sessionRows'[x] = SentRow(b))
      BY <2>3 DEF Put
    <2>8. \A x \in DOMAIN envRows' : Still(envRows'[x], x)
      BY <1>0, <2>4, <2>6 DEF OwnersTrue
    <2>9. \A x \in DOMAIN sessionRows' : Still(sessionRows'[x].credential, sessionRows'[x].env)
      BY <1>0, <2>4, <2>5, <2>7 DEF OwnersTrue
    <2> QED
      BY <1>0, <2>3, <2>8, <2>9 DEF OwnersTrue, OwnedBy
  <1>4. ASSUME NEW e \in EnvIds, Poll(e)
        PROVE  OwnersTrue'
    <2>1. PICK s : s = Head(envs[e].queue)
      OBVIOUS
    <2>2. /\ DOMAIN envs' = DOMAIN envs /\ envs'[e].credential = envs[e].credential
          /\ \A x \in DOMAIN envs : x # e => envs'[x] = envs[x]
          /\ UNCHANGED <<sessions, envRows, sessionRows>>
      BY <1>4, <2>1, PollDoes
    <2> QED
      BY <1>0, <2>2 DEF OwnersTrue, OwnedBy
  <1>5. ASSUME NEW s \in SessionIds, OpenStream(s) \/ CloseStream(s)
        PROVE  OwnersTrue'
    <2>1. /\ \E c \in BOOLEAN : sessions' = markWsConnected(s, c)
          /\ UNCHANGED <<envs, envRows, sessionRows>>
      BY <1>5 DEF OpenStream, CloseStream, envTables
    <2>2. DOMAIN sessions' = DOMAIN sessions
          /\ \A x \in DOMAIN sessions : sessions'[x].credential = sessions[x].credential /\ sessions'[x].env = sessions[x].env
      BY <2>1 DEF markWsConnected, EnvTypeOK, Typed, Session
    <2> QED
      BY <1>0, <2>1, <2>2 DEF OwnersTrue, OwnedBy
  <1>6. ASSUME NEW e \in EnvIds, Deregister(e)
        PROVE  OwnersTrue'
    <2>1. DOMAIN sessions' = DOMAIN sessions
          /\ \A x \in DOMAIN sessions : sessions'[x].credential = sessions[x].credential /\ sessions'[x].env = sessions[x].env
      BY <1>6 DEF Deregister, EnvTypeOK, Typed, Session
    <2>2. DOMAIN envs' = DOMAIN envs /\ \A x \in DOMAIN envs : envs'[x].credential = envs[x].credential
      BY <1>6 DEF Deregister, EnvTypeOK, Typed, Env
    <2>3. UNCHANGED <<envRows, sessionRows>>
      BY <1>6 DEF Deregister, envTables
    <2> QED
      BY <1>0, <2>1, <2>2, <2>3 DEF OwnersTrue, OwnedBy
  <1>7. ASSUME NEW s \in SessionIds, DeleteSession(s)
        PROVE  OwnersTrue'
    <2>1. /\ DOMAIN sessions' \subseteq DOMAIN sessions /\ \A x \in DOMAIN sessions' : sessions'[x] = sessions[x]
          /\ DOMAIN sessionRows' \subseteq DOMAIN sessionRows /\ \A x \in DOMAIN sessionRows' : sessionRows'[x] = sessionRows[x]
          /\ UNCHANGED <<envs, envRows>>
      BY <1>7 DEF DeleteSession, Without, Restrict
    <2> QED
      BY <1>0, <2>1 DEF OwnersTrue, OwnedBy
  <1>8. ASSUME EnvCrash
        PROVE  OwnersTrue'
    <2>1. /\ DOMAIN envs' = {} /\ DOMAIN sessions' = {}
          /\ \A e \in DOMAIN envRows' : e \in DOMAIN envs /\ envRows'[e] = envs[e].credential
          /\ \A s \in DOMAIN sessionRows' :
               \/ s \in DOMAIN sessionRows /\ sessionRows'[s] = sessionRows[s]
               \/ \E b \in DOMAIN bridging : sessionRows'[s] = SentRow(b)
      BY <1>8, CrashDoes
    <2>2. \A b \in DOMAIN bridging : OwnedBy(SentRow(b).credential, SentRow(b).env)
      BY RowsSent DEF OwnersTrue
    <2> QED
      BY <1>0, <2>1, <2>2 DEF OwnersTrue, OwnedBy
  <1>9. ASSUME EnvRestart
        PROVE  OwnersTrue'
    <2>1. DOMAIN envs' = DOMAIN envRows /\ \A e \in DOMAIN envRows : envs'[e].credential = envRows[e]
      BY <1>9 DEF EnvRestart, createEnv
    <2>2. DOMAIN sessions' = DOMAIN sessionRows
          /\ \A s \in DOMAIN sessionRows : sessions'[s].credential = sessionRows[s].credential /\ sessions'[s].env = sessionRows[s].env
      BY <1>9 DEF EnvRestart
    <2>3. UNCHANGED <<envRows, sessionRows>>
      BY <1>9 DEF EnvRestart, envTables
    <2> QED
      BY <1>0, <2>1, <2>2, <2>3 DEF OwnersTrue, OwnedBy
  <1>10. CASE UNCHANGED envVars
    BY <1>0, <1>10 DEF OwnersTrue, OwnedBy, envVars, envMemory, envTables
  <1> QED
    BY <1>1, <1>2, <1>3, <1>4, <1>5, <1>6, <1>7, <1>8, <1>9, <1>10 DEF ControlNext, EnvNext

\* Each step leaves the bridges with tokens of the table, which the process accepts.
LEMMA BridgesStep ==
  ASSUME IInv, IndexTrue, EnvTypeOK, BridgesTrue, [ControlNext]_<<accountVars, envVars>>
  PROVE  BridgesTrue'
  <1>0. [Next]_accountVars
    BY ControlServes
  <1>1. ASSUME NEW t, t \in TableTokens, up => Accepted(t)
        PROVE  t \in TableTokens' /\ (up' => Accepted(t)')
    BY <1>0, <1>1, TokensStay, AcceptedStays
  <1>2. ASSUME NEW e \in DOMAIN bridges', NEW t, t = bridges'[e]
        PROVE  t \in TableTokens /\ (up => Accepted(t))
    <2>1. CASE e \in DOMAIN bridges /\ bridges'[e] = bridges[e]
      BY <1>2, <2>1 DEF BridgesTrue
    <2>2. ASSUME NEW x \in EnvIds, NEW k \in Tokens, Register(x, k), e = x
          PROVE  t \in TableTokens /\ (up => Accepted(t))
      <3>1. Accepted(k) /\ t = k
        BY <1>2, <2>2, RegisterDoes DEF Put
      <3> QED
        BY <3>1, AcceptedIs
    <2>3. ASSUME NEW x \in EnvIds, NEW k \in Tokens, Register(x, k), e # x
          PROVE  e \in DOMAIN bridges /\ bridges'[e] = bridges[e]
      <3>1. bridges' = Put(bridges, x, k)
        BY <2>3, RegisterDoes
      <3> QED
        BY <1>2, <2>3, <3>1 DEF Put
    <2>4. (\E x \in EnvIds, k \in Tokens : Register(x, k)) \/ bridges' = bridges
      BY DEF ControlNext, EnvNext, EnvSaved, SessionSaved, SaveFails, Poll, OpenStream, CloseStream, Deregister, DeleteSession,
        EnvCrash, EnvRestart, envVars
    <2> QED
      BY <2>1, <2>2, <2>3, <2>4
  <1>3. ASSUME NEW e \in DOMAIN bridges', NEW t, t = bridges'[e]
        PROVE  t \in TableTokens' /\ (up' => Accepted(t)')
    BY <1>1, <1>2, <1>3
  <1> QED
    BY <1>3 DEF BridgesTrue, Accepted, userByToken

-----------------------------------------------------------------------------
(* Work *)

\* A step that draws no session, hands nothing out and queues nothing keeps the work in its place.
LEMMA QuietWork ==
  ASSUME MadeOnce, WorkPlaced, WorkSorted, UNCHANGED <<polled, drawn>>, streams' \subseteq Polled,
         \A e \in DOMAIN envs' : envs'[e].queue = <<>> \/ (e \in DOMAIN envs /\ envs'[e].queue = envs[e].queue),
         \A s, e : Made(s, e)' => Made(s, e)
  PROVE  MadeOnce' /\ WorkPlaced' /\ WorkSorted'
  <1>1. Polled' = Polled
    BY DEF Polled
  <1>2. DOMAIN <<>> = {}
    OBVIOUS
  <1>3. ASSUME NEW e \in DOMAIN envs', NEW s \in Queued(e)'
        PROVE  e \in DOMAIN envs /\ s \in Queued(e)
    BY <1>2, <1>3 DEF Queued
  <1>4. MadeOnce'
    BY DEF MadeOnce
  <1>5. WorkPlaced'
    BY <1>1, <1>3 DEF WorkPlaced
  <1>6. WorkSorted'
    <2>1. ASSUME NEW e \in DOMAIN envs', NEW i \in DOMAIN envs'[e].queue, NEW j \in DOMAIN envs'[e].queue, i < j
          PROVE  envs'[e].queue[i] < envs'[e].queue[j]
      BY <1>2, <2>1 DEF WorkSorted
    <2>2. \A i, j \in DOMAIN polled' : i < j =>
            polled'[i] # polled'[j] /\ \A e : Made(polled[i], e)' /\ Made(polled[j], e)' => polled'[i] < polled'[j]
      BY DEF WorkSorted
    <2>3. \A e \in DOMAIN envs' : \A p \in Polled', s \in Queued(e)' : Made(p, e)' => p < s
      BY <1>1, <1>3 DEF WorkSorted
    <2> QED
      BY <2>1, <2>2, <2>3 DEF WorkSorted
  <1> QED
    BY <1>4, <1>5, <1>6

\* Queuing a session that was just drawn.
LEMMA SavedWork ==
  ASSUME EnvTypeOK, MemoryTrue, MadeOnce, WorkPlaced, WorkSorted, NEW b, EnvSaved(b)
  PROVE  MadeOnce' /\ WorkPlaced' /\ WorkSorted'
  <1>1. PICK e : e = bridging[b].env
    OBVIOUS
  <1>2. PICK s : s = drawn + 1
    OBVIOUS
  <1>3. /\ b \in DOMAIN bridging /\ e \in DOMAIN envs /\ e \in EnvIds /\ envs[e] \in Env /\ s \in SessionIds
        /\ drawn' = s
        /\ DOMAIN envs' = DOMAIN envs /\ envs'[e] \in Env
        /\ envs'[e].queue = Append(envs[e].queue, s) /\ envs'[e].credential = envs[e].credential
        /\ \A x \in DOMAIN envs : x # e => envs'[x] = envs[x]
        /\ envRows' = Put(envRows, e, envs[e].credential)
        /\ sessions' = Put(sessions, s, [credential |-> envs[e].credential, env |-> e, conn |-> FALSE])
        /\ DOMAIN bridging' = DOMAIN bridging
        /\ bridging'[b] = [env |-> e, phase |-> "session", sid |-> s]
        /\ \A x \in DOMAIN bridging : x # b => bridging'[x] = bridging[x]
        /\ UNCHANGED <<streams, sessionRows, bridges, polled, dropped, deleted, offline>>
    BY <1>1, <1>2, EnvSavedDoes
  <1>4. /\ drawn \in Nat /\ s \notin 1 .. drawn /\ 1 .. s = 1 .. drawn \cup {s}
        /\ \A x \in 1 .. drawn : x < s
    BY <1>2 DEF EnvTypeOK
  <1>5. \A x, f : Made(x, f)' => Made(x, f) \/ (x = s /\ f = e)
    <2>1. /\ DOMAIN sessions' = DOMAIN sessions \cup {s} /\ sessions'[s].env = e
          /\ \A x \in DOMAIN sessions : x # s => sessions'[x] = sessions[x]
      BY <1>3 DEF Put
    <2>2. bridging'[b].sid = s /\ bridging'[b].env = e
      BY <1>3
    <2> QED
      BY <1>3, <2>1, <2>2 DEF Made
  <1>6. MadeOnce'
    BY <1>3, <1>4, <1>5 DEF MadeOnce
  <1>7. Polled' = Polled /\ \A p \in Polled : p \in 1 .. drawn
    BY <1>3 DEF Polled, WorkPlaced
  <1> DEFINE q == envs[e].queue  r == envs'[e].queue
  <1>8. /\ q \in Seq(SessionIds) /\ DOMAIN q = 1 .. Len(q) /\ Len(q) \in Nat
        /\ DOMAIN r = DOMAIN q \cup {Len(q) + 1}
        /\ r[Len(q) + 1] = s /\ \A i \in DOMAIN q : r[i] = q[i]
    <2>1. q \in Seq(SessionIds)
      BY <1>3 DEF Env
    <2>2. r = Append(q, s)
      BY <1>3
    <2> HIDE DEF q, r
    <2>3. /\ r \in Seq(SessionIds) /\ Len(r) = Len(q) + 1 /\ r[Len(q) + 1] = s
          /\ \A i \in 1 .. Len(q) : r[i] = q[i]
      BY <1>3, <2>1, <2>2, AppendProperties
    <2>4. DOMAIN q = 1 .. Len(q) /\ Len(q) \in Nat /\ DOMAIN r = 1 .. Len(q) + 1
      BY <2>1, <2>3, LenProperties
    <2> QED
      BY <2>1, <2>3, <2>4
  <1>9. /\ Queued(e) = {q[i] : i \in DOMAIN q} /\ Queued(e)' = Queued(e) \cup {s}
        /\ \A f : f # e => Queued(f)' = Queued(f)
    <2>1. Queued(e) = {q[i] : i \in DOMAIN q} /\ Queued(e)' = {r[i] : i \in DOMAIN r}
      BY <1>3 DEF Queued
    <2>2. \A f : f # e => Queued(f)' = Queued(f)
      BY <1>3 DEF Queued
    <2> HIDE DEF q, r
    <2>3. {r[i] : i \in DOMAIN r} = {q[i] : i \in DOMAIN q} \cup {s}
      BY <1>8
    <2> QED
      BY <2>1, <2>2, <2>3
  <1> HIDE DEF q, r
  <1>10. WorkPlaced'
    <2>1. \A i \in DOMAIN polled' : polled'[i] \in 1 .. drawn'
      BY <1>3, <1>4 DEF WorkPlaced
    <2>2. ASSUME NEW f \in DOMAIN envs', NEW x \in Queued(f)'
          PROVE  /\ x \in 1 .. drawn' \ Polled'
                 /\ \A g \in DOMAIN envs' : x \in Queued(g)' => f = g
                 /\ \A g : Made(x, g)' => f = g
      <3>1. CASE x = s
        <4>1. \A g \in DOMAIN envs : s \notin Queued(g)
          BY <1>4 DEF WorkPlaced
        <4>2. \A g : ~Made(s, g)
          BY <1>4 DEF MadeOnce
        <4>3. \A g \in DOMAIN envs' : x \in Queued(g)' => g = e
          BY <1>3, <1>9, <3>1, <4>1
        <4>4. \A g : Made(x, g)' => g = e
          BY <1>5, <3>1, <4>2
        <4>5. x \in 1 .. drawn' \ Polled'
          BY <1>3, <1>4, <1>7, <3>1
        <4> QED
          BY <2>2, <4>3, <4>4, <4>5
      <3>2. CASE x # s
        <4>1. \A g \in DOMAIN envs' : x \in Queued(g)' => g \in DOMAIN envs /\ x \in Queued(g)
          BY <1>3, <1>9, <3>2
        <4>2. \A g : Made(x, g)' => Made(x, g)
          BY <1>5, <3>2
        <4> QED
          BY <1>3, <1>4, <1>7, <2>2, <4>1, <4>2 DEF WorkPlaced
      <3> QED
        BY <3>1, <3>2
    <2>3. streams' \subseteq Polled'
      BY <1>3, <1>7 DEF WorkPlaced
    <2> QED
      BY <2>1, <2>2, <2>3 DEF WorkPlaced
  <1>11. WorkSorted'
    <2>1. ASSUME NEW f \in DOMAIN envs', NEW i \in DOMAIN envs'[f].queue, NEW j \in DOMAIN envs'[f].queue, i < j
          PROVE  envs'[f].queue[i] < envs'[f].queue[j]
      <3>1. CASE f # e
        BY <1>3, <2>1, <3>1 DEF WorkSorted
      <3>2. CASE f = e
        <4>1. r[i] < r[j]
          <5>1. i \in DOMAIN r /\ j \in DOMAIN r /\ i \in DOMAIN q
            BY <1>8, <2>1, <3>2 DEF r
          <5>2. CASE j \in DOMAIN q
            BY <1>3, <1>8, <2>1, <5>1, <5>2 DEF WorkSorted, q
          <5>3. CASE j = Len(q) + 1
            <6>1. q[i] \in Queued(e)
              BY <1>9, <5>1
            <6> QED
              BY <1>3, <1>4, <1>8, <5>1, <5>3, <6>1 DEF WorkPlaced
          <5> QED
            BY <1>8, <5>1, <5>2, <5>3
        <4> QED
          BY <3>2, <4>1 DEF r
      <3> QED
        BY <3>1, <3>2
    <2>2. ASSUME NEW i \in DOMAIN polled', NEW j \in DOMAIN polled', i < j
          PROVE  polled'[i] # polled'[j] /\ \A f : Made(polled[i], f)' /\ Made(polled[j], f)' => polled'[i] < polled'[j]
      <3>1. polled[i] # s /\ polled[j] # s
        BY <1>3, <1>4 DEF WorkPlaced
      <3>2. \A f : Made(polled[i], f)' /\ Made(polled[j], f)' => Made(polled[i], f) /\ Made(polled[j], f)
        <4>1. PICK p : p = polled'[i]
          OBVIOUS
        <4>2. PICK o : o = polled'[j]
          OBVIOUS
        <4>3. p = polled[i] /\ o = polled[j]
          BY <1>3, <4>1, <4>2
        <4>4. \A f : Made(p, f)' /\ Made(o, f)' => Made(p, f) /\ Made(o, f)
          BY <1>5, <3>1, <4>3
        <4> QED
          BY <4>1, <4>2, <4>3, <4>4 DEF Made
      <3> QED
        BY <1>3, <2>2, <3>2 DEF WorkSorted
    <2>3. ASSUME NEW f \in DOMAIN envs', NEW p \in Polled', NEW x \in Queued(f)', Made(p, f)'
          PROVE  p < x
      <3>1. p \in 1 .. drawn /\ p \in Polled /\ Made(p, f)
        BY <1>4, <1>5, <1>7, <2>3
      <3>2. x = s \/ x \in Queued(f)
        BY <1>9
      <3> QED
        BY <1>3, <1>4, <3>1, <3>2 DEF WorkSorted
    <2> QED
      BY <2>1, <2>2, <2>3 DEF WorkSorted
  <1> QED
    BY <1>6, <1>10, <1>11

\* Handing out the head of a queue.
LEMMA PolledWork ==
  ASSUME EnvTypeOK, MadeOnce, WorkPlaced, WorkSorted, NEW e, Poll(e)
  PROVE  MadeOnce' /\ WorkPlaced' /\ WorkSorted'
  <1>1. PICK s : s = Head(envs[e].queue)
    OBVIOUS
  <1>2. /\ up /\ e \in DOMAIN envs /\ s \in Queued(e) /\ s \in SessionIds
        /\ polled' = Append(polled, s)
        /\ DOMAIN envs' = DOMAIN envs /\ envs'[e] \in Env /\ envs'[e].credential = envs[e].credential
        /\ s = envs[e].queue[1] /\ 1 \in DOMAIN envs[e].queue
        /\ \A i \in DOMAIN envs'[e].queue : /\ i + 1 \in DOMAIN envs[e].queue /\ i + 1 > 1
                                            /\ envs'[e].queue[i] = envs[e].queue[i + 1]
        /\ \A i \in DOMAIN envs[e].queue : i # 1 => \E j \in DOMAIN envs'[e].queue : envs'[e].queue[j] = envs[e].queue[i]
        /\ \A x \in DOMAIN envs : x # e => envs'[x] = envs[x]
        /\ UNCHANGED <<sessions, bridging, streams, envRows, sessionRows, bridges, drawn, dropped, deleted, offline>>
    BY <1>1, PollDoes
  <1> DEFINE q == envs[e].queue  r == envs'[e].queue
  <1>3. /\ q \in Seq(SessionIds) /\ DOMAIN q = 1 .. Len(q) /\ Len(q) \in Nat
        /\ r \in Seq(SessionIds) /\ DOMAIN r = 1 .. Len(r) /\ Len(r) \in Nat
    <2>1. q \in Seq(SessionIds) /\ r \in Seq(SessionIds)
      BY <1>2, QueueTyped DEF Env
    <2> HIDE DEF q, r
    <2> QED
      BY <2>1, LenProperties
  <1>4. /\ \A x, f : Made(x, f)' <=> Made(x, f)
        /\ drawn' = drawn
    BY <1>2 DEF Made
  <1>5. /\ DOMAIN polled' = DOMAIN polled \cup {Len(polled) + 1} /\ polled'[Len(polled) + 1] = s
        /\ \A i \in DOMAIN polled : polled'[i] = polled[i] /\ i < Len(polled) + 1
        /\ \A i \in DOMAIN polled : i \in Nat
        /\ Len(polled) \in Nat
    <2>1. polled \in Seq(SessionIds)
      BY DEF EnvTypeOK
    <2>2. /\ polled' \in Seq(SessionIds) /\ Len(polled') = Len(polled) + 1 /\ polled'[Len(polled) + 1] = s
          /\ \A i \in 1 .. Len(polled) : polled'[i] = polled[i]
      BY <1>2, <2>1, AppendProperties
    <2>3. DOMAIN polled = 1 .. Len(polled) /\ Len(polled) \in Nat /\ DOMAIN polled' = 1 .. Len(polled) + 1
      BY <2>1, <2>2, LenProperties
    <2> QED
      BY <2>2, <2>3
  <1>6. Polled' = Polled \cup {s}
    BY <1>5 DEF Polled
  <1>7. /\ Queued(e) = {q[i] : i \in DOMAIN q} /\ Queued(e)' = {r[i] : i \in DOMAIN r}
        /\ \A f : f # e => Queued(f)' = Queued(f)
    <2>1. Queued(e) = {q[i] : i \in DOMAIN q}
      BY <1>2 DEF Queued
    <2>2. Queued(e)' = {r[i] : i \in DOMAIN r}
      BY <1>2 DEF Queued
    <2>3. \A f : f # e => Queued(f)' = Queued(f)
      <3>1. DOMAIN envs' = DOMAIN envs /\ \A f \in DOMAIN envs : f # e => envs'[f] = envs[f]
        BY <1>2
      <3> QED
        BY <3>1 DEF Queued
    <2> QED
      BY <2>1, <2>2, <2>3
  <1>8. \A i \in DOMAIN r : i + 1 \in DOMAIN q /\ i + 1 > 1 /\ r[i] = q[i + 1] /\ i \in Nat
    BY <1>2, <1>3
  <1>9. \A i, j \in DOMAIN q : i < j => q[i] < q[j]
    BY <1>2 DEF WorkSorted
  <1>10. s = q[1] /\ 1 \in DOMAIN q
    BY <1>2
  <1> HIDE DEF q, r
  <1>11. \A x \in Queued(e)' : x \in Queued(e) /\ s < x
    BY <1>7, <1>8, <1>9, <1>10
  <1>12. MadeOnce'
    BY <1>4 DEF MadeOnce
  <1>13. s \in 1 .. drawn \ Polled /\ (\A f \in DOMAIN envs : s \in Queued(f) => e = f) /\ \A f : Made(s, f) => e = f
    BY <1>2 DEF WorkPlaced
  <1>14. \A x \in 1 .. drawn : x \in Nat
    OBVIOUS
  <1>15. WorkPlaced'
    <2>1. \A i \in DOMAIN polled' : polled'[i] \in 1 .. drawn'
      BY <1>4, <1>5, <1>13 DEF WorkPlaced
    <2>2. ASSUME NEW f \in DOMAIN envs', NEW x \in Queued(f)'
          PROVE  /\ x \in 1 .. drawn' \ Polled'
                 /\ \A g \in DOMAIN envs' : x \in Queued(g)' => f = g
                 /\ \A g : Made(x, g)' => f = g
      <3>1. \A g \in DOMAIN envs : x \in Queued(g)' => x \in Queued(g)
        BY <1>7, <1>11
      <3>2. x \in Queued(f) /\ f \in DOMAIN envs
        BY <1>2, <2>2, <3>1
      <3>3. x # s
        <4>1. CASE f = e
          <5>1. s < x /\ x \in Nat /\ s \in Nat
            BY <1>11, <1>13, <1>14, <2>2, <3>2, <4>1 DEF WorkPlaced
          <5> QED
            BY <5>1
        <4>2. CASE f # e
          BY <1>13, <3>2, <4>2
        <4> QED
          BY <4>1, <4>2
      <3> QED
        BY <1>2, <1>4, <1>6, <3>1, <3>2, <3>3 DEF WorkPlaced
    <2>3. streams' \subseteq Polled'
      BY <1>2, <1>6 DEF WorkPlaced
    <2> QED
      BY <2>1, <2>2, <2>3 DEF WorkPlaced
  <1>16. WorkSorted'
    <2>1. ASSUME NEW f \in DOMAIN envs', NEW i \in DOMAIN envs'[f].queue, NEW j \in DOMAIN envs'[f].queue, i < j
          PROVE  envs'[f].queue[i] < envs'[f].queue[j]
      <3>1. CASE f # e
        BY <1>2, <2>1, <3>1 DEF WorkSorted
      <3>2. CASE f = e
        <4>1. i \in DOMAIN r /\ j \in DOMAIN r
          BY <2>1, <3>2 DEF r
        <4>2. i + 1 < j + 1
          BY <1>8, <2>1, <4>1
        <4>3. r[i] < r[j]
          BY <1>8, <1>9, <4>1, <4>2
        <4> QED
          BY <3>2, <4>3 DEF r
      <3> QED
        BY <3>1, <3>2
    <2>2. ASSUME NEW i \in DOMAIN polled', NEW j \in DOMAIN polled', i < j
          PROVE  polled'[i] # polled'[j] /\ \A f : Made(polled[i], f)' /\ Made(polled[j], f)' => polled'[i] < polled'[j]
      <3>1. PICK p : p = polled'[i]
        OBVIOUS
      <3>2. PICK w : w = polled'[j]
        OBVIOUS
      <3>3. i \in DOMAIN polled
        BY <1>5, <2>2
      <3>4. p = polled[i] /\ p \in Polled
        BY <1>5, <3>1, <3>3 DEF Polled
      <3>5. p # w /\ \A f : Made(p, f)' /\ Made(w, f)' => p < w
        <4>1. CASE j \in DOMAIN polled
          <5>1. w = polled[j]
            BY <1>5, <3>2, <4>1
          <5> QED
            BY <1>4, <2>2, <3>3, <3>4, <4>1, <5>1 DEF WorkSorted
        <4>2. CASE j = Len(polled) + 1
          <5>1. w = s
            BY <1>5, <3>2, <4>2
          <5> QED
            BY <1>2, <1>4, <1>13, <3>4, <5>1 DEF WorkSorted
        <4> QED
          BY <1>5, <2>2, <4>1, <4>2
      <3> QED
        BY <3>1, <3>2, <3>5 DEF Made
    <2>3. ASSUME NEW f \in DOMAIN envs', NEW p \in Polled', NEW x \in Queued(f)', Made(p, f)'
          PROVE  p < x
      <3>1. Made(p, f) /\ f \in DOMAIN envs
        BY <1>2, <1>4, <2>3
      <3>2. x \in Queued(f)
        BY <1>7, <1>11, <2>3
      <3>3. CASE p = s
        BY <1>11, <1>13, <2>3, <3>1, <3>3
      <3>4. CASE p \in Polled
        BY <3>1, <3>2, <3>4 DEF WorkSorted
      <3> QED
        BY <1>6, <3>3, <3>4
    <2> QED
      BY <2>1, <2>2, <2>3 DEF WorkSorted
  <1> QED
    BY <1>12, <1>15, <1>16

\* Each step keeps work in its place and in order.
LEMMA WorkStep ==
  ASSUME EnvTypeOK, MemoryTrue, MadeOnce, WorkPlaced, WorkSorted, [ControlNext]_<<accountVars, envVars>>
  PROVE  MadeOnce' /\ WorkPlaced' /\ WorkSorted'
  <1> DEFINE Kept(e) == e \in DOMAIN envs /\ envs'[e].queue = envs[e].queue
  <1>1. ASSUME NEW e \in EnvIds, NEW t \in Tokens, Register(e, t)
        PROVE  MadeOnce' /\ WorkPlaced' /\ WorkSorted'
    <2>1. PICK b : /\ b \notin DOMAIN bridging
                   /\ bridging' = Put(bridging, b, [env |-> e, phase |-> "env", sid |-> None])
      BY <1>1, RegisterDoes
    <2>2. /\ envs' = Put(envs, e, createEnv(t))
          /\ UNCHANGED <<sessions, streams, sessionRows, drawn, polled>>
      BY <1>1, RegisterDoes
    <2>3. \A x, f : Made(x, f)' => Made(x, f)
      BY <2>1, <2>2 DEF Made, Put
    <2>4. \A x \in DOMAIN envs' : envs'[x].queue = <<>> \/ Kept(x)
      BY <2>2 DEF Put, createEnv
    <2> QED
      BY <2>2, <2>3, <2>4, QuietWork DEF WorkPlaced
  <1>2. ASSUME NEW b \in BridgeSlots, SessionSaved(b) \/ \E c \in BOOLEAN : SaveFails(b, c)
        PROVE  MadeOnce' /\ WorkPlaced' /\ WorkSorted'
    <2>1. PICK e : e = bridging[b].env
      OBVIOUS
    <2>2. PICK s : s = bridging[b].sid
      OBVIOUS
    <2>3. /\ b \in DOMAIN bridging /\ bridging' = Without(bridging, b)
          /\ \/ sessionRows' = sessionRows
             \/ bridging[b].phase = "session" /\ sessionRows' = Put(sessionRows, s, SentRow(b))
          /\ UNCHANGED <<envs, sessions, streams, bridges, drawn, polled, dropped, deleted, offline>>
      BY <1>2, <2>2, SavedDoes
    <2>4. SentRow(b).env = e
      BY <2>1 DEF SentRow
    <2>5. \A x \in DOMAIN bridging' : x \in DOMAIN bridging /\ bridging'[x] = bridging[x]
      BY <2>3 DEF Without, Restrict
    <2>6. \A x, f : x \in DOMAIN sessionRows' /\ sessionRows'[x].env = f => Made(x, f)
      <3>1. \A x \in DOMAIN sessionRows' :
               \/ x \in DOMAIN sessionRows /\ sessionRows'[x] = sessionRows[x]
               \/ bridging[b].phase = "session" /\ x = s /\ sessionRows'[x].env = e
        BY <2>3, <2>4 DEF Put
      <3> QED
        BY <2>1, <2>2, <2>3, <3>1 DEF Made
    <2>7. \A x, f : Made(x, f)' => Made(x, f)
      BY <2>3, <2>5, <2>6 DEF Made
    <2> QED
      BY <2>3, <2>7, QuietWork DEF WorkPlaced
  <1>3. ASSUME NEW s \in SessionIds, OpenStream(s) \/ CloseStream(s)
        PROVE  MadeOnce' /\ WorkPlaced' /\ WorkSorted'
    <2>1. /\ \E c \in BOOLEAN : sessions' = markWsConnected(s, c)
          /\ streams' \subseteq streams \cup (Polled \cap {s})
          /\ UNCHANGED <<envs, bridging, sessionRows, drawn, polled>>
      BY <1>3 DEF OpenStream, CloseStream, envTables, work
    <2>2. DOMAIN sessions' = DOMAIN sessions /\ \A x \in DOMAIN sessions : sessions'[x].env = sessions[x].env
      BY <2>1 DEF markWsConnected, EnvTypeOK, Typed, Session
    <2>3. \A x, f : Made(x, f)' => Made(x, f)
      BY <2>1, <2>2 DEF Made
    <2> QED
      BY <2>1, <2>3, QuietWork DEF WorkPlaced
  <1>4. ASSUME NEW e \in EnvIds, Deregister(e)
        PROVE  MadeOnce' /\ WorkPlaced' /\ WorkSorted'
    <2>1. DOMAIN sessions' = DOMAIN sessions /\ \A x \in DOMAIN sessions : sessions'[x].env = sessions[x].env
      BY <1>4 DEF Deregister, EnvTypeOK, Typed, Session
    <2>2. DOMAIN envs' = DOMAIN envs /\ \A x \in DOMAIN envs : envs'[x].queue = envs[x].queue
      BY <1>4 DEF Deregister, EnvTypeOK, Typed, Env
    <2>3. UNCHANGED <<bridging, streams, sessionRows, drawn, polled>>
      BY <1>4 DEF Deregister, envTables, work
    <2>4. \A x, f : Made(x, f)' => Made(x, f)
      BY <2>1, <2>3 DEF Made
    <2> QED
      BY <2>2, <2>3, <2>4, QuietWork DEF WorkPlaced
  <1>5. ASSUME NEW s \in SessionIds, DeleteSession(s)
        PROVE  MadeOnce' /\ WorkPlaced' /\ WorkSorted'
    <2>1. /\ DOMAIN sessions' \subseteq DOMAIN sessions /\ \A x \in DOMAIN sessions' : sessions'[x] = sessions[x]
          /\ DOMAIN sessionRows' \subseteq DOMAIN sessionRows /\ \A x \in DOMAIN sessionRows' : sessionRows'[x] = sessionRows[x]
          /\ UNCHANGED <<envs, bridging, streams, drawn, polled>>
      BY <1>5 DEF DeleteSession, Without, Restrict, work
    <2>2. \A x, f : Made(x, f)' => Made(x, f)
      BY <2>1 DEF Made
    <2> QED
      BY <2>1, <2>2, QuietWork DEF WorkPlaced
  <1>6. ASSUME EnvCrash
        PROVE  MadeOnce' /\ WorkPlaced' /\ WorkSorted'
    <2>1. /\ DOMAIN envs' = {} /\ DOMAIN sessions' = {} /\ DOMAIN bridging' = {} /\ streams' = {}
          /\ \A s \in DOMAIN sessionRows' :
               \/ s \in DOMAIN sessionRows /\ sessionRows'[s] = sessionRows[s]
               \/ \E b \in DOMAIN bridging :
                    bridging[b].phase = "session" /\ bridging[b].sid = s /\ sessionRows'[s] = SentRow(b)
          /\ UNCHANGED <<drawn, polled>>
      BY <1>6, CrashDoes
    <2>2. \A b : SentRow(b).env = bridging[b].env
      BY DEF SentRow
    <2>3. \A x, f : Made(x, f)' => Made(x, f)
      BY <2>1, <2>2 DEF Made
    <2> QED
      BY <2>1, <2>3, QuietWork
  <1>7. ASSUME EnvRestart
        PROVE  MadeOnce' /\ WorkPlaced' /\ WorkSorted'
    <2>1. DOMAIN envs' = DOMAIN envRows /\ \A e \in DOMAIN envRows : envs'[e].queue = <<>>
      BY <1>7 DEF EnvRestart, createEnv
    <2>2. DOMAIN sessions' = DOMAIN sessionRows
          /\ \A s \in DOMAIN sessionRows : sessions'[s].env = sessionRows[s].env
      BY <1>7 DEF EnvRestart
    <2>3. UNCHANGED <<bridging, streams, sessionRows, drawn, polled>>
      BY <1>7 DEF EnvRestart, envTables, work
    <2>4. \A x, f : Made(x, f)' => Made(x, f)
      BY <2>2, <2>3 DEF Made
    <2> QED
      BY <2>1, <2>3, <2>4, QuietWork DEF WorkPlaced
  <1>8. CASE UNCHANGED envVars
    <2>1. UNCHANGED <<envs, sessions, bridging, streams, sessionRows, drawn, polled>>
      BY <1>8 DEF envVars, envMemory, envTables, work
    <2>2. \A x, f : Made(x, f)' => Made(x, f)
      BY <2>1 DEF Made
    <2> QED
      BY <2>1, <2>2, QuietWork DEF WorkPlaced
  <1> QED
    BY <1>1, <1>2, <1>3, <1>4, <1>5, <1>6, <1>7, <1>8, SavedWork, PolledWork DEF ControlNext, EnvNext

\* Each step keeps undelivered work in a queue, or accounts for its loss.
LEMMA KeptStep ==
  ASSUME EnvTypeOK, MemoryTrue, WorkKept, [ControlNext]_<<accountVars, envVars>>
  PROVE  WorkKept'
  <1>1. ASSUME NEW e \in EnvIds, NEW t \in Tokens, Register(e, t)
        PROVE  WorkKept'
    <2>1. /\ envs' = Put(envs, e, createEnv(t)) /\ dropped' = dropped \cup Queued(e)
          /\ UNCHANGED <<sessions, drawn, polled, deleted>>
      BY <1>1, RegisterDoes
    <2>2. \A x \in DOMAIN envs : x # e => x \in DOMAIN envs' /\ envs'[x] = envs[x]
      BY <2>1 DEF Put
    <2>3. \A x \in DOMAIN envs : x # e => Queued(x)' = Queued(x)
      BY <2>2 DEF Queued
    <2> QED
      BY <2>1, <2>2, <2>3 DEF WorkKept, Polled
  <1>2. ASSUME NEW b \in BridgeSlots, EnvSaved(b)
        PROVE  WorkKept'
    <2>1. PICK e : e = bridging[b].env
      OBVIOUS
    <2>2. PICK s : s = drawn + 1
      OBVIOUS
    <2>3. /\ b \in DOMAIN bridging /\ e \in DOMAIN envs /\ e \in EnvIds /\ envs[e] \in Env /\ s \in SessionIds
          /\ drawn' = s
          /\ DOMAIN envs' = DOMAIN envs /\ envs'[e] \in Env
          /\ envs'[e].queue = Append(envs[e].queue, s) /\ envs'[e].credential = envs[e].credential
          /\ \A x \in DOMAIN envs : x # e => envs'[x] = envs[x]
          /\ envRows' = Put(envRows, e, envs[e].credential)
          /\ sessions' = Put(sessions, s, [credential |-> envs[e].credential, env |-> e, conn |-> FALSE])
          /\ DOMAIN bridging' = DOMAIN bridging
          /\ bridging'[b] = [env |-> e, phase |-> "session", sid |-> s]
          /\ \A x \in DOMAIN bridging : x # b => bridging'[x] = bridging[x]
          /\ UNCHANGED <<streams, sessionRows, bridges, polled, dropped, deleted, offline>>
      BY <1>2, <2>1, <2>2, EnvSavedDoes
    <2>4. DOMAIN sessions' = DOMAIN sessions \cup {s}
      BY <2>3 DEF Put
    <2> DEFINE q == envs[e].queue  r == envs'[e].queue
    <2>5. q \in Seq(SessionIds) /\ r = Append(q, s)
      BY <2>3 DEF Env
    <2>6. Queued(e) = {q[i] : i \in DOMAIN q}
      BY <2>3 DEF Queued
    <2>7. Queued(e)' = {r[i] : i \in DOMAIN r}
      BY <2>3 DEF Queued
    <2> HIDE DEF q, r
    <2>8. Queued(e) \subseteq Queued(e)' /\ s \in Queued(e)'
      <3>1. /\ Len(r) = Len(q) + 1 /\ r[Len(q) + 1] = s /\ \A i \in 1 .. Len(q) : r[i] = q[i]
            /\ r \in Seq(SessionIds)
        BY <2>3, <2>5, AppendProperties
      <3>2. DOMAIN q = 1 .. Len(q) /\ Len(q) \in Nat /\ DOMAIN r = 1 .. Len(q) + 1
        BY <2>5, <3>1, LenProperties
      <3>3. DOMAIN q \subseteq DOMAIN r /\ Len(q) + 1 \in DOMAIN r
        BY <3>2
      <3> QED
        BY <2>6, <2>7, <3>1, <3>2, <3>3
    <2>9. \A x \in DOMAIN envs : Queued(x) \subseteq Queued(x)'
      <3>1. \A x \in DOMAIN envs : x # e => Queued(x) = Queued(x)'
        BY <2>3 DEF Queued
      <3> QED
        BY <2>8, <3>1
    <2>10. \A x \in 1 .. drawn' : x = s \/ x \in 1 .. drawn
      BY <2>2, <2>3 DEF EnvTypeOK
    <2> QED
      BY <2>3, <2>4, <2>8, <2>9, <2>10 DEF WorkKept, Polled
  <1>3. ASSUME NEW e \in EnvIds, Poll(e)
        PROVE  WorkKept'
    <2>1. PICK s : s = Head(envs[e].queue)
      OBVIOUS
    <2>2. /\ up /\ e \in DOMAIN envs /\ s \in Queued(e) /\ s \in SessionIds
          /\ polled' = Append(polled, s)
          /\ DOMAIN envs' = DOMAIN envs /\ envs'[e] \in Env /\ envs'[e].credential = envs[e].credential
          /\ s = envs[e].queue[1] /\ 1 \in DOMAIN envs[e].queue
          /\ \A i \in DOMAIN envs'[e].queue : /\ i + 1 \in DOMAIN envs[e].queue /\ i + 1 > 1
                                              /\ envs'[e].queue[i] = envs[e].queue[i + 1]
          /\ \A i \in DOMAIN envs[e].queue : i # 1 => \E j \in DOMAIN envs'[e].queue : envs'[e].queue[j] = envs[e].queue[i]
          /\ \A x \in DOMAIN envs : x # e => envs'[x] = envs[x]
          /\ UNCHANGED <<sessions, bridging, streams, envRows, sessionRows, bridges, drawn, dropped, deleted, offline>>
      BY <1>3, <2>1, PollDoes
    <2>3. Polled \cup {s} \subseteq Polled'
      <3>1. polled \in Seq(SessionIds)
        BY DEF EnvTypeOK
      <3>2. /\ polled' \in Seq(SessionIds) /\ Len(polled') = Len(polled) + 1 /\ polled'[Len(polled) + 1] = s
            /\ \A i \in 1 .. Len(polled) : polled'[i] = polled[i]
        BY <2>2, <3>1, AppendProperties
      <3>3. DOMAIN polled = 1 .. Len(polled) /\ Len(polled) \in Nat /\ DOMAIN polled' = 1 .. Len(polled) + 1
        BY <3>1, <3>2, LenProperties
      <3>4. DOMAIN polled \subseteq DOMAIN polled' /\ Len(polled) + 1 \in DOMAIN polled'
        BY <3>3
      <3> QED
        BY <3>2, <3>3, <3>4 DEF Polled
    <2>4. \A x \in Queued(e) : x = s \/ x \in Queued(e)'
      <3>1. \A x \in Queued(e) : \E i \in DOMAIN envs[e].queue : x = envs[e].queue[i]
        BY <2>2 DEF Queued
      <3>2. \A j \in DOMAIN envs'[e].queue : envs'[e].queue[j] \in Queued(e)'
        BY <2>2 DEF Queued
      <3> QED
        BY <2>2, <3>1, <3>2
    <2>5. \A x \in DOMAIN envs : x # e => Queued(x)' = Queued(x)
      BY <2>2 DEF Queued
    <2> QED
      BY <2>2, <2>3, <2>4, <2>5 DEF WorkKept
  <1>4. ASSUME NEW s \in SessionIds, DeleteSession(s)
        PROVE  WorkKept'
    <2>1. /\ DOMAIN sessions' = DOMAIN sessions \ {s} /\ deleted' = deleted \cup {s}
          /\ UNCHANGED <<envs, drawn, polled, dropped>>
      BY <1>4 DEF DeleteSession, Without, Restrict, work
    <2> QED
      BY <2>1 DEF WorkKept, Queued, Polled
  <1>5. ASSUME NEW e \in EnvIds, Deregister(e)
        PROVE  WorkKept'
    <2>1. /\ DOMAIN envs' = DOMAIN envs /\ \A x \in DOMAIN envs : envs'[x].queue = envs[x].queue
          /\ DOMAIN sessions' = DOMAIN sessions
      BY <1>5 DEF Deregister, EnvTypeOK, Typed, Env
    <2>2. UNCHANGED <<drawn, polled, dropped, deleted>>
      BY <1>5 DEF Deregister, work
    <2>3. \A x \in DOMAIN envs : Queued(x)' = Queued(x)
      BY <2>1 DEF Queued
    <2> QED
      BY <2>1, <2>2, <2>3 DEF WorkKept, Polled
  <1>6. ASSUME EnvCrash
        PROVE  WorkKept'
    <2>1. /\ dropped' = dropped \cup UNION {Queued(e) : e \in DOMAIN envs}
          /\ UNCHANGED <<drawn, polled>>
      BY <1>6, CrashDoes
    <2> QED
      BY <2>1 DEF WorkKept, Polled
  <1>7. ASSUME EnvRestart
        PROVE  WorkKept'
    <2>1. ~up /\ UNCHANGED <<drawn, polled, dropped>>
      BY <1>7 DEF EnvRestart, Restart, work
    <2>2. \A s \in 1 .. drawn : s \in Polled \cup dropped
      BY <2>1 DEF WorkKept, MemoryTrue
    <2> QED
      BY <2>1, <2>2 DEF WorkKept, Polled
  <1>8. CASE /\ UNCHANGED <<envs, drawn, polled, dropped, deleted>>
             /\ DOMAIN sessions' = DOMAIN sessions
    BY <1>8 DEF WorkKept, Polled, Queued
  <1>9. ASSUME \/ \E b \in BridgeSlots : SessionSaved(b) \/ \E c \in BOOLEAN : SaveFails(b, c)
               \/ \E s \in SessionIds : OpenStream(s) \/ CloseStream(s)
               \/ UNCHANGED envVars
        PROVE  /\ UNCHANGED <<envs, drawn, polled, dropped, deleted>>
               /\ DOMAIN sessions' = DOMAIN sessions
    BY <1>9 DEF SessionSaved, SaveFails, OpenStream, CloseStream, markWsConnected, envVars, envMemory, work
  <1> QED
    BY <1>1, <1>2, <1>3, <1>4, <1>5, <1>6, <1>7, <1>8, <1>9 DEF ControlNext, EnvNext

\* Each step leaves a session with a stream connected, or notes that its environment went.
LEMMA StreamsStep ==
  ASSUME EnvTypeOK, MemoryTrue, WorkPlaced, StreamMeansConnected, [ControlNext]_<<accountVars, envVars>>
  PROVE  StreamMeansConnected'
  <1>1. ASSUME NEW b \in BridgeSlots, EnvSaved(b)
        PROVE  StreamMeansConnected'
    <2>1. PICK e : e = bridging[b].env
      OBVIOUS
    <2>2. PICK s : s = drawn + 1
      OBVIOUS
    <2>3. \A x \in 1 .. drawn : x # s
      BY <2>2 DEF EnvTypeOK
    <2>4. s \notin streams
      BY <2>3 DEF WorkPlaced, Polled
    <2>5. /\ sessions' = Put(sessions, s, [credential |-> envs[e].credential, env |-> e, conn |-> FALSE])
          /\ UNCHANGED <<streams, offline>>
      BY <1>1, <2>1, <2>2 DEF EnvSaved
    <2>6. \A x \in DOMAIN sessions : x # s => x \in DOMAIN sessions' /\ sessions'[x] = sessions[x]
      BY <2>5 DEF Put
    <2> QED
      BY <2>4, <2>5, <2>6 DEF StreamMeansConnected
  <1>2. ASSUME NEW s \in SessionIds, OpenStream(s)
        PROVE  StreamMeansConnected'
    <2>1. /\ s \in DOMAIN sessions /\ sessions' = [sessions EXCEPT ![s].conn = TRUE]
          /\ streams' = streams \cup {s} /\ offline' = offline
      BY <1>2 DEF OpenStream, markWsConnected
    <2>2. \A x \in DOMAIN sessions : sessions[x] \in Session
      BY DEF EnvTypeOK, Typed
    <2>3. /\ DOMAIN sessions' = DOMAIN sessions /\ sessions'[s].conn
          /\ \A x \in DOMAIN sessions : x # s => sessions'[x] = sessions[x]
      BY <2>1, <2>2 DEF Session
    <2> QED
      BY <2>1, <2>3 DEF StreamMeansConnected
  <1>3. ASSUME NEW s \in SessionIds, CloseStream(s)
        PROVE  StreamMeansConnected'
    <2>1. /\ sessions' = markWsConnected(s, FALSE) /\ streams' = streams \ {s} /\ offline' = offline \ {s}
      BY <1>3 DEF CloseStream
    <2>2. /\ DOMAIN sessions' = DOMAIN sessions
          /\ \A x \in DOMAIN sessions : x # s => sessions'[x] = sessions[x]
      BY <2>1 DEF markWsConnected
    <2> QED
      BY <2>1, <2>2 DEF StreamMeansConnected
  <1>4. ASSUME NEW e \in EnvIds, Deregister(e)
        PROVE  StreamMeansConnected'
    <2>1. /\ DOMAIN sessions' = DOMAIN sessions /\ streams' = streams
          /\ \A x \in DOMAIN sessions : sessions[x].env # e => sessions'[x] = sessions[x]
          /\ offline' = offline \cup {s \in streams \cap DOMAIN sessions : sessions[s].env = e}
      BY <1>4 DEF Deregister, InEnv
    <2> QED
      BY <2>1 DEF StreamMeansConnected
  <1>5. ASSUME NEW s \in SessionIds, DeleteSession(s)
        PROVE  StreamMeansConnected'
    <2>1. /\ DOMAIN sessions' = DOMAIN sessions \ {s} /\ ~sessions[s].conn
          /\ \A x \in DOMAIN sessions \ {s} : sessions'[x] = sessions[x]
          /\ UNCHANGED <<streams, offline>>
      BY <1>5 DEF DeleteSession, Without, Restrict
    <2> QED
      BY <2>1 DEF StreamMeansConnected
  <1>6. ASSUME EnvCrash \/ EnvRestart
        PROVE  StreamMeansConnected'
    <2>1. streams' = {}
      BY <1>6 DEF EnvCrash, EnvRestart, Restart, MemoryTrue
    <2> QED
      BY <2>1 DEF StreamMeansConnected
  <1>7. CASE UNCHANGED <<sessions, streams, offline>>
    BY <1>7 DEF StreamMeansConnected
  <1>8. ASSUME \/ \E e \in EnvIds, t \in Tokens : Register(e, t)
               \/ \E b \in BridgeSlots : SessionSaved(b) \/ \E c \in BOOLEAN : SaveFails(b, c)
               \/ \E e \in EnvIds : Poll(e)
               \/ UNCHANGED envVars
        PROVE  UNCHANGED <<sessions, streams, offline>>
    BY <1>8 DEF Register, SessionSaved, SaveFails, Poll, envVars, envMemory
  <1> QED
    BY <1>1, <1>2, <1>3, <1>4, <1>5, <1>6, <1>7, <1>8 DEF ControlNext, EnvNext

-----------------------------------------------------------------------------
(* The theorems *)

\* The invariant holds at first.
LEMMA EnvInitInv ==
  ASSUME ControlInit
  PROVE  EnvInv
  <1>1. /\ DOMAIN envs = {} /\ DOMAIN sessions = {} /\ DOMAIN envRows = {} /\ DOMAIN sessionRows = {}
        /\ DOMAIN bridging = {} /\ DOMAIN bridges = {} /\ DOMAIN byToken = {}
        /\ streams = {} /\ dropped = {} /\ deleted = {} /\ offline = {} /\ drawn = 0 /\ polled = <<>>
    BY EmptyIs DEF ControlInit, Init, EnvInit
  <1>2. DOMAIN polled = {} /\ polled \in Seq(SessionIds) /\ 1 .. drawn = {}
    BY <1>1, EmptySeq
  <1>3. EnvTypeOK
    <2>1. TypeOK
      BY InitInv DEF ControlInit, IInv
    <2>2. drawn \in 0 .. MaxSessions
      BY <1>1, EnvironmentsOK
    <2> QED
      BY <1>1, <1>2, <2>1, <2>2 DEF EnvTypeOK, Typed
  <1>4. IndexTrue /\ BridgesTrue /\ OwnersTrue /\ MemoryTrue
    BY <1>1 DEF IndexTrue, BridgesTrue, OwnersTrue, MemoryTrue
  <1>5. \A s, e : ~Made(s, e)
    BY <1>1 DEF Made
  <1>6. MadeOnce /\ WorkPlaced /\ WorkSorted /\ WorkKept /\ StreamMeansConnected
    BY <1>1, <1>2, <1>5 DEF MadeOnce, WorkPlaced, WorkSorted, WorkKept, StreamMeansConnected, Polled
  <1> QED
    BY <1>3, <1>4, <1>6 DEF EnvInv

\* Each step keeps it.
LEMMA EnvStepInv ==
  ASSUME IInv, EnvInv, [ControlNext]_<<accountVars, envVars>>
  PROVE  EnvInv'
  <1>1. [Next]_accountVars
    BY ControlServes
  <1>2. IndexTrue'
    BY <1>1, IndexStep DEF EnvInv
  <1> QED
    BY <1>2, BridgesStep, OwnersStep, MemoryStep, EnvTypeStep, WorkStep, KeptStep, StreamsStep DEF EnvInv

\* The accounts run in the control plane as they do alone, so what is proved of them holds here: no
\* registration, poll, stream or deletion of the environments disturbs the account book.
THEOREM AccountsUndisturbed == ControlSpec => Spec
  <1>1. ControlInit => Init
    BY DEF ControlInit
  <1>2. [ControlNext]_<<accountVars, envVars>> => [Next]_accountVars
    BY ControlServes
  <1> QED
    BY <1>1, <1>2, PTL DEF ControlSpec, Spec

\* The invariants hold of every behaviour.
LEMMA EnvInvAlways == ControlSpec => [](IInv /\ EnvInv)
  <1>1. ControlInit => EnvInv
    BY EnvInitInv
  <1>2. IInv /\ EnvInv /\ [ControlNext]_<<accountVars, envVars>> => EnvInv'
    BY EnvStepInv
  <1> QED
    BY <1>1, <1>2, AccountsUndisturbed, InvAlways, PTL DEF ControlSpec

\* Every variable of the accounts and the environments keeps its type.
THEOREM EnvTypesCorrect == ControlSpec => []EnvTypeOK
  <1>1. EnvInv => EnvTypeOK
    BY DEF EnvInv
  <1> QED
    BY <1>1, EnvInvAlways, PTL

\* Sorted work that is known of two sessions of one environment was handed out in the order it was made.
LEMMA OrderFromInv ==
  ASSUME EnvInv
  PROVE  WorkInOrder
  <1>1. \A s \in DOMAIN sessions : Made(s, sessions[s].env)
    BY DEF Made
  <1> QED
    BY <1>1 DEF EnvInv, WorkSorted, WorkInOrder

\* pushSessionWork, nextWork and load() between them hand the work of an environment out once and in the
\* order its registrations queued it, and lose none that no replaced queue or crash accounts for:
\* whatever registrations overlap, fail, or meet a deletion or a crash between their two statements.
THEOREM WorkAlwaysHonest == ControlSpec => []WorkHonest
  <1>1. EnvInv => WorkHonest
    BY OrderFromInv DEF EnvInv, WorkHonest
  <1> QED
    BY <1>1, EnvInvAlways, PTL

\* A session whose child holds a stream is connected unless its environment was deregistered, and the
\* owner of every environment and session in memory is an account the process accepts: a restart, which
\* reads owners and accounts from different tables, included.
THEOREM SessionsAlwaysHonest == ControlSpec => []SessionsHonest
  <1>1. ASSUME EnvInv
        PROVE  SessionsHonest
    <2>1. \A c, e : OwnedBy(c, e) => (up => Accepted(c))
      BY <1>1 DEF EnvInv, BridgesTrue, OwnedBy
    <2>2. OwnersAccepted
      BY <1>1, <2>1 DEF EnvInv, OwnersTrue, OwnersAccepted
    <2> QED
      BY <1>1, <2>2 DEF EnvInv, SessionsHonest
  <1> QED
    BY <1>1, EnvInvAlways, PTL
=============================================================================
