------------------------- MODULE SessionStore_proofs -------------------------
(***************************************************************************)
(* Proofs about SessionStore, for every set of sessions, tokens and        *)
(* responses and every value of the bounds: type correctness, the token    *)
(* index, the SSE channel, the meaning of tokens, what the sweep and       *)
(* deletion take away, and who is connected.                               *)
(***************************************************************************)
EXTENDS SessionStore, TLAPS

-----------------------------------------------------------------------------
(* Maps *)

\* A partial function is a function on a subset of the keys.
LEMMA PartialFnIs ==
  ASSUME NEW S, NEW T, NEW f
  PROVE  f \in PartialFn(S, T) <=> DOMAIN f \subseteq S /\ f \in [DOMAIN f -> T]
  BY DEF PartialFn

\* Map.set keeps the map well typed, and is what it says at each key.
LEMMA PutOK ==
  ASSUME NEW S, NEW T, NEW f \in PartialFn(S, T), NEW k \in S, NEW v \in T
  PROVE  /\ Put(f, k, v) \in PartialFn(S, T)
         /\ DOMAIN Put(f, k, v) = DOMAIN f \cup {k}
         /\ Put(f, k, v)[k] = v
         /\ \A x \in DOMAIN f \ {k} : Put(f, k, v)[x] = f[x]
  <1> DEFINE g == Put(f, k, v)
  <1>1. DOMAIN f \subseteq S /\ f \in [DOMAIN f -> T]
    BY PartialFnIs
  <1>2. DOMAIN g = DOMAIN f \cup {k} /\ g[k] = v /\ \A x \in DOMAIN f \ {k} : g[x] = f[x]
    BY DEF Put
  <1>3. g \in [DOMAIN g -> T]
    BY <1>1 DEF Put
  <1>4. g \in PartialFn(S, T)
    BY <1>1, <1>2, <1>3, PartialFnIs
  <1> QED
    BY <1>2, <1>4

\* Map.delete of the keys in D likewise.
LEMMA RemoveOK ==
  ASSUME NEW S, NEW T, NEW f \in PartialFn(S, T), NEW D
  PROVE  /\ Remove(f, D) \in PartialFn(S, T)
         /\ DOMAIN Remove(f, D) = DOMAIN f \ D
         /\ \A x \in DOMAIN f \ D : Remove(f, D)[x] = f[x]
  <1> DEFINE g == Remove(f, D)
  <1>1. DOMAIN f \subseteq S /\ f \in [DOMAIN f -> T]
    BY PartialFnIs
  <1>2. DOMAIN g = DOMAIN f \ D /\ \A x \in DOMAIN f \ D : g[x] = f[x]
    BY DEF Remove, Restrict
  <1>3. g \in [DOMAIN g -> T]
    BY <1>1 DEF Remove, Restrict
  <1>4. g \in PartialFn(S, T)
    BY <1>1, <1>2, <1>3, PartialFnIs
  <1> QED
    BY <1>2, <1>4

\* The empty map, from which the process starts and restarts.
LEMMA EmptyOK ==
  ASSUME NEW S, NEW T
  PROVE  EmptyMap \in PartialFn(S, T) /\ DOMAIN EmptyMap = {}
  BY PartialFnIs DEF EmptyMap

-----------------------------------------------------------------------------
(* Type correctness *)

\* TypeOK, action group by action group.
LEMMA InitType == Init => TypeOK
  BY EmptyOK, ConstantsOK
  DEF Init, TypeOK, Time, SweepIdle, SweepCall, SweepPhase

\* Building or changing one record.
LEMMA RecordType ==
  ASSUME TypeOK, NEW s \in Cached
  PROVE  /\ s \in Sid
         /\ sessions[s] \in SessionRecord
         /\ sessions \in [Cached -> SessionRecord]
  BY PartialFnIs DEF TypeOK, Cached

\* addSession keeps the cache a partial function to records.
LEMMA AddSessionType ==
  ASSUME TypeOK, NEW s \in Sid, NEW t \in Token, AddSession(s, t)
  PROVE  TypeOK'
  <1>1. [tok |-> t, act |-> now, conn |-> FALSE, sse |-> None] \in SessionRecord
    BY DEF TypeOK, SessionRecord
  <1>2. sessions' \in PartialFn(Sid, SessionRecord)
    BY <1>1, PutOK DEF AddSession, TypeOK
  <1>3. byIngressToken' \in PartialFn(Token, Sid)
    BY PutOK DEF AddSession, TypeOK
  <1>4. upserts' \in SUBSET Upsert
    BY DEF AddSession, TypeOK, Upsert
  <1> QED
    BY <1>2, <1>3, <1>4 DEF AddSession, TypeOK

\* Changing the record of one cached session within its type.
LEMMA ExceptType ==
  ASSUME TypeOK, NEW s \in Cached, NEW r \in SessionRecord,
         sessions' = [sessions EXCEPT ![s] = r]
  PROVE  sessions' \in PartialFn(Sid, SessionRecord)
  <1>1. sessions' \in [Cached -> SessionRecord] /\ DOMAIN sessions' = Cached
    BY RecordType
  <1>2. Cached \subseteq Sid
    BY PartialFnIs DEF TypeOK, Cached
  <1> QED
    BY <1>1, <1>2, PartialFnIs

\* patchSession keeps the cache well typed, and what it sends to the database.
LEMMA PatchType ==
  ASSUME TypeOK, NEW s \in Cached, PatchSession(s)
  PROVE  sessions' \in PartialFn(Sid, SessionRecord) /\ upserts' \in SUBSET Upsert
  <1>1. [sessions[s] EXCEPT !.act = now] \in SessionRecord
    BY RecordType DEF TypeOK, SessionRecord
  <1>2. sessions' = [sessions EXCEPT ![s] = [sessions[s] EXCEPT !.act = now]]
    BY DEF PatchSession
  <1>3. [sid |-> s, tok |-> sessions[s].tok, act |-> now] \in Upsert
    BY RecordType DEF TypeOK, SessionRecord, Upsert
  <1> QED
    BY <1>1, <1>2, <1>3, ExceptType DEF PatchSession, TypeOK

\* Forgetting sessions.
LEMMA ForgetType ==
  ASSUME TypeOK, NEW S, Forget(S)
  PROVE  /\ sessions' \in PartialFn(Sid, SessionRecord)
         /\ byIngressToken' \in PartialFn(Token, Sid)
         /\ dirtyActivity' \in SUBSET Sid
  BY RemoveOK DEF Forget, TypeOK

\* A flush taken from the dirty set.
LEMMA FlushType ==
  ASSUME TypeOK, NEW b \in BOOLEAN, IssueFlush(b)
  PROVE  flushes' \in SUBSET Flush /\ dirtyActivity' \in SUBSET Sid
  <1> DEFINE acts == [s \in dirtyActivity \cap Cached |-> sessions[s].act]
  <1>1. acts \in [dirtyActivity \cap Cached -> Time]
    BY RecordType DEF SessionRecord
  <1>2. acts \in PartialFn(Sid, Time)
    BY <1>1, PartialFnIs DEF TypeOK
  <1>3. FlushBatch(b) \in Flush
    BY <1>2 DEF FlushBatch, Flush, TypeOK
  <1> QED
    BY <1>3 DEF IssueFlush, TypeOK

\* The sweep's record, phase by phase.
LEMMA SnapshotType ==
  ASSUME TypeOK, NEW busy \in SUBSET Sid
  PROVE  /\ SweepIdle \in SweepCall
         /\ SnapshotKeep \in SweepCall
         /\ [SnapshotKeep EXCEPT !.busy = busy] \in SweepCall
         /\ [SweepIdle EXCEPT !.phase = "flushing", !.busy = busy] \in SweepCall
  <1>1. Connected \in SUBSET Sid
    BY RecordType DEF Connected
  <1> QED
    BY <1>1 DEF SweepIdle, SnapshotKeep, SweepCall, SweepPhase, TypeOK

\* A row, and the table after an update of the rows that exist.
LEMMA RowType ==
  ASSUME TypeOK, NEW s \in DOMAIN rows
  PROVE  s \in Sid /\ rows[s] \in Row /\ rows \in [DOMAIN rows -> Row]
  BY PartialFnIs DEF TypeOK

\* The sweep only removes rows.
LEMMA SweptRows ==
  ASSUME TypeOK
  PROVE  /\ Remove(rows, StaleRows) \in PartialFn(Sid, Row)
         /\ DOMAIN Remove(rows, StaleRows) = DOMAIN rows \ StaleRows
         /\ \A s \in DOMAIN rows \ StaleRows : Remove(rows, StaleRows)[s] = rows[s]
  <1> DEFINE D == StaleRows
  <1>1. rows \in PartialFn(Sid, Row)
    BY DEF TypeOK
  <1> HIDE DEF D
  <1>2. /\ Remove(rows, D) \in PartialFn(Sid, Row)
        /\ DOMAIN Remove(rows, D) = DOMAIN rows \ D
        /\ \A s \in DOMAIN rows \ D : Remove(rows, D)[s] = rows[s]
    BY <1>1, RemoveOK
  <1> QED
    BY <1>2 DEF D

\* A flush writes times of activity into rows that exist.
LEMMA FlushRows ==
  ASSUME TypeOK, NEW f \in flushes, CommitFlush(f)
  PROVE  rows' \in PartialFn(Sid, Row)
  <1>1. f.acts \in PartialFn(Sid, Time)
    BY DEF TypeOK, Flush
  <1>2. \A s \in DOMAIN f.acts : f.acts[s] \in Time
    BY <1>1, PartialFnIs
  <1>3. ASSUME NEW s \in DOMAIN rows
        PROVE  (IF s \in DOMAIN f.acts THEN [rows[s] EXCEPT !.act = f.acts[s]] ELSE rows[s]) \in Row
    BY <1>2, RowType DEF Row
  <1>4. rows' \in [DOMAIN rows -> Row]
    BY <1>3 DEF CommitFlush
  <1>5. DOMAIN rows \subseteq Sid
    BY PartialFnIs DEF TypeOK
  <1> QED
    BY <1>4, <1>5, PartialFnIs

\* Every action keeps the state well typed.
LEMMA NextType == TypeOK /\ [Next]_vars => TypeOK'
  <1> SUFFICES ASSUME TypeOK, [Next]_vars
               PROVE  TypeOK'
    OBVIOUS
  <1>1. CASE UNCHANGED vars
    BY <1>1 DEF vars, cache, inFlight, TypeOK
  <1>2. ASSUME NEW s \in Sid, NEW t \in Token,
               PushSessionWork(s, t) \/ CreateReplSession(s, t) \/ RecreateSession(s, t)
        PROVE  TypeOK'
    BY <1>2, AddSessionType DEF PushSessionWork, CreateReplSession, RecreateSession
  <1>3. ASSUME NEW s \in Sid, UpdateSessionMeta(s)
        PROVE  TypeOK'
    BY <1>3, PatchType DEF UpdateSessionMeta, TypeOK
  <1>4. ASSUME NEW s \in Sid, SendToChild(s)
        PROVE  TypeOK'
    <2>1. [sessions[s] EXCEPT !.act = now] \in SessionRecord
      BY <1>4, RecordType DEF SendToChild, TypeOK, SessionRecord
    <2>2. sessions' = [sessions EXCEPT ![s] = [sessions[s] EXCEPT !.act = now]]
      BY <1>4 DEF SendToChild
    <2> QED
      BY <1>4, <2>1, <2>2, ExceptType DEF SendToChild, MarkDirty, inFlight, TypeOK
  <1>5. ASSUME NEW s \in Sid, DeleteSession(s)
        PROVE  TypeOK'
    <2>1. Forget({s})
      BY <1>5 DEF DeleteSession
    <2> QED
      BY <1>5, <2>1, ForgetType DEF DeleteSession, TypeOK
  <1>6. ASSUME NEW t \in Token, PostEvents(t)
        PROVE  TypeOK'
    <2> DEFINE s == byIngressToken[t]
    <2>1. s \in Cached /\ s \in Sid
      BY <1>6, RecordType DEF PostEvents, Authenticates
    <2>2. [sessions[s] EXCEPT !.act = now] \in SessionRecord
      BY <2>1, RecordType DEF TypeOK, SessionRecord
    <2>3. sessions' = [sessions EXCEPT ![s] = [sessions[s] EXCEPT !.act = now]]
      BY <1>6 DEF PostEvents, PatchSession
    <2>4. sessions' \in PartialFn(Sid, SessionRecord)
      BY <2>1, <2>2, <2>3, ExceptType
    <2>5. upserts' \in SUBSET Upsert
      BY <1>6, <2>1, PatchType DEF PostEvents, TypeOK
    <2> QED
      BY <1>6, <2>1, <2>4, <2>5 DEF PostEvents, MarkDirty, TypeOK
  <1>7. ASSUME NEW t \in Token, NEW x \in Stream, OpenStream(t, x)
        PROVE  TypeOK'
    <2> DEFINE s == byIngressToken[t]
    <2>1. s \in Cached /\ s \in Sid
      BY <1>7, RecordType DEF OpenStream, Authenticates
    <2>2. [sessions[s] EXCEPT !.conn = TRUE, !.sse = x, !.act = now] \in SessionRecord
      BY <2>1, RecordType DEF TypeOK, SessionRecord
    <2>3. sessions' = [sessions EXCEPT
            ![s] = [sessions[s] EXCEPT !.conn = TRUE, !.sse = x, !.act = now]]
      BY <1>7, <2>1, RecordType DEF OpenStream, SessionRecord
    <2>4. sessions' \in PartialFn(Sid, SessionRecord)
      BY <2>1, <2>2, <2>3, ExceptType
    <2>5. streams' \in PartialFn(Stream, [sid : Sid, tok : Token])
      BY <1>7, <2>1, PutOK DEF OpenStream, TypeOK
    <2> QED
      BY <1>7, <2>1, <2>4, <2>5 DEF OpenStream, MarkDirty, inFlight, TypeOK
  <1>8. ASSUME NEW x \in Stream, CloseStream(x)
        PROVE  TypeOK'
    <2> DEFINE s == streams[x].sid
    <2>1. streams' \in PartialFn(Stream, [sid : Sid, tok : Token])
      BY <1>8, RemoveOK DEF CloseStream, TypeOK
    <2>2. s \in Sid
      <3>1. streams \in [DOMAIN streams -> [sid : Sid, tok : Token]]
        BY PartialFnIs DEF TypeOK
      <3> QED
        BY <1>8, <3>1 DEF CloseStream
    <2>3. CASE s \in Cached
      <3>1. [sessions[s] EXCEPT !.conn = FALSE, !.sse = None, !.act = now] \in SessionRecord
        BY <2>3, RecordType DEF TypeOK, SessionRecord
      <3>2. sessions' = [sessions EXCEPT
              ![s] = [sessions[s] EXCEPT !.conn = FALSE, !.sse = None, !.act = now]]
        BY <1>8, <2>3, RecordType DEF CloseStream, SessionRecord
      <3>3. sessions' \in PartialFn(Sid, SessionRecord)
        BY <2>3, <3>1, <3>2, ExceptType
      <3> QED
        BY <1>8, <2>1, <2>2, <2>3, <3>3 DEF CloseStream, MarkDirty, inFlight, TypeOK
    <2>4. CASE s \notin Cached
      BY <1>8, <2>1, <2>4 DEF CloseStream, inFlight, TypeOK
    <2> QED
      BY <2>3, <2>4
  <1>9. ASSUME MarkEnvOffline
        PROVE  TypeOK'
    <2>1. ASSUME NEW s \in Cached
          PROVE  [sessions[s] EXCEPT !.conn = @ /\ s \notin EnvSid] \in SessionRecord
      BY <2>1, RecordType DEF SessionRecord
    <2>2. sessions' \in [Cached -> SessionRecord] /\ DOMAIN sessions' = Cached
      BY <1>9, <2>1 DEF MarkEnvOffline
    <2>3. sessions' \in PartialFn(Sid, SessionRecord)
      BY <2>2, RecordType, PartialFnIs
    <2> QED
      BY <1>9, <2>3 DEF MarkEnvOffline, inFlight, TypeOK
  <1>10. ASSUME FlushTimer
         PROVE  TypeOK'
    <2>1. IssueFlush(FALSE)
      BY <1>10 DEF FlushTimer
    <2> QED
      BY <1>10, <2>1, FlushType DEF FlushTimer, TypeOK
  <1>11. ASSUME SweepBegin
         PROVE  TypeOK'
    <2>1. PICK busy \in SUBSET Sid :
            \/ /\ IssueFlush(TRUE)
               /\ sweep' = [SweepIdle EXCEPT !.phase = "flushing", !.busy = busy]
            \/ /\ sweep' = [SnapshotKeep EXCEPT !.busy = busy]
               /\ UNCHANGED <<flushes, dirtyActivity>>
      <3>1. {s \in Cached : ~Stale(sessions[s].act)} \in SUBSET Sid
        BY RecordType
      <3> QED
        BY <1>11, <3>1 DEF SweepBegin
    <2>2. sweep' \in SweepCall
      BY <2>1, SnapshotType
    <2>3. flushes' \in SUBSET Flush /\ dirtyActivity' \in SUBSET Sid
      BY <2>1, FlushType DEF TypeOK
    <2> QED
      BY <1>11, <2>2, <2>3 DEF SweepBegin, TypeOK
  <1>12. ASSUME SweepSnapshot
         PROVE  TypeOK'
    <2>1. sweep' \in SweepCall
      BY <1>12, SnapshotType DEF SweepSnapshot
    <2> QED
      BY <1>12, <2>1 DEF SweepSnapshot, cache, inFlight, TypeOK
  <1>13. ASSUME SweepDelete
         PROVE  TypeOK'
    <2>1. rows' \in PartialFn(Sid, Row)
      BY <1>13, RemoveOK DEF SweepDelete, TypeOK
    <2>2. StaleRows \in SUBSET Sid
      BY RowType DEF StaleRows
    <2>3. sweep' \in SweepCall
      BY <1>13, <2>2 DEF SweepDelete, SweepCall, SweepPhase, TypeOK
    <2> QED
      BY <1>13, <2>1, <2>3 DEF SweepDelete, cache, inFlight, TypeOK
  <1>14. ASSUME SweepFail
         PROVE  TypeOK'
    <2>1. faults' \in 0 .. MaxFaults
      BY <1>14, ConstantsOK DEF SweepFail, TypeOK
    <2> QED
      BY <1>14, <2>1, SnapshotType DEF SweepFail, cache, inFlight, TypeOK
  <1>15. ASSUME SweepForget
         PROVE  TypeOK'
    <2>1. Forget(sweep.gone)
      BY <1>15 DEF SweepForget
    <2> QED
      BY <1>15, <2>1, ForgetType, SnapshotType DEF SweepForget, inFlight, TypeOK
  <1>16. ASSUME NEW u \in upserts, CommitUpsert(u)
         PROVE  TypeOK'
    <2>1. u.sid \in Sid /\ [tok |-> u.tok, act |-> u.act] \in Row
      BY DEF TypeOK, Upsert, Row
    <2>2. rows' \in PartialFn(Sid, Row)
      BY <1>16, <2>1, PutOK DEF CommitUpsert, TypeOK
    <2> QED
      BY <1>16, <2>2 DEF CommitUpsert, cache, TypeOK
  <1>17. ASSUME NEW s \in deletes, CommitDelete(s)
         PROVE  TypeOK'
    <2>1. rows' \in PartialFn(Sid, Row)
      BY <1>17, RemoveOK DEF CommitDelete, TypeOK
    <2> QED
      BY <1>17, <2>1 DEF CommitDelete, cache, TypeOK
  <1>18. ASSUME NEW f \in flushes, CommitFlush(f)
         PROVE  TypeOK'
    <2>1. rows' \in PartialFn(Sid, Row)
      BY <1>18, FlushRows
    <2>2. sweep' \in SweepCall
      BY <1>18 DEF CommitFlush, SettleFlush, TypeOK, SweepCall, SweepPhase
    <2> QED
      BY <1>18, <2>1, <2>2 DEF CommitFlush, SettleFlush, cache, TypeOK
  <1>19. ASSUME NEW u \in upserts, FailUpsert(u)
         PROVE  TypeOK'
    BY <1>19, ConstantsOK DEF FailUpsert, cache, TypeOK
  <1>20. ASSUME NEW s \in deletes, FailDelete(s)
         PROVE  TypeOK'
    BY <1>20, ConstantsOK DEF FailDelete, cache, TypeOK
  <1>21. ASSUME NEW f \in flushes, FailFlush(f)
         PROVE  TypeOK'
    <2>1. sweep' \in SweepCall
      BY <1>21 DEF FailFlush, SettleFlush, TypeOK, SweepCall, SweepPhase
    <2>2. faults' \in 0 .. MaxFaults
      BY <1>21, ConstantsOK DEF FailFlush, TypeOK
    <2>3. f.ids \in SUBSET Sid
      BY DEF TypeOK, Flush
    <2> QED
      BY <1>21, <2>1, <2>2, <2>3 DEF FailFlush, SettleFlush, TypeOK
  <1>22. ASSUME Crash
         PROVE  TypeOK'
    <2>1. /\ sessions' \in PartialFn(Sid, SessionRecord)
          /\ byIngressToken' \in PartialFn(Token, Sid)
          /\ streams' \in PartialFn(Stream, [sid : Sid, tok : Token])
      BY <1>22, EmptyOK DEF Crash
    <2>2. faults' \in 0 .. MaxFaults
      BY <1>22, ConstantsOK DEF Crash, TypeOK
    <2> QED
      BY <1>22, <2>1, <2>2, SnapshotType DEF Crash, TypeOK
  <1>23. ASSUME Tick
         PROVE  TypeOK'
    <2>1. now' \in Time
      BY <1>23, ConstantsOK DEF Tick, Time, TypeOK
    <2> QED
      BY <1>23, <2>1 DEF Tick, cache, inFlight, TypeOK
  <1>24. ASSUME Restart
         PROVE  TypeOK'
    <2> DEFINE loaded == {s \in DOMAIN rows' : InLoadWindow(rows[s].act)}
    <2>1. rows' \in PartialFn(Sid, Row) /\ DOMAIN rows' \subseteq DOMAIN rows
      <3>1. CASE rows' = rows
        BY <3>1 DEF TypeOK
      <3>2. CASE rows' = Remove(rows, StaleRows)
        BY <3>2, SweptRows
      <3> QED
        BY <1>24, <3>1, <3>2 DEF Restart
    <2>2. \A s \in loaded : s \in Sid /\ rows[s] \in Row /\ Hydrate(rows[s]) \in SessionRecord
      BY <2>1, RowType DEF Hydrate, Row, SessionRecord
    <2>3. sessions' = [s \in loaded |-> Hydrate(rows[s])]
      BY <1>24 DEF Restart
    <2>4. sessions' \in PartialFn(Sid, SessionRecord)
      BY <2>2, <2>3, PartialFnIs
    <2>5. byIngressToken' = [t \in {rows[s].tok : s \in loaded} |->
                               CHOOSE s \in loaded : rows[s].tok = t]
      BY <1>24 DEF Restart
    <2>6. \A t \in {rows[s].tok : s \in loaded} :
             (CHOOSE s \in loaded : rows[s].tok = t) \in Sid
      BY <2>2
    <2>7. {rows[s].tok : s \in loaded} \subseteq Token
      BY <2>2 DEF Row
    <2>8. byIngressToken' \in PartialFn(Token, Sid)
      BY <2>5, <2>6, <2>7, PartialFnIs
    <2>9. faults' \in 0 .. MaxFaults
      BY <1>24, ConstantsOK DEF Restart, TypeOK
    <2> QED
      BY <1>24, <2>1, <2>4, <2>8, <2>9 DEF Restart, inFlight, TypeOK
  <1> QED
    BY <1>1, <1>2, <1>3, <1>4, <1>5, <1>6, <1>7, <1>8, <1>9, <1>10, <1>11, <1>12, <1>13,
       <1>14, <1>15, <1>16, <1>17, <1>18, <1>19, <1>20, <1>21, <1>22, <1>23, <1>24
    DEF Next, Requests, Timers, Commits, Failures

\* Theorem (type correctness): in every reachable state each variable has its
\* type, however the statements in flight are reordered or fail and whenever the
\* process crashes.
THEOREM TypeCorrect == Spec => []TypeOK
  <1>1. Init => TypeOK
    BY InitType
  <1>2. TypeOK /\ [Next]_vars => TypeOK'
    BY NextType
  <1> QED
    BY <1>1, <1>2, PTL DEF Spec

-----------------------------------------------------------------------------
(* Tokens and channels *)

\* The inductive invariant.  The token index alone is not inductive: a reload
\* rebuilds it from the rows, so it needs that no token appears in two rows, and
\* a row is written from a statement in flight, so the same must hold of those.
IInv == TypeOK /\ TokenIndexExact /\ ChannelLive /\ TokenMeansOneSession

\* The invariant holds when the server starts.
LEMMA InitIInv == Init => IInv
  <1> SUFFICES ASSUME Init PROVE IInv
    OBVIOUS
  <1>1. DOMAIN sessions = {} /\ DOMAIN byIngressToken = {} /\ DOMAIN rows = {} /\ upserts = {}
    BY DEF Init, EmptyMap
  <1>2. TokenIndexExact /\ ChannelLive /\ TokenMeansOneSession
    BY <1>1 DEF TokenIndexExact, ChannelLive, TokenMeansOneSession, Means, Cached
  <1> QED
    BY <1>2, InitType DEF IInv

\* A cached session's token, and with it the session's id, has been issued.
LEMMA CachedMeans ==
  ASSUME IInv, NEW s \in Cached
  PROVE  Means(sessions[s].tok, s) /\ sessions[s].tok \in issued /\ s \in issued
  <1>1. s \in Sid /\ sessions[s].tok \in Token
    BY RecordType DEF IInv, SessionRecord
  <1> QED
    BY <1>1 DEF IInv, TokenIndexExact, TokenMeansOneSession, Means

\* Steps that change no token of a cached session.
LEMMA IndexKept ==
  ASSUME TokenIndexExact, UNCHANGED byIngressToken, Cached' = Cached,
         \A s \in Cached : sessions'[s].tok = sessions[s].tok
  PROVE  TokenIndexExact'
  BY DEF TokenIndexExact, Cached

\* Steps that change no response and set no conn flag.
LEMMA ChannelKept ==
  ASSUME ChannelLive, UNCHANGED streams, DOMAIN sessions' \subseteq Cached,
         \A s \in DOMAIN sessions' : /\ sessions'[s].sse = sessions[s].sse
                                     /\ sessions'[s].conn => sessions[s].conn
  PROVE  ChannelLive'
  BY DEF ChannelLive, Cached

\* Steps that give no token a new meaning.
LEMMA MeaningKept ==
  ASSUME TokenMeansOneSession, issued \subseteq issued',
         \A t \in Token, s \in Sid : Means(t, s)' => Means(t, s)
  PROVE  TokenMeansOneSession'
  BY DEF TokenMeansOneSession

\* Forgetting sessions removes exactly their tokens.
LEMMA ForgetIInv ==
  ASSUME IInv, NEW S, Forget(S), UNCHANGED <<streams, rows, upserts, issued>>
  PROVE  TokenIndexExact' /\ ChannelLive' /\ TokenMeansOneSession'
  <1> DEFINE toks == {sessions[s].tok : s \in S \cap Cached}
  <1>1. /\ sessions' = Remove(sessions, S) /\ byIngressToken' = Remove(byIngressToken, toks)
        /\ sessions \in PartialFn(Sid, SessionRecord) /\ byIngressToken \in PartialFn(Token, Sid)
    BY DEF Forget, IInv, TypeOK
  <1> HIDE DEF toks
  <1>2. /\ DOMAIN sessions' = Cached \ S
        /\ \A s \in Cached \ S : sessions'[s] = sessions[s]
    <2>1. sessions \in PartialFn(Sid, SessionRecord)
      BY <1>1
    <2>2. /\ DOMAIN Remove(sessions, S) = DOMAIN sessions \ S
          /\ \A s \in DOMAIN sessions \ S : Remove(sessions, S)[s] = sessions[s]
      BY <2>1, RemoveOK
    <2> QED
      BY <1>1, <2>2 DEF Cached
  <1>3. /\ DOMAIN byIngressToken' = DOMAIN byIngressToken \ toks
        /\ \A t \in DOMAIN byIngressToken \ toks : byIngressToken'[t] = byIngressToken[t]
    BY <1>1, RemoveOK
  <1>4. \A s \in Cached : sessions[s].tok \in toks <=> s \in S
    BY DEF toks, IInv, TokenIndexExact
  <1>5. TokenIndexExact'
    BY <1>2, <1>3, <1>4 DEF IInv, TokenIndexExact, Cached
  <1>6. ChannelLive'
    BY <1>2, ChannelKept DEF IInv
  <1>7. \A t \in Token, s \in Sid : Means(t, s)' => Means(t, s)
    BY <1>3 DEF Means
  <1> QED
    BY <1>5, <1>6, <1>7, MeaningKept DEF IInv

\* A new record takes a token nobody has, under an id the cache does not hold.
LEMMA AddSessionIInv ==
  ASSUME IInv, NEW s \in Sid, NEW t \in Token, s \notin Cached, AddSession(s, t)
  PROVE  TokenIndexExact' /\ ChannelLive' /\ TokenMeansOneSession'
  <1> DEFINE r == [tok |-> t, act |-> now, conn |-> FALSE, sse |-> None]
  <1>1. r \in SessionRecord
    BY DEF IInv, TypeOK, SessionRecord
  <1>2. /\ sessions' = Put(sessions, s, r) /\ byIngressToken' = Put(byIngressToken, t, s)
        /\ upserts' = upserts \cup {[sid |-> s, tok |-> t, act |-> now]}
        /\ issued' = issued \cup {s, t} /\ t \notin issued
        /\ UNCHANGED <<rows, streams>>
    BY DEF AddSession
  <1> HIDE DEF r
  <1>3. /\ DOMAIN sessions' = Cached \cup {s} /\ sessions'[s] = r
        /\ \A x \in Cached : sessions'[x] = sessions[x]
    <2>1. sessions \in PartialFn(Sid, SessionRecord)
      BY DEF IInv, TypeOK
    <2>2. /\ DOMAIN Put(sessions, s, r) = DOMAIN sessions \cup {s}
          /\ Put(sessions, s, r)[s] = r
          /\ \A x \in DOMAIN sessions \ {s} : Put(sessions, s, r)[x] = sessions[x]
      BY <1>1, <2>1, PutOK
    <2> QED
      BY <1>2, <2>2 DEF Cached
  <1>4. /\ DOMAIN byIngressToken' = DOMAIN byIngressToken \cup {t} /\ byIngressToken'[t] = s
        /\ \A x \in DOMAIN byIngressToken \ {t} : byIngressToken'[x] = byIngressToken[x]
    <2>1. byIngressToken \in PartialFn(Token, Sid)
      BY DEF IInv, TypeOK
    <2>2. /\ DOMAIN Put(byIngressToken, t, s) = DOMAIN byIngressToken \cup {t}
          /\ Put(byIngressToken, t, s)[t] = s
          /\ \A x \in DOMAIN byIngressToken \ {t} :
               Put(byIngressToken, t, s)[x] = byIngressToken[x]
      BY <2>1, PutOK
    <2> QED
      BY <1>2, <2>2
  <1>5. \A x \in Cached : sessions[x].tok # t
    BY <1>2, CachedMeans
  <1>6. t \notin DOMAIN byIngressToken
    BY <1>5 DEF IInv, TokenIndexExact
  <1>7. TokenIndexExact'
    <2>1. r.tok = t
      BY DEF r
    <2> QED
      BY <1>3, <1>4, <1>5, <1>6, <2>1 DEF IInv, TokenIndexExact, Cached
  <1>8. ChannelLive'
    <2>1. r.conn = FALSE /\ r.sse = None
      BY DEF r
    <2> QED
      BY <1>2, <1>3, <2>1 DEF IInv, ChannelLive, Cached
  <1>9. \A y \in Token, x \in Sid : Means(y, x)' => Means(y, x) \/ (y = t /\ x = s)
    BY <1>2, <1>4 DEF Means
  <1>10. \A x \in Sid : ~Means(t, x)
    BY <1>2 DEF IInv, TokenMeansOneSession
  <1>11. TokenMeansOneSession'
    BY <1>2, <1>9, <1>10 DEF IInv, TokenMeansOneSession
  <1> QED
    BY <1>7, <1>8, <1>11

\* Steps of PostgreSQL that only lose rows or statements, or change times.
LEMMA DatabaseIInv ==
  ASSUME IInv, UNCHANGED <<sessions, byIngressToken, streams, issued>>,
         upserts' \subseteq upserts, DOMAIN rows' \subseteq DOMAIN rows,
         \A s \in DOMAIN rows' : rows'[s].tok = rows[s].tok
  PROVE  TokenIndexExact' /\ ChannelLive' /\ TokenMeansOneSession'
  <1>1. TokenIndexExact' /\ ChannelLive'
    BY DEF IInv, TokenIndexExact, ChannelLive, Cached
  <1>2. \A t \in Token, s \in Sid : Means(t, s)' => Means(t, s)
    BY DEF Means
  <1> QED
    BY <1>1, <1>2, MeaningKept DEF IInv

\* One cached record changed, its token kept, and its row perhaps requested.
LEMMA RecordIInv ==
  ASSUME IInv, NEW s \in Cached, NEW r \in SessionRecord, NEW a,
         sessions' = [sessions EXCEPT ![s] = r], r.tok = sessions[s].tok,
         upserts' \subseteq upserts \cup {[sid |-> s, tok |-> sessions[s].tok, act |-> a]},
         UNCHANGED <<byIngressToken, rows, issued>>
  PROVE  /\ TokenIndexExact' /\ TokenMeansOneSession'
         /\ Cached' = Cached /\ sessions'[s] = r
         /\ \A x \in Cached \ {s} : sessions'[x] = sessions[x]
  <1>1. sessions \in [Cached -> SessionRecord]
    BY RecordType DEF IInv
  <1>2. /\ Cached' = Cached /\ sessions'[s] = r
        /\ \A x \in Cached \ {s} : sessions'[x] = sessions[x]
    BY <1>1 DEF Cached
  <1>3. TokenIndexExact'
    BY <1>2, IndexKept DEF IInv
  <1>4. Means(sessions[s].tok, s)
    BY CachedMeans
  <1>5. \A t \in Token, x \in Sid : Means(t, x)' => Means(t, x)
    BY <1>4 DEF Means
  <1> QED
    BY <1>2, <1>3, <1>5, MeaningKept DEF IInv

\* Every action keeps the three invariants.
LEMMA NextIInv == IInv /\ [Next]_vars => IInv'
  <1> SUFFICES ASSUME IInv, [Next]_vars
               PROVE  TokenIndexExact' /\ ChannelLive' /\ TokenMeansOneSession'
    BY NextType DEF IInv
  <1> DEFINE Goal == TokenIndexExact' /\ ChannelLive' /\ TokenMeansOneSession'
  <1> USE DEF cache, inFlight
  <1>1. CASE UNCHANGED vars
    BY <1>1, DatabaseIInv DEF vars
  <1>2. ASSUME NEW s \in Sid, NEW t \in Token,
               PushSessionWork(s, t) \/ CreateReplSession(s, t) \/ RecreateSession(s, t)
        PROVE  Goal
    <2>1. s \notin Cached
      BY <1>2, CachedMeans DEF PushSessionWork, CreateReplSession, RecreateSession
    <2>2. AddSession(s, t)
      BY <1>2 DEF PushSessionWork, CreateReplSession, RecreateSession
    <2> QED
      BY <2>1, <2>2, AddSessionIInv
  <1>3. ASSUME NEW s \in Cached, NEW r \in SessionRecord, r = [sessions[s] EXCEPT !.act = now],
               sessions' = [sessions EXCEPT ![s].act = now],
               upserts' \subseteq upserts \cup
                            {[sid |-> s, tok |-> sessions[s].tok, act |-> now]},
               UNCHANGED <<byIngressToken, rows, streams, issued>>
        PROVE  Goal
    <2>1. sessions' = [sessions EXCEPT ![s] = r]
      BY <1>3
    <2>2. r.tok = sessions[s].tok /\ r.sse = sessions[s].sse /\ r.conn = sessions[s].conn
      BY <1>3, RecordType DEF IInv, SessionRecord
    <2>3. /\ TokenIndexExact' /\ TokenMeansOneSession'
          /\ Cached' = Cached /\ sessions'[s] = r
          /\ \A x \in Cached \ {s} : sessions'[x] = sessions[x]
      BY <1>3, <2>1, <2>2, RecordIInv
    <2>4. ChannelLive'
      BY <1>3, <2>2, <2>3, ChannelKept DEF IInv, Cached
    <2> QED
      BY <2>3, <2>4
  <1>4. \A s \in Cached : [sessions[s] EXCEPT !.act = now] \in SessionRecord
    BY RecordType DEF IInv, TypeOK, SessionRecord
  <1>5. ASSUME NEW s \in Sid, UpdateSessionMeta(s)
        PROVE  Goal
    BY <1>3, <1>4, <1>5 DEF UpdateSessionMeta, PatchSession
  <1>6. ASSUME NEW s \in Sid, SendToChild(s)
        PROVE  Goal
    BY <1>3, <1>4, <1>6 DEF SendToChild
  <1>7. ASSUME NEW t \in Token, PostEvents(t)
        PROVE  Goal
    <2>1. PICK s \in Cached : s = byIngressToken[t]
      BY <1>7 DEF PostEvents, Authenticates
    <2>2. /\ sessions' = [sessions EXCEPT ![s].act = now]
          /\ upserts' \subseteq upserts \cup
                         {[sid |-> s, tok |-> sessions[s].tok, act |-> now]}
          /\ UNCHANGED <<byIngressToken, rows, streams, issued>>
      BY <1>7, <2>1 DEF PostEvents, PatchSession
    <2> QED
      BY <1>3, <1>4, <2>2
  <1>8. ASSUME NEW s \in Sid, DeleteSession(s)
        PROVE  Goal
    BY <1>8, ForgetIInv DEF DeleteSession
  <1>9. ASSUME NEW t \in Token, NEW x \in Stream, OpenStream(t, x)
        PROVE  Goal
    <2>1. PICK s \in Cached : s = byIngressToken[t]
      BY <1>9 DEF OpenStream, Authenticates
    <2>2. PICK r \in SessionRecord :
            r = [sessions[s] EXCEPT !.conn = TRUE, !.sse = x, !.act = now]
      BY RecordType DEF IInv, TypeOK, SessionRecord
    <2>3. r.tok = sessions[s].tok /\ r.sse = x
      BY <2>2, RecordType DEF IInv, SessionRecord
    <2>4. sessions' = [sessions EXCEPT ![s] = r]
      BY <1>9, <2>1, <2>2, RecordType DEF OpenStream, IInv, SessionRecord
    <2>5. /\ TokenIndexExact' /\ TokenMeansOneSession'
          /\ Cached' = Cached /\ sessions'[s] = r
          /\ \A y \in Cached \ {s} : sessions'[y] = sessions[y]
      BY <1>9, <2>3, <2>4, RecordIInv DEF OpenStream
    <2>6. /\ DOMAIN streams' = DOMAIN streams \cup {x} /\ streams'[x].sid = s
          /\ \A y \in DOMAIN streams : streams'[y] = streams[y]
      BY <1>9, <2>1, PutOK DEF OpenStream, Put
    <2>7. ChannelLive'
      BY <2>3, <2>5, <2>6, ConstantsOK DEF IInv, ChannelLive, Cached
    <2> QED
      BY <2>5, <2>7
  <1>10. ASSUME NEW x \in Stream, CloseStream(x)
         PROVE  Goal
    <2> DEFINE s == streams[x].sid
    <2>1. /\ DOMAIN streams' = DOMAIN streams \ {x}
          /\ \A y \in DOMAIN streams' : streams'[y] = streams[y]
      BY <1>10 DEF CloseStream, Remove, Restrict
    <2>2. CASE s \in Cached
      <3>1. PICK r \in SessionRecord :
              r = [sessions[s] EXCEPT !.conn = FALSE, !.sse = None, !.act = now]
        BY <2>2, RecordType DEF IInv, TypeOK, SessionRecord
      <3>2. r.tok = sessions[s].tok /\ r.sse = None /\ r.conn = FALSE
        BY <2>2, <3>1, RecordType DEF IInv, SessionRecord
      <3>3. sessions' = [sessions EXCEPT ![s] = r]
        BY <1>10, <2>2, <3>1, RecordType DEF CloseStream, IInv, SessionRecord
      <3>4. /\ TokenIndexExact' /\ TokenMeansOneSession'
            /\ Cached' = Cached /\ sessions'[s] = r
            /\ \A y \in Cached \ {s} : sessions'[y] = sessions[y]
        BY <1>10, <2>2, <3>2, <3>3, RecordIInv DEF CloseStream
      <3>5. \A y \in Cached \ {s} : sessions[y].sse # x
        BY ConstantsOK DEF IInv, ChannelLive
      <3>6. ChannelLive'
        BY <2>1, <3>2, <3>4, <3>5 DEF IInv, ChannelLive, Cached
      <3> QED
        BY <3>4, <3>6
    <2>3. CASE s \notin Cached
      <3>1. UNCHANGED <<sessions, byIngressToken, upserts, rows, issued>>
        BY <1>10, <2>3 DEF CloseStream
      <3>2. \A y \in Cached : sessions[y].sse # x
        BY <2>3, ConstantsOK DEF IInv, ChannelLive
      <3>3. ChannelLive'
        BY <2>1, <3>1, <3>2 DEF IInv, ChannelLive, Cached
      <3>4. TokenIndexExact'
        BY <3>1, IndexKept DEF IInv, Cached
      <3>5. TokenMeansOneSession'
        BY <3>1, MeaningKept DEF IInv, Means
      <3> QED
        BY <3>3, <3>4, <3>5
    <2> QED
      BY <2>2, <2>3
  <1>11. ASSUME MarkEnvOffline
         PROVE  Goal
    <2>1. /\ Cached' = Cached
          /\ \A s \in Cached : sessions'[s].tok = sessions[s].tok
          /\ \A s \in Cached : sessions'[s].sse = sessions[s].sse
          /\ \A s \in Cached : sessions'[s].conn => sessions[s].conn
      BY <1>11, RecordType DEF MarkEnvOffline, IInv, Cached, SessionRecord
    <2>2. UNCHANGED <<byIngressToken, streams, rows, upserts, issued>>
      BY <1>11 DEF MarkEnvOffline
    <2>3. TokenIndexExact'
      BY <2>1, <2>2 DEF IInv, TokenIndexExact, Cached
    <2>4. ChannelLive'
      BY <2>1, <2>2 DEF IInv, ChannelLive, Cached
    <2>5. TokenMeansOneSession'
      BY <2>2, MeaningKept DEF IInv, Means
    <2> QED
      BY <2>3, <2>4, <2>5
  <1>12. CASE FlushTimer
    BY <1>12, DatabaseIInv DEF FlushTimer
  <1>13. CASE SweepBegin
    BY <1>13, DatabaseIInv DEF SweepBegin
  <1>14. CASE SweepSnapshot
    BY <1>14, DatabaseIInv DEF SweepSnapshot
  <1>15. CASE SweepDelete
    <2>1. UNCHANGED <<sessions, byIngressToken, streams, issued, upserts>>
      BY <1>15 DEF SweepDelete
    <2>2. DOMAIN rows' \subseteq DOMAIN rows /\ \A s \in DOMAIN rows' : rows'[s] = rows[s]
      BY <1>15 DEF SweepDelete, Remove, Restrict
    <2> QED
      BY <2>1, <2>2, DatabaseIInv
  <1>16. CASE SweepFail
    BY <1>16, DatabaseIInv DEF SweepFail
  <1>17. CASE SweepForget
    BY <1>17, ForgetIInv DEF SweepForget
  <1>18. ASSUME NEW u \in upserts, CommitUpsert(u)
         PROVE  Goal
    <2>1. u.sid \in Sid /\ u.tok \in Token
      BY DEF IInv, TypeOK, Upsert
    <2>2. /\ UNCHANGED <<sessions, byIngressToken, streams, issued>>
          /\ upserts' \subseteq upserts
      BY <1>18 DEF CommitUpsert
    <2>3. /\ DOMAIN rows' = DOMAIN rows \cup {u.sid} /\ rows'[u.sid].tok = u.tok
          /\ \A s \in DOMAIN rows \ {u.sid} : rows'[s] = rows[s]
      BY <1>18 DEF CommitUpsert, Put
    <2>4. \A t \in Token, s \in Sid : Means(t, s)' => Means(t, s)
      BY <2>2, <2>3 DEF Means
    <2>5. TokenMeansOneSession'
      BY <2>2, <2>4, MeaningKept DEF IInv
    <2> QED
      BY <2>2, <2>5 DEF IInv, TokenIndexExact, ChannelLive, Cached
  <1>19. ASSUME NEW s \in deletes, CommitDelete(s)
         PROVE  Goal
    <2>1. UNCHANGED <<sessions, byIngressToken, streams, issued, upserts>>
      BY <1>19 DEF CommitDelete
    <2>2. DOMAIN rows' \subseteq DOMAIN rows /\ \A x \in DOMAIN rows' : rows'[x] = rows[x]
      BY <1>19 DEF CommitDelete, Remove, Restrict
    <2> QED
      BY <2>1, <2>2, DatabaseIInv
  <1>20. ASSUME NEW f \in flushes, CommitFlush(f)
         PROVE  Goal
    <2>1. UNCHANGED <<sessions, byIngressToken, streams, issued, upserts>>
      BY <1>20 DEF CommitFlush
    <2>2. DOMAIN rows' = DOMAIN rows
      BY <1>20 DEF CommitFlush
    <2>3. \A s \in DOMAIN rows : rows'[s].tok = rows[s].tok
      BY <1>20, RowType DEF CommitFlush, IInv, Row
    <2> QED
      BY <2>1, <2>2, <2>3, DatabaseIInv
  <1>21. ASSUME NEW u \in upserts, FailUpsert(u)
         PROVE  Goal
    BY <1>21, DatabaseIInv DEF FailUpsert
  <1>22. ASSUME NEW s \in deletes, FailDelete(s)
         PROVE  Goal
    BY <1>22, DatabaseIInv DEF FailDelete
  <1>23. ASSUME NEW f \in flushes, FailFlush(f)
         PROVE  Goal
    BY <1>23, DatabaseIInv DEF FailFlush
  <1>24. CASE Crash
    <2>1. /\ DOMAIN sessions' = {} /\ DOMAIN byIngressToken' = {} /\ upserts' = {}
          /\ UNCHANGED <<rows, issued>>
      BY <1>24 DEF Crash, EmptyMap
    <2>2. TokenIndexExact' /\ ChannelLive'
      BY <2>1 DEF TokenIndexExact, ChannelLive, Cached
    <2>3. TokenMeansOneSession'
      BY <2>1, MeaningKept DEF IInv, Means
    <2> QED
      BY <2>2, <2>3
  <1>25. CASE Restart
    <2> DEFINE loaded == {s \in DOMAIN rows' : InLoadWindow(rows[s].act)}
    <2>1. /\ DOMAIN rows' \subseteq DOMAIN rows
          /\ \A s \in DOMAIN rows' : rows'[s] = rows[s]
      <3>1. CASE rows' = rows
        BY <3>1
      <3>2. CASE rows' = Remove(rows, StaleRows)
        BY <3>2, SweptRows DEF IInv
      <3> QED
        BY <1>25, <3>1, <3>2 DEF Restart
    <2>2. /\ sessions' = [s \in loaded |-> Hydrate(rows[s])]
          /\ byIngressToken' = [t \in {rows[s].tok : s \in loaded} |->
                                  CHOOSE s \in loaded : rows[s].tok = t]
          /\ UNCHANGED <<upserts, issued>>
      BY <1>25 DEF Restart
    <2>3. \A s \in loaded : s \in Sid /\ rows[s].tok \in Token /\ Means(rows[s].tok, s)
      BY <2>1, RowType DEF IInv, Row, Means
    <2> HIDE DEF loaded
    <2>4. \A s \in loaded : (CHOOSE x \in loaded : rows[x].tok = rows[s].tok) = s
      BY <2>3 DEF IInv, TokenMeansOneSession
    <2>5. /\ Cached' = loaded /\ DOMAIN byIngressToken' = {rows[s].tok : s \in loaded}
          /\ \A s \in loaded : /\ sessions'[s].tok = rows[s].tok
                              /\ sessions'[s].conn = FALSE /\ sessions'[s].sse = None
                              /\ byIngressToken'[rows[s].tok] = s
      BY <2>2, <2>4 DEF Cached, Hydrate
    <2>6. TokenIndexExact' /\ ChannelLive'
      BY <2>5 DEF TokenIndexExact, ChannelLive, Cached
    <2>7. \A t \in Token, s \in Sid : Means(t, s)' => Means(t, s)
      BY <2>1, <2>2, <2>3, <2>5 DEF Means
    <2>8. TokenMeansOneSession'
      BY <2>2, <2>7, MeaningKept DEF IInv
    <2> QED
      BY <2>6, <2>8
  <1>26. CASE Tick
    BY <1>26, DatabaseIInv DEF Tick
  <1> QED
    BY <1>1, <1>2, <1>5, <1>6, <1>7, <1>8, <1>9, <1>10, <1>11, <1>12, <1>13, <1>14, <1>15,
       <1>16, <1>17, <1>18, <1>19, <1>20, <1>21, <1>22, <1>23, <1>24, <1>25, <1>26
    DEF Next, Requests, Timers, Commits, Failures

\* So it holds in every state.
LEMMA Invariance == Spec => []IInv
  <1>1. Init => IInv
    BY InitIInv
  <1>2. IInv /\ [Next]_vars => IInv'
    BY NextIInv
  <1> QED
    BY <1>1, <1>2, PTL DEF Spec

\* Theorem (the token index is exact): a token authenticates iff a cached session
\* holds it, and to that session only, across every interleaving of creation,
\* deletion, sweep, failure, crash and reload.
THEOREM TokenIndexAlwaysExact == Spec => []TokenIndexExact
  <1>1. IInv => TokenIndexExact
    BY DEF IInv
  <1> QED
    BY <1>1, Invariance, PTL

\* Theorem (the channel is live): a session marked connected holds a response that
\* is open and was opened for it, however reconnects and deletions interleave.
THEOREM ChannelAlwaysLive == Spec => []ChannelLive
  <1>1. IInv => ChannelLive
    BY DEF IInv
  <1> QED
    BY <1>1, Invariance, PTL

\* Theorem (a token never changes hands): in the index, in PostgreSQL and in the
\* writes still in flight, a token means the one session it was generated for.
THEOREM TokenAlwaysMeansOneSession == Spec => []TokenMeansOneSession
  <1>1. IInv => TokenMeansOneSession
    BY DEF IInv
  <1> QED
    BY <1>1, Invariance, PTL

-----------------------------------------------------------------------------
(* What is forgotten: the invariant *)

\* A deleted session is nowhere: not in the cache, not in its table, not in a write on its way there.
DeletedGone ==
  \A s \in deleted : s \notin Cached /\ s \notin DOMAIN rows /\ \A u \in upserts : u.sid # s

\* A statement writes the time at which it was sent, and the sweep is where its call says it is.
SweepTrue ==
  /\ \A u \in upserts : u.act = now
  /\ sweep.phase # "returned" => sweep.gone = {}
  /\ sweep.phase = "returned" => sweep.gone \cap sweep.keep = {}
  /\ sweep.phase = "idle" \/ ~up => sweep.busy = {}
  /\ \A f \in flushes : f.sweeping =>
       /\ sweep.phase = "flushing" /\ sweep.busy \subseteq DOMAIN f.acts
       /\ \A g \in flushes : g.sweeping => g = f

\* The activity the sweep waits for is recent wherever it is, and in the row once its flush is done.
BusyFresh ==
  \A s \in sweep.busy :
    /\ s \notin sweep.gone
    /\ s \in Cached => ~Stale(sessions[s].act)
    /\ \A f \in flushes : s \in DOMAIN f.acts => ~Stale(f.acts[s])
    /\ sweep.phase \notin {"idle", "flushing"} /\ s \in DOMAIN rows => ~Stale(rows[s].act)

SweepInv == DeletedGone /\ SweepTrue /\ BusyFresh

\* What is written now is not stale.
LEMMA NowIsFresh == TypeOK => ~Stale(now)
  BY ConstantsOK DEF TypeOK, Time, Stale

\* A step beside the sweep: times of activity move on or stay, and get from the cache into the table.
LEMMA BesideSweep ==
  ASSUME TypeOK, SweepTrue, BusyFresh, UNCHANGED <<up, now, sweep>>,
         \A u \in upserts' : u \in upserts \/ u.act = now,
         \A s \in DOMAIN sessions' :
           sessions'[s].act = now \/ (s \in Cached /\ sessions'[s].act = sessions[s].act),
         \A f \in flushes' :
           \/ f \in flushes
           \/ ~f.sweeping /\ \A s \in DOMAIN f.acts : s \in Cached /\ f.acts[s] = sessions[s].act,
         \A s \in DOMAIN rows' :
           \/ rows'[s].act = now
           \/ s \in DOMAIN rows /\ rows'[s].act = rows[s].act
           \/ \E f \in flushes : s \in DOMAIN f.acts /\ rows'[s].act = f.acts[s]
  PROVE  SweepTrue' /\ BusyFresh'
  <1>1. SweepTrue'
    BY DEF SweepTrue
  <1>2. ASSUME NEW s \in sweep.busy
        PROVE  /\ s \in DOMAIN sessions' => ~Stale(sessions'[s].act)
               /\ \A f \in flushes' : s \in DOMAIN f.acts => ~Stale(f.acts[s])
               /\ sweep.phase \notin {"idle", "flushing"} /\ s \in DOMAIN rows' => ~Stale(rows'[s].act)
    BY <1>2, NowIsFresh DEF BusyFresh
  <1>3. BusyFresh'
    BY <1>2 DEF BusyFresh, Cached, Stale
  <1> QED
    BY <1>1, <1>3

\* A step that makes no deletion final brings nothing back, if what it loads comes from the table, what
\* it stores from a write under way, and what it writes from the cache.
LEMMA NoneBack ==
  ASSUME DeletedGone, deleted' \subseteq deleted,
         \A s \in deleted' :
           /\ s \in DOMAIN sessions' => s \in Cached \cup DOMAIN rows
           /\ s \in DOMAIN rows' => s \in DOMAIN rows \/ \E u \in upserts : u.sid = s
           /\ \A u \in upserts' : u.sid = s => u \in upserts \/ s \in Cached
  PROVE  DeletedGone'
  BY DEF DeletedGone, Cached

\* Steps of the cache alone.
LEMMA CacheSteps ==
  ASSUME TypeOK, SweepInv
  PROVE  /\ \A s \in Sid, t \in Token : AddSession(s, t) => SweepInv'
         /\ \A s \in Sid : UpdateSessionMeta(s) \/ SendToChild(s) \/ DeleteSession(s) => SweepInv'
         /\ \A t \in Token : PostEvents(t) => SweepInv'
         /\ \A t \in Token, x \in Stream : OpenStream(t, x) => SweepInv'
         /\ \A x \in Stream : CloseStream(x) => SweepInv'
         /\ MarkEnvOffline \/ FlushTimer => SweepInv'
  <1>0. \A s \in Cached : sessions[s] \in SessionRecord
    BY RecordType
  <1>1. ASSUME UNCHANGED <<up, now, sweep, rows, flushes, deleted>>, DOMAIN sessions' \subseteq Cached,
               \A s \in DOMAIN sessions' : sessions'[s].act = now \/ sessions'[s].act = sessions[s].act,
               \A u \in upserts' : u \in upserts \/ (u.act = now /\ u.sid \in Cached)
        PROVE  SweepInv'
    <2>1. SweepTrue' /\ BusyFresh'
      BY <1>1, BesideSweep DEF SweepInv
    <2>2. DeletedGone'
      BY <1>1, NoneBack DEF SweepInv
    <2> QED
      BY <2>1, <2>2 DEF SweepInv
  <1>2. ASSUME NEW s \in Sid, NEW t \in Token, AddSession(s, t)
        PROVE  SweepInv'
    <2>1. /\ DOMAIN sessions' = Cached \cup {s} /\ sessions'[s].act = now
          /\ \A x \in Cached : x # s => sessions'[x] = sessions[x]
      BY <1>2 DEF AddSession, Put, Cached
    <2>2. \A u \in upserts' : u \in upserts \/ (u.act = now /\ u.sid = s)
      BY <1>2 DEF AddSession
    <2>3. SweepTrue' /\ BusyFresh'
      BY <1>2, <2>1, <2>2, BesideSweep DEF SweepInv, AddSession
    <2>4. DeletedGone'
      BY <1>2, <2>1, <2>2, NoneBack DEF SweepInv, AddSession
    <2> QED
      BY <2>3, <2>4 DEF SweepInv
  <1>3. ASSUME NEW s \in Cached, sessions' = [sessions EXCEPT ![s].act = now]
        PROVE  /\ DOMAIN sessions' = Cached
               /\ \A x \in Cached : sessions'[x].act = now \/ sessions'[x].act = sessions[x].act
    BY <1>0, <1>3 DEF Cached, SessionRecord
  <1>4. ASSUME NEW s \in Cached, PatchSession(s)
        PROVE  /\ DOMAIN sessions' = Cached
               /\ \A x \in Cached : sessions'[x].act = now \/ sessions'[x].act = sessions[x].act
               /\ \A u \in upserts' : u \in upserts \/ (u.act = now /\ u.sid \in Cached)
    <2>1. sessions' = [sessions EXCEPT ![s].act = now]
      BY <1>4 DEF PatchSession
    <2>2. \A u \in upserts' : u \in upserts \/ (u.act = now /\ u.sid \in Cached)
      BY <1>4 DEF PatchSession
    <2> QED
      BY <1>3, <2>1, <2>2
  <1>5. ASSUME NEW s \in Sid, UpdateSessionMeta(s)
        PROVE  SweepInv'
    BY <1>1, <1>4, <1>5 DEF UpdateSessionMeta
  <1>6. ASSUME NEW s \in Sid, SendToChild(s)
        PROVE  SweepInv'
    BY <1>1, <1>3, <1>6 DEF SendToChild, inFlight
  <1>7. ASSUME NEW t \in Token, PostEvents(t)
        PROVE  SweepInv'
    <2>1. PICK s : s = byIngressToken[t]
      OBVIOUS
    <2>2. s \in Cached
      BY <1>7, <2>1 DEF PostEvents, Authenticates
    <2>3. (sessions' = [sessions EXCEPT ![s].act = now] /\ UNCHANGED upserts) \/ PatchSession(s)
      BY <1>7, <2>1 DEF PostEvents
    <2> QED
      BY <1>1, <1>3, <1>4, <1>7, <2>2, <2>3 DEF PostEvents
  <1>8. ASSUME NEW t \in Token, NEW x \in Stream, OpenStream(t, x)
        PROVE  SweepInv'
    <2>1. PICK s : s = byIngressToken[t]
      OBVIOUS
    <2>2. s \in Cached
      BY <1>8, <2>1 DEF OpenStream, Authenticates
    <2>3. sessions' = [sessions EXCEPT ![s].conn = TRUE, ![s].sse = x, ![s].act = now]
      BY <1>8, <2>1 DEF OpenStream
    <2>4. /\ DOMAIN sessions' = Cached
          /\ \A y \in Cached : sessions'[y].act = now \/ sessions'[y].act = sessions[y].act
      BY <1>0, <2>2, <2>3 DEF Cached, SessionRecord
    <2> QED
      BY <1>1, <1>8, <2>4 DEF OpenStream, inFlight
  <1>9. ASSUME NEW x \in Stream, CloseStream(x)
        PROVE  SweepInv'
    <2>1. PICK s : s = streams[x].sid
      OBVIOUS
    <2>2. \/ s \in Cached /\ sessions' = [sessions EXCEPT ![s].conn = FALSE, ![s].sse = None, ![s].act = now]
          \/ sessions' = sessions
      BY <1>9, <2>1 DEF CloseStream
    <2>3. /\ DOMAIN sessions' = Cached
          /\ \A y \in Cached : sessions'[y].act = now \/ sessions'[y].act = sessions[y].act
      BY <1>0, <2>2 DEF Cached, SessionRecord
    <2> QED
      BY <1>1, <1>9, <2>3 DEF CloseStream, inFlight
  <1>10. ASSUME MarkEnvOffline
         PROVE  SweepInv'
    <2>1. /\ DOMAIN sessions' = Cached
          /\ \A y \in Cached : sessions'[y].act = sessions[y].act
      BY <1>0, <1>10 DEF MarkEnvOffline, SessionRecord
    <2> QED
      BY <1>1, <1>10, <2>1 DEF MarkEnvOffline, inFlight
  <1>11. ASSUME NEW s \in Sid, DeleteSession(s)
         PROVE  SweepInv'
    <2>1. /\ DOMAIN sessions' = Cached \ {s}
          /\ \A x \in DOMAIN sessions' : sessions'[x] = sessions[x]
      BY <1>11 DEF DeleteSession, Forget, Remove, Restrict, Cached
    <2> QED
      BY <1>1, <1>11, <2>1 DEF DeleteSession
  <1>12. ASSUME FlushTimer
         PROVE  SweepInv'
    <2>1. flushes' = flushes \cup {FlushBatch(FALSE)}
      BY <1>12 DEF FlushTimer, IssueFlush
    <2>2. /\ ~FlushBatch(FALSE).sweeping
          /\ \A s \in DOMAIN FlushBatch(FALSE).acts : s \in Cached /\ FlushBatch(FALSE).acts[s] = sessions[s].act
      BY DEF FlushBatch
    <2>3. SweepTrue' /\ BusyFresh'
      BY <1>12, <2>1, <2>2, BesideSweep DEF SweepInv, FlushTimer, Cached
    <2>4. DeletedGone'
      BY <1>12, NoneBack DEF SweepInv, FlushTimer, Cached
    <2> QED
      BY <2>3, <2>4 DEF SweepInv
  <1> QED
    BY <1>2, <1>5, <1>6, <1>7, <1>8, <1>9, <1>10, <1>11, <1>12

\* Steps of the database.
LEMMA DatabaseSteps ==
  ASSUME TypeOK, SweepInv
  PROVE  /\ \A u \in upserts : CommitUpsert(u) \/ FailUpsert(u) => SweepInv'
         /\ \A s \in deletes : CommitDelete(s) \/ FailDelete(s) => SweepInv'
         /\ \A f \in flushes : CommitFlush(f) \/ FailFlush(f) => SweepInv'
  <1>0. \A s \in DOMAIN rows : rows[s] \in Row
    BY RowType
  <1>1. ASSUME NEW u \in upserts, CommitUpsert(u)
        PROVE  SweepInv'
    <2>1. /\ DOMAIN rows' = DOMAIN rows \cup {u.sid} /\ rows'[u.sid].act = u.act
          /\ \A s \in DOMAIN rows : s # u.sid => rows'[s] = rows[s]
      BY <1>1 DEF CommitUpsert, Put
    <2>2. u.act = now
      BY DEF SweepInv, SweepTrue
    <2>3. SweepTrue' /\ BusyFresh'
      BY <1>1, <2>1, <2>2, BesideSweep DEF SweepInv, CommitUpsert, cache, Cached
    <2>4. DeletedGone'
      BY <1>1, <2>1, NoneBack DEF SweepInv, CommitUpsert, cache, Cached
    <2> QED
      BY <2>3, <2>4 DEF SweepInv
  <1>2. ASSUME NEW u \in upserts, FailUpsert(u)
        PROVE  SweepInv'
    <2>1. SweepTrue' /\ BusyFresh'
      BY <1>2, BesideSweep DEF SweepInv, FailUpsert, cache, Cached
    <2>2. DeletedGone'
      BY <1>2, NoneBack DEF SweepInv, FailUpsert, cache, Cached
    <2> QED
      BY <2>1, <2>2 DEF SweepInv
  <1>3. ASSUME NEW s \in deletes, CommitDelete(s)
        PROVE  SweepInv'
    <2>1. /\ DOMAIN rows' = DOMAIN rows \ {s}
          /\ \A x \in DOMAIN rows' : rows'[x] = rows[x]
      BY <1>3 DEF CommitDelete, Remove, Restrict
    <2>2. SweepTrue' /\ BusyFresh'
      BY <1>3, <2>1, BesideSweep DEF SweepInv, CommitDelete, cache, Cached
    <2>3. DeletedGone'
      BY <1>3, <2>1 DEF SweepInv, DeletedGone, CommitDelete, cache, Cached
    <2> QED
      BY <2>2, <2>3 DEF SweepInv
  <1>4. ASSUME NEW s \in deletes, FailDelete(s)
        PROVE  SweepInv'
    <2>1. SweepTrue' /\ BusyFresh'
      BY <1>4, BesideSweep DEF SweepInv, FailDelete, cache, Cached
    <2>2. DeletedGone'
      BY <1>4, NoneBack DEF SweepInv, FailDelete, cache, Cached
    <2> QED
      BY <2>1, <2>2 DEF SweepInv
  <1>5. ASSUME NEW f \in flushes, CommitFlush(f) \/ FailFlush(f)
        PROVE  SweepInv'
    <2>1. /\ DOMAIN rows' = DOMAIN rows
          /\ \A s \in DOMAIN rows : \/ s \in DOMAIN f.acts /\ rows'[s].act = f.acts[s]
                                    \/ s \notin DOMAIN f.acts /\ rows'[s] = rows[s]
                                    \/ FailFlush(f) /\ rows'[s] = rows[s]
      BY <1>0, <1>5 DEF CommitFlush, FailFlush, Row
    <2>2. /\ flushes' = flushes \ {f}
          /\ sweep' = IF f.sweeping
                      THEN [sweep EXCEPT !.phase = "flushed", !.busy = IF FailFlush(f) THEN {} ELSE @]
                      ELSE sweep
          /\ UNCHANGED <<up, now, sessions, upserts, deleted>>
      <3>1. CASE FailFlush(f)
        BY <1>5, <3>1 DEF FailFlush, SettleFlush
      <3>2. CASE ~FailFlush(f)
        BY <1>5, <3>2 DEF CommitFlush, SettleFlush, cache, TypeOK, SweepCall
      <3> QED
        BY <3>1, <3>2
    <2>3. DeletedGone'
      BY <2>1, <2>2, NoneBack DEF SweepInv, Cached
    <2>4. CASE ~f.sweeping
      <3>1. SweepTrue' /\ BusyFresh'
        BY <2>1, <2>2, <2>4, BesideSweep DEF SweepInv, Cached
      <3> QED
        BY <2>3, <3>1 DEF SweepInv
    <2>5. CASE f.sweeping
      <3>1. /\ sweep.phase = "flushing" /\ sweep.busy \subseteq DOMAIN f.acts /\ sweep.gone = {}
            /\ sweep \in SweepCall
        BY <2>5 DEF SweepInv, SweepTrue, TypeOK
      <3>2. /\ sweep'.phase = "flushed" /\ sweep'.gone = {} /\ sweep'.keep = sweep.keep
            /\ sweep'.busy = IF FailFlush(f) THEN {} ELSE sweep.busy
        BY <2>2, <2>5, <3>1 DEF SweepCall
      <3>4. SweepTrue'
        BY <2>2, <3>1, <3>2 DEF SweepInv, SweepTrue
      <3>5. BusyFresh'
        BY <2>1, <2>2, <3>1, <3>2 DEF SweepInv, BusyFresh, Cached, Stale
      <3> QED
        BY <2>3, <3>4, <3>5 DEF SweepInv
    <2> QED
      BY <2>4, <2>5
  <1> QED
    BY <1>1, <1>2, <1>3, <1>4, <1>5

\* Steps of the sweep, and the ones that end and begin everything.
LEMMA SweepSteps ==
  ASSUME TypeOK, SweepInv
  PROVE  /\ SweepBegin \/ SweepSnapshot => SweepInv'
         /\ SweepDelete \/ SweepFail \/ SweepForget => SweepInv'
         /\ Crash \/ Restart \/ Tick => SweepInv'
         /\ UNCHANGED vars => SweepInv'
  <1>0. /\ sweep \in SweepCall
        /\ SweepIdle.gone = {} /\ SweepIdle.busy = {} /\ SweepIdle.phase = "idle"
    BY DEF TypeOK, SweepIdle
  <1>1. ASSUME UNCHANGED <<sessions, rows, upserts, deleted>>
        PROVE  DeletedGone'
    BY <1>1, NoneBack DEF SweepInv, Cached
  <1>2. ASSUME NEW busy \in SUBSET Sid
        PROVE  /\ [SnapshotKeep EXCEPT !.busy = busy].phase = "deleting"
               /\ [SnapshotKeep EXCEPT !.busy = busy].gone = sweep.gone
               /\ [SnapshotKeep EXCEPT !.busy = busy].busy = busy
               /\ SnapshotKeep.phase = "deleting" /\ SnapshotKeep.gone = sweep.gone
               /\ SnapshotKeep.busy = sweep.busy
    BY <1>0 DEF SnapshotKeep, SweepCall
  <1>3. ASSUME SweepBegin
        PROVE  SweepInv'
    <2> DEFINE busy == {s \in dirtyActivity \cap Cached : flushes = {} /\ ~Stale(sessions[s].act)}
    <2>1. sweep.phase = "idle" /\ up /\ UNCHANGED <<up, now, sessions, rows, upserts, deleted>>
      BY <1>3 DEF SweepBegin
    <2>2. sweep.gone = {} /\ sweep.busy = {}
      BY <2>1 DEF SweepInv, SweepTrue
    <2>3. DeletedGone'
      BY <1>1, <2>1
    <2>4. CASE IssueFlush(TRUE) /\ sweep' = [SweepIdle EXCEPT !.phase = "flushing", !.busy = busy]
      <3>1. flushes' = flushes \cup {FlushBatch(TRUE)}
        BY <2>4 DEF IssueFlush
      <3>2. /\ DOMAIN FlushBatch(TRUE).acts = dirtyActivity \cap Cached
            /\ \A s \in dirtyActivity \cap Cached : FlushBatch(TRUE).acts[s] = sessions[s].act
        BY DEF FlushBatch
      <3>3. sweep'.phase = "flushing" /\ sweep'.gone = {} /\ sweep'.busy = busy
        BY <2>4 DEF SweepIdle
      <3>4. \A f \in flushes : ~f.sweeping
        BY <2>1 DEF SweepInv, SweepTrue
      <3>5. SweepTrue'
        BY <2>1, <3>1, <3>2, <3>3, <3>4 DEF SweepInv, SweepTrue
      <3>6. BusyFresh'
        BY <2>1, <3>1, <3>2, <3>3 DEF BusyFresh, Cached, Stale
      <3> QED
        BY <2>3, <3>5, <3>6 DEF SweepInv
    <2>5. CASE dirtyActivity = {} /\ sweep' = [SnapshotKeep EXCEPT !.busy = busy] /\ UNCHANGED flushes
      <3>1. busy = {}
        BY <2>5
      <3>2. sweep'.phase = "deleting" /\ sweep'.gone = {} /\ sweep'.busy = {}
        BY <1>2, <2>2, <2>5, <3>1
      <3>3. SweepTrue' /\ BusyFresh'
        BY <2>1, <2>5, <3>2 DEF SweepInv, SweepTrue, BusyFresh
      <3> QED
        BY <2>3, <3>3 DEF SweepInv
    <2> QED
      BY <1>3, <2>4, <2>5 DEF SweepBegin
  <1>4. ASSUME SweepSnapshot
        PROVE  SweepInv'
    <2>1. sweep.phase = "flushed" /\ sweep' = SnapshotKeep
          /\ UNCHANGED <<up, now, sessions, rows, upserts, flushes, deleted>>
      BY <1>4 DEF SweepSnapshot, cache, inFlight
    <2>2. sweep'.phase = "deleting" /\ sweep'.gone = sweep.gone /\ sweep'.busy = sweep.busy
      BY <1>2, <2>1
    <2>3. SweepTrue' /\ BusyFresh'
      BY <2>1, <2>2 DEF SweepInv, SweepTrue, BusyFresh, Cached, Stale
    <2> QED
      BY <1>1, <2>1, <2>3 DEF SweepInv
  <1>5. ASSUME SweepDelete
        PROVE  SweepInv'
    <2>1. /\ sweep.phase = "deleting" /\ UNCHANGED <<up, now, sessions, upserts, flushes, deleted>>
          /\ sweep'.phase = "returned" /\ sweep'.gone = StaleRows \ sweep.keep
          /\ sweep'.keep = sweep.keep /\ sweep'.busy = sweep.busy
      BY <1>0, <1>5 DEF SweepDelete, SweepCall, cache, inFlight
    <2>2. /\ DOMAIN rows' \subseteq DOMAIN rows
          /\ \A s \in DOMAIN rows' : rows'[s] = rows[s]
      BY <1>5 DEF SweepDelete, Remove, Restrict
    <2>3. DeletedGone'
      BY <2>1, <2>2, NoneBack DEF SweepInv, Cached
    <2>4. SweepTrue'
      BY <2>1 DEF SweepInv, SweepTrue
    <2>5. BusyFresh'
      BY <2>1, <2>2 DEF SweepInv, BusyFresh, StaleRows, Cached, Stale
    <2> QED
      BY <2>3, <2>4, <2>5 DEF SweepInv
  <1>6. ASSUME SweepFail
        PROVE  SweepInv'
    <2>1. /\ sweep.phase = "deleting" /\ sweep' = SweepIdle
          /\ UNCHANGED <<up, now, sessions, rows, upserts, flushes, deleted>>
      BY <1>6 DEF SweepFail, cache, inFlight
    <2>2. SweepTrue' /\ BusyFresh'
      BY <1>0, <2>1 DEF SweepInv, SweepTrue, BusyFresh
    <2> QED
      BY <1>1, <2>1, <2>2 DEF SweepInv
  <1>7. ASSUME SweepForget
        PROVE  SweepInv'
    <2>1. /\ sweep.phase = "returned" /\ sweep' = SweepIdle
          /\ UNCHANGED <<up, now, rows, upserts, flushes, deleted>>
          /\ DOMAIN sessions' \subseteq Cached
      BY <1>7 DEF SweepForget, Forget, Remove, Restrict, Cached, inFlight
    <2>2. SweepTrue' /\ BusyFresh'
      BY <1>0, <2>1 DEF SweepInv, SweepTrue, BusyFresh
    <2>3. DeletedGone'
      BY <2>1, NoneBack DEF SweepInv
    <2> QED
      BY <2>2, <2>3 DEF SweepInv
  <1>8. ASSUME Crash
        PROVE  SweepInv'
    <2>1. /\ sweep' = SweepIdle /\ upserts' = {} /\ flushes' = {} /\ UNCHANGED <<rows, deleted>>
          /\ DOMAIN sessions' = {}
      BY <1>8 DEF Crash, EmptyMap
    <2>2. SweepTrue' /\ BusyFresh'
      BY <1>0, <2>1 DEF SweepTrue, BusyFresh
    <2>3. DeletedGone'
      BY <2>1 DEF SweepInv, DeletedGone, Cached
    <2> QED
      BY <2>2, <2>3 DEF SweepInv
  <1>9. ASSUME Restart
        PROVE  SweepInv'
    <2>1. ~up /\ UNCHANGED <<now, upserts, flushes, sweep, deleted>>
      BY <1>9 DEF Restart, inFlight
    <2>2. DOMAIN rows' \subseteq DOMAIN rows /\ DOMAIN sessions' \subseteq DOMAIN rows
      BY <1>9 DEF Restart, Remove, Restrict
    <2>3. SweepTrue' /\ BusyFresh'
      BY <2>1 DEF SweepInv, SweepTrue, BusyFresh
    <2>4. DeletedGone'
      BY <2>1, <2>2, NoneBack DEF SweepInv
    <2> QED
      BY <2>3, <2>4 DEF SweepInv
  <1>10. ASSUME Tick
         PROVE  SweepInv'
    <2>1. /\ upserts = {} /\ flushes = {} /\ sweep.phase = "idle"
          /\ UNCHANGED <<up, sessions, rows, upserts, flushes, sweep, deleted>>
      BY <1>10 DEF Tick, NothingInFlight, cache, inFlight
    <2>2. SweepTrue' /\ BusyFresh'
      BY <2>1 DEF SweepInv, SweepTrue, BusyFresh
    <2> QED
      BY <1>1, <2>1, <2>2 DEF SweepInv
  <1>11. ASSUME UNCHANGED vars
         PROVE  SweepInv'
    BY <1>11 DEF vars, cache, inFlight, SweepInv, DeletedGone, SweepTrue, BusyFresh, Cached, Stale
  <1> QED
    BY <1>3, <1>4, <1>5, <1>6, <1>7, <1>8, <1>9, <1>10, <1>11

-----------------------------------------------------------------------------
(* What is forgotten: the theorem *)

\* What the sweep promises of one step.
HonoursKeep ==
  up' /\ sweep.phase = "returned" /\ sweep'.phase = "idle" =>
    /\ sweep.keep \cap Cached \subseteq DOMAIN sessions'
    /\ Cached \ DOMAIN sessions' \subseteq sweep.gone

\* Only SweepForget brings the sweep from its result to its end, and it forgets what it deleted.
LEMMA KeepHonoured ==
  ASSUME TypeOK, SweepInv, [Next]_vars
  PROVE  HonoursKeep
  <1>1. ASSUME sweep' = sweep \/ ~up' \/ sweep.phase # "returned"
        PROVE  HonoursKeep
    BY <1>1 DEF HonoursKeep
  <1>2. ASSUME SweepForget
        PROVE  HonoursKeep
    <2>1. DOMAIN sessions' = Cached \ sweep.gone /\ sweep.phase = "returned"
      BY <1>2 DEF SweepForget, Forget, Remove, Restrict, Cached
    <2>2. sweep.gone \cap sweep.keep = {}
      BY <2>1 DEF SweepInv, SweepTrue
    <2> QED
      BY <2>1, <2>2 DEF HonoursKeep
  <1>3. ASSUME NEW f \in flushes, CommitFlush(f) \/ FailFlush(f)
        PROVE  sweep' = sweep \/ sweep.phase # "returned"
    BY <1>3 DEF CommitFlush, FailFlush, SettleFlush, SweepInv, SweepTrue
  <1>4. CASE Requests
    BY <1>1, <1>4
    DEF Requests, PushSessionWork, CreateReplSession, RecreateSession, AddSession, UpdateSessionMeta,
        SendToChild, DeleteSession, PostEvents, OpenStream, CloseStream, MarkEnvOffline
  <1>5. CASE Timers \/ SweepSnapshot
    BY <1>1, <1>5 DEF Timers, FlushTimer, SweepBegin, SweepSnapshot
  <1>6. CASE Commits
    BY <1>1, <1>3, <1>6 DEF Commits, CommitUpsert, CommitDelete, SweepDelete
  <1>7. CASE Failures
    BY <1>1, <1>3, <1>7 DEF Failures, FailUpsert, FailDelete, SweepFail, Crash
  <1>8. CASE Restart \/ Tick \/ UNCHANGED vars
    BY <1>1, <1>8 DEF Restart, Tick, vars
  <1> QED
    BY <1>2, <1>4, <1>5, <1>6, <1>7, <1>8 DEF Next

\* The sweep and deletion are as SweepInv says, in every state.
LEMMA SweepAlways == Spec => []SweepInv
  <1>1. Init => SweepInv
    BY DEF Init, SweepInv, DeletedGone, SweepTrue, BusyFresh, SweepIdle
  <1>2. TypeOK /\ SweepInv /\ [Next]_vars => SweepInv'
    <2> SUFFICES ASSUME TypeOK, SweepInv, [Next]_vars
                 PROVE  SweepInv'
      OBVIOUS
    <2>1. CASE Requests
      BY <2>1, CacheSteps DEF Requests, PushSessionWork, CreateReplSession, RecreateSession
    <2>2. CASE Timers \/ SweepSnapshot \/ SweepForget
      BY <2>2, CacheSteps, SweepSteps DEF Timers
    <2>3. CASE Commits
      BY <2>3, DatabaseSteps, SweepSteps DEF Commits
    <2>4. CASE Failures
      BY <2>4, DatabaseSteps, SweepSteps DEF Failures
    <2>5. CASE Restart \/ Tick \/ UNCHANGED vars
      BY <2>5, SweepSteps
    <2> QED
      BY <2>1, <2>2, <2>3, <2>4, <2>5 DEF Next
  <1> QED
    BY <1>1, <1>2, TypeCorrect, PTL DEF Spec

\* Theorem (what is forgotten is forgotten rightly): the sweep takes neither a session that was connected
\* when its DELETE was built nor one whose bump it was to wait for, and what was deleted does not come
\* back, by a late flush or a reload, whatever fails.  (store.ts:382-433)
THEOREM ForgottenAlwaysRightly == Spec => ForgottenRightly
  <1>1. SweepInv => SweepSparesBusy /\ DeletedStaysDeleted
    BY DEF SweepInv, BusyFresh, DeletedGone, SweepSparesBusy, DeletedStaysDeleted
  <1>2. TypeOK /\ SweepInv /\ [Next]_vars => [HonoursKeep]_vars
    BY KeepHonoured
  <1> QED
    BY <1>1, <1>2, SweepAlways, TypeCorrect, PTL DEF Spec, ForgottenRightly, SweepHonoursKeep, HonoursKeep

-----------------------------------------------------------------------------
(* Who is connected, when streams of one session do not overlap *)

\* A stream carries the token of no other session than the one it was opened for; there is one stream
\* per session, none in a dead process, and the records say which sessions have one.
OneStreamEach ==
  \A x, y \in DOMAIN streams : streams[x].sid = streams[y].sid => x = y

StreamsTrue ==
  \A x \in DOMAIN streams :
    /\ streams[x].tok \in issued
    /\ \A s \in Cached : sessions[s].tok = streams[x].tok => streams[x].sid = s

SerialInv ==
  /\ ~up => DOMAIN streams = {}
  /\ OneStreamEach
  /\ StreamsTrue
  /\ ConnectedExact

SparesLive ==
  up' /\ sweep' = sweep =>
    \A s \in ReplSid \cap Cached : HasStream(s) => s \in DOMAIN sessions'

\* Steps that open and close no stream: each record stays, or goes, or is made anew with a new token.
LEMMA StreamsKept ==
  ASSUME IInv, SerialInv, ~ReconnectOverlaps, UNCHANGED <<up, streams>>, issued \subseteq issued',
         \A s \in DOMAIN sessions' :
           \/ ~sessions'[s].conn /\ sessions'[s].tok \notin issued
           \/ /\ s \in Cached /\ sessions'[s].tok = sessions[s].tok
              /\ s \in ReplSid => (sessions'[s].conn <=> sessions[s].conn)
  PROVE  SerialInv'
  <1>1. OneStreamEach' /\ (~up => DOMAIN streams = {})'
    BY DEF SerialInv, OneStreamEach
  <1>2. StreamsTrue'
    BY DEF SerialInv, StreamsTrue, Cached
  <1>3. ASSUME NEW s \in ReplSid \cap DOMAIN sessions'
        PROVE  sessions'[s].conn <=> \E x \in DOMAIN streams' : streams'[x].tok = sessions'[s].tok
    <2>1. CASE ~sessions'[s].conn /\ sessions'[s].tok \notin issued
      BY <2>1 DEF SerialInv, StreamsTrue
    <2>2. CASE s \in Cached /\ sessions'[s].tok = sessions[s].tok /\ (sessions'[s].conn <=> sessions[s].conn)
      BY <2>2 DEF SerialInv, ConnectedExact, HasStream
    <2> QED
      BY <1>3, <2>1, <2>2
  <1>4. ConnectedExact'
    BY <1>3 DEF ConnectedExact, HasStream, Cached
  <1> QED
    BY <1>1, <1>2, <1>4 DEF SerialInv

\* A stream opens for the session that presented its token, and its record knows.
LEMMA OpenSerial ==
  ASSUME IInv, SerialInv, ~ReconnectOverlaps, NEW t \in Token, NEW x \in Stream, OpenStream(t, x)
  PROVE  SerialInv' /\ SparesLive
  <1>1. PICK s \in Cached : s = byIngressToken[t] /\ sessions[s].tok = t /\ t \in issued
    <2>1. byIngressToken[t] \in Cached /\ sessions[byIngressToken[t]].tok = t
      BY DEF OpenStream, Authenticates, IInv, TokenIndexExact
    <2> QED
      BY <2>1, CachedMeans
  <1>2. \A y \in Cached : sessions[y] \in SessionRecord
    BY RecordType DEF IInv
  <1>3. sessions' = [sessions EXCEPT ![s].conn = TRUE, ![s].sse = x, ![s].act = now]
    BY <1>1 DEF OpenStream
  <1>4. /\ DOMAIN sessions' = Cached
        /\ \A y \in Cached : sessions'[y].tok = sessions[y].tok
        /\ \A y \in Cached : y # s => sessions'[y] = sessions[y]
        /\ sessions'[s].conn
    BY <1>1, <1>2, <1>3 DEF Cached, SessionRecord
  <1>5. /\ DOMAIN streams' = DOMAIN streams \cup {x} /\ x \notin DOMAIN streams
        /\ streams'[x] = [sid |-> s, tok |-> t]
        /\ \A y \in DOMAIN streams : streams'[y] = streams[y] /\ streams[y].sid # s
    BY <1>1 DEF OpenStream, Put
  <1>6. UNCHANGED <<up, issued>> /\ up
    BY DEF OpenStream
  <1>7. OneStreamEach'
    BY <1>5 DEF SerialInv, OneStreamEach
  <1>8. \A y \in Cached : sessions[y].tok = t => y = s
    BY <1>1 DEF IInv, TokenIndexExact
  <1>9. StreamsTrue'
    BY <1>1, <1>4, <1>5, <1>6, <1>8 DEF SerialInv, StreamsTrue, Cached
  <1>10. ASSUME NEW y \in ReplSid \cap Cached
         PROVE  sessions'[y].conn <=> \E z \in DOMAIN streams' : streams'[z].tok = sessions'[y].tok
    <2>1. CASE y = s
      BY <1>1, <1>4, <1>5, <2>1
    <2>2. CASE y # s
      BY <1>4, <1>5, <1>8, <2>2 DEF SerialInv, ConnectedExact, HasStream
    <2> QED
      BY <2>1, <2>2
  <1>11. ConnectedExact'
    BY <1>4, <1>10 DEF ConnectedExact, HasStream, Cached
  <1> QED
    BY <1>4, <1>6, <1>7, <1>9, <1>11 DEF SerialInv, SparesLive

\* When a stream closes, its session has no other.
LEMMA CloseSerial ==
  ASSUME IInv, SerialInv, ~ReconnectOverlaps, NEW x \in Stream, CloseStream(x)
  PROVE  SerialInv' /\ SparesLive
  <1>1. PICK s : s = streams[x].sid
    OBVIOUS
  <1>2. \A y \in Cached : sessions[y] \in SessionRecord
    BY RecordType DEF IInv
  <1>3. /\ DOMAIN sessions' = Cached
        /\ \A y \in Cached : sessions'[y].tok = sessions[y].tok
        /\ \A y \in Cached : y # s => sessions'[y] = sessions[y]
        /\ s \in Cached => ~sessions'[s].conn
    <2>1. CASE s \in Cached
      <3>1. sessions' = [sessions EXCEPT ![s].conn = FALSE, ![s].sse = None, ![s].act = now]
        BY <1>1, <2>1 DEF CloseStream
      <3> QED
        BY <1>2, <2>1, <3>1 DEF Cached, SessionRecord
    <2>2. CASE s \notin Cached
      BY <1>1, <2>2 DEF CloseStream, Cached
    <2> QED
      BY <2>1, <2>2
  <1>4. /\ DOMAIN streams' = DOMAIN streams \ {x} /\ x \in DOMAIN streams
        /\ \A y \in DOMAIN streams' : streams'[y] = streams[y] /\ streams[y].sid # s
    BY <1>1 DEF CloseStream, Remove, Restrict, SerialInv, OneStreamEach
  <1>5. UNCHANGED <<up, issued>> /\ up
    BY DEF CloseStream
  <1>6. OneStreamEach' /\ StreamsTrue'
    BY <1>3, <1>4, <1>5 DEF SerialInv, OneStreamEach, StreamsTrue, Cached
  <1>7. ASSUME NEW y \in ReplSid \cap Cached
        PROVE  sessions'[y].conn <=> \E z \in DOMAIN streams' : streams'[z].tok = sessions'[y].tok
    <2>1. CASE y = s
      BY <1>3, <1>4, <2>1 DEF SerialInv, StreamsTrue
    <2>2. CASE y # s
      <3>1. \A z \in DOMAIN streams : streams[z].tok = sessions[y].tok => z # x
        BY <1>1, <2>2 DEF SerialInv, StreamsTrue
      <3> QED
        BY <1>3, <1>4, <2>2, <3>1 DEF SerialInv, ConnectedExact, HasStream
    <2> QED
      BY <2>1, <2>2
  <1>8. ConnectedExact'
    BY <1>3, <1>7 DEF ConnectedExact, HasStream, Cached
  <1> QED
    BY <1>3, <1>5, <1>6, <1>8 DEF SerialInv, SparesLive

\* Other requests leave the streams alone, and delete no session that has one.
LEMMA RequestsSerial ==
  ASSUME IInv, SerialInv, ~ReconnectOverlaps, Requests
  PROVE  SerialInv' /\ SparesLive
  <1>0. \A s \in Cached : s \in Sid /\ sessions[s] \in SessionRecord
    BY RecordType DEF IInv
  <1>1. ASSUME UNCHANGED <<up, streams, issued>>, DOMAIN sessions' = Cached,
               \A s \in Cached : sessions'[s].tok = sessions[s].tok,
               \A s \in Cached : s \in ReplSid => (sessions'[s].conn <=> sessions[s].conn)
        PROVE  SerialInv' /\ SparesLive
    BY <1>1, StreamsKept DEF SparesLive
  <1>2. ASSUME NEW s \in Sid, NEW t \in Token,
               PushSessionWork(s, t) \/ CreateReplSession(s, t) \/ RecreateSession(s, t)
        PROVE  SerialInv' /\ SparesLive
    <2>1. AddSession(s, t) /\ UNCHANGED <<up, streams>>
      BY <1>2 DEF PushSessionWork, CreateReplSession, RecreateSession, AddSession
    <2>2. /\ DOMAIN sessions' = Cached \cup {s} /\ sessions'[s].tok = t /\ ~sessions'[s].conn
          /\ \A x \in Cached : x # s => sessions'[x] = sessions[x]
      BY <2>1 DEF AddSession, Put, Cached
    <2>3. t \notin issued /\ issued \subseteq issued'
      BY <2>1 DEF AddSession
    <2>4. SerialInv'
      BY <2>1, <2>2, <2>3, StreamsKept
    <2> QED
      BY <2>2, <2>4 DEF SparesLive
  <1>3. ASSUME NEW s \in Cached, sessions' = [sessions EXCEPT ![s].act = now]
        PROVE  /\ DOMAIN sessions' = Cached
               /\ \A x \in Cached : sessions'[x].tok = sessions[x].tok
               /\ \A x \in Cached : sessions'[x].conn = sessions[x].conn
    BY <1>0, <1>3 DEF Cached, SessionRecord
  <1>4. ASSUME NEW s \in Sid, UpdateSessionMeta(s) \/ SendToChild(s)
        PROVE  SerialInv' /\ SparesLive
    <2>1. /\ UNCHANGED <<up, streams, issued>> /\ s \in Cached
          /\ sessions' = [sessions EXCEPT ![s].act = now]
      BY <1>4 DEF UpdateSessionMeta, SendToChild, PatchSession
    <2> QED
      BY <1>1, <1>3, <2>1
  <1>5. ASSUME NEW t \in Token, PostEvents(t)
        PROVE  SerialInv' /\ SparesLive
    <2>1. PICK s : s = byIngressToken[t]
      OBVIOUS
    <2>2. /\ UNCHANGED <<up, streams, issued>> /\ s \in Cached
          /\ sessions' = [sessions EXCEPT ![s].act = now]
      BY <1>5, <2>1 DEF PostEvents, Authenticates, PatchSession
    <2> QED
      BY <1>1, <1>3, <2>2
  <1>6. ASSUME MarkEnvOffline
        PROVE  SerialInv' /\ SparesLive
    <2>1. /\ UNCHANGED <<up, streams, issued>> /\ DOMAIN sessions' = Cached
          /\ \A s \in Cached : sessions'[s].tok = sessions[s].tok
      BY <1>0, <1>6 DEF MarkEnvOffline, SessionRecord
    <2>2. ASSUME NEW s \in Cached, s \in ReplSid
          PROVE  sessions'[s].conn <=> sessions[s].conn
      <3>1. sessions'[s] = [sessions[s] EXCEPT !.conn = @ /\ s \notin EnvSid]
        BY <1>6 DEF MarkEnvOffline
      <3>2. sessions'[s].conn = (sessions[s].conn /\ s \notin EnvSid)
        BY <1>0, <3>1 DEF SessionRecord
      <3>3. s \notin EnvSid
        BY <2>2, ConstantsOK
      <3> QED
        BY <3>2, <3>3
    <2> QED
      BY <1>1, <2>1, <2>2
  <1>7. ASSUME NEW s \in Sid, DeleteSession(s)
        PROVE  SerialInv' /\ SparesLive
    <2>1. /\ UNCHANGED <<up, streams, issued>> /\ s \in Cached /\ ~sessions[s].conn
          /\ DOMAIN sessions' = Cached \ {s}
          /\ \A x \in DOMAIN sessions' : sessions'[x] = sessions[x]
      BY <1>7 DEF DeleteSession, Forget, Remove, Restrict, Cached
    <2>2. SerialInv'
      BY <2>1, StreamsKept
    <2>3. s \in ReplSid => ~HasStream(s)
      BY <2>1 DEF SerialInv, ConnectedExact
    <2> QED
      BY <2>1, <2>2, <2>3 DEF SparesLive
  <1> QED
    BY <1>2, <1>4, <1>5, <1>6, <1>7, OpenSerial, CloseSerial DEF Requests

\* Beside the requests, streams end only with the process, and only the sweep's result removes a session.
LEMMA OthersSerial ==
  ASSUME IInv, SerialInv, ~ReconnectOverlaps, [Next]_vars
  PROVE  SerialInv' /\ SparesLive
  <1>1. ASSUME UNCHANGED <<up, streams, issued, sessions>>
        PROVE  SerialInv' /\ SparesLive
    BY <1>1, StreamsKept DEF SparesLive, Cached
  <1>2. CASE Requests
    BY <1>2, RequestsSerial
  <1>3. CASE Timers \/ SweepSnapshot \/ Tick \/ UNCHANGED vars
    BY <1>1, <1>3 DEF Timers, FlushTimer, SweepBegin, SweepSnapshot, Tick, vars, cache
  <1>4. CASE Commits
    BY <1>1, <1>4 DEF Commits, CommitUpsert, CommitDelete, CommitFlush, SweepDelete, cache
  <1>5. CASE SweepForget
    <2>1. /\ UNCHANGED <<up, streams, issued>> /\ sweep' # sweep
          /\ DOMAIN sessions' \subseteq Cached
          /\ \A x \in DOMAIN sessions' : sessions'[x] = sessions[x]
      BY <1>5 DEF SweepForget, SweepIdle, Forget, Remove, Restrict, Cached
    <2> QED
      BY <2>1, StreamsKept DEF SparesLive
  <1>6. CASE Crash
    <2>1. DOMAIN streams' = {} /\ DOMAIN sessions' = {} /\ ~up'
      BY <1>6 DEF Crash, EmptyMap
    <2> QED
      BY <2>1 DEF SerialInv, OneStreamEach, StreamsTrue, ConnectedExact, SparesLive, Cached
  <1>7. CASE Failures /\ ~Crash
    BY <1>1, <1>7 DEF Failures, FailUpsert, FailDelete, FailFlush, SweepFail, cache
  <1>8. CASE Restart
    <2>1. DOMAIN streams = {} /\ DOMAIN streams' = {}
      BY <1>8 DEF Restart, SerialInv
    <2>2. \A s \in DOMAIN sessions' : ~sessions'[s].conn
      BY <1>8 DEF Restart, Hydrate
    <2>3. SerialInv'
      BY <2>1, <2>2 DEF SerialInv, OneStreamEach, StreamsTrue, ConnectedExact, HasStream, Cached
    <2> QED
      BY <2>1, <2>3 DEF SparesLive, HasStream
  <1> QED
    BY <1>2, <1>3, <1>4, <1>5, <1>6, <1>7, <1>8 DEF Next

\* Theorem (the living are known, and spared): where a child's new stream opens only after the close of
\* its old one was handled, an /rc session is connected exactly when its child holds a stream, and a
\* request to delete it while it does is refused.  (index.ts:295-305, store.ts:374-389)
THEOREM LiveAlwaysKept ==
  ASSUME ~ReconnectOverlaps
  PROVE  Spec => LiveKept
  <1>1. Init => SerialInv
    BY DEF Init, SerialInv, OneStreamEach, StreamsTrue, ConnectedExact, Cached, EmptyMap
  <1>2. IInv /\ SerialInv /\ [Next]_vars => SerialInv' /\ [SparesLive]_vars
    BY OthersSerial
  <1>3. SerialInv => ConnectedExact
    BY DEF SerialInv
  <1> QED
    BY <1>1, <1>2, <1>3, Invariance, PTL DEF Spec, LiveKept, DeleteKeepsLive, SparesLive
=============================================================================
