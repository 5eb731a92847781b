------------------------------- MODULE Archive -------------------------------
(***************************************************************************)
(* The transcript's storage (src/server/store.ts:488-524, db.ts:194-318):  *)
(* a batch of payloads is relayed to the page without its image data, then *)
(* inserted with the shape of each; rows of an older release are stamped   *)
(* in the background by every server that boots; the page fetches an image *)
(* by reference (src/server/index.ts:366-398).  Shapes and ImageBlobs say  *)
(* what a shape and a reference are.                                       *)
(*                                                                         *)
(* Left out: who may ask (Accounts), what the page does with an event      *)
(* (WebChannel, Turns), and timestamps.                                    *)
(***************************************************************************)
EXTENDS Shapes, ImageBlobs, FiniteSetsExt

CONSTANTS
  Sessions,
  Batches,        \* what a worker may post at once
  OldRows,        \* payloads stored by a release without shapes
  Servers,        \* processes that boot against the database
  BATCH,          \* rows a backfill step reads
  HISTORY_LIMIT,  \* payloads kept in memory for a session
  MaxPosts,       \* bound: posts
  MaxArchiveBreaks       \* bound: failed statements and restarts

\* What the constants must be.
ArchiveOK ==
  /\ {BATCH, HISTORY_LIMIT} \subseteq Nat \ {0}
  /\ {MaxPosts, MaxArchiveBreaks, MaxIndex} \subseteq Nat

VARIABLES
  pooled,      \* DATABASE_URL is set
  known,       \* Store.sessions: the ids in the read cache
  stored,      \* table sessions
  rows,        \* table events, by id
  inserts,     \* INSERTs not answered yet
  deletes,     \* DELETEs of a session not answered yet
  memHistory,  \* Store.memHistory
  passes,      \* runBackfills, by server
  relayed,     \* what the page has been sent, with the payload it comes from
  fetch,       \* a blob request waiting for its row
  answer,      \* what the last blob request got
  posts,       \* posts so far
  archiveBreaks

archiveVars == <<pooled, known, stored, rows, inserts, deletes, memHistory, passes, relayed, fetch,
                 answer, posts, archiveBreaks>>

NoShape == <<>>
NoFetch == [asked |-> FALSE]
NoAnswer == [status |-> 0]

Row(session, payload, shape) == [session |-> session, payload |-> payload, shape |-> shape]

-----------------------------------------------------------------------------
(* Statements *)

(* Deleted rows leave their id behind: the sequence only grows. *)
Gone == [session |-> "none"]
Alive == {i \in DOMAIN rows : rows[i] # Gone}

insertEvents(session, batch) ==
  [i \in DOMAIN batch |-> Row(session, batch[i], shapeOf(batch[i]))]

(* delete from sessions: the events go with it. *)
Cascade(session) ==
  [i \in DOMAIN rows |-> IF rows[i] # Gone /\ rows[i].session = session THEN Gone ELSE rows[i]]

Unstamped == {i \in Alive : rows[i].shape = NoShape}

(* The oldest rows without a shape, with the shape their payload implies. *)
BackfillRead ==
  LET oldest == {i \in Unstamped : Cardinality({j \in Unstamped : j < i}) < BATCH}
  IN  [i \in oldest |-> shapeOf(rows[i].payload)]

(* update events ... where e.id = v.id: a row deleted meanwhile stays so. *)
Stamped(stamps) ==
  [i \in DOMAIN rows |->
     IF i \in DOMAIN stamps /\ rows[i] # Gone THEN [rows[i] EXCEPT !.shape = stamps[i]] ELSE rows[i]]

selectShapeStats ==
  {[shape |-> s,
    count |-> Cardinality({i \in Alive : rows[i].shape = s}),
    firstId |-> Min({i \in Alive : rows[i].shape = s})]
     : s \in {rows[i].shape : i \in Alive}}

Newest(S, n) == {i \in S : Cardinality({j \in S : j > i}) < n}

(* The stored payload with a uuid, the newest one: a set of one or none. *)
eventByUuid(session, uuid) ==
  LET history == memHistory[session]
      found == IF pooled THEN {i \in Alive : rows[i].session = session /\ rows[i].payload.uuid = uuid}
                         ELSE {i \in DOMAIN history : history[i].uuid = uuid}
  IN  {IF pooled THEN rows[i].payload ELSE history[i] : i \in Newest(found, 1)}

-----------------------------------------------------------------------------
(* Actions *)

Boot == [server |-> "reading", stamps |-> <<>>]

ArchiveInit ==
  /\ pooled \in BOOLEAN
  /\ known = Sessions
  /\ stored = IF pooled THEN Sessions ELSE {}
  /\ rows = IF pooled THEN [i \in DOMAIN OldRows |->
                              Row(OldRows[i].session, OldRows[i].payload, NoShape)] ELSE <<>>
  /\ inserts = {}
  /\ deletes = {}
  /\ memHistory = [s \in Sessions |-> <<>>]
  /\ passes = [v \in Servers |-> IF pooled THEN Boot ELSE [Boot EXCEPT !.server = "done"]]
  /\ relayed = {}
  /\ fetch = NoFetch
  /\ answer = NoAnswer
  /\ posts = 0
  /\ archiveBreaks = 0

Break == archiveBreaks < MaxArchiveBreaks /\ archiveBreaks' = archiveBreaks + 1

Storable(batch) == SelectSeq(batch, LAMBDA p : p.type # "stream_event")

(* POST /worker/events: the page is sent the batch first, then it is kept. *)
(* Its session may be forgotten meanwhile: the statement is sent all the same. *)
PostBatch(s, batch) ==
  LET kept == Storable(batch)
      longer == memHistory[s] \o kept
  IN  /\ posts < MaxPosts
      /\ s \in known
      /\ posts' = posts + 1
      /\ relayed' = relayed \cup {[session |-> s, payload |-> p, sent |-> stripImageBlobs(p)] : p \in Range(batch)}
      /\ IF pooled
         THEN /\ inserts' = IF kept = <<>> THEN inserts
                            ELSE inserts \cup {[session |-> s, batch |-> kept, n |-> posts']}
              /\ UNCHANGED memHistory
         ELSE /\ memHistory' = [memHistory EXCEPT ![s] =
                   SubSeq(longer, Len(longer) - Min({Len(longer), HISTORY_LIMIT}) + 1, Len(longer))]
              /\ UNCHANGED inserts
      /\ UNCHANGED <<pooled, known, stored, rows, deletes, passes, fetch, answer, archiveBreaks>>

InsertLands(i) ==
  /\ i.session \in stored
  /\ rows' = rows \o insertEvents(i.session, i.batch)
  /\ inserts' = inserts \ {i}
  /\ UNCHANGED <<pooled, known, stored, deletes, memHistory, passes, relayed, fetch, answer, posts, archiveBreaks>>

(* The session is gone, or the database is: logged, and the worker told 200. *)
EventInsertFails(i) ==
  /\ IF i.session \in stored THEN Break ELSE UNCHANGED archiveBreaks
  /\ inserts' = inserts \ {i}
  /\ UNCHANGED <<pooled, known, stored, rows, deletes, memHistory, passes, relayed, fetch, answer, posts>>

(* deleteSession(): forgotten first. *)
ForgetSession(s) ==
  /\ s \in known
  /\ known' = known \ {s}
  /\ memHistory' = [memHistory EXCEPT ![s] = <<>>]
  /\ deletes' = IF pooled THEN deletes \cup {s} ELSE deletes
  /\ UNCHANGED <<pooled, stored, rows, inserts, passes, relayed, fetch, answer, posts, archiveBreaks>>

DeleteLands(s) ==
  /\ s \in deletes
  /\ deletes' = deletes \ {s}
  /\ stored' = stored \ {s}
  /\ rows' = Cascade(s)
  /\ UNCHANGED <<pooled, known, inserts, memHistory, passes, relayed, fetch, answer, posts, archiveBreaks>>

DeleteFails(s) ==
  /\ s \in deletes
  /\ Break
  /\ deletes' = deletes \ {s}
  /\ UNCHANGED <<pooled, known, stored, rows, inserts, memHistory, passes, relayed, fetch, answer, posts>>

(* Mutant of Scan: an empty batch is taken for a full one still to come. *)
Scan_Forever(v) ==
  /\ passes[v].server = "reading"
  /\ passes' = [passes EXCEPT ![v] = IF BackfillRead = <<>> THEN @
                                     ELSE [server |-> "stamping", stamps |-> BackfillRead]]

(* backfillShapes(): one batch is read; none left ends the pass. *)
Scan(v) ==
  /\ passes[v].server = "reading"
  /\ passes' = [passes EXCEPT ![v] = IF BackfillRead = <<>> THEN [@ EXCEPT !.server = "done"]
                                     ELSE [server |-> "stamping", stamps |-> BackfillRead]]

ScanBatch(v) ==
  /\ Scan(v)
  /\ UNCHANGED <<pooled, known, stored, rows, inserts, deletes, memHistory, relayed, fetch, answer, posts, archiveBreaks>>

StampBatch(v) ==
  /\ passes[v].server = "stamping"
  /\ rows' = Stamped(passes[v].stamps)
  /\ passes' = [passes EXCEPT ![v] = Boot]
  /\ UNCHANGED <<pooled, known, stored, inserts, deletes, memHistory, relayed, fetch, answer, posts, archiveBreaks>>

(* A statement fails: logged, and left to the next boot. *)
BackfillStops(v) ==
  /\ passes[v].server \in {"reading", "stamping"}
  /\ Break
  /\ passes' = [passes EXCEPT ![v] = [Boot EXCEPT !.server = "stopped"]]
  /\ UNCHANGED <<pooled, known, stored, rows, inserts, deletes, memHistory, relayed, fetch, answer, posts>>

(* GET /v1/blob up to its await. *)
AskBlob(s, ref) ==
  /\ fetch = NoFetch
  /\ s \in known
  /\ fetch' = [asked |-> TRUE, session |-> s, ref |-> ref,
               kept |-> eventByUuid(s, ref.uuid) # {}]
  /\ answer' = NoAnswer
  /\ UNCHANGED <<pooled, known, stored, rows, inserts, deletes, memHistory, passes, relayed, posts, archiveBreaks>>

(* The row has been read: the image, or 404. *)
AnswerBlob ==
  LET found == UNION {resolveImageBlob(p, fetch.ref.index) : p \in eventByUuid(fetch.session, fetch.ref.uuid)}
  IN  /\ fetch.asked
      /\ fetch' = NoFetch
      /\ answer' = [status |-> IF found = {} THEN 404 ELSE 200, data |-> found,
                    session |-> fetch.session, ref |-> fetch.ref,
                    kept |-> fetch.kept /\ eventByUuid(fetch.session, fetch.ref.uuid) # {}]
      /\ UNCHANGED <<pooled, known, stored, rows, inserts, deletes, memHistory, passes, relayed, posts, archiveBreaks>>

(* The process dies and boots again: the page, and the other server, do not. *)
RestartServer(v) ==
  /\ Break
  /\ known' = stored
  /\ inserts' = {}
  /\ deletes' = {}
  /\ memHistory' = [s \in Sessions |-> <<>>]
  /\ passes' = [passes EXCEPT ![v] = IF pooled THEN Boot ELSE @]
  /\ fetch' = NoFetch
  /\ UNCHANGED <<pooled, stored, rows, relayed, answer, posts>>

Backfill(v) == ScanBatch(v) \/ StampBatch(v)

(* References the page may ask for: those it was sent. *)
SentRefs(s) ==
  UNION {{r.sent.content[at[1]].source : at \in {x \in Range(eachImage(r.sent.content)) : x[2] = 0}}
           \cup {r.sent.content[at[1]].inner[at[2]].source :
                   at \in {x \in Range(eachImage(r.sent.content)) : x[2] > 0}}
         : r \in {x \in relayed : x.session = s}}

ArchiveNext ==
  \/ \E s \in Sessions :
       \/ \E b \in Batches : PostBatch(s, b)
       \/ \E r \in SentRefs(s) : r.type = "blob_ref" /\ parseBlobRef(r) # {} /\ AskBlob(s, r)
       \/ ForgetSession(s) \/ DeleteLands(s) \/ DeleteFails(s)
  \/ \E i \in inserts : InsertLands(i) \/ EventInsertFails(i)
  \/ \E v \in Servers : Backfill(v) \/ BackfillStops(v)
  \/ AnswerBlob
  \/ RestartServer(CHOOSE v \in Servers : TRUE)

ArchiveSpec == ArchiveInit /\ [][ArchiveNext]_archiveVars
                 /\ WF_archiveVars(\E v \in Servers : Backfill(v))

-----------------------------------------------------------------------------
(* Properties *)

ArchiveTypeOK ==
  /\ known \subseteq Sessions /\ stored \subseteq Sessions /\ deletes \subseteq Sessions
  /\ \A i \in Alive : rows[i].session \in stored
  /\ \A v \in Servers : passes[v].server \in {"reading", "stamping", "done", "stopped"}
  /\ \A s \in Sessions : Len(memHistory[s]) <= HISTORY_LIMIT

(* A row is stamped with the shape of its own payload or not at all, even  *)
(* when two servers stamp at once and sessions are deleted under them, and *)
(* a server whose pass ended well left no row unstamped (db.ts:256-294).   *)
ShapesHonest ==
  /\ \A i \in Alive : rows[i].shape \in {NoShape, shapeOf(rows[i].payload)}
  /\ (\E v \in Servers : passes[v].server = "done") => Unstamped = {}

(* The census counts every row once, under a shape its first row really    *)
(* has, and what nobody has decided about is never counted as decided:     *)
(* neither a subtype no row lists nor a block type (db.ts:220-235,         *)
(* wire-shape.ts:146-205).                                                 *)
CensusHonest ==
  LET decidedTypes == {"keep_alive", "rate_limit_event", "control_cancel_request", "conversation_reset"}
      new(p) == \/ p.type \in Families /\ p.subtype = "something_new"
                    /\ p.type \notin {"result", "control_response"}
                \/ p.type \notin Families \cup Talk \cup decidedTypes
  IN  /\ FoldSet(LAMBDA s, n : s.count + n, 0, selectShapeStats) = Cardinality(Alive)
      /\ \A s \in selectShapeStats : s.shape \in {NoShape, shapeOf(rows[s.firstId].payload)}
      /\ \A i \in Alive \ Unstamped :
           LET p == rows[i].payload
           IN  /\ verdictOf(rows[i].shape) = "unknown" <=> new(p)
               /\ p.type \in Talk /\ p.form = "blocks" =>
                    unknownBlockTypes(p.content) = typesOf(p.content) \cap {"document"}

(* A reference the page holds stands for the image it replaced, and nothing *)
(* else was left in the page (see ImageBlobs).  A blob request is answered *)
(* with that image whenever the event was kept from the question to the    *)
(* answer, and never with another; a 404 means it was not: still being     *)
(* inserted, never stored, cut off or deleted (index.ts:313-326, 366-398,  *)
(* store.ts:492-524).                                                      *)
ImagesHonest ==
  /\ \A r \in relayed : RefsResolve(r.payload) /\ NothingLeaks(r.payload)
  /\ answer.status = 404 => ~answer.kept
  /\ answer.status = 200 =>
       \E r \in relayed : /\ r.session = answer.session
                          /\ r.payload.uuid = answer.ref.uuid
                          /\ answer.data = resolveImageBlob(r.payload, answer.ref.index)

ArchiveHonest == ShapesHonest /\ CensusHonest /\ ImagesHonest

(* Nobody is backfilling.  That this is so in the end, of all servers, when *)
(* the database keeps serving some one of them, is BackfillEnds: no two of *)
(* them keep each other busy (db.ts:256-274).                              *)
BackfillOver == \A v \in Servers : passes[v].server \in {"done", "stopped"}
BackfillEnds == <>[]BackfillOver

=============================================================================
