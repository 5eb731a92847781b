------------------------------ MODULE Accounts ------------------------------
(***************************************************************************)
(* Accounts (src/server/store.ts:226-279, db.ts:85-115) and the handlers   *)
(* that create and use them (src/server/index.ts:181-245): registration,   *)
(* login with its count of failures, and the token check every other call  *)
(* starts with.  The process is single threaded; a request is a chain of   *)
(* steps broken at its awaits, the password hash and the SQL statements.   *)
(* A statement may commit and its answer be lost, and one that was in      *)
(* flight when the process died may commit all the same.                   *)
(*                                                                         *)
(* Left out: the invite code and the form of names and passwords (requests *)
(* refused before anything changes), last_login, which nothing reads, and  *)
(* the pool-less mode the tests run on.                                    *)
(***************************************************************************)
EXTENDS Naturals, FiniteSets, Functions

CONSTANTS
  Users,            \* names a client may ask for
  Passwords,
  Tokens,           \* credentials issueToken() can draw
  Slots,            \* bound: requests being handled at once
  None,             \* JavaScript's undefined
  LOGIN_MAX_FAILS,
  LOGIN_LOCK_MS,    \* in ticks of the clock
  MaxTime,          \* bound: the last tick
  MaxFailures,      \* bound: refused logins of a name in a row (0: nobody logs in)
  MaxBreaks         \* bound: failed statements plus process crashes

ASSUME AccountsOK ==
  /\ None \notin Tokens \cup Users
  /\ LOGIN_MAX_FAILS \in Nat \ {0}
  /\ LOGIN_LOCK_MS \in Nat \ {0}
  /\ {MaxTime, MaxFailures} \subseteq Nat
  /\ MaxBreaks \in Nat

VARIABLES
  up,            \* the process takes requests
  clock,         \* Date.now(), in ticks
  users,         \* Store.users
  byToken,       \* Store.byToken
  loginFails,    \* createControllerServer's map of failed logins
  registering,   \* POST /v1/auth/register in progress, by slot
  logins,        \* POST /v1/auth/login in progress, by slot
  table,         \* PostgreSQL: table users
  orphans,       \* inserts whose process died before the answer
  issued,        \* tokens drawn so far
  handed,        \* history: answers that carried a token
  failed,        \* history: refused logins of a name since its last success or restart
  overlapped,    \* history: names two of whose logins were once checked at the same time
  breaks         \* failed statements and crashes so far

memory == <<users, byToken, loginFails>>
requests == <<registering, logins>>
histories == <<handed, failed, overlapped>>
accountVars == <<up, clock, memory, requests, table, orphans, issued, histories, breaks>>

-----------------------------------------------------------------------------
(* Types and maps *)

PartialFn(S, T) == UNION {[D -> T] : D \in SUBSET S}
EmptyMap == [x \in {} |-> None]
Put(f, k, v) == [x \in DOMAIN f \cup {k} |-> IF x = k THEN v ELSE f[x]]
Without(f, k) == Restrict(f, DOMAIN f \ {k})

UserRow == [pw : Passwords, token : Tokens]
Lock == [n : Nat, until : Nat]
Registration == [user : Users, pw : Passwords, phase : {"hash"}, token : {None}]
                \cup [user : Users, pw : Passwords, phase : {"insert", "won", "taken"}, token : Tokens]
Login == [user : Users, pw : Passwords, seen : Nat, row : UserRow \cup {None},
          phase : {"verify", "touch"}]
Orphan == [user : Users, row : UserRow]

TypeOK ==
  /\ up \in BOOLEAN
  /\ clock \in 0 .. MaxTime
  /\ users \in PartialFn(Users, UserRow)
  /\ byToken \in PartialFn(Tokens, Users)
  /\ DOMAIN loginFails \in SUBSET Users /\ \A u \in DOMAIN loginFails : loginFails[u] \in Lock
  /\ DOMAIN registering \in SUBSET Slots /\ \A s \in DOMAIN registering : registering[s] \in Registration
  /\ DOMAIN logins \in SUBSET Slots /\ \A s \in DOMAIN logins : logins[s] \in Login
  /\ table \in PartialFn(Users, UserRow)
  /\ orphans \in SUBSET Orphan
  /\ issued \in SUBSET Tokens
  /\ handed \in SUBSET (Users \X UserRow)
  /\ failed \in [Users -> Nat]
  /\ overlapped \in SUBSET Users
  /\ breaks \in 0 .. MaxBreaks

Init ==
  /\ up = TRUE
  /\ clock = 0
  /\ users = EmptyMap
  /\ byToken = EmptyMap
  /\ loginFails = EmptyMap
  /\ registering = EmptyMap
  /\ logins = EmptyMap
  /\ table = EmptyMap
  /\ orphans = {}
  /\ issued = {}
  /\ handed = {}
  /\ failed = [u \in Users |-> 0]
  /\ overlapped = {}
  /\ breaks = 0

Free(s) == s \notin DOMAIN registering \cup DOMAIN logins

-----------------------------------------------------------------------------
(* Registration *)

RowOf(r) == [pw |-> r.pw, token |-> r.token]

\* Mutant of insertUser: the later of two registrations wins the name.
insertUser_Overwrites(t, u, row) == Put(t, u, row)

insertUser(t, u, row) == IF u \in DOMAIN t THEN t ELSE Put(t, u, row)

\* The cache is asked first; a name it has is answered 409 and nothing changes.
StartRegister(s, u, p) ==
  /\ up
  /\ Free(s)
  /\ u \notin DOMAIN users
  /\ registering' = Put(registering, s, [user |-> u, pw |-> p, phase |-> "hash", token |-> None])
  /\ UNCHANGED <<up, clock, memory, logins, table, orphans, issued, histories, breaks>>

\* The password is hashed; the token is drawn and the row sent to the database.
Hashed(s, t) ==
  /\ s \in DOMAIN registering
  /\ registering[s].phase = "hash"
  /\ t \notin issued
  /\ issued' = issued \cup {t}
  /\ registering' = [registering EXCEPT ![s].phase = "insert", ![s].token = t]
  /\ UNCHANGED <<up, clock, memory, logins, table, orphans, histories, breaks>>

InsertUser(s) ==
  /\ s \in DOMAIN registering
  /\ registering[s].phase = "insert"
  /\ LET u == registering[s].user
     IN /\ table' = insertUser(table, u, RowOf(registering[s]))
        /\ registering' = [registering EXCEPT ![s].phase = IF u \in DOMAIN table THEN "taken" ELSE "won"]
  /\ UNCHANGED <<up, clock, memory, logins, orphans, issued, histories, breaks>>

\* The query rejects, perhaps after the row was committed: the handler answers 500.
InsertFails(s, committed) ==
  /\ s \in DOMAIN registering
  /\ registering[s].phase = "insert"
  /\ breaks < MaxBreaks
  /\ breaks' = breaks + 1
  /\ table' = IF committed THEN insertUser(table, registering[s].user, RowOf(registering[s])) ELSE table
  /\ registering' = Without(registering, s)
  /\ UNCHANGED <<up, clock, memory, logins, orphans, issued, histories>>

\* The row is entered in the cache and the token answered, or the answer is 409.
Registered(s) ==
  /\ s \in DOMAIN registering
  /\ registering[s].phase \in {"won", "taken"}
  /\ LET u == registering[s].user  row == RowOf(registering[s])
     IN IF registering[s].phase = "won"
        THEN /\ users' = Put(users, u, row)
             /\ byToken' = Put(byToken, row.token, u)
             /\ handed' = handed \cup {<<u, row>>}
        ELSE UNCHANGED <<users, byToken, handed>>
  /\ registering' = Without(registering, s)
  /\ UNCHANGED <<up, clock, loginFails, logins, table, orphans, issued, failed, overlapped, breaks>>

-----------------------------------------------------------------------------
(* Login *)

FailsOf(u) == IF u \in DOMAIN loginFails THEN loginFails[u].n ELSE 0
Locked(u) == u \in DOMAIN loginFails /\ loginFails[u].until > clock
Checking(u) == {s \in DOMAIN logins : logins[s].user = u /\ logins[s].phase = "verify"}

\* A locked name is answered 429.  Otherwise the count and the row are read now, and used when
\* the hash is done.
StartLogin(s, u, p) ==
  /\ up
  /\ Free(s)
  /\ failed[u] < MaxFailures
  /\ ~Locked(u)
  /\ logins' = Put(logins, s, [user |-> u, pw |-> p, seen |-> FailsOf(u), phase |-> "verify",
                               row |-> IF u \in DOMAIN users THEN users[u] ELSE None])
  /\ overlapped' = IF Checking(u) = {} THEN overlapped ELSE overlapped \cup {u}
  /\ UNCHANGED <<up, clock, memory, registering, table, orphans, issued, handed, failed, breaks>>

verifyLogin(l) == l.row # None /\ l.row.pw = l.pw

\* Mutant of Refusal: the lock is set one failure late.
Refusal_Late(l) ==
  [n |-> l.seen + 1, until |-> IF l.seen >= LOGIN_MAX_FAILS THEN clock + LOGIN_LOCK_MS ELSE 0]

Refusal(l) ==
  [n |-> l.seen + 1, until |-> IF l.seen + 1 >= LOGIN_MAX_FAILS THEN clock + LOGIN_LOCK_MS ELSE 0]

LoginRefused(s) ==
  /\ s \in DOMAIN logins
  /\ logins[s].phase = "verify"
  /\ ~verifyLogin(logins[s])
  /\ loginFails' = Put(loginFails, logins[s].user, Refusal(logins[s]))
  /\ failed' = [failed EXCEPT ![logins[s].user] = @ + 1]
  /\ logins' = Without(logins, s)
  /\ UNCHANGED <<up, clock, users, byToken, registering, table, orphans, issued, handed, overlapped, breaks>>

\* The count is dropped, then touchLogin awaits its UPDATE.
LoginVerified(s) ==
  /\ s \in DOMAIN logins
  /\ logins[s].phase = "verify"
  /\ verifyLogin(logins[s])
  /\ loginFails' = Without(loginFails, logins[s].user)
  /\ failed' = [failed EXCEPT ![logins[s].user] = 0]
  /\ logins' = [logins EXCEPT ![s].phase = "touch"]
  /\ UNCHANGED <<up, clock, users, byToken, registering, table, orphans, issued, handed, overlapped, breaks>>

\* The UPDATE is done, or failed and was ignored: the token is answered.
LoginAnswered(s) ==
  /\ s \in DOMAIN logins
  /\ logins[s].phase = "touch"
  /\ handed' = handed \cup {<<logins[s].user, logins[s].row>>}
  /\ logins' = Without(logins, s)
  /\ UNCHANGED <<up, clock, memory, registering, table, orphans, issued, failed, overlapped, breaks>>

-----------------------------------------------------------------------------
(* The token check *)

\* store.userByToken: the account of a token, read from the cache alone.
userByToken(t) ==
  IF t \in DOMAIN byToken /\ byToken[t] \in DOMAIN users THEN byToken[t] ELSE None

\* GET /v1/auth/me and credentialOf: is this bearer an account?
Accepted(t) == userByToken(t) # None

-----------------------------------------------------------------------------
(* The process *)

Tick ==
  /\ clock < MaxTime
  /\ clock' = clock + 1
  /\ UNCHANGED <<up, memory, requests, table, orphans, issued, histories, breaks>>

Crash ==
  /\ up
  /\ breaks < MaxBreaks
  /\ breaks' = breaks + 1
  /\ up' = FALSE
  /\ users' = EmptyMap
  /\ byToken' = EmptyMap
  /\ loginFails' = EmptyMap
  /\ registering' = EmptyMap
  /\ logins' = EmptyMap
  /\ orphans' = orphans \cup {[user |-> registering[s].user, row |-> RowOf(registering[s])] :
                                s \in {x \in DOMAIN registering : registering[x].phase = "insert"}}
  /\ failed' = [u \in Users |-> 0]
  /\ overlapped' = {}
  /\ UNCHANGED <<clock, table, issued, handed>>

\* An insert the dead process had sent commits, or is rolled back.
OrphanSettles(o, committed) ==
  /\ o \in orphans
  /\ orphans' = orphans \ {o}
  /\ table' = IF committed THEN insertUser(table, o.user, o.row) ELSE table
  /\ UNCHANGED <<up, clock, memory, requests, issued, histories, breaks>>

Index(t) == [k \in {t[u].token : u \in DOMAIN t} |-> CHOOSE u \in DOMAIN t : t[u].token = k]

\* load(): every account, with no time window, before the first request is taken.
Restart ==
  /\ ~up
  /\ up' = TRUE
  /\ users' = table
  /\ byToken' = Index(table)
  /\ UNCHANGED <<clock, loginFails, requests, table, orphans, issued, histories, breaks>>

Serve(s) ==
  \/ \E u \in Users, p \in Passwords : StartRegister(s, u, p) \/ StartLogin(s, u, p)
  \/ \E t \in Tokens : Hashed(s, t)
  \/ InsertUser(s)
  \/ \E c \in BOOLEAN : InsertFails(s, c)
  \/ Registered(s)
  \/ LoginRefused(s)
  \/ LoginVerified(s)
  \/ LoginAnswered(s)

Next ==
  \/ \E s \in Slots : Serve(s)
  \/ Tick
  \/ Crash
  \/ Restart
  \/ \E o \in orphans, c \in BOOLEAN : OrphanSettles(o, c)

Spec == Init /\ [][Next]_accountVars

-----------------------------------------------------------------------------
(* Properties *)

Book == INSTANCE AccountBook WITH
  book <- table,
  known <- {u \in DOMAIN users : userByToken(users[u].token) = u},
  told <- handed

\* Whatever overlaps, fails or crashes, names, passwords and tokens behave as module AccountBook
\* says: one owner per name, one token per owner, accepted from its first answer on.
\* (store.ts:237-249, index.ts:208-239)
BookKept == Book!Spec

\* While the logins of a name come one after another, the count is the number of refusals since
\* the last success, and from LOGIN_MAX_FAILS on no login is checked until the lock has passed.
\* Logins that overlap read one count and are not covered.  (index.ts:226-236)
LockHonest ==
  \A u \in Users \ overlapped :
    /\ FailsOf(u) = failed[u]
    /\ Locked(u) => Checking(u) = {}
    /\ failed[u] >= LOGIN_MAX_FAILS => loginFails[u].until > 0
=============================================================================
