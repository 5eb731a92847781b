--------------------------- MODULE Accounts_proofs ---------------------------
(***************************************************************************)
(* Proofs about Accounts, for every set of names, passwords, tokens and    *)
(* requests and every value of the bounds: type correctness, and that the  *)
(* server's cache, table and requests implement the account book.          *)
(***************************************************************************)
EXTENDS Accounts, TLAPS

-----------------------------------------------------------------------------
(* Maps *)

\* A partial function is a function on a subset of the keys.
LEMMA PartialFnIs ==
  ASSUME NEW S, NEW T, NEW f
  PROVE  f \in PartialFn(S, T) <=> DOMAIN f \subseteq S /\ f \in [DOMAIN f -> T]
  BY DEF PartialFn

\* Map.set keeps the map well typed, and is what it says at each key.
LEMMA PutOK ==
  ASSUME NEW S, NEW T, NEW f \in PartialFn(S, T), NEW k \in S, NEW v \in T
  PROVE  /\ Put(f, k, v) \in PartialFn(S, T)
         /\ DOMAIN Put(f, k, v) = DOMAIN f \cup {k}
         /\ Put(f, k, v)[k] = v
         /\ \A x \in DOMAIN f \ {k} : Put(f, k, v)[x] = f[x]
  <1> DEFINE g == Put(f, k, v)
  <1>1. DOMAIN f \subseteq S /\ f \in [DOMAIN f -> T]
    BY PartialFnIs
  <1>2. DOMAIN g = DOMAIN f \cup {k} /\ g[k] = v /\ \A x \in DOMAIN f \ {k} : g[x] = f[x]
    BY DEF Put
  <1>3. g \in [DOMAIN g -> T]
    BY <1>1 DEF Put
  <1>4. g \in PartialFn(S, T)
    BY <1>1, <1>2, <1>3, PartialFnIs
  <1> QED
    BY <1>2, <1>4

\* The empty map, from which the process starts and restarts.
LEMMA EmptyIs ==
  /\ DOMAIN EmptyMap = {}
  /\ \A S, T : EmptyMap \in PartialFn(S, T)
  BY PartialFnIs DEF EmptyMap

-----------------------------------------------------------------------------
(* The inductive invariant *)

\* The cache holds rows of the table, and the token of each leads back to its name.
CacheTrue ==
  \A u \in DOMAIN users :
    /\ u \in DOMAIN table
    /\ users[u] = table[u]
    /\ users[u].token \in DOMAIN byToken
    /\ byToken[users[u].token] = u

\* A registration whose row was the first of its name: the row is there and not yet in the cache.
WinnersFirst ==
  \A s \in DOMAIN registering :
    registering[s].phase = "won" =>
      LET u == registering[s].user
      IN  /\ u \in DOMAIN table
          /\ table[u] = RowOf(registering[s])
          /\ u \notin DOMAIN users
          /\ \A r \in DOMAIN registering :
               registering[r].phase = "won" /\ registering[r].user = u => r = s

\* A login that read a row read the one in the cache, and one that was verified read a row.
LoginsSee ==
  \A s \in DOMAIN logins :
    /\ logins[s].row # None => logins[s].user \in DOMAIN users /\ logins[s].row = users[logins[s].user]
    /\ logins[s].phase = "touch" => logins[s].row # None

\* The requests of a dead process are gone.
DownIdle == ~up => DOMAIN registering = {} /\ DOMAIN logins = {}

\* A token stands in one place: a row, a registration that sends its row, or a row sent by a process
\* that died.
Sending(s) == s \in DOMAIN registering /\ registering[s].phase = "insert"
TableTokens == {table[u].token : u \in DOMAIN table}
TokensApart ==
  /\ \A u \in DOMAIN table : table[u].token \in issued
  /\ \A u, v \in DOMAIN table : table[u].token = table[v].token => u = v
  /\ \A s \in DOMAIN registering :
       Sending(s) => /\ registering[s].token \in issued
                     /\ registering[s].token \notin TableTokens
                     /\ \A r \in DOMAIN registering :
                          Sending(r) /\ registering[r].token = registering[s].token => r = s
                     /\ \A o \in orphans : o.row.token # registering[s].token
  /\ \A o \in orphans :
       /\ o.row.token \in issued
       /\ o.row.token \notin TableTokens
       /\ \A q \in orphans : q.row.token = o.row.token => q = o

IInv == TypeOK /\ CacheTrue /\ WinnersFirst /\ LoginsSee /\ DownIdle /\ TokensApart

-----------------------------------------------------------------------------
(* Types *)

\* What the table becomes when a row is sent to it.
LEMMA InsertTyped ==
  ASSUME NEW t \in PartialFn(Users, UserRow), NEW u \in Users, NEW row \in UserRow
  PROVE  insertUser(t, u, row) \in PartialFn(Users, UserRow)
  BY PutOK DEF insertUser

\* A registration past its hash carries a row.
LEMMA RowTyped ==
  ASSUME NEW r \in Registration, r.phase # "hash"
  PROVE  r.user \in Users /\ RowOf(r) \in UserRow
  BY DEF Registration, RowOf, UserRow

\* Each step keeps the types of what it changes.
LEMMA TypeStep ==
  ASSUME TypeOK, LoginsSee, [Next]_accountVars
  PROVE  TypeOK'
  <1> USE AccountsOK
  <1>1. ASSUME NEW s \in Slots, NEW u \in Users, NEW p \in Passwords, StartRegister(s, u, p)
        PROVE  TypeOK'
    <2>1. [user |-> u, pw |-> p, phase |-> "hash", token |-> None] \in Registration
      BY DEF Registration
    <2> QED
      BY <1>1, <2>1 DEF Put, StartRegister, TypeOK, memory, histories
  <1>2. ASSUME NEW s \in Slots, NEW t \in Tokens, Hashed(s, t)
        PROVE  TypeOK'
    <2>1. [registering[s] EXCEPT !.phase = "insert", !.token = t] \in Registration
      BY <1>2 DEF Hashed, TypeOK, Registration
    <2> QED
      BY <1>2, <2>1 DEF Hashed, TypeOK, memory, histories
  <1>3. ASSUME NEW s \in Slots, InsertUser(s)
        PROVE  TypeOK'
    <2>1. registering[s] \in Registration /\ registering[s].phase = "insert"
      BY <1>3 DEF InsertUser, TypeOK
    <2>2. table' \in PartialFn(Users, UserRow)
      BY <1>3, <2>1, RowTyped, InsertTyped DEF InsertUser, TypeOK
    <2>3. \A ph \in {"won", "taken"} : [registering[s] EXCEPT !.phase = ph] \in Registration
      BY <2>1 DEF Registration
    <2> QED
      BY <1>3, <2>2, <2>3 DEF InsertUser, TypeOK, memory, histories
  <1>4. ASSUME NEW s \in Slots, NEW c \in BOOLEAN, InsertFails(s, c)
        PROVE  TypeOK'
    <2>1. registering[s] \in Registration /\ registering[s].phase = "insert"
      BY <1>4 DEF InsertFails, TypeOK
    <2>2. table' \in PartialFn(Users, UserRow)
      BY <1>4, <2>1, RowTyped, InsertTyped DEF InsertFails, TypeOK
    <2> QED
      BY <1>4, <2>2 DEF Without, Restrict, InsertFails, TypeOK, memory, histories
  <1>5. ASSUME NEW s \in Slots, Registered(s)
        PROVE  TypeOK'
    <2>1. registering[s] \in Registration /\ registering[s].phase \in {"won", "taken"}
      BY <1>5 DEF Registered, TypeOK
    <2>2. registering[s].user \in Users /\ RowOf(registering[s]) \in UserRow
      BY <2>1, RowTyped
    <2>3. RowOf(registering[s]).token \in Tokens
      BY <2>2 DEF UserRow
    <2>4. users' \in PartialFn(Users, UserRow)
      <3>1. Put(users, registering[s].user, RowOf(registering[s])) \in PartialFn(Users, UserRow)
        BY <2>2, PutOK DEF TypeOK
      <3> QED
        BY <1>5, <3>1 DEF Registered, TypeOK
    <2>6. byToken' \in PartialFn(Tokens, Users)
      <3>1. Put(byToken, RowOf(registering[s]).token, registering[s].user) \in PartialFn(Tokens, Users)
        BY <2>2, <2>3, PutOK DEF TypeOK
      <3> QED
        BY <1>5, <3>1 DEF Registered, TypeOK
    <2>5. handed' \in SUBSET (Users \X UserRow)
      BY <1>5, <2>2 DEF Registered, TypeOK
    <2> QED
      BY <1>5, <2>4, <2>5, <2>6 DEF Without, Restrict, Registered, TypeOK
  <1>6. ASSUME NEW s \in Slots, NEW u \in Users, NEW p \in Passwords, StartLogin(s, u, p)
        PROVE  TypeOK'
    <2>1. FailsOf(u) \in Nat
      BY DEF FailsOf, TypeOK, Lock
    <2>2. (IF u \in DOMAIN users THEN users[u] ELSE None) \in UserRow \cup {None}
      BY PartialFnIs DEF TypeOK
    <2>3. logins'[s] \in Login
      BY <1>6, <2>1, <2>2 DEF Put, StartLogin, Login
    <2> QED
      BY <1>6, <2>3 DEF Put, StartLogin, TypeOK, memory
  <1>7. ASSUME NEW s \in Slots, LoginRefused(s)
        PROVE  TypeOK'
    <2>1. logins[s].user \in Users /\ logins[s].seen \in Nat
      BY <1>7 DEF LoginRefused, TypeOK, Login
    <2>2. Refusal(logins[s]) \in Lock
      BY <2>1 DEF Refusal, Lock, TypeOK
    <2>3. DOMAIN loginFails' \in SUBSET Users /\ \A u \in DOMAIN loginFails' : loginFails'[u] \in Lock
      BY <1>7, <2>1, <2>2 DEF Put, LoginRefused, TypeOK
    <2> QED
      BY <1>7, <2>1, <2>3 DEF Without, Restrict, LoginRefused, TypeOK
  <1>8. ASSUME NEW s \in Slots, LoginVerified(s)
        PROVE  TypeOK'
    <2>1. [logins[s] EXCEPT !.phase = "touch"] \in Login
      BY <1>8 DEF LoginVerified, TypeOK, Login
    <2>2. logins[s].user \in Users
      BY <1>8 DEF LoginVerified, TypeOK, Login
    <2>3. DOMAIN loginFails' \in SUBSET Users /\ \A u \in DOMAIN loginFails' : loginFails'[u] \in Lock
      BY <1>8 DEF Without, Restrict, LoginVerified, TypeOK
    <2> QED
      BY <1>8, <2>1, <2>2, <2>3 DEF LoginVerified, TypeOK
  <1>9. ASSUME NEW s \in Slots, LoginAnswered(s)
        PROVE  TypeOK'
    <2>1. logins[s].user \in Users /\ logins[s].row \in UserRow
      BY <1>9 DEF LoginAnswered, LoginsSee, TypeOK, Login
    <2> QED
      BY <1>9, <2>1 DEF LoginAnswered, TypeOK, Without, Restrict, memory
  <1>10. CASE Tick
    BY <1>10 DEF Tick, TypeOK, memory, requests, histories
  <1>11. CASE Crash
    <2>1. orphans' \in SUBSET Orphan
      <3>1. ASSUME NEW x \in DOMAIN registering, registering[x].phase = "insert"
            PROVE  [user |-> registering[x].user, row |-> RowOf(registering[x])] \in Orphan
        BY <3>1, RowTyped DEF Orphan, TypeOK
      <3> QED
        BY <1>11, <3>1 DEF Crash, TypeOK
    <2>2. /\ EmptyMap \in PartialFn(Users, UserRow) /\ EmptyMap \in PartialFn(Tokens, Users)
          /\ DOMAIN EmptyMap = {}
      BY EmptyIs
    <2>3. breaks' \in 0 .. MaxBreaks /\ failed' \in [Users -> Nat]
      BY <1>11 DEF Crash, TypeOK
    <2>4. /\ up' \in BOOLEAN /\ DOMAIN loginFails' = {} /\ DOMAIN registering' = {} /\ DOMAIN logins' = {}
          /\ users' = EmptyMap /\ byToken' = EmptyMap /\ overlapped' = {}
          /\ UNCHANGED <<clock, table, issued, handed>>
      BY <1>11, <2>2 DEF Crash
    <2> QED
      BY <2>1, <2>2, <2>3, <2>4 DEF TypeOK
  <1>12. CASE Restart
    <2>1. Index(table) \in PartialFn(Tokens, Users)
      <3>1. DOMAIN table \subseteq Users /\ table \in [DOMAIN table -> UserRow]
        BY PartialFnIs DEF TypeOK
      <3>2. \A k \in {table[u].token : u \in DOMAIN table} :
               k \in Tokens /\ (CHOOSE u \in DOMAIN table : table[u].token = k) \in Users
        BY <3>1 DEF UserRow
      <3>3. DOMAIN Index(table) \subseteq Tokens
        BY <3>2 DEF Index
      <3>4. Index(table) \in [DOMAIN Index(table) -> Users]
        BY <3>2 DEF Index
      <3> QED
        BY <3>3, <3>4, PartialFnIs
    <2> QED
      BY <1>12, <2>1 DEF Restart, TypeOK, requests, histories
  <1>13. ASSUME NEW o \in orphans, NEW c \in BOOLEAN, OrphanSettles(o, c)
         PROVE  TypeOK'
    <2>1. table' \in PartialFn(Users, UserRow)
      BY <1>13, InsertTyped DEF OrphanSettles, TypeOK, Orphan
    <2> QED
      BY <1>13, <2>1 DEF OrphanSettles, TypeOK, memory, requests, histories
  <1>14. CASE UNCHANGED accountVars
    BY <1>14 DEF accountVars, memory, requests, histories, TypeOK
  <1> QED
    BY <1>1, <1>2, <1>3, <1>4, <1>5, <1>6, <1>7, <1>8, <1>9, <1>10, <1>11, <1>12, <1>13, <1>14
    DEF Next, Serve

-----------------------------------------------------------------------------
(* The inductive step, conjunct by conjunct *)

\* The table, and what is sent to it, after a row with a token of its own was sent to it or was not.
\* Every statement on the table is of this form.
Sent(u, row) == table' = insertUser(table, u, row)

\* Names stay, and at most the sent name is added.
LEMMA TableGrows ==
  ASSUME NEW u, NEW row, table' = table \/ Sent(u, row)
  PROVE  /\ DOMAIN table \subseteq DOMAIN table'
         /\ DOMAIN table' \subseteq DOMAIN table \cup {u}
         /\ \A v \in DOMAIN table : table'[v] = table[v]
         /\ \A v \in DOMAIN table' \ DOMAIN table : v = u /\ table'[v] = row
  BY DEF Sent, insertUser, Put

\* A cached row stays true when the table grows and the cache does not.
LEMMA CacheStep ==
  ASSUME IInv, [Next]_accountVars
  PROVE  CacheTrue'
  <1>1. ASSUME NEW s \in Slots, Registered(s), registering[s].phase = "won"
        PROVE  CacheTrue'
    <2> DEFINE u == registering[s].user
               row == RowOf(registering[s])
    <2>1. /\ u \in DOMAIN table /\ table[u] = row /\ u \notin DOMAIN users
          /\ s \in DOMAIN registering
      BY <1>1 DEF IInv, WinnersFirst, Registered
    <2>2. /\ DOMAIN users' = DOMAIN users \cup {u} /\ users'[u] = row
          /\ \A v \in DOMAIN users : users'[v] = users[v]
      BY <1>1, <2>1 DEF Registered, Put
    <2>3. /\ DOMAIN byToken' = DOMAIN byToken \cup {row.token} /\ byToken'[row.token] = u
          /\ \A t \in DOMAIN byToken : t # row.token => byToken'[t] = byToken[t]
      BY <1>1 DEF Registered, Put
    <2>4. ASSUME NEW v \in DOMAIN users
          PROVE  /\ v \in DOMAIN table /\ users[v] = table[v] /\ users[v].token \in DOMAIN byToken
                 /\ byToken[users[v].token] = v /\ users[v].token # row.token
      BY <2>1, <2>4 DEF IInv, CacheTrue, TokensApart
    <2>5. table' = table
      BY <1>1 DEF Registered
    <2> HIDE DEF u, row
    <2> QED
      BY <2>1, <2>2, <2>3, <2>4, <2>5 DEF CacheTrue
  <1>2. CASE Crash
    BY <1>2, EmptyIs DEF Crash, CacheTrue
  <1>3. CASE Restart
    <2>1. \A u, v \in DOMAIN table : table[u].token = table[v].token => u = v
      BY DEF IInv, TokensApart
    <2>2. users' = table /\ table' = table /\ byToken' = Index(table)
      BY <1>3 DEF Restart
    <2>3. ASSUME NEW u \in DOMAIN table
          PROVE  table[u].token \in DOMAIN Index(table) /\ Index(table)[table[u].token] = u
      BY <2>1 DEF Index
    <2> QED
      BY <2>2, <2>3 DEF CacheTrue
  <1>4. ASSUME users' = users, byToken' = byToken, NEW u, NEW row, table' = table \/ Sent(u, row)
        PROVE  CacheTrue'
    BY <1>4, TableGrows DEF IInv, CacheTrue
  <1>5. ASSUME NEW s \in Slots, Serve(s)
        PROVE  CacheTrue'
    <2>1. CASE Registered(s) /\ registering[s].phase = "won"
      BY <1>1, <2>1
    <2>2. CASE Registered(s) /\ registering[s].phase # "won"
      BY <1>4, <2>2 DEF Registered
    <2>3. CASE InsertUser(s)
      BY <1>4, <2>3 DEF InsertUser, Sent, memory
    <2>4. ASSUME NEW c \in BOOLEAN, InsertFails(s, c)
          PROVE  CacheTrue'
      BY <1>4, <2>4 DEF InsertFails, Sent, memory
    <2>5. ASSUME UNCHANGED <<users, byToken, table>>
          PROVE  CacheTrue'
      BY <1>4, <2>5
    <2> QED
      BY <1>5, <2>1, <2>2, <2>3, <2>4, <2>5
      DEF Serve, StartRegister, StartLogin, Hashed, LoginRefused, LoginVerified, LoginAnswered, memory
  <1>6. ASSUME NEW o \in orphans, NEW c \in BOOLEAN, OrphanSettles(o, c)
        PROVE  CacheTrue'
    BY <1>4, <1>6 DEF OrphanSettles, Sent, memory
  <1>7. CASE Tick \/ UNCHANGED accountVars
    BY <1>4, <1>7 DEF Tick, accountVars, memory
  <1> QED
    BY <1>2, <1>3, <1>5, <1>6, <1>7 DEF Next

\* A login's row stays the cached one: the cache only gains names it did not have, until it is lost
\* with the login.
LEMMA LoginsStep ==
  ASSUME IInv, [Next]_accountVars
  PROVE  LoginsSee' /\ DownIdle'
  <1> USE DEF IInv
  <1>1. ASSUME NEW s \in Slots, Registered(s)
        PROVE  LoginsSee' /\ DownIdle'
    <2>1. \A v \in DOMAIN users : v \in DOMAIN users' /\ users'[v] = users[v]
      BY <1>1 DEF Registered, WinnersFirst, Put
    <2>2. LoginsSee'
      BY <1>1, <2>1 DEF Registered, LoginsSee
    <2> QED
      BY <1>1, <2>2 DEF Registered, DownIdle, Without, Restrict
  <1>2. ASSUME NEW s \in Slots, NEW u \in Users, NEW p \in Passwords, StartLogin(s, u, p)
        PROVE  LoginsSee' /\ DownIdle'
    BY <1>2 DEF StartLogin, LoginsSee, DownIdle, Put, memory
  <1>3. ASSUME NEW s \in Slots, LoginRefused(s) \/ LoginAnswered(s)
        PROVE  LoginsSee' /\ DownIdle'
    BY <1>3 DEF LoginRefused, LoginAnswered, LoginsSee, DownIdle, Without, Restrict, memory
  <1>4. ASSUME NEW s \in Slots, LoginVerified(s)
        PROVE  LoginsSee' /\ DownIdle'
    <2>1. DOMAIN logins' = DOMAIN logins
      BY <1>4 DEF LoginVerified
    <2>2. \A r \in DOMAIN logins : logins'[r].row = logins[r].row /\ logins'[r].user = logins[r].user
      BY <1>4 DEF LoginVerified, TypeOK, Login
    <2>3. \A r \in DOMAIN logins : r # s => logins'[r] = logins[r]
      BY <1>4 DEF LoginVerified
    <2> QED
      BY <1>4, <2>1, <2>2, <2>3 DEF LoginVerified, verifyLogin, LoginsSee, DownIdle
  <1>5. CASE Crash
    BY <1>5, EmptyIs DEF Crash, LoginsSee, DownIdle
  <1>6. CASE Restart
    BY <1>6 DEF Restart, LoginsSee, DownIdle, requests
  <1>7. ASSUME NEW s \in Slots, NEW u \in Users, NEW p \in Passwords, StartRegister(s, u, p)
        PROVE  LoginsSee' /\ DownIdle'
    BY <1>7 DEF StartRegister, LoginsSee, DownIdle, memory
  <1>8. ASSUME UNCHANGED <<up, users, logins>>, DOMAIN registering' \subseteq DOMAIN registering
        PROVE  LoginsSee' /\ DownIdle'
    BY <1>8 DEF LoginsSee, DownIdle
  <1>9. ASSUME NEW s \in Slots, Serve(s)
        PROVE  LoginsSee' /\ DownIdle'
    <2>1. ASSUME NEW t \in Tokens, Hashed(s, t)
          PROVE  LoginsSee' /\ DownIdle'
      BY <1>8, <2>1 DEF Hashed, memory
    <2>2. CASE InsertUser(s)
      BY <1>8, <2>2 DEF InsertUser, memory
    <2>3. ASSUME NEW c \in BOOLEAN, InsertFails(s, c)
          PROVE  LoginsSee' /\ DownIdle'
      BY <1>8, <2>3 DEF InsertFails, Without, Restrict, memory
    <2> QED
      BY <1>1, <1>2, <1>3, <1>4, <1>7, <1>9, <2>1, <2>2, <2>3 DEF Serve
  <1>10. ASSUME NEW o \in orphans, NEW c \in BOOLEAN, OrphanSettles(o, c)
         PROVE  LoginsSee' /\ DownIdle'
    BY <1>8, <1>10 DEF OrphanSettles, memory, requests
  <1>11. CASE Tick \/ UNCHANGED accountVars
    BY <1>8, <1>11 DEF Tick, accountVars, memory, requests
  <1> QED
    BY <1>5, <1>6, <1>9, <1>10, <1>11 DEF Next

\* The row of a winner is there and stays, and the cache gains the name only with the winner's answer.
LEMMA WinnersStep ==
  ASSUME IInv, [Next]_accountVars
  PROVE  WinnersFirst'
  <1> USE DEF IInv
  <1>1. ASSUME NEW s \in Slots, Registered(s)
        PROVE  WinnersFirst'
    <2>1. /\ DOMAIN registering' = DOMAIN registering \ {s}
          /\ \A r \in DOMAIN registering' : registering'[r] = registering[r]
      BY <1>1 DEF Registered, Without, Restrict
    <2>2. table' = table
      BY <1>1 DEF Registered
    <2>3. \A r \in DOMAIN registering' :
             registering[r].phase = "won" => registering[r].user \notin DOMAIN users'
      BY <1>1, <2>1 DEF Registered, WinnersFirst, Put
    <2> QED
      BY <2>1, <2>2, <2>3 DEF WinnersFirst, RowOf
  <1>2. ASSUME NEW s \in Slots, InsertUser(s)
        PROVE  WinnersFirst'
    <2> DEFINE u == registering[s].user
               row == RowOf(registering[s])
    <2>1. /\ s \in DOMAIN registering /\ registering[s] \in Registration
          /\ DOMAIN registering' = DOMAIN registering
          /\ \A r \in DOMAIN registering : r # s => registering'[r] = registering[r]
      BY <1>2 DEF InsertUser, TypeOK
    <2>2. /\ registering'[s].user = u /\ RowOf(registering'[s]) = row
          /\ registering'[s].phase = "won" => u \notin DOMAIN table
      BY <1>2, <2>1 DEF InsertUser, RowOf, Registration
    <2>3. \A v \in DOMAIN table : v \in DOMAIN table' /\ table'[v] = table[v]
      BY <1>2, TableGrows DEF InsertUser, Sent
    <2>4. u \notin DOMAIN table => u \in DOMAIN table' /\ table'[u] = row
      BY <1>2 DEF InsertUser, insertUser, Put
    <2>5. users' = users /\ (u \in DOMAIN users => u \in DOMAIN table)
      BY <1>2 DEF InsertUser, memory, CacheTrue
    <2>6. ASSUME NEW r \in DOMAIN registering, r # s, registering[r].phase = "won"
          PROVE  /\ registering[r].user \in DOMAIN table
                 /\ table[registering[r].user] = RowOf(registering[r])
                 /\ registering[r].user \notin DOMAIN users
                 /\ \A q \in DOMAIN registering :
                      registering[q].phase = "won" /\ registering[q].user = registering[r].user => q = r
      BY <2>6 DEF WinnersFirst
    <2> HIDE DEF u, row
    <2> QED
      BY <2>1, <2>2, <2>3, <2>4, <2>5, <2>6 DEF WinnersFirst
  <1>3. CASE Crash
    BY <1>3, EmptyIs DEF Crash, WinnersFirst
  <1>4. CASE Restart
    BY <1>4 DEF Restart, WinnersFirst, DownIdle, requests
  <1>5. ASSUME NEW u, NEW row, table' = table \/ Sent(u, row), users' = users,
               DOMAIN registering' \subseteq DOMAIN registering,
               \A r \in DOMAIN registering' : registering'[r] = registering[r]
        PROVE  WinnersFirst'
    <2>1. \A v \in DOMAIN table : v \in DOMAIN table' /\ table'[v] = table[v]
      BY <1>5, TableGrows
    <2> QED
      BY <1>5, <2>1 DEF WinnersFirst, RowOf
  <1>6. ASSUME NEW s \in Slots, Serve(s)
        PROVE  WinnersFirst'
    <2>1. ASSUME NEW t \in Tokens, Hashed(s, t)
          PROVE  WinnersFirst'
      <3>1. /\ DOMAIN registering' = DOMAIN registering /\ users' = users /\ table' = table
            /\ \A r \in DOMAIN registering : r # s => registering'[r] = registering[r]
        BY <2>1 DEF Hashed, memory
      <3>2. registering'[s].phase = "insert"
        BY <2>1 DEF Hashed, TypeOK, Registration
      <3> QED
        BY <3>1, <3>2 DEF WinnersFirst
    <2>2. ASSUME NEW u \in Users, NEW p \in Passwords, StartRegister(s, u, p)
          PROVE  WinnersFirst'
      <3>1. /\ DOMAIN registering' = DOMAIN registering \cup {s} /\ users' = users /\ table' = table
            /\ registering'[s].phase = "hash" /\ s \notin DOMAIN registering
            /\ \A r \in DOMAIN registering : registering'[r] = registering[r]
        BY <2>2 DEF StartRegister, Free, Put, memory
      <3> QED
        BY <3>1 DEF WinnersFirst
    <2>3. ASSUME NEW c \in BOOLEAN, InsertFails(s, c)
          PROVE  WinnersFirst'
      BY <1>5, <2>3 DEF InsertFails, Sent, Without, Restrict, memory
    <2>4. ASSUME UNCHANGED <<users, registering, table>>
          PROVE  WinnersFirst'
      BY <1>5, <2>4
    <2> QED
      BY <1>1, <1>2, <1>6, <2>1, <2>2, <2>3, <2>4
      DEF Serve, StartLogin, LoginRefused, LoginVerified, LoginAnswered, memory
  <1>7. ASSUME NEW o \in orphans, NEW c \in BOOLEAN, OrphanSettles(o, c)
        PROVE  WinnersFirst'
    BY <1>5, <1>7 DEF OrphanSettles, Sent, memory, requests
  <1>8. CASE Tick \/ UNCHANGED accountVars
    BY <1>5, <1>8 DEF Tick, accountVars, memory, requests
  <1> QED
    BY <1>3, <1>4, <1>6, <1>7, <1>8 DEF Next

\* Nothing is sent that was not, and the table is as it was.
LEMMA QuietTokens ==
  ASSUME TokensApart, table' = table, orphans' \subseteq orphans, issued \subseteq issued',
         \A r \in DOMAIN registering' :
           Sending(r)' => Sending(r) /\ registering'[r].token = registering[r].token
  PROVE  TokensApart'
  <1>1. TableTokens' = TableTokens
    BY DEF TableTokens
  <1>2. \A r : Sending(r)' => Sending(r) /\ registering'[r].token = registering[r].token
    BY DEF Sending
  <1>3. \A r : Sending(r) => r \in DOMAIN registering
    BY DEF Sending
  <1> QED
    BY <1>1, <1>2, <1>3 DEF TokensApart

\* A row with a token of its own is entered or refused, and is not sent any more.
LEMMA SentTokens ==
  ASSUME TokensApart, NEW u, NEW row, Sent(u, row), orphans' \subseteq orphans, issued' = issued,
         row.token \in issued, row.token \notin TableTokens,
         \A r \in DOMAIN registering' :
           Sending(r)' => /\ Sending(r) /\ registering'[r].token = registering[r].token
                          /\ registering[r].token # row.token,
         \A o \in orphans' : o.row.token # row.token
  PROVE  TokensApart'
  <1>1. /\ DOMAIN table \subseteq DOMAIN table'
        /\ DOMAIN table' \subseteq DOMAIN table \cup {u}
        /\ \A v \in DOMAIN table : table'[v] = table[v]
        /\ \A v \in DOMAIN table' \ DOMAIN table : v = u /\ table'[v] = row
    BY TableGrows
  <1>2. TableTokens' \subseteq TableTokens \cup {row.token}
    BY <1>1 DEF TableTokens
  <1>3. \A v \in DOMAIN table : table[v].token \in TableTokens
    BY DEF TableTokens
  <1>4. \A v \in DOMAIN table' : table'[v].token \in issued'
    BY <1>1 DEF TokensApart
  <1>5. \A v, w \in DOMAIN table' : table'[v].token = table'[w].token => v = w
    BY <1>1, <1>3 DEF TokensApart
  <1>6. \A r : Sending(r)' => /\ Sending(r) /\ r \in DOMAIN registering
                              /\ registering'[r].token = registering[r].token
                              /\ registering[r].token # row.token
    BY DEF Sending
  <1> QED
    BY <1>2, <1>4, <1>5, <1>6 DEF TokensApart

\* Each step keeps the tokens apart.
LEMMA TokensStep ==
  ASSUME IInv, [Next]_accountVars
  PROVE  TokensApart'
  <1> USE DEF IInv
  <1>1. ASSUME NEW s \in Slots, NEW t \in Tokens, Hashed(s, t)
        PROVE  TokensApart'
    <2>1. /\ DOMAIN registering' = DOMAIN registering /\ s \in DOMAIN registering
          /\ \A r \in DOMAIN registering : r # s => registering'[r] = registering[r]
          /\ table' = table /\ orphans' = orphans /\ issued' = issued \cup {t} /\ t \notin issued
      BY <1>1 DEF Hashed
    <2>2. registering'[s].token = t
      BY <1>1 DEF Hashed, TypeOK, Registration
    <2>3. TableTokens' = TableTokens /\ \A k \in TableTokens : k \in issued
      BY <2>1 DEF TableTokens, TokensApart
    <2>4. \A r : r # s => (Sending(r)' <=> Sending(r))
      BY <2>1 DEF Sending
    <2>5. \A r : Sending(r) => r \in DOMAIN registering /\ registering[r].token \in issued
      BY DEF Sending, TokensApart
    <2>6. ASSUME NEW r \in DOMAIN registering, Sending(r)'
          PROVE  /\ registering'[r].token \in issued'
                 /\ registering'[r].token \notin TableTokens
                 /\ \A q \in DOMAIN registering :
                      Sending(q)' /\ registering'[q].token = registering'[r].token => q = r
                 /\ \A o \in orphans : o.row.token # registering'[r].token
      BY <2>1, <2>2, <2>3, <2>4, <2>5, <2>6 DEF TokensApart
    <2> QED
      BY <2>1, <2>3, <2>6 DEF TokensApart
  <1>2. ASSUME NEW s \in Slots, InsertUser(s) \/ \E c \in BOOLEAN : InsertFails(s, c)
        PROVE  TokensApart'
    <2> DEFINE row == RowOf(registering[s])
    <2>1. /\ s \in DOMAIN registering /\ Sending(s) /\ row.token = registering[s].token
          /\ registering[s] \in Registration
      BY <1>2 DEF InsertUser, InsertFails, Sending, RowOf, TypeOK
    <2>2. /\ orphans' = orphans /\ issued' = issued
          /\ DOMAIN registering' \subseteq DOMAIN registering
          /\ \A r \in DOMAIN registering' : r # s => registering'[r] = registering[r]
      BY <1>2 DEF InsertUser, InsertFails, Without, Restrict
    <2>3. ~Sending(s)'
      BY <1>2, <2>1 DEF InsertUser, InsertFails, Sending, Without, Restrict, Registration
    <2>4. \A r \in DOMAIN registering' :
             Sending(r)' => /\ Sending(r) /\ registering'[r].token = registering[r].token
                            /\ registering[r].token # row.token
      BY <2>1, <2>2, <2>3 DEF Sending, TokensApart
    <2>5. /\ row.token \in issued /\ row.token \notin TableTokens
          /\ \A o \in orphans' : o.row.token # row.token
      BY <2>1, <2>2 DEF TokensApart
    <2>6. Sent(registering[s].user, row) \/ table' = table
      BY <1>2 DEF InsertUser, InsertFails, Sent
    <2> HIDE DEF row
    <2> QED
      BY <2>2, <2>4, <2>5, <2>6, QuietTokens, SentTokens
  <1>3. ASSUME NEW o \in orphans, NEW c \in BOOLEAN, OrphanSettles(o, c)
        PROVE  TokensApart'
    <2>1. /\ o.row.token \in issued /\ o.row.token \notin TableTokens
          /\ \A q \in orphans' : q.row.token # o.row.token
          /\ \A r \in DOMAIN registering : Sending(r) => registering[r].token # o.row.token
      BY <1>3 DEF OrphanSettles, TokensApart
    <2>2. registering' = registering /\ issued' = issued /\ orphans' \subseteq orphans
      BY <1>3 DEF OrphanSettles, requests
    <2>3. \A r : Sending(r)' <=> Sending(r)
      BY <2>2 DEF Sending
    <2>4. Sent(o.user, o.row) \/ table' = table
      BY <1>3 DEF OrphanSettles, Sent
    <2> QED
      BY <2>1, <2>2, <2>3, <2>4, QuietTokens, SentTokens
  <1>4. CASE Crash
    <2> DEFINE Rec(s) == [user |-> registering[s].user, row |-> RowOf(registering[s])]
    <2>1. /\ orphans' = orphans \cup {Rec(s) : s \in {x \in DOMAIN registering : Sending(x)}}
          /\ DOMAIN registering' = {} /\ table' = table /\ issued' = issued
      BY <1>4, EmptyIs DEF Crash, Sending
    <2>2. \A s : Rec(s).row.token = registering[s].token
      BY DEF RowOf
    <2>3. TableTokens' = TableTokens
      BY <2>1 DEF TableTokens
    <2> HIDE DEF Rec
    <2>4. ASSUME NEW o \in orphans'
          PROVE  /\ o.row.token \in issued /\ o.row.token \notin TableTokens
                 /\ \A q \in orphans' : q.row.token = o.row.token => q = o
      <3>1. CASE o \in orphans
        BY <2>1, <2>2, <3>1 DEF TokensApart
      <3>2. CASE \E s \in DOMAIN registering : Sending(s) /\ o = Rec(s)
        BY <2>1, <2>2, <3>2 DEF TokensApart
      <3> QED
        BY <2>1, <3>1, <3>2
    <2> QED
      BY <2>1, <2>3, <2>4 DEF TokensApart
  <1>5. ASSUME NEW s \in Slots, Serve(s)
        PROVE  TokensApart'
    <2>1. ASSUME NEW u \in Users, NEW p \in Passwords, StartRegister(s, u, p)
          PROVE  TokensApart'
      <3>1. \A r \in DOMAIN registering' :
               Sending(r)' => Sending(r) /\ registering'[r].token = registering[r].token
        BY <2>1 DEF StartRegister, Sending, Put
      <3> QED
        BY <2>1, <3>1, QuietTokens DEF StartRegister
    <2>2. CASE Registered(s)
      <3>1. \A r \in DOMAIN registering' :
               Sending(r)' => Sending(r) /\ registering'[r].token = registering[r].token
        BY <2>2 DEF Registered, Sending, Without, Restrict
      <3> QED
        BY <2>2, <3>1, QuietTokens DEF Registered
    <2>3. ASSUME UNCHANGED <<registering, table, orphans, issued>>
          PROVE  TokensApart'
      BY <2>3, QuietTokens DEF Sending
    <2> QED
      BY <1>1, <1>2, <1>5, <2>1, <2>2, <2>3 DEF Serve, StartLogin, LoginRefused, LoginVerified, LoginAnswered
  <1>6. CASE Tick \/ Restart \/ UNCHANGED accountVars
    <2>1. UNCHANGED <<registering, table, orphans, issued>>
      BY <1>6 DEF Tick, Restart, accountVars, requests
    <2> QED
      BY <2>1, QuietTokens DEF Sending
  <1> QED
    BY <1>3, <1>4, <1>5, <1>6 DEF Next

\* The invariant holds at the start and is kept.
LEMMA InitInv ==
  ASSUME Init
  PROVE  IInv
  <1>1. TypeOK
    <2>1. EmptyMap \in PartialFn(Users, UserRow) /\ EmptyMap \in PartialFn(Tokens, Users)
      BY EmptyIs
    <2> QED
      BY <2>1, AccountsOK, EmptyIs DEF Init, TypeOK
  <1>2. CacheTrue /\ WinnersFirst /\ LoginsSee /\ DownIdle
    BY EmptyIs DEF Init, CacheTrue, WinnersFirst, LoginsSee, DownIdle
  <1>3. TokensApart
    BY EmptyIs DEF Init, TokensApart
  <1> QED
    BY <1>1, <1>2, <1>3 DEF IInv

\* Each step keeps the invariant.
LEMMA StepInv ==
  ASSUME IInv, [Next]_accountVars
  PROVE  IInv'
  BY TypeStep, CacheStep, WinnersStep, LoginsStep, TokensStep DEF IInv

\* So it holds in every state.
LEMMA InvAlways == Spec => []IInv
  BY InitInv, StepInv, PTL DEF Spec

\* Every variable has its type, in every behaviour.
THEOREM TypesCorrect == Spec => []TypeOK
  <1>1. IInv => TypeOK
    BY DEF IInv
  <1> QED
    BY InvAlways, <1>1, PTL

-----------------------------------------------------------------------------
(* Refinement *)

\* The names whose token the running process accepts are the names in its cache.
Known == {u \in DOMAIN users : userByToken(users[u].token) = u}

\* Every cached name is known by its token.
LEMMA KnownIs ==
  ASSUME CacheTrue
  PROVE  Known = DOMAIN users
  BY DEF CacheTrue, Known, userByToken

\* The system starts with an empty book.
LEMMA InitBook ==
  ASSUME Init
  PROVE  Book!Init
  <1>1. \A u \in {} : FALSE
    OBVIOUS
  <1>2. table = [u \in {} |-> {}]
    BY DEF Init, EmptyMap
  <1>3. {u \in DOMAIN users : userByToken(users[u].token) = u} = {}
    BY EmptyIs DEF Init
  <1> QED
    BY <1>2, <1>3 DEF Init, Book!Init

\* A statement that sends a row enrols its name, or changes nothing in the book.
LEMMA SentEnrols ==
  ASSUME NEW u \in Users, NEW row \in UserRow, row.token \notin TableTokens,
         table' = table \/ Sent(u, row), Known' = Known, UNCHANGED <<handed, up>>
  PROVE  [Book!Next]_Book!vars
  <1>1. CASE table' = table
    BY <1>1 DEF Book!vars, Known
  <1>2. CASE Sent(u, row) /\ u \in DOMAIN table
    BY <1>1, <1>2 DEF Sent, insertUser
  <1>3. CASE Sent(u, row) /\ u \notin DOMAIN table
    <2>1. table' = [v \in DOMAIN table \cup {u} |-> IF v = u THEN row ELSE table[v]]
      BY <1>3 DEF Sent, insertUser, Put
    <2>2. \A v \in DOMAIN table : table[v].token # row.token
      BY DEF TableTokens
    <2>3. Book!Enrol(u, row)
      BY <1>3, <2>1, <2>2 DEF Book!Enrol, Known
    <2>4. row \in Book!Entry
      BY DEF Book!Entry, UserRow
    <2> QED
      BY <2>3, <2>4 DEF Book!Next
  <1> QED
    BY <1>1, <1>2, <1>3

\* Every step of the server is a step of the account book, or none.
LEMMA StepBook ==
  ASSUME IInv, IInv', [Next]_accountVars
  PROVE  [Book!Next]_Book!vars
  <1> USE DEF IInv
  <1>1. Known = DOMAIN users /\ Known' = DOMAIN users'
    <2>1. Known = DOMAIN users
      BY KnownIs
    <2>2. Known' = DOMAIN users'
      BY DEF CacheTrue, Known, userByToken
    <2> QED
      BY <2>1, <2>2
  <1>2. ASSUME NEW s \in Slots, InsertUser(s) \/ \E c \in BOOLEAN : InsertFails(s, c)
        PROVE  [Book!Next]_Book!vars
    <2> DEFINE row == RowOf(registering[s])
    <2>1. /\ s \in DOMAIN registering /\ Sending(s) /\ row.token = registering[s].token
          /\ registering[s] \in Registration /\ registering[s].phase # "hash"
      BY <1>2 DEF InsertUser, InsertFails, Sending, RowOf, TypeOK
    <2>2. row.token \notin TableTokens
      BY <2>1 DEF TokensApart
    <2>3. registering[s].user \in Users /\ row \in UserRow
      BY <2>1, RowTyped
    <2>4. table' = table \/ Sent(registering[s].user, row)
      BY <1>2 DEF InsertUser, InsertFails, Sent
    <2>5. UNCHANGED <<handed, up>> /\ users' = users
      BY <1>2 DEF InsertUser, InsertFails, memory, histories
    <2> HIDE DEF row
    <2> QED
      BY <1>1, <2>2, <2>3, <2>4, <2>5, SentEnrols
  <1>3. ASSUME NEW o \in orphans, NEW c \in BOOLEAN, OrphanSettles(o, c)
        PROVE  [Book!Next]_Book!vars
    <2>1. o.user \in Users /\ o.row \in UserRow
      BY DEF TypeOK, Orphan
    <2>2. o.row.token \notin TableTokens
      BY DEF TokensApart
    <2>3. table' = table \/ Sent(o.user, o.row)
      BY <1>3 DEF OrphanSettles, Sent
    <2>4. UNCHANGED <<handed, up>> /\ users' = users
      BY <1>3 DEF OrphanSettles, memory, histories
    <2> QED
      BY <1>1, <2>1, <2>2, <2>3, <2>4, SentEnrols
  <1>4. ASSUME UNCHANGED <<users, byToken, table, handed, up>>
        PROVE  [Book!Next]_Book!vars
    BY <1>4 DEF Book!vars, userByToken
  <1>5. ASSUME NEW s \in Slots, Registered(s)
        PROVE  [Book!Next]_Book!vars
    <2>1. CASE registering[s].phase = "won"
      <3>1. PICK name \in Users : name = registering[s].user
        BY <1>5 DEF Registered, TypeOK, Registration
      <3>2. /\ s \in DOMAIN registering /\ name \in DOMAIN table /\ table[name] = RowOf(registering[s])
            /\ name \notin DOMAIN users /\ up
        BY <1>5, <2>1, <3>1 DEF Registered, WinnersFirst, DownIdle, TypeOK
      <3>3. /\ DOMAIN users' = DOMAIN users \cup {name} /\ table' = table /\ up' = up
            /\ handed' = handed \cup {<<name, table[name]>>}
        BY <1>5, <2>1, <3>1, <3>2 DEF Registered, Put
      <3>4. Known' = Known \cup {name} /\ name \in DOMAIN table \ Known
        BY <1>1, <3>2, <3>3
      <3>5. Book!Admit(name)
        BY <3>2, <3>3, <3>4 DEF Book!Admit, Known
      <3> QED
        BY <3>5 DEF Book!Next
    <2>2. CASE registering[s].phase # "won"
      BY <1>4, <1>5, <2>2 DEF Registered
    <2> QED
      BY <2>1, <2>2
  <1>6. ASSUME NEW s \in Slots, LoginAnswered(s)
        PROVE  [Book!Next]_Book!vars
    <2> DEFINE u == logins[s].user
    <2>1. u \in Users /\ u \in DOMAIN users /\ logins[s].row = table[u] /\ up
      BY <1>6 DEF LoginAnswered, LoginsSee, CacheTrue, DownIdle, TypeOK, Login
    <2>2. handed' = handed \cup {<<u, table[u]>>} /\ UNCHANGED <<table, users, up>>
      BY <1>6, <2>1 DEF LoginAnswered, memory
    <2> HIDE DEF u
    <2>3. Book!Tell(u)
      BY <1>1, <2>1, <2>2 DEF Book!Tell, Known
    <2> QED
      BY <2>1, <2>3 DEF Book!Next
  <1>7. CASE Crash
    <2>1. Known' = {}
      BY <1>1, <1>7, EmptyIs DEF Crash
    <2>2. Book!Stop
      BY <1>7, <2>1 DEF Crash, Book!Stop, Known
    <2> QED
      BY <2>2 DEF Book!Next
  <1>8. CASE Restart
    <2>1. Known' = DOMAIN table
      BY <1>1, <1>8 DEF Restart
    <2>2. Book!Start
      BY <1>8, <2>1 DEF Restart, histories, Book!Start, Known
    <2> QED
      BY <2>2 DEF Book!Next
  <1>9. ASSUME NEW s \in Slots, Serve(s)
        PROVE  [Book!Next]_Book!vars
    BY <1>2, <1>4, <1>5, <1>6, <1>9
    DEF Serve, StartRegister, StartLogin, Hashed, LoginRefused, LoginVerified, memory, histories
  <1>10. CASE Tick \/ UNCHANGED accountVars
    BY <1>4, <1>10 DEF Tick, accountVars, memory, histories
  <1> QED
    BY <1>3, <1>7, <1>8, <1>9, <1>10 DEF Next

\* The server keeps the account book, whatever overlaps, fails or crashes.
THEOREM AccountsKeepTheBook == Spec => BookKept
  BY InitBook, StepBook, InvAlways, PTL DEF Spec, BookKept, Book!Spec

\* A step of the book keeps what was answered: entries do not change, and a name stays known until the
\* process stops.
LEMMA HonouredStep ==
  ASSUME Book!AnsweredIsHonoured, Known \subseteq DOMAIN table, [Book!Next]_Book!vars
  PROVE  Book!AnsweredIsHonoured'
  <1> USE DEF Book!AnsweredIsHonoured
  <1>1. ASSUME NEW n \in Users, NEW e \in Book!Entry, Book!Enrol(n, e)
        PROVE  Book!AnsweredIsHonoured'
    BY <1>1 DEF Book!Enrol
  <1>2. ASSUME NEW n \in Users, Book!Admit(n) \/ Book!Tell(n)
        PROVE  Book!AnsweredIsHonoured'
    BY <1>2 DEF Book!Admit, Book!Tell, Known
  <1>3. CASE Book!Stop
    BY <1>3 DEF Book!Stop
  <1>4. CASE Book!Start
    BY <1>4 DEF Book!Start
  <1>5. CASE UNCHANGED Book!vars
    BY <1>5 DEF Book!vars
  <1> QED
    BY <1>1, <1>2, <1>3, <1>4, <1>5 DEF Book!Next

\* A token once answered is the name's for good, and accepted whenever the process takes requests.
THEOREM AnswersAreHonoured == Spec => []Book!AnsweredIsHonoured
  <1>1. Init => Book!AnsweredIsHonoured
    BY DEF Init, Book!AnsweredIsHonoured
  <1>2. IInv => Known \subseteq DOMAIN table
    BY DEF IInv, CacheTrue, Known
  <1>3. IInv /\ IInv' /\ [Next]_accountVars /\ Book!AnsweredIsHonoured => Book!AnsweredIsHonoured'
    BY <1>2, StepBook, HonouredStep
  <1> QED
    BY <1>1, <1>3, InvAlways, PTL DEF Spec

-----------------------------------------------------------------------------
(* The lock *)

\* Of a name whose logins came one after another, one is checked at a time, it read the count as it
\* still is, and none is checked while the name is locked.
LoginsCounted ==
  \A u \in Users \ overlapped :
    /\ FailsOf(u) = failed[u]
    /\ \A s \in Checking(u) : logins[s].seen = failed[u] /\ \A r \in Checking(u) : r = s
    /\ Locked(u) => Checking(u) = {}
    /\ failed[u] >= LOGIN_MAX_FAILS => loginFails[u].until > 0

\* What a step leaves of a name whose count and failures it does not touch, and for which it starts
\* no check, is as honest as before; the clock does not run backwards.
LEMMA LoginsQuiet ==
  ASSUME TypeOK, TypeOK', LoginsCounted, clock' >= clock, NEW u \in Users, u \notin overlapped,
         u \in DOMAIN loginFails' <=> u \in DOMAIN loginFails,
         u \in DOMAIN loginFails => loginFails'[u] = loginFails[u],
         failed'[u] = failed[u],
         \A s \in DOMAIN logins' :
           logins'[s].user = u /\ logins'[s].phase = "verify" => s \in DOMAIN logins /\ logins'[s] = logins[s]
  PROVE  /\ (FailsOf(u) = failed[u])'
         /\ (\A s \in Checking(u) : logins[s].seen = failed[u] /\ \A r \in Checking(u) : r = s)'
         /\ (Locked(u) => Checking(u) = {})'
         /\ (failed[u] >= LOGIN_MAX_FAILS => loginFails[u].until > 0)'
  <1>1. /\ FailsOf(u) = failed[u]
        /\ \A s \in Checking(u) : logins[s].seen = failed[u] /\ \A r \in Checking(u) : r = s
        /\ Locked(u) => Checking(u) = {}
        /\ failed[u] >= LOGIN_MAX_FAILS => loginFails[u].until > 0
    BY DEF LoginsCounted
  <1>2. \A s \in DOMAIN logins' :
          logins'[s].user = u /\ logins'[s].phase = "verify" => s \in Checking(u) /\ logins'[s] = logins[s]
    BY DEF Checking
  <1>3. Locked(u)' => Locked(u)
    BY AccountsOK DEF Locked, TypeOK, Lock
  <1>4. u \in DOMAIN loginFails \/ failed[u] < LOGIN_MAX_FAILS
    BY <1>1, AccountsOK DEF FailsOf
  <1>5. (FailsOf(u) = failed[u])'
    BY <1>1 DEF FailsOf
  <1>6. (\A s \in Checking(u) : logins[s].seen = failed[u] /\ \A r \in Checking(u) : r = s)'
    BY <1>1, <1>2 DEF Checking
  <1>7. (Locked(u) => Checking(u) = {})'
    BY <1>1, <1>2, <1>3 DEF Checking
  <1>8. (failed[u] >= LOGIN_MAX_FAILS => loginFails[u].until > 0)'
    BY <1>1, <1>4, AccountsOK DEF TypeOK
  <1> QED
    BY <1>5, <1>6, <1>7, <1>8

\* Each step keeps the logins counted.
LEMMA LoginsCountedStep ==
  ASSUME TypeOK, TypeOK', LoginsCounted, [Next]_accountVars
  PROVE  LoginsCounted'
  <1>1. ASSUME NEW s \in Slots, NEW u \in Users, NEW p \in Passwords, StartLogin(s, u, p)
        PROVE  LoginsCounted'
    <2>1. /\ logins' = Put(logins, s, logins'[s]) /\ logins'[s].user = u /\ logins'[s].seen = FailsOf(u)
          /\ s \notin DOMAIN logins /\ ~Locked(u)
      BY <1>1 DEF StartLogin, Put, Free
    <2>2. UNCHANGED <<loginFails, failed, clock>>
      BY <1>1 DEF StartLogin, memory
    <2>3. ASSUME NEW v \in Users, v \notin overlapped', v # u
          PROVE  /\ (FailsOf(v) = failed[v])'
                 /\ (\A r \in Checking(v) : logins[r].seen = failed[v] /\ \A q \in Checking(v) : q = r)'
                 /\ (Locked(v) => Checking(v) = {})'
                 /\ (failed[v] >= LOGIN_MAX_FAILS => loginFails[v].until > 0)'
      <3>1. v \notin overlapped
        BY <1>1, <2>3 DEF StartLogin
      <3>2. \A r \in DOMAIN logins' :
              logins'[r].user = v /\ logins'[r].phase = "verify" => r \in DOMAIN logins /\ logins'[r] = logins[r]
        BY <2>1, <2>3 DEF Put
      <3>3. clock' >= clock
        BY <2>2 DEF TypeOK
      <3> QED
        BY <2>2, <3>1, <3>2, <3>3, LoginsQuiet
    <2>4. ASSUME u \notin overlapped'
          PROVE  /\ (FailsOf(u) = failed[u])'
                 /\ (\A r \in Checking(u) : logins[r].seen = failed[u] /\ \A q \in Checking(u) : q = r)'
                 /\ (Locked(u) => Checking(u) = {})'
                 /\ (failed[u] >= LOGIN_MAX_FAILS => loginFails[u].until > 0)'
      <3>1. u \notin overlapped /\ Checking(u) = {}
        BY <1>1, <2>4 DEF StartLogin
      <3>2. FailsOf(u) = failed[u] /\ (failed[u] >= LOGIN_MAX_FAILS => loginFails[u].until > 0)
        BY <3>1 DEF LoginsCounted
      <3>3. \A r \in DOMAIN logins' : logins'[r].user = u /\ logins'[r].phase = "verify" => r = s
        BY <2>1, <3>1 DEF Put, Checking
      <3>4. ~Locked(u)'
        BY <2>1, <2>2 DEF Locked
      <3> QED
        BY <2>1, <2>2, <3>2, <3>3, <3>4 DEF FailsOf, Checking
    <2> QED
      BY <2>3, <2>4 DEF LoginsCounted
  <1>2. ASSUME NEW s \in Slots, LoginRefused(s)
        PROVE  LoginsCounted'
    <2>1. PICK u \in Users : u = logins[s].user
      BY <1>2 DEF LoginRefused, TypeOK, Login
    <2>2. /\ loginFails' = Put(loginFails, u, Refusal(logins[s])) /\ failed' = [failed EXCEPT ![u] = @ + 1]
          /\ logins' = Without(logins, s) /\ s \in Checking(u) /\ UNCHANGED <<clock, overlapped>>
      BY <1>2, <2>1 DEF LoginRefused, Checking
    <2>3. \A r \in DOMAIN logins' : r # s /\ r \in DOMAIN logins /\ logins'[r] = logins[r]
      BY <2>2 DEF Without, Restrict
    <2>4. ASSUME NEW v \in Users, v \notin overlapped', v # u
          PROVE  /\ (FailsOf(v) = failed[v])'
                 /\ (\A r \in Checking(v) : logins[r].seen = failed[v] /\ \A q \in Checking(v) : q = r)'
                 /\ (Locked(v) => Checking(v) = {})'
                 /\ (failed[v] >= LOGIN_MAX_FAILS => loginFails[v].until > 0)'
      <3>1. v \notin overlapped /\ failed'[v] = failed[v] /\ clock' >= clock
        BY <2>2, <2>4 DEF TypeOK
      <3>2. /\ v \in DOMAIN loginFails' <=> v \in DOMAIN loginFails
            /\ v \in DOMAIN loginFails => loginFails'[v] = loginFails[v]
        BY <2>2, <2>4 DEF Put
      <3> QED
        BY <2>3, <3>1, <3>2, LoginsQuiet
    <2>5. ASSUME u \notin overlapped'
          PROVE  /\ (FailsOf(u) = failed[u])'
                 /\ (\A r \in Checking(u) : logins[r].seen = failed[u] /\ \A q \in Checking(u) : q = r)'
                 /\ (Locked(u) => Checking(u) = {})'
                 /\ (failed[u] >= LOGIN_MAX_FAILS => loginFails[u].until > 0)'
      <3>1. logins[s].seen = failed[u] /\ \A r \in Checking(u) : r = s
        BY <2>2, <2>5 DEF LoginsCounted
      <3>2. failed'[u] = failed[u] + 1 /\ failed[u] \in Nat /\ clock \in Nat
        BY <2>2, AccountsOK DEF TypeOK
      <3>3. u \in DOMAIN loginFails' /\ loginFails'[u] = Refusal(logins[s])
        BY <2>2 DEF Put
      <3>4. FailsOf(u)' = failed[u] + 1 /\ (failed[u] + 1 >= LOGIN_MAX_FAILS => loginFails'[u].until > 0)
        BY <3>1, <3>2, <3>3, AccountsOK DEF FailsOf, Refusal
      <3>5. Checking(u)' = {}
        BY <2>3, <3>1 DEF Checking
      <3> QED
        BY <3>2, <3>4, <3>5
    <2> QED
      BY <2>4, <2>5 DEF LoginsCounted
  <1>3. ASSUME NEW s \in Slots, LoginVerified(s)
        PROVE  LoginsCounted'
    <2>1. PICK u \in Users : u = logins[s].user
      BY <1>3 DEF LoginVerified, TypeOK, Login
    <2>2. /\ loginFails' = Without(loginFails, u) /\ failed' = [failed EXCEPT ![u] = 0]
          /\ logins' = [logins EXCEPT ![s].phase = "touch"] /\ s \in Checking(u)
          /\ UNCHANGED <<clock, overlapped>>
      BY <1>3, <2>1 DEF LoginVerified, Checking
    <2>3. \A r \in DOMAIN logins' :
            logins'[r].phase = "verify" => r # s /\ r \in DOMAIN logins /\ logins'[r] = logins[r]
      BY <1>3, <2>2 DEF LoginVerified, TypeOK, Login
    <2>4. ASSUME NEW v \in Users, v \notin overlapped', v # u
          PROVE  /\ (FailsOf(v) = failed[v])'
                 /\ (\A r \in Checking(v) : logins[r].seen = failed[v] /\ \A q \in Checking(v) : q = r)'
                 /\ (Locked(v) => Checking(v) = {})'
                 /\ (failed[v] >= LOGIN_MAX_FAILS => loginFails[v].until > 0)'
      <3>1. v \notin overlapped /\ failed'[v] = failed[v] /\ clock' >= clock
        BY <2>2, <2>4 DEF TypeOK
      <3>2. /\ v \in DOMAIN loginFails' <=> v \in DOMAIN loginFails
            /\ v \in DOMAIN loginFails => loginFails'[v] = loginFails[v]
        BY <2>2, <2>4 DEF Without, Restrict
      <3> QED
        BY <2>3, <3>1, <3>2, LoginsQuiet
    <2>5. ASSUME u \notin overlapped'
          PROVE  /\ (FailsOf(u) = failed[u])'
                 /\ (\A r \in Checking(u) : logins[r].seen = failed[u] /\ \A q \in Checking(u) : q = r)'
                 /\ (Locked(u) => Checking(u) = {})'
                 /\ (failed[u] >= LOGIN_MAX_FAILS => loginFails[u].until > 0)'
      <3>1. \A r \in Checking(u) : r = s
        BY <2>2, <2>5 DEF LoginsCounted
      <3>2. failed'[u] = 0 /\ u \notin DOMAIN loginFails'
        BY <2>2 DEF TypeOK, Without, Restrict
      <3>3. Checking(u)' = {}
        BY <2>3, <3>1 DEF Checking
      <3> QED
        BY <3>2, <3>3, AccountsOK DEF FailsOf
    <2> QED
      BY <2>4, <2>5 DEF LoginsCounted
  <1>4. CASE Crash
    <2>1. DOMAIN logins' = {} /\ DOMAIN loginFails' = {} /\ \A u \in Users : failed'[u] = 0
      BY <1>4, EmptyIs DEF Crash
    <2>2. \A u : Checking(u)' = {} /\ ~Locked(u)' /\ FailsOf(u)' = 0
      BY <2>1 DEF Checking, Locked, FailsOf
    <2> QED
      BY <2>1, <2>2, AccountsOK DEF LoginsCounted
  <1>5. ASSUME UNCHANGED <<loginFails, failed, overlapped>>, clock' >= clock,
               \A r \in DOMAIN logins' : r \in DOMAIN logins /\ logins'[r] = logins[r]
        PROVE  LoginsCounted'
    BY <1>5, LoginsQuiet DEF LoginsCounted
  <1>6. ASSUME NEW s \in Slots, LoginAnswered(s)
        PROVE  LoginsCounted'
    <2>1. \A r \in DOMAIN logins' : r \in DOMAIN logins /\ logins'[r] = logins[r]
      BY <1>6 DEF LoginAnswered, Without, Restrict
    <2> QED
      BY <1>5, <1>6, <2>1 DEF LoginAnswered, memory, TypeOK
  <1>7. ASSUME UNCHANGED <<loginFails, failed, overlapped, logins>>, clock' = clock \/ clock' = clock + 1
        PROVE  LoginsCounted'
    BY <1>5, <1>7 DEF TypeOK
  <1>8. ASSUME NEW s \in Slots, Serve(s)
        PROVE  LoginsCounted'
    BY <1>1, <1>2, <1>3, <1>6, <1>7, <1>8
    DEF Serve, StartRegister, Hashed, InsertUser, InsertFails, Registered, memory, histories
  <1>9. ASSUME NEW o \in orphans, NEW c \in BOOLEAN, OrphanSettles(o, c)
        PROVE  LoginsCounted'
    BY <1>7, <1>9 DEF OrphanSettles, memory, requests, histories
  <1>10. CASE Tick \/ Restart \/ UNCHANGED accountVars
    BY <1>7, <1>10 DEF Tick, Restart, accountVars, memory, requests, histories
  <1> QED
    BY <1>4, <1>8, <1>9, <1>10 DEF Next

\* From LOGIN_MAX_FAILS refusals on, no login of a name is checked until its lock has passed, whoever
\* else logs in, registers, or is cut off by a crash.
THEOREM LockAlwaysHonest == Spec => []LockHonest
  <1>1. Init => LoginsCounted
    BY AccountsOK, EmptyIs DEF Init, LoginsCounted, FailsOf, Locked, Checking
  <1>2. TypeOK /\ TypeOK' /\ LoginsCounted /\ [Next]_accountVars => LoginsCounted'
    BY LoginsCountedStep
  <1>3. LoginsCounted => LockHonest
    BY DEF LoginsCounted, LockHonest
  <1> QED
    BY <1>1, <1>2, <1>3, TypesCorrect, PTL DEF Spec
====
