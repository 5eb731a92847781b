---------------------------- MODULE AccountBook ----------------------------
(***************************************************************************)
(* What the server promises about accounts, whatever its cache, its        *)
(* database and its requests do (src/server/store.ts:175, db.ts:85-100):   *)
(* a name is enrolled once, with one password and one token that never     *)
(* change; an answered registration or login carries that token; a token   *)
(* once answered is accepted for as long as the process runs, and again    *)
(* from the moment a restarted process takes requests.  Module Accounts    *)
(* implements this.                                                        *)
(***************************************************************************)
EXTENDS Naturals

CONSTANTS
  Users,       \* names
  Passwords,
  Tokens       \* credentials that can be issued

VARIABLES
  book,        \* enrolled names, each with its password and token
  known,       \* names whose token the running process accepts
  told,        \* answers given: name and entry
  up           \* the process takes requests

vars == <<book, known, told, up>>

Entry == [pw : Passwords, token : Tokens]

Init ==
  /\ book = [u \in {} |-> {}]
  /\ known = {}
  /\ told = {}
  /\ up = TRUE

\* A name is entered, by a process that may be gone before it can answer.
Enrol(u, e) ==
  /\ u \notin DOMAIN book
  /\ \A v \in DOMAIN book : book[v].token # e.token
  /\ book' = [v \in DOMAIN book \cup {u} |-> IF v = u THEN e ELSE book[v]]
  /\ UNCHANGED <<known, told, up>>

\* The registration that entered the name is answered: its token works from now on.
Admit(u) ==
  /\ up
  /\ u \in DOMAIN book \ known
  /\ known' = known \cup {u}
  /\ told' = told \cup {<<u, book[u]>>}
  /\ UNCHANGED <<book, up>>

\* A login is answered, with the one token the name has.
Tell(u) ==
  /\ up
  /\ u \in known
  /\ told' = told \cup {<<u, book[u]>>}
  /\ UNCHANGED <<book, known, up>>

Stop ==
  /\ up' = FALSE
  /\ known' = {}
  /\ UNCHANGED <<book, told>>

Start ==
  /\ ~up
  /\ up' = TRUE
  /\ known' = DOMAIN book
  /\ UNCHANGED <<book, told>>

Next ==
  \/ \E u \in Users, e \in Entry : Enrol(u, e)
  \/ \E u \in Users : Admit(u) \/ Tell(u)
  \/ Stop
  \/ Start

Spec == Init /\ [][Next]_vars

-----------------------------------------------------------------------------
\* An account never ages out and its token never changes: every name ever answered is entered as
\* it was answered, and the running process accepts its token.  (db.ts:86, store.ts:175)
AnsweredIsHonoured ==
  \A a \in told :
    /\ a[1] \in DOMAIN book
    /\ a[2] = book[a[1]]
    /\ up => a[1] \in known
=============================================================================
