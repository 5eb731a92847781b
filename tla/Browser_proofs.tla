---------------------------- MODULE Browser_proofs ----------------------------
(***************************************************************************)
(* Proofs about Browser, for every set of sessions and every value of the  *)
(* bounds: type correctness; that a connected page whose frames have       *)
(* arrived shows what the server has; and that neither a connection nor a  *)
(* notification is ever doubled, unless Retry raced the backoff timer.     *)
(***************************************************************************)
EXTENDS Browser, FiniteSetTheorems, SequenceTheorems, TLAPS

-----------------------------------------------------------------------------
(* The inductive invariant: where the page stands *)

\* Nothing is on its way in a socket that is not open yet, or not any more.
WiresEmpty == \A i \in DOMAIN socks : socks[i].state \in {"connecting", "closed"} => socks[i].wire = <<>>

\* A socket is closed for good at logout only, and before login there is none.
ScreenTrue ==
  /\ screen = "home" => socks # <<>>
  /\ closed => screen = "gate" /\ socks # <<>>
  /\ screen # "home" => activeId = None /\ (closed \/ (socks = <<>> /\ timers = 0))

\* The banner is right that there is a connection.
OnlineOpen == screen = "home" /\ connection = "online" => \E i \in DOMAIN socks : Open(i)

\* A list on the wire has a row for s.
Names(w, s) == \E k \in DOMAIN w : w[k].type = "sessions" /\ w[k].list[s] # "none"

\* A session that was ever listed, or is open, exists or did exist.
ListedExist ==
  \A s \in Sids :
    /\ sessions[s] # "none" \/ activeId = s => live[s] # "none"
    /\ \A i \in DOMAIN socks : Names(socks[i].wire, s) => live[s] # "none"

-----------------------------------------------------------------------------
(* The inductive invariant: what the page will show *)

IsHistory(f, s) == f.type = "history" /\ f.sid = s

\* An event of s on the wire that no history of s will replace.
Fresh(w, s, k) ==
  /\ k \in DOMAIN w
  /\ w[k].type = "event" /\ w[k].sid = s
  /\ \A m \in DOMAIN w : m > k => ~IsHistory(w[m], s)

Upto(n) == [i \in 1 .. n |-> i]

\* The last history of s on the wire holds b events, or there is none and the screen shows b.
StartsAt(w, s, sh, b) ==
  \/ \E h \in DOMAIN w :
       IsHistory(w[h], s) /\ w[h].n = b /\ \A m \in DOMAIN w : m > h => ~IsHistory(w[m], s)
  \/ (\A m \in DOMAIN w : ~IsHistory(w[m], s)) /\ sh = Upto(b)

\* From there on the wire carries the events up to the N-th, each once and in order.
RunsTo(w, s, b, N) ==
  /\ \A k \in DOMAIN w : Fresh(w, s, k) => w[k].n \in b + 1 .. N
  /\ \A j, k \in DOMAIN w : Fresh(w, s, j) /\ Fresh(w, s, k) /\ j < k => w[j].n < w[k].n
  /\ \A n \in b + 1 .. N : \E k \in DOMAIN w : Fresh(w, s, k) /\ w[k].n = n

Feed(w, s, sh, N) == \E b \in 0 .. N : StartsAt(w, s, sh, b) /\ RunsTo(w, s, b, N)

\* The last list on the wire is l, or there is none and l is on the screen.
ListFeed(w, on, l) ==
  \/ \E k \in DOMAIN w :
       w[k].type = "sessions" /\ w[k].list = l /\ \A m \in DOMAIN w : m > k => w[m].type # "sessions"
  \/ (\A m \in DOMAIN w : w[m].type # "sessions") /\ on = l

\* A page that is connected over one socket only.
Steady == screen = "home" /\ connection = "online" /\ LiveSocks = {Len(socks)}

\* Once its wire is empty, such a page shows what the server has.
Synced ==
  Steady =>
    /\ ~unpushed => ListFeed(socks[Len(socks)].wire, sessions, Rows(live))
    /\ Listed(live, activeId) /\ Listed(sessions, activeId) =>
         /\ socks[Len(socks)].subscribed = activeId
         /\ Feed(socks[Len(socks)].wire, activeId, shown, events[activeId])

-----------------------------------------------------------------------------
(* The inductive invariant: once only *)

\* The sockets that are not done with, LiveSocks and the one that closes.
Used == {i \in DOMAIN socks : socks[i].state # "closed"}

\* Until Retry doubles it, the connection is one socket, the newest, or one timer that will open it.
OneAtATime ==
  ~doubled =>
    /\ Used \subseteq {Len(socks)}
    /\ timers <= 1
    /\ timers = 1 => Used = {}
    /\ screen = "home" /\ connection = "offline" => timers = 1
    /\ closed /\ ~leftover => LiveSocks = {} /\ timers = 0

IsNote(f, s, n) == f.type \in {"event", "notify"} /\ f.sid = s /\ f.n = n

\* A wire carries the n-th event of s at most once, and only if it happened and was not noted yet.
NoteFeed(w, s, n, count, N) ==
  \A k \in DOMAIN w :
    IsNote(w[k], s, n) => count = 0 /\ n <= N /\ \A m \in DOMAIN w : IsNote(w[m], s, n) => m = k

\* An event that happened was noted, or its one frame is on the wire, or neither.
NotedOnce ==
  ~doubled =>
    \A s \in Sids, n \in 1 .. MaxEvents :
      /\ notes[<<s, n>>] \in {0, 1}
      /\ notes[<<s, n>>] = 1 => n <= events[s]
      /\ \A i \in DOMAIN socks : NoteFeed(socks[i].wire, s, n, notes[<<s, n>>], events[s])

IInv ==
  /\ TypeOK /\ WiresEmpty /\ ScreenTrue /\ OnlineOpen /\ ListedExist
  /\ Synced /\ OneAtATime /\ NotedOnce

-----------------------------------------------------------------------------
(* Wires *)

\* What a send adds to a wire.
LEMMA PushIs ==
  ASSUME NEW S, NEW q \in Seq(S), NEW x \in S
  PROVE  /\ Append(q, x) \in Seq(S)
         /\ Len(Append(q, x)) = Len(q) + 1 /\ Len(q) \in Nat
         /\ DOMAIN Append(q, x) = 1 .. Len(q) + 1 /\ DOMAIN q = 1 .. Len(q)
         /\ \A i \in DOMAIN q : Append(q, x)[i] = q[i]
         /\ Append(q, x)[Len(q) + 1] = x
  <1>1. /\ Append(q, x) \in Seq(S)
        /\ Len(Append(q, x)) = Len(q) + 1
        /\ \A i \in 1 .. Len(q) : Append(q, x)[i] = q[i]
        /\ Append(q, x)[Len(q) + 1] = x
    BY AppendProperties
  <1> QED
    BY <1>1, LenProperties

\* What is left of a wire once its first frame is taken.
LEMMA ShiftIs ==
  ASSUME NEW S, NEW q \in Seq(S), q # <<>>
  PROVE  /\ Tail(q) \in Seq(S)
         /\ Len(q) \in Nat \ {0}
         /\ DOMAIN Tail(q) = 1 .. Len(q) - 1 /\ DOMAIN q = 1 .. Len(q)
         /\ \A i \in DOMAIN Tail(q) : Tail(q)[i] = q[i + 1]
         /\ Head(q) = q[1] /\ Head(q) \in S
  <1>1. /\ Tail(q) \in Seq(S)
        /\ Len(Tail(q)) = Len(q) - 1
        /\ \A i \in 1 .. Len(q) - 1 : Tail(q)[i] = q[i + 1]
        /\ Head(q) = q[1] /\ Head(q) \in S
        /\ Len(q) \in Nat \ {0}
    BY HeadTailProperties, EmptySeq
  <1> QED
    BY <1>1, LenProperties

\* An event drawn after the n - 1 before it makes n.
LEMMA UptoGrows ==
  ASSUME NEW n \in Nat, n >= 1
  PROVE  Append(Upto(n - 1), n) = Upto(n)
  <1>1. Upto(n - 1) \in Seq(Nat) /\ Upto(n) \in Seq(Nat) /\ Len(Upto(n)) = n /\ Len(Upto(n - 1)) = n - 1
    BY DEF Upto
  <1>2. /\ Append(Upto(n - 1), n) \in Seq(Nat)
        /\ Len(Append(Upto(n - 1), n)) = n
        /\ \A i \in 1 .. n - 1 : Append(Upto(n - 1), n)[i] = Upto(n - 1)[i]
        /\ Append(Upto(n - 1), n)[n] = n
    BY <1>1, PushIs
  <1>3. \A i \in 1 .. n : Append(Upto(n - 1), n)[i] = Upto(n)[i]
    BY <1>2 DEF Upto
  <1> QED
    BY <1>1, <1>2, <1>3, SeqEqual

\* A frame of another kind, or of another session, changes nothing for s.
LEMMA FeedOther ==
  ASSUME NEW w \in Seq(Frame), NEW f \in Frame, NEW s, NEW sh, NEW N \in Nat, Feed(w, s, sh, N),
         f.type \notin {"history", "event"} \/ f.sid # s
  PROVE  Feed(Append(w, f), s, sh, N)
  <1> DEFINE v == Append(w, f)
  <1>1. /\ DOMAIN v = 1 .. Len(w) + 1 /\ DOMAIN w = 1 .. Len(w) /\ Len(w) \in Nat
        /\ \A i \in DOMAIN w : v[i] = w[i]
        /\ v[Len(w) + 1] = f
    BY PushIs
  <1> HIDE DEF v
  <1>2. \A i \in DOMAIN v : i \notin DOMAIN w => ~IsHistory(v[i], s) /\ ~Fresh(v, s, i)
    BY <1>1 DEF IsHistory, Fresh
  <1>3. \A i \in DOMAIN w : i \in DOMAIN v /\ v[i] = w[i] /\ (Fresh(v, s, i) <=> Fresh(w, s, i))
    BY <1>1, <1>2 DEF Fresh
  <1>4. PICK b \in 0 .. N : StartsAt(w, s, sh, b) /\ RunsTo(w, s, b, N)
    BY DEF Feed
  <1>5. StartsAt(v, s, sh, b)
    BY <1>1, <1>2, <1>3, <1>4 DEF StartsAt
  <1>6. RunsTo(v, s, b, N)
    BY <1>2, <1>3, <1>4 DEF RunsTo
  <1> QED
    BY <1>5, <1>6 DEF Feed, v

\* The next event of s is the next one the wire was waiting for.
LEMMA FeedEvent ==
  ASSUME NEW w \in Seq(Frame), NEW f \in Frame, NEW s, NEW sh, NEW N \in Nat, Feed(w, s, sh, N),
         f.type = "event", f.sid = s, f.n = N + 1
  PROVE  Feed(Append(w, f), s, sh, N + 1)
  <1> DEFINE v == Append(w, f)
  <1>1. /\ DOMAIN v = 1 .. Len(w) + 1 /\ DOMAIN w = 1 .. Len(w) /\ Len(w) \in Nat
        /\ \A i \in DOMAIN w : v[i] = w[i]
        /\ v[Len(w) + 1] = f
    BY PushIs
  <1> HIDE DEF v
  <1>2. \A i \in DOMAIN v : i \notin DOMAIN w => i = Len(w) + 1 /\ ~IsHistory(v[i], s)
    BY <1>1 DEF IsHistory
  <1>3. \A i \in DOMAIN w : i \in DOMAIN v /\ v[i] = w[i] /\ (Fresh(v, s, i) <=> Fresh(w, s, i))
    BY <1>1, <1>2 DEF Fresh
  <1>4. Fresh(v, s, Len(w) + 1) /\ v[Len(w) + 1].n = N + 1 /\ Len(w) + 1 \in DOMAIN v
    BY <1>1 DEF Fresh
  <1>5. PICK b \in 0 .. N : StartsAt(w, s, sh, b) /\ RunsTo(w, s, b, N)
    BY DEF Feed
  <1>6. StartsAt(v, s, sh, b)
    BY <1>1, <1>2, <1>3, <1>5 DEF StartsAt
  <1>7. \A k \in DOMAIN w : Fresh(w, s, k) => w[k].n \in b + 1 .. N /\ k < Len(w) + 1
    BY <1>1, <1>5 DEF RunsTo
  <1>8. \A k \in DOMAIN v : Fresh(v, s, k) => v[k].n \in b + 1 .. N + 1
    BY <1>2, <1>3, <1>4, <1>7
  <1>9. \A j, k \in DOMAIN v : Fresh(v, s, j) /\ Fresh(v, s, k) /\ j < k => v[j].n < v[k].n
    <2> SUFFICES ASSUME NEW j \in DOMAIN v, NEW k \in DOMAIN v, Fresh(v, s, j), Fresh(v, s, k), j < k
                 PROVE  v[j].n < v[k].n
      OBVIOUS
    <2>1. j \in DOMAIN w
      BY <1>1
    <2>2. CASE k \in DOMAIN w
      BY <1>3, <1>5, <2>1, <2>2 DEF RunsTo
    <2>3. CASE k \notin DOMAIN w
      BY <1>2, <1>3, <1>4, <1>7, <2>1, <2>3
    <2> QED
      BY <2>2, <2>3
  <1>10. \A n \in b + 1 .. N + 1 : \E k \in DOMAIN v : Fresh(v, s, k) /\ v[k].n = n
    <2> SUFFICES ASSUME NEW n \in b + 1 .. N + 1
                 PROVE  \E k \in DOMAIN v : Fresh(v, s, k) /\ v[k].n = n
      OBVIOUS
    <2>1. CASE n = N + 1
      BY <1>4, <2>1
    <2>2. CASE n # N + 1
      BY <1>3, <1>5, <2>2 DEF RunsTo
    <2> QED
      BY <2>1, <2>2
  <1> QED
    BY <1>6, <1>8, <1>9, <1>10 DEF Feed, RunsTo, v

\* A history replaces whatever was shown or on the wire.
LEMMA FeedHistory ==
  ASSUME NEW w \in Seq(Frame), NEW f \in Frame, NEW s, NEW sh, NEW N \in Nat,
         f.type = "history", f.sid = s, f.n = N
  PROVE  Feed(Append(w, f), s, sh, N)
  <1> DEFINE v == Append(w, f)
  <1>1. /\ DOMAIN v = 1 .. Len(w) + 1 /\ Len(w) \in Nat
        /\ v[Len(w) + 1] = f
    BY PushIs
  <1> HIDE DEF v
  <1>2. IsHistory(v[Len(w) + 1], s) /\ Len(w) + 1 \in DOMAIN v
    BY <1>1 DEF IsHistory
  <1>3. \A k \in DOMAIN v : ~Fresh(v, s, k)
    BY <1>1, <1>2 DEF Fresh, IsHistory
  <1>4. StartsAt(v, s, sh, N)
    BY <1>1, <1>2 DEF StartsAt
  <1>5. RunsTo(v, s, N, N)
    BY <1>3 DEF RunsTo
  <1> QED
    BY <1>4, <1>5 DEF Feed, v

\* What a page that draws s shows after the first frame.
Shows(sh, f, s) ==
  IF f.type \in {"history", "event"} /\ f.sid = s
  THEN IF f.type = "history" THEN Upto(f.n) ELSE Append(sh, f.n)
  ELSE sh

\* A frame that arrives moves from the wire to the screen.
LEMMA FeedTaken ==
  ASSUME NEW w \in Seq(Frame), w # <<>>, NEW s, NEW sh, NEW N \in Nat, Feed(w, s, sh, N)
  PROVE  Feed(Tail(w), s, Shows(sh, Head(w), s), N)
  <1> DEFINE v == Tail(w)
             f == Head(w)
             nsh == Shows(sh, f, s)
  <1>1. /\ v \in Seq(Frame) /\ DOMAIN v = 1 .. Len(w) - 1 /\ DOMAIN w = 1 .. Len(w)
        /\ Len(w) \in Nat \ {0} /\ f = w[1] /\ f \in Frame
        /\ \A i \in DOMAIN v : v[i] = w[i + 1]
    BY ShiftIs
  <1>2. nsh = IF f.type \in {"history", "event"} /\ f.sid = s
              THEN IF f.type = "history" THEN Upto(f.n) ELSE Append(sh, f.n)
              ELSE sh
    BY DEF Shows
  <1> HIDE DEF v, f, nsh
  <1>3. PICK b \in 0 .. N : StartsAt(w, s, sh, b) /\ RunsTo(w, s, b, N)
    BY DEF Feed
  <1>4. \A i \in DOMAIN v : i + 1 \in DOMAIN w /\ v[i] = w[i + 1]
    BY <1>1
  <1>5. \A i \in DOMAIN w : i = 1 \/ (i - 1 \in DOMAIN v /\ v[i - 1] = w[i])
    BY <1>1
  <1>6. \A i \in DOMAIN v : Fresh(v, s, i) <=> Fresh(w, s, i + 1)
    <2> SUFFICES ASSUME NEW i \in DOMAIN v
                 PROVE  (\A m \in DOMAIN v : m > i => ~IsHistory(v[m], s))
                          <=> (\A m \in DOMAIN w : m > i + 1 => ~IsHistory(w[m], s))
      BY <1>4 DEF Fresh
    <2>1. ASSUME \A m \in DOMAIN v : m > i => ~IsHistory(v[m], s), NEW m \in DOMAIN w, m > i + 1
          PROVE  ~IsHistory(w[m], s)
      <3>1. m - 1 \in DOMAIN v /\ v[m - 1] = w[m] /\ m - 1 > i
        BY <1>1, <1>5, <2>1
      <3> QED
        BY <2>1, <3>1
    <2>2. ASSUME \A m \in DOMAIN w : m > i + 1 => ~IsHistory(w[m], s), NEW m \in DOMAIN v, m > i
          PROVE  ~IsHistory(v[m], s)
      <3>1. m + 1 \in DOMAIN w /\ v[m] = w[m + 1] /\ m + 1 > i + 1
        BY <1>1, <1>4, <2>2
      <3> QED
        BY <2>2, <3>1
    <2> QED
      BY <2>1, <2>2
  <1>11. \A k \in DOMAIN v : Fresh(v, s, k) => v[k].n \in b + 1 .. N
    BY <1>3, <1>4, <1>6 DEF RunsTo
  <1>12. \A j, k \in DOMAIN v : Fresh(v, s, j) /\ Fresh(v, s, k) /\ j < k => v[j].n < v[k].n
    <2> SUFFICES ASSUME NEW j \in DOMAIN v, NEW k \in DOMAIN v, Fresh(v, s, j), Fresh(v, s, k), j < k
                 PROVE  v[j].n < v[k].n
      OBVIOUS
    <2>1. /\ j + 1 \in DOMAIN w /\ k + 1 \in DOMAIN w /\ j + 1 < k + 1
          /\ v[j] = w[j + 1] /\ v[k] = w[k + 1] /\ Fresh(w, s, j + 1) /\ Fresh(w, s, k + 1)
      BY <1>1, <1>4, <1>6
    <2> QED
      BY <1>3, <2>1 DEF RunsTo
  <1>13. ASSUME ~Fresh(w, s, 1)
         PROVE  RunsTo(v, s, b, N)
    <2>1. ASSUME NEW n \in b + 1 .. N
          PROVE  \E k \in DOMAIN v : Fresh(v, s, k) /\ v[k].n = n
      <3>1. PICK k \in DOMAIN w : Fresh(w, s, k) /\ w[k].n = n
        BY <1>3 DEF RunsTo
      <3>2. k - 1 \in DOMAIN v /\ v[k - 1] = w[k] /\ (k - 1) + 1 = k
        BY <1>1, <1>5, <1>13, <3>1
      <3> QED
        BY <1>6, <3>1, <3>2
    <2> QED
      BY <1>11, <1>12, <2>1 DEF RunsTo
  <1>7. CASE \E h \in DOMAIN w : h # 1 /\ IsHistory(w[h], s) /\ w[h].n = b
                                 /\ \A m \in DOMAIN w : m > h => ~IsHistory(w[m], s)
    <2>1. PICK h \in DOMAIN w : h # 1 /\ IsHistory(w[h], s) /\ w[h].n = b
                                /\ \A m \in DOMAIN w : m > h => ~IsHistory(w[m], s)
      BY <1>7
    <2>2. h - 1 \in DOMAIN v /\ v[h - 1] = w[h]
      BY <1>5, <2>1
    <2>3. \A m \in DOMAIN v : m > h - 1 => ~IsHistory(v[m], s)
      BY <1>1, <1>4, <2>1
    <2>4. StartsAt(v, s, nsh, b)
      BY <2>1, <2>2, <2>3 DEF StartsAt
    <2>5. ~Fresh(w, s, 1)
      BY <1>1, <2>1 DEF Fresh
    <2>6. RunsTo(v, s, b, N)
      BY <1>13, <2>5
    <2> QED
      BY <2>4, <2>6 DEF Feed, v, nsh, f
  <1>8. CASE IsHistory(w[1], s) /\ w[1].n = b /\ \A m \in DOMAIN w : m > 1 => ~IsHistory(w[m], s)
    <2>1. nsh = Upto(b)
      BY <1>1, <1>2, <1>8 DEF IsHistory
    <2>2. \A m \in DOMAIN v : ~IsHistory(v[m], s)
      BY <1>1, <1>4, <1>8
    <2>3. ~Fresh(w, s, 1)
      BY <1>8 DEF Fresh, IsHistory
    <2>4. RunsTo(v, s, b, N)
      BY <1>13, <2>3
    <2> QED
      BY <2>1, <2>2, <2>4 DEF Feed, StartsAt, v, nsh, f
  <1>9. CASE (\A m \in DOMAIN w : ~IsHistory(w[m], s)) /\ sh = Upto(b)
    <2>1. \A m \in DOMAIN v : ~IsHistory(v[m], s)
      BY <1>4, <1>9
    <2>2. CASE ~(f.type = "event" /\ f.sid = s)
      <3>1. nsh = sh /\ ~Fresh(w, s, 1)
        BY <1>1, <1>2, <1>9, <2>2 DEF IsHistory, Fresh
      <3>2. RunsTo(v, s, b, N)
        BY <1>13, <3>1
      <3> QED
        BY <1>9, <2>1, <3>1, <3>2 DEF Feed, StartsAt, v, nsh, f
    <2>3. CASE f.type = "event" /\ f.sid = s
      <3>1. Fresh(w, s, 1) /\ 1 \in DOMAIN w
        BY <1>1, <1>9, <2>3 DEF Fresh
      <3>2. w[1].n \in b + 1 .. N
        BY <1>3, <3>1 DEF RunsTo
      <3>3. ASSUME NEW k \in DOMAIN w, Fresh(w, s, k), k # 1
            PROVE  w[1].n < w[k].n
        <4>1. 1 < k
          BY <1>1, <3>3
        <4> QED
          BY <1>3, <3>1, <3>3, <4>1 DEF RunsTo
      <3>4. w[1].n = b + 1
        <4>1. PICK k \in DOMAIN w : Fresh(w, s, k) /\ w[k].n = b + 1
          BY <1>3, <3>2 DEF RunsTo
        <4> QED
          BY <3>2, <3>3, <4>1
      <3>5. nsh = Upto(b + 1)
        <4>1. nsh = Append(Upto(b), b + 1)
          BY <1>1, <1>2, <1>9, <2>3, <3>4
        <4>2. b + 1 \in Nat /\ b + 1 >= 1 /\ (b + 1) - 1 = b
          OBVIOUS
        <4> QED
          BY <4>1, <4>2, UptoGrows
      <3>6. \A k \in DOMAIN v : Fresh(v, s, k) => v[k].n \in (b + 1) + 1 .. N
        <4> SUFFICES ASSUME NEW k \in DOMAIN v, Fresh(v, s, k)
                     PROVE  v[k].n \in (b + 1) + 1 .. N
          OBVIOUS
        <4>1. k + 1 \in DOMAIN w /\ v[k] = w[k + 1] /\ k + 1 # 1 /\ Fresh(w, s, k + 1)
          BY <1>1, <1>4, <1>6
        <4>2. w[k + 1].n \in b + 1 .. N /\ w[1].n < w[k + 1].n
          BY <1>3, <3>3, <4>1 DEF RunsTo
        <4> QED
          BY <3>4, <4>1, <4>2
      <3>8. ASSUME NEW n \in (b + 1) + 1 .. N
            PROVE  \E k \in DOMAIN v : Fresh(v, s, k) /\ v[k].n = n
        <4>1. PICK k \in DOMAIN w : Fresh(w, s, k) /\ w[k].n = n
          BY <1>3 DEF RunsTo
        <4>2. k # 1
          BY <3>4, <4>1
        <4>3. k - 1 \in DOMAIN v /\ v[k - 1] = w[k] /\ (k - 1) + 1 = k
          BY <1>1, <1>5, <4>2
        <4> QED
          BY <1>6, <4>1, <4>3
      <3>9. b + 1 \in 0 .. N /\ StartsAt(v, s, nsh, b + 1) /\ RunsTo(v, s, b + 1, N)
        BY <1>12, <2>1, <3>2, <3>5, <3>6, <3>8 DEF StartsAt, RunsTo
      <3> QED
        BY <3>9 DEF Feed, v, nsh, f
    <2> QED
      BY <2>2, <2>3
  <1>10. \/ \E h \in DOMAIN w : IsHistory(w[h], s) /\ w[h].n = b
                                /\ \A m \in DOMAIN w : m > h => ~IsHistory(w[m], s)
         \/ (\A m \in DOMAIN w : ~IsHistory(w[m], s)) /\ sh = Upto(b)
    BY <1>3 DEF StartsAt
  <1> QED
    BY <1>7, <1>8, <1>9, <1>10

\* With nothing on the wire, the screen is up to date.
LEMMA FeedEmpty ==
  ASSUME NEW s, NEW sh, NEW N \in Nat, Feed(<<>>, s, sh, N)
  PROVE  sh = Upto(N)
  <1>1. PICK b \in 0 .. N : StartsAt(<<>>, s, sh, b) /\ RunsTo(<<>>, s, b, N)
    BY DEF Feed
  <1>2. sh = Upto(b)
    BY <1>1 DEF StartsAt
  <1>3. b = N
    <2>1. ~(b < N)
      <3> SUFFICES ASSUME b < N PROVE FALSE
        OBVIOUS
      <3>1. N \in b + 1 .. N
        OBVIOUS
      <3> QED
        BY <1>1, <3>1 DEF RunsTo
    <2> QED
      BY <2>1
  <1> QED
    BY <1>2, <1>3

\* A frame that is no list leaves the last list the last; a list becomes the last.
LEMMA ListFeedPush ==
  ASSUME NEW w \in Seq(Frame), NEW f \in Frame, NEW on, NEW l
  PROVE  /\ f.type # "sessions" /\ ListFeed(w, on, l) => ListFeed(Append(w, f), on, l)
         /\ f.type = "sessions" /\ f.list = l => ListFeed(Append(w, f), on, l)
  <1> DEFINE v == Append(w, f)
  <1>1. /\ DOMAIN v = 1 .. Len(w) + 1 /\ DOMAIN w = 1 .. Len(w) /\ Len(w) \in Nat
        /\ \A i \in DOMAIN w : v[i] = w[i]
        /\ v[Len(w) + 1] = f
    BY PushIs
  <1> HIDE DEF v
  <1>2. Len(w) + 1 \in DOMAIN v /\ \A m \in DOMAIN v : m \in DOMAIN w \/ m = Len(w) + 1
    BY <1>1
  <1>3. ASSUME f.type # "sessions", ListFeed(w, on, l)
        PROVE  ListFeed(v, on, l)
    <2>1. \A m \in DOMAIN v : v[m].type = "sessions" => m \in DOMAIN w /\ v[m] = w[m]
      BY <1>1, <1>2, <1>3
    <2>2. \A m \in DOMAIN w : m \in DOMAIN v /\ v[m] = w[m]
      BY <1>1
    <2> QED
      BY <1>3, <2>1, <2>2 DEF ListFeed
  <1>4. ASSUME f.type = "sessions", f.list = l
        PROVE  ListFeed(v, on, l)
    <2>1. \A m \in DOMAIN v : ~(m > Len(w) + 1)
      BY <1>1
    <2> QED
      BY <1>1, <1>2, <1>4, <2>1 DEF ListFeed
  <1> QED
    BY <1>3, <1>4 DEF v

\* A list that arrives moves from the wire to the screen.
LEMMA ListFeedTaken ==
  ASSUME NEW w \in Seq(Frame), w # <<>>, NEW on, NEW l, ListFeed(w, on, l)
  PROVE  ListFeed(Tail(w), IF Head(w).type = "sessions" THEN Head(w).list ELSE on, l)
  <1> DEFINE v == Tail(w)
             f == Head(w)
  <1>1. /\ DOMAIN v = 1 .. Len(w) - 1 /\ DOMAIN w = 1 .. Len(w) /\ Len(w) \in Nat \ {0}
        /\ \A i \in DOMAIN v : v[i] = w[i + 1]
        /\ f = w[1]
    BY ShiftIs
  <1> HIDE DEF v, f
  <1>2. \A m \in DOMAIN v : m + 1 \in DOMAIN w /\ m + 1 > 1 /\ v[m] = w[m + 1]
    BY <1>1
  <1>3. CASE \A m \in DOMAIN w : w[m].type # "sessions"
    <2>1. on = l /\ f.type # "sessions" /\ \A m \in DOMAIN v : v[m].type # "sessions"
      BY <1>1, <1>2, <1>3 DEF ListFeed
    <2> QED
      BY <2>1 DEF ListFeed, v, f
  <1>4. CASE \E k \in DOMAIN w : w[k].type = "sessions" /\ w[k].list = l
                                 /\ \A m \in DOMAIN w : m > k => w[m].type # "sessions"
    <2>1. PICK k \in DOMAIN w : w[k].type = "sessions" /\ w[k].list = l
                                /\ \A m \in DOMAIN w : m > k => w[m].type # "sessions"
      BY <1>4
    <2>2. CASE k = 1
      <3>1. f.type = "sessions" /\ f.list = l /\ \A m \in DOMAIN v : v[m].type # "sessions"
        BY <1>1, <1>2, <2>1, <2>2
      <3> QED
        BY <3>1 DEF ListFeed, v, f
    <2>3. CASE k # 1
      <3>1. k - 1 \in DOMAIN v /\ v[k - 1] = w[k]
        BY <1>1, <2>3
      <3>2. \A m \in DOMAIN v : m > k - 1 => v[m].type # "sessions"
        <4> SUFFICES ASSUME NEW m \in DOMAIN v, m > k - 1 PROVE v[m].type # "sessions"
          OBVIOUS
        <4>1. m + 1 > k
          BY <1>1
        <4> QED
          BY <1>2, <2>1, <4>1
      <3> QED
        BY <2>1, <3>1, <3>2 DEF ListFeed, v
    <2> QED
      BY <2>2, <2>3
  <1> QED
    BY <1>3, <1>4 DEF ListFeed

\* With nothing on the wire, the list on the screen is the last one.
LEMMA ListFeedEmpty ==
  ASSUME NEW on, NEW l, ListFeed(<<>>, on, l)
  PROVE  on = l
  BY DEF ListFeed

\* Frames that are neither events nor notes of the n-th event of s do not count.
LEMMA NoteFeedPush ==
  ASSUME NEW w \in Seq(Frame), NEW f \in Frame, NEW s, NEW n, NEW count, NEW N,
         NoteFeed(w, s, n, count, N), ~IsNote(f, s, n)
  PROVE  NoteFeed(Append(w, f), s, n, count, N)
  <1> DEFINE v == Append(w, f)
  <1>1. /\ DOMAIN v = 1 .. Len(w) + 1 /\ DOMAIN w = 1 .. Len(w) /\ Len(w) \in Nat
        /\ \A i \in DOMAIN w : v[i] = w[i]
        /\ v[Len(w) + 1] = f
    BY PushIs
  <1> HIDE DEF v
  <1>2. \A m \in DOMAIN v : IsNote(v[m], s, n) => m \in DOMAIN w /\ v[m] = w[m]
    <2> SUFFICES ASSUME NEW m \in DOMAIN v, IsNote(v[m], s, n) PROVE m \in DOMAIN w /\ v[m] = w[m]
      OBVIOUS
    <2>1. m # Len(w) + 1
      BY <1>1
    <2> QED
      BY <1>1, <2>1
  <1> QED
    BY <1>2 DEF NoteFeed, v

\* The first frame of an event that has none is the only one.
LEMMA NoteFeedFirst ==
  ASSUME NEW w \in Seq(Frame), NEW f \in Frame, NEW s, NEW n, NEW N,
         \A k \in DOMAIN w : ~IsNote(w[k], s, n), n <= N
  PROVE  NoteFeed(Append(w, f), s, n, 0, N)
  <1> DEFINE v == Append(w, f)
  <1>1. /\ DOMAIN v = 1 .. Len(w) + 1 /\ DOMAIN w = 1 .. Len(w) /\ Len(w) \in Nat
        /\ \A i \in DOMAIN w : v[i] = w[i]
    BY PushIs
  <1> HIDE DEF v
  <1>2. \A m \in DOMAIN v : IsNote(v[m], s, n) => m = Len(w) + 1
    <2> SUFFICES ASSUME NEW m \in DOMAIN v, m # Len(w) + 1 PROVE ~IsNote(v[m], s, n)
      OBVIOUS
    <2>1. m \in DOMAIN w
      BY <1>1
    <2> QED
      BY <1>1, <2>1
  <1> QED
    BY <1>2 DEF NoteFeed, v

\* A note that arrives leaves none behind; any other frame leaves them as they were.
LEMMA NoteFeedTaken ==
  ASSUME NEW w \in Seq(Frame), w # <<>>, NEW s, NEW n, NEW count, NEW N, NoteFeed(w, s, n, count, N)
  PROVE  /\ NoteFeed(Tail(w), s, n, count, N)
         /\ IsNote(Head(w), s, n) =>
              count = 0 /\ n <= N /\ \A k \in DOMAIN Tail(w) : ~IsNote(Tail(w)[k], s, n)
  <1> DEFINE v == Tail(w)
             f == Head(w)
  <1>1. /\ DOMAIN v = 1 .. Len(w) - 1 /\ DOMAIN w = 1 .. Len(w) /\ Len(w) \in Nat \ {0}
        /\ \A i \in DOMAIN v : v[i] = w[i + 1]
        /\ f = w[1]
    BY ShiftIs
  <1> HIDE DEF v, f
  <1>2. \A m \in DOMAIN v : m + 1 \in DOMAIN w /\ v[m] = w[m + 1] /\ m + 1 # 1
    BY <1>1
  <1>3. NoteFeed(v, s, n, count, N)
    <2> SUFFICES ASSUME NEW k \in DOMAIN v, IsNote(v[k], s, n)
                 PROVE  count = 0 /\ n <= N /\ \A m \in DOMAIN v : IsNote(v[m], s, n) => m = k
      BY DEF NoteFeed
    <2>1. k + 1 \in DOMAIN w /\ IsNote(w[k + 1], s, n)
      BY <1>2
    <2>2. count = 0 /\ n <= N /\ \A m \in DOMAIN w : IsNote(w[m], s, n) => m = k + 1
      BY <2>1 DEF NoteFeed
    <2>3. ASSUME NEW m \in DOMAIN v, IsNote(v[m], s, n)
          PROVE  m = k
      <3>1. m + 1 = k + 1
        BY <1>2, <2>2, <2>3
      <3> QED
        BY <1>1, <3>1
    <2> QED
      BY <2>2, <2>3
  <1>4. ASSUME IsNote(f, s, n)
        PROVE  count = 0 /\ n <= N /\ \A k \in DOMAIN v : ~IsNote(v[k], s, n)
    <2>1. 1 \in DOMAIN w /\ IsNote(w[1], s, n)
      BY <1>1, <1>4
    <2>2. count = 0 /\ n <= N /\ \A m \in DOMAIN w : IsNote(w[m], s, n) => m = 1
      BY <2>1 DEF NoteFeed
    <2> QED
      BY <1>2, <2>2
  <1> QED
    BY <1>3, <1>4 DEF v, f

\* The rows a wire names, after a send and after an arrival.
LEMMA NamesOf ==
  ASSUME NEW w \in Seq(Frame), NEW s
  PROVE  /\ ~Names(<<>>, s)
         /\ \A f \in Frame :
              Names(Append(w, f), s) => Names(w, s) \/ (f.type = "sessions" /\ f.list[s] # "none")
         /\ w # <<>> /\ Names(Tail(w), s) => Names(w, s)
         /\ w # <<>> /\ Head(w).type = "sessions" /\ Head(w).list[s] # "none" => Names(w, s)
  <1>1. ~Names(<<>>, s)
    BY DEF Names
  <1>2. ASSUME NEW f \in Frame, Names(Append(w, f), s)
        PROVE  Names(w, s) \/ (f.type = "sessions" /\ f.list[s] # "none")
    <2> DEFINE v == Append(w, f)
    <2>1. /\ DOMAIN v = 1 .. Len(w) + 1 /\ DOMAIN w = 1 .. Len(w) /\ Len(w) \in Nat
          /\ \A i \in DOMAIN w : v[i] = w[i]
          /\ v[Len(w) + 1] = f
      BY PushIs
    <2>2. PICK k \in DOMAIN v : v[k].type = "sessions" /\ v[k].list[s] # "none"
      BY <1>2 DEF Names
    <2> HIDE DEF v
    <2>3. k \in DOMAIN w \/ k = Len(w) + 1
      BY <2>1
    <2> QED
      BY <2>1, <2>2, <2>3 DEF Names
  <1>3. ASSUME w # <<>>
        PROVE  /\ Names(Tail(w), s) => Names(w, s)
               /\ Head(w).type = "sessions" /\ Head(w).list[s] # "none" => Names(w, s)
    <2> DEFINE v == Tail(w)
    <2>1. /\ DOMAIN v = 1 .. Len(w) - 1 /\ DOMAIN w = 1 .. Len(w) /\ Len(w) \in Nat \ {0}
          /\ \A i \in DOMAIN v : v[i] = w[i + 1]
          /\ Head(w) = w[1]
      BY <1>3, ShiftIs
    <2> HIDE DEF v
    <2>2. \A m \in DOMAIN v : m + 1 \in DOMAIN w /\ v[m] = w[m + 1]
      BY <2>1
    <2>3. 1 \in DOMAIN w
      BY <2>1
    <2> QED
      BY <2>1, <2>2, <2>3 DEF Names, v
  <1> QED
    BY <1>1, <1>2, <1>3

-----------------------------------------------------------------------------
(* Sockets *)

\* A sequence of sockets is what it says at each place.
LEMMA SocksAre ==
  ASSUME NEW sks \in Seq(Sock), NEW t, t = [i \in DOMAIN sks |-> t[i]], \A i \in DOMAIN sks : t[i] \in Sock
  PROVE  t \in Seq(Sock) /\ Len(t) = Len(sks) /\ DOMAIN t = DOMAIN sks
  <1>1. DOMAIN sks = 1 .. Len(sks) /\ Len(sks) \in Nat
    BY LenProperties
  <1>2. t \in [1 .. Len(sks) -> Sock]
    BY <1>1
  <1>3. t \in Seq(Sock)
    BY <1>1, <1>2, SeqDef
  <1>4. DOMAIN t = 1 .. Len(t) /\ Len(t) \in Nat /\ DOMAIN t = 1 .. Len(sks)
    BY <1>2, <1>3, LenProperties
  <1> QED
    BY <1>1, <1>3, <1>4

\* The frames of the server.
LEMMA FramesAre ==
  /\ \A l \in [Sids -> {"none", "active", "offline", "gone"}] :
       /\ Rows(l) \in Lists /\ ListFrame(l) \in Frame
       /\ ListFrame(l).type = "sessions" /\ ListFrame(l).list = Rows(l)
       /\ \A s \in Sids : Rows(l)[s] # "none" => l[s] # "none"
  /\ \A s \in Sids :
       /\ \A n \in 1 .. MaxEvents : EventFrame("event", s, n) \in Frame /\ EventFrame("notify", s, n) \in Frame
       /\ \A n \in 0 .. MaxEvents : EventFrame("history", s, n) \in Frame
  /\ \A t, s, n : EventFrame(t, s, n).type = t /\ EventFrame(t, s, n).sid = s /\ EventFrame(t, s, n).n = n
  <1>1. \A l \in [Sids -> {"none", "active", "offline", "gone"}] :
          /\ Rows(l) \in Lists /\ ListFrame(l) \in Frame
          /\ ListFrame(l).type = "sessions" /\ ListFrame(l).list = Rows(l)
          /\ \A s \in Sids : Rows(l)[s] # "none" => l[s] # "none"
    <2> SUFFICES ASSUME NEW l \in [Sids -> {"none", "active", "offline", "gone"}]
                 PROVE  /\ Rows(l) \in Lists /\ ListFrame(l) \in Frame
                        /\ ListFrame(l).type = "sessions" /\ ListFrame(l).list = Rows(l)
                        /\ \A s \in Sids : Rows(l)[s] # "none" => l[s] # "none"
      OBVIOUS
    <2>1. Rows(l) \in Lists /\ \A s \in Sids : Rows(l)[s] # "none" => l[s] # "none"
      BY DEF Rows, Lists
    <2> QED
      BY <2>1 DEF ListFrame, Frame
  <1> QED
    BY <1>1 DEF EventFrame, Frame

\* A send reaches an open socket only, and changes its wire only.
LEMMA SendIs ==
  ASSUME NEW sk \in Sock, NEW f \in Frame
  PROVE  /\ Send(sk, f) \in Sock
         /\ Send(sk, f).state = sk.state /\ Send(sk, f).subscribed = sk.subscribed
         /\ sk.state = "open" => Send(sk, f).wire = Append(sk.wire, f)
         /\ sk.state # "open" => Send(sk, f) = sk
  <1>1. sk.wire \in Seq(Frame) /\ Append(sk.wire, f) \in Seq(Frame)
    BY PushIs DEF Sock
  <1> QED
    BY <1>1 DEF Send, Sock

\* The event for who views the session, its note for the others.
LEMMA FanOutIs ==
  ASSUME NEW sk \in Sock, NEW s \in Sids, NEW n \in 1 .. MaxEvents
  PROVE  /\ FanOut(sk, s, n) \in Sock
         /\ FanOut(sk, s, n).state = sk.state /\ FanOut(sk, s, n).subscribed = sk.subscribed
         /\ sk.state # "open" => FanOut(sk, s, n) = sk
         /\ sk.state = "open" =>
              \E f \in Frame : /\ FanOut(sk, s, n).wire = Append(sk.wire, f)
                               /\ f.sid = s /\ f.n = n
                               /\ f.type = IF sk.subscribed = s THEN "event" ELSE "notify"
  <1> DEFINE f == EventFrame(IF sk.subscribed = s THEN "event" ELSE "notify", s, n)
  <1>1. /\ f \in Frame /\ f.sid = s /\ f.n = n
        /\ f.type = IF sk.subscribed = s THEN "event" ELSE "notify"
    BY FramesAre
  <1>2. FanOut(sk, s, n) = Send(sk, f)
    BY DEF FanOut
  <1> HIDE DEF f
  <1> QED
    BY <1>1, <1>2, SendIs

\* A list goes to every open socket.
LEMMA PushListIs ==
  ASSUME NEW sks \in Seq(Sock), NEW l \in [Sids -> {"none", "active", "offline", "gone"}]
  PROVE  /\ pushList(sks, l) \in Seq(Sock)
         /\ Len(pushList(sks, l)) = Len(sks) /\ DOMAIN pushList(sks, l) = DOMAIN sks
         /\ \A i \in DOMAIN sks :
              /\ pushList(sks, l)[i].state = sks[i].state
              /\ pushList(sks, l)[i].subscribed = sks[i].subscribed
              /\ sks[i].state # "open" => pushList(sks, l)[i] = sks[i]
              /\ sks[i].state = "open" => pushList(sks, l)[i].wire = Append(sks[i].wire, ListFrame(l))
  <1> DEFINE t == pushList(sks, l)
  <1>1. ListFrame(l) \in Frame
    BY FramesAre
  <1>2. \A i \in DOMAIN sks : sks[i] \in Sock
    BY ElementOfSeq, LenProperties
  <1>3. t = [i \in DOMAIN sks |-> t[i]] /\ \A i \in DOMAIN sks : t[i] = Send(sks[i], ListFrame(l))
    BY DEF pushList
  <1> HIDE DEF t
  <1>4. \A i \in DOMAIN sks : t[i] \in Sock
    BY <1>1, <1>2, <1>3, SendIs
  <1>5. t \in Seq(Sock) /\ Len(t) = Len(sks) /\ DOMAIN t = DOMAIN sks
    BY <1>3, <1>4, SocksAre
  <1> QED
    BY <1>1, <1>2, <1>3, <1>5, SendIs DEF t

\* A subscription changes the newest socket, if it is open and the session exists, and sends it the
\* history.
LEMMA SubscribeIs ==
  ASSUME TypeOK, NEW sks \in Seq(Sock), NEW s \in Sids
  PROVE  /\ subscribe(sks, s) \in Seq(Sock)
         /\ Len(subscribe(sks, s)) = Len(sks) /\ DOMAIN subscribe(sks, s) = DOMAIN sks
         /\ \A i \in DOMAIN sks :
              /\ subscribe(sks, s)[i].state = sks[i].state
              /\ \/ subscribe(sks, s)[i] = sks[i]
                 \/ /\ sks[i].state = "open"
                    /\ subscribe(sks, s)[i].wire = Append(sks[i].wire, EventFrame("history", s, events[s]))
         /\ EventFrame("history", s, events[s]) \in Frame
         /\ sks # <<>> /\ sks[Len(sks)].state = "open" /\ Listed(live, s) =>
              /\ subscribe(sks, s)[Len(sks)].subscribed = s
              /\ subscribe(sks, s)[Len(sks)].wire
                   = Append(sks[Len(sks)].wire, EventFrame("history", s, events[s]))
  <1> DEFINE f == EventFrame("history", s, events[s])
             r == subscribe(sks, s)
             L == Len(sks)
             sk == [sks[L] EXCEPT !.subscribed = s]
  <1>1. f \in Frame
    BY FramesAre DEF TypeOK
  <1>2. DOMAIN sks = 1 .. L /\ L \in Nat /\ \A i \in DOMAIN sks : sks[i] \in Sock
    BY ElementOfSeq, LenProperties
  <1>3. CASE ~(sks # <<>> /\ sks[L].state = "open" /\ Listed(live, s))
    BY <1>1, <1>3 DEF subscribe
  <1>4. CASE sks # <<>> /\ sks[L].state = "open" /\ Listed(live, s)
    <2>1. L \in DOMAIN sks
      BY <1>2, <1>4, EmptySeq
    <2>2. sk \in Sock /\ sk.state = "open" /\ sk.subscribed = s /\ sk.wire = sks[L].wire
      BY <1>2, <1>4, <2>1 DEF Sock
    <2>3. r = [sks EXCEPT ![L] = Send(sk, f)]
      BY <1>4 DEF subscribe
    <2> HIDE DEF sk, f, r
    <2>4. /\ Send(sk, f) \in Sock /\ Send(sk, f).state = "open" /\ Send(sk, f).subscribed = s
          /\ Send(sk, f).wire = Append(sks[L].wire, f)
      BY <1>1, <2>2, SendIs
    <2>5. /\ r = [i \in DOMAIN sks |-> r[i]] /\ r[L] = Send(sk, f)
          /\ \A i \in DOMAIN sks : i # L => r[i] = sks[i]
      BY <1>2, <2>1, <2>3
    <2>6. \A i \in DOMAIN sks : r[i] \in Sock
      BY <1>2, <2>4, <2>5
    <2>7. r \in Seq(Sock) /\ Len(r) = L /\ DOMAIN r = DOMAIN sks
      BY <2>5, <2>6, SocksAre
    <2>8. \A i \in DOMAIN sks :
            /\ r[i].state = sks[i].state
            /\ r[i] = sks[i] \/ (sks[i].state = "open" /\ r[i].wire = Append(sks[i].wire, f))
      BY <1>4, <2>4, <2>5
    <2> QED
      BY <1>1, <2>4, <2>5, <2>7, <2>8 DEF f, r
  <1> QED
    BY <1>3, <1>4

\* One socket of the sequence replaced.
LEMMA ReplaceIs ==
  ASSUME NEW sks \in Seq(Sock), NEW i \in DOMAIN sks, NEW sk \in Sock
  PROVE  /\ [sks EXCEPT ![i] = sk] \in Seq(Sock)
         /\ Len([sks EXCEPT ![i] = sk]) = Len(sks) /\ DOMAIN [sks EXCEPT ![i] = sk] = DOMAIN sks
         /\ [sks EXCEPT ![i] = sk][i] = sk
         /\ \A j \in DOMAIN sks : j # i => [sks EXCEPT ![i] = sk][j] = sks[j]
  BY ExceptSeq, LenProperties

\* The sockets there are.
LEMMA SocketsTyped ==
  ASSUME TypeOK
  PROVE  /\ socks \in Seq(Sock) /\ Len(socks) \in Nat /\ DOMAIN socks = 1 .. Len(socks)
         /\ \A i \in DOMAIN socks : socks[i] \in Sock /\ socks[i].wire \in Seq(Frame)
  <1>1. socks \in Seq(Sock)
    BY DEF TypeOK
  <1>2. Len(socks) \in Nat /\ DOMAIN socks = 1 .. Len(socks)
    BY <1>1, LenProperties
  <1>3. \A i \in DOMAIN socks : socks[i] \in Sock
    BY <1>1, <1>2, ElementOfSeq
  <1>4. \A sk \in Sock : sk.wire \in Seq(Frame)
    BY DEF Sock
  <1> QED
    BY <1>1, <1>2, <1>3, <1>4

\* connect() adds a socket.
LEMMA ConnectIs ==
  ASSUME TypeOK, Connect
  PROVE  /\ socks' \in Seq(Sock) /\ Len(socks') = Len(socks) + 1
         /\ DOMAIN socks' = 1 .. Len(socks) + 1
         /\ \A i \in DOMAIN socks : socks'[i] = socks[i]
         /\ socks'[Len(socks) + 1].state = "connecting" /\ socks'[Len(socks) + 1].wire = <<>>
         /\ connection' = "connecting"
  <1>1. NewSock \in Sock /\ NewSock.state = "connecting" /\ NewSock.wire = <<>>
    BY EmptySeq DEF NewSock, Sock
  <1>2. socks' = Append(socks, NewSock) /\ connection' = "connecting"
    BY DEF Connect
  <1> QED
    BY <1>1, <1>2, SocketsTyped, PushIs

\* onclose ends a socket and its wire.
LEMMA OnCloseIs ==
  ASSUME TypeOK, NEW i \in DOMAIN socks, OnClose(i)
  PROVE  /\ socks' \in Seq(Sock) /\ Len(socks') = Len(socks) /\ DOMAIN socks' = DOMAIN socks
         /\ socks'[i].state = "closed" /\ socks'[i].wire = <<>>
         /\ \A j \in DOMAIN socks : j # i => socks'[j] = socks[j]
         /\ ~closed => timers' = timers + 1 /\ connection' = "offline"
         /\ closed => timers' = timers /\ connection' = connection
  <1> DEFINE sk == [socks[i] EXCEPT !.state = "closed", !.wire = <<>>]
  <1>1. sk \in Sock /\ sk.state = "closed" /\ sk.wire = <<>>
    BY SocketsTyped, EmptySeq DEF Sock
  <1>2. socks' = [socks EXCEPT ![i] = sk]
    BY SocketsTyped DEF OnClose
  <1>3. /\ ~closed => timers' = timers + 1 /\ connection' = "offline"
        /\ closed => timers' = timers /\ connection' = connection
    BY DEF OnClose, Backoff
  <1> HIDE DEF sk
  <1> QED
    BY <1>1, <1>2, <1>3, SocketsTyped, ReplaceIs

\* close() of the newest socket, if it lives.
LEMMA CloseLatestIs ==
  ASSUME TypeOK, CloseLatest
  PROVE  /\ socks' \in Seq(Sock) /\ Len(socks') = Len(socks) /\ DOMAIN socks' = DOMAIN socks
         /\ \A i \in DOMAIN socks :
              /\ i = Len(socks) /\ i \in LiveSocks =>
                   socks'[i].state = "closing" /\ socks'[i].wire = socks[i].wire
              /\ ~(i = Len(socks) /\ i \in LiveSocks) => socks'[i] = socks[i]
  <1>1. \A i \in DOMAIN socks :
          /\ [socks[i] EXCEPT !.state = "closing"] \in Sock
          /\ [socks[i] EXCEPT !.state = "closing"].state = "closing"
          /\ [socks[i] EXCEPT !.state = "closing"].wire = socks[i].wire
    BY SocketsTyped DEF Sock
  <1>2. /\ socks' = [i \in DOMAIN socks |-> socks'[i]]
        /\ \A i \in DOMAIN socks :
             socks'[i] = IF i = Len(socks) /\ i \in LiveSocks
                         THEN [socks[i] EXCEPT !.state = "closing"] ELSE socks[i]
    BY DEF CloseLatest
  <1>3. \A i \in DOMAIN socks : socks'[i] \in Sock
    BY <1>1, <1>2, SocketsTyped
  <1>4. socks' \in Seq(Sock) /\ Len(socks') = Len(socks) /\ DOMAIN socks' = DOMAIN socks
    BY <1>2, <1>3, SocketsTyped, SocksAre
  <1> QED
    BY <1>1, <1>2, <1>4

\* The sockets once the upgrade of one is accepted and its list sent.
Accepted(i) == [socks EXCEPT ![i] = Send([@ EXCEPT !.state = "open"], ListFrame(live))]

\* It is open, and the list stands at the end of its wire.
LEMMA AcceptedIs ==
  ASSUME TypeOK, NEW i \in DOMAIN socks
  PROVE  /\ Accepted(i) \in Seq(Sock) /\ Len(Accepted(i)) = Len(socks) /\ DOMAIN Accepted(i) = DOMAIN socks
         /\ Accepted(i)[i].state = "open"
         /\ Accepted(i)[i].wire = Append(socks[i].wire, ListFrame(live))
         /\ \A j \in DOMAIN socks : j # i => Accepted(i)[j] = socks[j]
  <1> DEFINE sk == [socks[i] EXCEPT !.state = "open"]
             nk == Send(sk, ListFrame(live))
  <1>1. sk \in Sock /\ sk.state = "open" /\ sk.wire = socks[i].wire
    BY SocketsTyped DEF Sock
  <1>2. ListFrame(live) \in Frame
    BY FramesAre DEF TypeOK
  <1>3. Accepted(i) = [socks EXCEPT ![i] = nk]
    BY SocketsTyped DEF Accepted
  <1> HIDE DEF sk
  <1>4. nk \in Sock /\ nk.state = "open" /\ nk.wire = Append(socks[i].wire, ListFrame(live))
    BY <1>1, <1>2, SendIs
  <1> HIDE DEF nk
  <1> QED
    BY <1>3, <1>4, SocketsTyped, ReplaceIs

\* The sockets once the first frame of one has been taken.
Taken(i) == [socks EXCEPT ![i].wire = Tail(@)]

\* The rest of its wire is left.
LEMMA TakenIs ==
  ASSUME TypeOK, NEW i \in DOMAIN socks, socks[i].wire # <<>>
  PROVE  /\ Taken(i) \in Seq(Sock) /\ Len(Taken(i)) = Len(socks) /\ DOMAIN Taken(i) = DOMAIN socks
         /\ Taken(i)[i].state = socks[i].state /\ Taken(i)[i].subscribed = socks[i].subscribed
         /\ Taken(i)[i].wire = Tail(socks[i].wire)
         /\ \A j \in DOMAIN socks : j # i => Taken(i)[j] = socks[j]
         /\ Head(socks[i].wire) \in Frame
  <1> DEFINE sk == [socks[i] EXCEPT !.wire = Tail(socks[i].wire)]
  <1>1. Tail(socks[i].wire) \in Seq(Frame) /\ Head(socks[i].wire) \in Frame
    BY SocketsTyped, ShiftIs
  <1>2. /\ sk \in Sock /\ sk.state = socks[i].state /\ sk.subscribed = socks[i].subscribed
        /\ sk.wire = Tail(socks[i].wire)
    BY <1>1, SocketsTyped DEF Sock
  <1>3. Taken(i) = [socks EXCEPT ![i] = sk]
    BY SocketsTyped DEF Taken
  <1> HIDE DEF sk
  <1> QED
    BY <1>1, <1>2, <1>3, SocketsTyped, ReplaceIs

\* A worker's event goes to every open socket.
LEMMA WorkerEventIs ==
  ASSUME TypeOK, NEW s \in Sids, WorkerEvent(s)
  PROVE  /\ socks' \in Seq(Sock) /\ Len(socks') = Len(socks) /\ DOMAIN socks' = DOMAIN socks
         /\ events[s] + 1 \in 1 .. MaxEvents
         /\ \A i \in DOMAIN socks :
              /\ socks'[i].state = socks[i].state /\ socks'[i].subscribed = socks[i].subscribed
              /\ socks[i].state # "open" => socks'[i] = socks[i]
              /\ socks[i].state = "open" =>
                   \E f \in Frame : /\ socks'[i].wire = Append(socks[i].wire, f)
                                    /\ f.sid = s /\ f.n = events[s] + 1
                                    /\ f.type = IF socks[i].subscribed = s THEN "event" ELSE "notify"
  <1> DEFINE n == events[s] + 1
  <1>1. n \in 1 .. MaxEvents
    BY BrowserOK DEF WorkerEvent, TypeOK
  <1>2. /\ socks' = [i \in DOMAIN socks |-> socks'[i]]
        /\ \A i \in DOMAIN socks : socks'[i] = FanOut(socks[i], s, n)
    BY DEF WorkerEvent
  <1> HIDE DEF n
  <1>3. \A i \in DOMAIN socks : socks'[i] \in Sock
    BY <1>1, <1>2, SocketsTyped, FanOutIs
  <1>4. socks' \in Seq(Sock) /\ Len(socks') = Len(socks) /\ DOMAIN socks' = DOMAIN socks
    BY <1>2, <1>3, SocketsTyped, SocksAre
  <1>5. ASSUME NEW i \in DOMAIN socks
        PROVE  /\ socks'[i].state = socks[i].state /\ socks'[i].subscribed = socks[i].subscribed
               /\ socks[i].state # "open" => socks'[i] = socks[i]
               /\ socks[i].state = "open" =>
                    \E f \in Frame : /\ socks'[i].wire = Append(socks[i].wire, f)
                                     /\ f.sid = s /\ f.n = n
                                     /\ f.type = IF socks[i].subscribed = s THEN "event" ELSE "notify"
    <2>1. socks[i] \in Sock /\ socks'[i] = FanOut(socks[i], s, n)
      BY <1>2, SocketsTyped
    <2> QED
      BY <1>1, <2>1, FanOutIs
  <1> QED
    BY <1>1, <1>4, <1>5 DEF n

-----------------------------------------------------------------------------
(* Arrivals *)

\* What becomes of the sessions, the open one and the sockets when the first frame of a socket arrives.
LEMMA DeliverIs ==
  ASSUME TypeOK, NEW i \in DOMAIN socks, Deliver(i), NEW f, f = Head(socks[i].wire)
  PROVE  /\ socks[i].state = "open" /\ socks[i].wire # <<>> /\ f \in Frame
         /\ \/ /\ f.type = "sessions" /\ screen = "home" /\ sessions' = f.list
               /\ activeId = None /\ wanted \in Sids /\ Listed(f.list, wanted)
               /\ activeId' = wanted /\ wanted' = None /\ shown' = <<>>
               /\ socks' = subscribe(Taken(i), wanted)
            \/ /\ f.type = "sessions" /\ screen = "home" /\ sessions' = f.list
               /\ activeId \in Sids /\ Listed(f.list, activeId) /\ ~Listed(sessions, activeId)
               /\ activeId' = activeId /\ wanted' = wanted /\ shown' = <<>>
               /\ socks' = subscribe(Taken(i), activeId)
            \/ /\ f.type = "sessions" /\ screen = "home" /\ sessions' = f.list
               /\ ~(Listed(f.list, activeId) /\ ~Listed(sessions, activeId))
               /\ activeId' = activeId /\ wanted' = wanted /\ shown' = shown
               /\ socks' = Taken(i)
            \/ /\ f.type # "sessions" \/ screen # "home"
               /\ sessions' = sessions /\ activeId' = activeId /\ wanted' = wanted
               /\ shown' = IF f.type \in {"history", "event"} /\ f.sid = activeId /\ Listed(sessions, activeId)
                           THEN Draw(f) ELSE shown
               /\ socks' = Taken(i)
         /\ notes' = IF f.type \in {"event", "notify"} THEN [notes EXCEPT ![<<f.sid, f.n>>] = @ + 1] ELSE notes
         /\ UNCHANGED <<valid, screen, closed, timers, connection, serverVars, drops, retries, unpushed, doubled,
                        leftover>>
  <1>1. socks[i].state = "open" /\ socks[i].wire # <<>> /\ f \in Frame
    BY TakenIs DEF Deliver, Open
  <1>2. /\ notes' = IF f.type \in {"event", "notify"} THEN [notes EXCEPT ![<<f.sid, f.n>>] = @ + 1] ELSE notes
        /\ UNCHANGED <<valid, screen, closed, timers, connection, serverVars, drops, retries, unpushed, doubled,
                       leftover>>
    BY DEF Deliver
  <1>3. CASE f.type = "sessions" /\ screen = "home"
    <2>1. TakeList(f.list, Taken(i))
      BY <1>3 DEF Deliver, Taken
    <2>2. activeId \in Sids \cup {None} /\ wanted \in Sids \cup {None}
      BY DEF TypeOK
    <2>3. CASE activeId = None /\ Listed(f.list, wanted)
      BY <1>1, <1>2, <1>3, <2>1, <2>2, <2>3 DEF TakeList, Listed
    <2>4. CASE ~(activeId = None /\ Listed(f.list, wanted)) /\ Listed(f.list, activeId)
                 /\ ~Listed(sessions, activeId)
      BY <1>1, <1>2, <1>3, <2>1, <2>2, <2>4 DEF TakeList, Listed
    <2>5. CASE ~(activeId = None /\ Listed(f.list, wanted))
                 /\ ~(Listed(f.list, activeId) /\ ~Listed(sessions, activeId))
      BY <1>1, <1>2, <1>3, <2>1, <2>5 DEF TakeList
    <2> QED
      BY <2>3, <2>4, <2>5
  <1>4. CASE ~(f.type = "sessions" /\ screen = "home")
    BY <1>1, <1>2, <1>4 DEF Deliver, Taken
  <1> QED
    BY <1>3, <1>4

\* The sockets and the screen keep their types whatever arrives.
LEMMA DeliverTyped ==
  ASSUME TypeOK, NEW i \in DOMAIN socks, Deliver(i)
  PROVE  /\ socks' \in Seq(Sock) /\ shown' \in Seq(1 .. MaxEvents) /\ sessions' \in Lists
         /\ {activeId', wanted'} \subseteq Sids \cup {None} /\ notes' \in [EventIds -> Nat]
  <1>1. PICK f : f = Head(socks[i].wire)
    OBVIOUS
  <1>2. /\ socks[i].wire # <<>> /\ f \in Frame
        /\ \/ /\ f.type = "sessions" /\ sessions' = f.list /\ wanted \in Sids
              /\ activeId' = wanted /\ wanted' = None /\ shown' = <<>>
              /\ socks' = subscribe(Taken(i), wanted)
           \/ /\ f.type = "sessions" /\ sessions' = f.list /\ activeId \in Sids
              /\ activeId' = activeId /\ wanted' = wanted /\ shown' = <<>>
              /\ socks' = subscribe(Taken(i), activeId)
           \/ /\ f.type = "sessions" /\ sessions' = f.list
              /\ activeId' = activeId /\ wanted' = wanted /\ shown' = shown
              /\ socks' = Taken(i)
           \/ /\ sessions' = sessions /\ activeId' = activeId /\ wanted' = wanted
              /\ shown' = IF f.type \in {"history", "event"} /\ f.sid = activeId /\ Listed(sessions, activeId)
                          THEN Draw(f) ELSE shown
              /\ socks' = Taken(i)
        /\ notes' = IF f.type \in {"event", "notify"} THEN [notes EXCEPT ![<<f.sid, f.n>>] = @ + 1] ELSE notes
    BY <1>1, DeliverIs
  <1>3. Taken(i) \in Seq(Sock)
    BY <1>2, TakenIs
  <1>4. \A s \in Sids : subscribe(Taken(i), s) \in Seq(Sock)
    BY <1>3, SubscribeIs
  <1>5. /\ f.type = "sessions" => f.list \in Lists
        /\ f.type \in {"event", "notify"} => f.sid \in Sids /\ f.n \in 1 .. MaxEvents
        /\ f.type = "history" => f.n \in 0 .. MaxEvents
    BY <1>2 DEF Frame
  <1>6. shown \in Seq(1 .. MaxEvents) /\ <<>> \in Seq(1 .. MaxEvents)
    BY EmptySeq DEF TypeOK
  <1>7. ASSUME f.type \in {"history", "event"}
        PROVE  Draw(f) \in Seq(1 .. MaxEvents)
    <2>1. CASE f.type = "history"
      <3>1. f.n \in Nat /\ f.n <= MaxEvents /\ MaxEvents \in Nat
        BY <1>5, <2>1, BrowserOK
      <3>2. Draw(f) = [k \in 1 .. f.n |-> k]
        BY <2>1 DEF Draw
      <3>3. Draw(f) \in [1 .. f.n -> 1 .. MaxEvents]
        BY <3>1, <3>2
      <3> QED
        BY <3>1, <3>3, SeqDef
    <2>2. CASE f.type = "event"
      BY <1>5, <1>6, <2>2, PushIs DEF Draw
    <2> QED
      BY <1>7, <2>1, <2>2
  <1>8. notes' \in [EventIds -> Nat]
    BY <1>2, <1>5 DEF TypeOK, EventIds
  <1>9. socks' \in Seq(Sock) /\ sessions' \in Lists
    BY <1>2, <1>3, <1>4, <1>5 DEF TypeOK
  <1>10. shown' \in Seq(1 .. MaxEvents)
    BY <1>2, <1>6, <1>7
  <1>11. {activeId', wanted'} \subseteq Sids \cup {None}
    BY <1>2 DEF TypeOK
  <1> QED
    BY <1>8, <1>9, <1>10, <1>11

-----------------------------------------------------------------------------
(* Types *)

\* Every variable has its type at the start.
LEMMA InitType == Init => TypeOK
  <1> SUFFICES ASSUME Init PROVE TypeOK
    OBVIOUS
  <1>1. socks \in Seq(Sock) /\ shown \in Seq(1 .. MaxEvents)
    BY EmptySeq DEF Init
  <1>2. sessions \in Lists /\ live \in [Sids -> {"none", "active", "offline", "gone"}]
    BY DEF Init, Lists
  <1>3. notes \in [EventIds -> Nat] /\ events \in [Sids -> 0 .. MaxEvents]
    BY BrowserOK DEF Init
  <1>4. valid \in BOOLEAN /\ {closed, unpushed, doubled, leftover} \subseteq BOOLEAN
    BY DEF Init
  <1>5. /\ screen \in {"checking", "gate", "home"} /\ connection \in {"connecting", "online", "offline"}
        /\ {timers, changes, drops, retries} \subseteq Nat /\ {activeId, wanted} \subseteq Sids \cup {None}
    BY DEF Init
  <1> QED
    BY <1>1, <1>2, <1>3, <1>4, <1>5 DEF TypeOK

\* Each step keeps the types.
LEMMA TypeStep ==
  ASSUME TypeOK, [Next]_vars
  PROVE  TypeOK'
  <1> USE BrowserOK
  <1>0. socks \in Seq(Sock) /\ <<>> \in Seq(1 .. MaxEvents)
    BY EmptySeq DEF TypeOK
  <1>1. ASSUME NEW s \in Sids, WorkerEvent(s)
        PROVE  TypeOK'
    <2>1. socks' \in Seq(Sock)
      BY <1>1, WorkerEventIs
    <2>2. events' \in [Sids -> 0 .. MaxEvents]
      BY <1>1 DEF WorkerEvent, TypeOK
    <2> QED
      BY <1>1, <2>1, <2>2 DEF WorkerEvent, TypeOK, homeVars
  <1>2. ASSUME NEW s \in Sids, NEW st \in {"active", "offline", "gone"}, SessionChange(s, st)
        PROVE  TypeOK'
    <2>1. live' \in [Sids -> {"none", "active", "offline", "gone"}]
      BY <1>2 DEF SessionChange, TypeOK
    <2>2. socks' \in Seq(Sock)
      BY <1>0, <1>2, <2>1, PushListIs DEF SessionChange
    <2> QED
      BY <1>2, <2>1, <2>2 DEF SessionChange, TypeOK, homeVars
  <1>3. ASSUME NEW i \in DOMAIN socks, Opened(i)
        PROVE  TypeOK'
    <2>1. Accepted(i) \in Seq(Sock)
      BY AcceptedIs
    <2>2. \A s \in Sids : subscribe(Accepted(i), s) \in Seq(Sock)
      BY <2>1, SubscribeIs
    <2>3. activeId \in Sids \cup {None}
      BY DEF TypeOK
    <2>4. OnOpen(Accepted(i)) \in Seq(Sock)
      BY <2>1, <2>2, <2>3 DEF OnOpen
    <2>5. socks' \in Seq(Sock) /\ connection' \in {"connecting", "online", "offline"}
      BY <1>3, <2>1, <2>4 DEF Opened, Accepted, TypeOK
    <2> QED
      BY <1>3, <2>5 DEF Opened, TypeOK, homeVars, serverVars
  <1>4. ASSUME NEW i \in DOMAIN socks, OnClose(i)
        PROVE  /\ socks' \in Seq(Sock) /\ timers' \in Nat
               /\ connection' \in {"connecting", "online", "offline"}
    BY <1>4, OnCloseIs DEF TypeOK
  <1>5. ASSUME NEW i \in DOMAIN socks, Drop(i)
        PROVE  TypeOK'
    BY <1>4, <1>5 DEF Drop, TypeOK, homeVars, serverVars
  <1>6. ASSUME NEW i \in DOMAIN socks, ClosingDone(i)
        PROVE  TypeOK'
    BY <1>4, <1>6 DEF ClosingDone, TypeOK, homeVars, serverVars
  <1>7. ASSUME Connect
        PROVE  socks' \in Seq(Sock) /\ connection' \in {"connecting", "online", "offline"}
    BY <1>7, ConnectIs
  <1>8. CASE TimerFires
    BY <1>7, <1>8 DEF TimerFires, TypeOK, homeVars, serverVars
  <1>9. CASE Retry
    <2>1. socks' \in Seq(Sock) /\ connection' \in {"connecting", "online", "offline"} /\ doubled' \in BOOLEAN
      BY <1>7, <1>9, CloseLatestIs DEF Retry, TypeOK
    <2> QED
      BY <1>9, <2>1 DEF Retry, TypeOK, homeVars, serverVars
  <1>10. ASSUME NEW a \in {"ok", "rejected", "unreachable"}, Checked(a)
         PROVE  TypeOK'
    <2>1. socks' \in Seq(Sock) /\ connection' \in {"connecting", "online", "offline"} /\ screen' \in {"gate", "home"}
      BY <1>7, <1>10 DEF Checked, TypeOK
    <2> QED
      BY <1>10, <2>1 DEF Checked, TypeOK, homeVars, serverVars
  <1>11. CASE LogIn
    BY <1>7, <1>11 DEF LogIn, TypeOK, homeVars, serverVars
  <1>12. CASE LogOut
    <2>1. socks' \in Seq(Sock)
      BY <1>12, CloseLatestIs DEF LogOut
    <2>2. sessions' \in Lists /\ leftover' \in BOOLEAN
      BY <1>12 DEF LogOut, Lists
    <2> QED
      BY <1>12, <2>1, <2>2 DEF LogOut, TypeOK, serverVars
  <1>13. ASSUME NEW s \in Sids, OpenSession(s)
         PROVE  TypeOK'
    <2>1. socks' \in Seq(Sock)
      BY <1>0, <1>13, SubscribeIs DEF OpenSession
    <2> QED
      BY <1>0, <1>13, <2>1 DEF OpenSession, TypeOK, serverVars
  <1>14. ASSUME NEW s \in Sids, NEW fails \in BOOLEAN, DeleteSession(s, fails)
         PROVE  TypeOK'
    <2>1. /\ activeId' \in Sids \cup {None} /\ shown' \in Seq(1 .. MaxEvents)
          /\ live' \in [Sids -> {"none", "active", "offline", "gone"}] /\ unpushed' \in BOOLEAN
      BY <1>0, <1>14 DEF DeleteSession, TypeOK
    <2>2. socks' \in Seq(Sock)
      BY <1>0, <1>14, <2>1, PushListIs DEF DeleteSession
    <2> QED
      BY <1>14, <2>1, <2>2 DEF DeleteSession, TypeOK
  <1>15. CASE Back
    <2>1. \A s \in Sids : subscribe(socks, s) \in Seq(Sock)
      BY <1>0, SubscribeIs
    <2>2. socks' \in Seq(Sock) /\ {activeId', wanted'} \subseteq Sids \cup {None}
      BY <1>0, <1>15, <2>1 DEF Back, Listed, TypeOK
    <2> QED
      BY <1>0, <1>15, <2>2 DEF Back, TypeOK, serverVars
  <1>16. ASSUME NEW i \in DOMAIN socks, Deliver(i)
         PROVE  TypeOK'
    <2>1. /\ socks' \in Seq(Sock) /\ shown' \in Seq(1 .. MaxEvents) /\ sessions' \in Lists
          /\ {activeId', wanted'} \subseteq Sids \cup {None} /\ notes' \in [EventIds -> Nat]
      BY <1>16, DeliverTyped
    <2> QED
      BY <1>16, <2>1 DEF Deliver, TypeOK, serverVars
  <1>17. CASE UNCHANGED vars
    BY <1>17 DEF vars, socketVars, homeVars, serverVars, TypeOK
  <1> QED
    BY <1>1, <1>2, <1>3, <1>5, <1>6, <1>8, <1>9, <1>10, <1>11, <1>12, <1>13, <1>14, <1>15, <1>16, <1>17 DEF Next

-----------------------------------------------------------------------------
(* Where the page stands, step by step *)

\* A step that opens, closes and adds no socket.
Still ==
  /\ Len(socks') = Len(socks) /\ DOMAIN socks' = DOMAIN socks
  /\ \A i \in DOMAIN socks :
       socks'[i].state = socks[i].state /\ (socks[i].state # "open" => socks'[i] = socks[i])
  /\ UNCHANGED <<screen, closed, timers, connection, doubled, leftover>>
  /\ screen # "home" => activeId' = activeId

\* What the server sends, the reader's way through the sessions and arrivals leave the sockets there are.
LEMMA StillIs ==
  ASSUME TypeOK
  PROVE  /\ \A s \in Sids : WorkerEvent(s) => Still
         /\ \A s \in Sids, st \in {"active", "offline", "gone"} : SessionChange(s, st) => Still
         /\ \A s \in Sids : OpenSession(s) => Still
         /\ \A s \in Sids, fails \in BOOLEAN : DeleteSession(s, fails) => Still
         /\ Back => Still
         /\ \A i \in DOMAIN socks : Deliver(i) => Still
         /\ UNCHANGED vars => Still
  <1>0. socks \in Seq(Sock) /\ activeId \in Sids \cup {None} /\ wanted \in Sids \cup {None}
    BY DEF TypeOK
  <1>1. ASSUME NEW s \in Sids, WorkerEvent(s)
        PROVE  Still
    <2>1. /\ Len(socks') = Len(socks) /\ DOMAIN socks' = DOMAIN socks
          /\ \A i \in DOMAIN socks :
               socks'[i].state = socks[i].state /\ (socks[i].state # "open" => socks'[i] = socks[i])
      BY <1>1, WorkerEventIs
    <2> QED
      BY <1>1, <2>1 DEF Still, WorkerEvent, homeVars
  <1>2. ASSUME NEW s \in Sids, NEW st \in {"active", "offline", "gone"}, SessionChange(s, st)
        PROVE  Still
    <2>1. live' \in [Sids -> {"none", "active", "offline", "gone"}] /\ socks' = pushList(socks, live')
      BY <1>2 DEF SessionChange, TypeOK
    <2>2. /\ Len(socks') = Len(socks) /\ DOMAIN socks' = DOMAIN socks
          /\ \A i \in DOMAIN socks :
               socks'[i].state = socks[i].state /\ (socks[i].state # "open" => socks'[i] = socks[i])
      BY <1>0, <2>1, PushListIs
    <2> QED
      BY <1>2, <2>2 DEF Still, SessionChange, homeVars
  <1>3. ASSUME NEW s \in Sids, socks' = subscribe(socks, s)
        PROVE  /\ Len(socks') = Len(socks) /\ DOMAIN socks' = DOMAIN socks
               /\ \A i \in DOMAIN socks :
                    socks'[i].state = socks[i].state /\ (socks[i].state # "open" => socks'[i] = socks[i])
    BY <1>0, <1>3, SubscribeIs
  <1>4. ASSUME NEW s \in Sids, OpenSession(s)
        PROVE  Still
    BY <1>3, <1>4 DEF Still, OpenSession
  <1>5. ASSUME NEW s \in Sids, NEW fails \in BOOLEAN, DeleteSession(s, fails)
        PROVE  Still
    <2>1. live' \in [Sids -> {"none", "active", "offline", "gone"}]
      BY <1>5 DEF DeleteSession, TypeOK
    <2>2. socks' = socks \/ socks' = pushList(socks, live')
      BY <1>5 DEF DeleteSession
    <2>3. /\ Len(socks') = Len(socks) /\ DOMAIN socks' = DOMAIN socks
          /\ \A i \in DOMAIN socks :
               socks'[i].state = socks[i].state /\ (socks[i].state # "open" => socks'[i] = socks[i])
      BY <1>0, <2>1, <2>2, PushListIs
    <2> QED
      BY <1>5, <2>3 DEF Still, DeleteSession
  <1>6. ASSUME Back
        PROVE  Still
    <2>1. socks' = socks \/ (wanted \in Sids /\ socks' = subscribe(socks, wanted))
      BY <1>0, <1>6 DEF Back, Listed
    <2>2. /\ Len(socks') = Len(socks) /\ DOMAIN socks' = DOMAIN socks
          /\ \A i \in DOMAIN socks :
               socks'[i].state = socks[i].state /\ (socks[i].state # "open" => socks'[i] = socks[i])
      BY <1>3, <2>1
    <2> QED
      BY <1>6, <2>2 DEF Still, Back
  <1>7. ASSUME NEW i \in DOMAIN socks, Deliver(i)
        PROVE  Still
    <2>1. /\ socks[i].state = "open" /\ socks[i].wire # <<>>
          /\ socks' = Taken(i) \/ \E s \in Sids : socks' = subscribe(Taken(i), s)
          /\ screen # "home" => activeId' = activeId
          /\ UNCHANGED <<screen, closed, timers, connection, doubled, leftover>>
      <3>1. PICK f : f = Head(socks[i].wire)
        OBVIOUS
      <3> QED
        BY <1>7, <3>1, DeliverIs
    <2>2. /\ Taken(i) \in Seq(Sock) /\ Len(Taken(i)) = Len(socks) /\ DOMAIN Taken(i) = DOMAIN socks
          /\ \A j \in DOMAIN socks : Taken(i)[j].state = socks[j].state /\ (j # i => Taken(i)[j] = socks[j])
      BY <2>1, TakenIs
    <2>3. \A s \in Sids :
            /\ Len(subscribe(Taken(i), s)) = Len(Taken(i)) /\ DOMAIN subscribe(Taken(i), s) = DOMAIN Taken(i)
            /\ \A j \in DOMAIN Taken(i) :
                 /\ subscribe(Taken(i), s)[j].state = Taken(i)[j].state
                 /\ Taken(i)[j].state # "open" => subscribe(Taken(i), s)[j] = Taken(i)[j]
      BY <2>2, SubscribeIs
    <2>4. /\ Len(socks') = Len(socks) /\ DOMAIN socks' = DOMAIN socks
          /\ \A j \in DOMAIN socks :
               socks'[j].state = socks[j].state /\ (socks[j].state # "open" => socks'[j] = socks[j])
      BY <2>1, <2>2, <2>3
    <2> QED
      BY <2>1, <2>4 DEF Still
  <1>8. ASSUME UNCHANGED vars
        PROVE  Still
    BY <1>8 DEF Still, vars, socketVars, homeVars
  <1> QED
    BY <1>1, <1>2, <1>4, <1>5, <1>6, <1>7, <1>8

\* Every step is still, or opens, closes or adds a socket.
LEMMA StepKinds ==
  ASSUME TypeOK, [Next]_vars
  PROVE  \/ Still
         \/ \E i \in DOMAIN socks : Opened(i) \/ Drop(i) \/ ClosingDone(i)
         \/ TimerFires \/ Retry \/ LogIn \/ LogOut
         \/ \E a \in {"ok", "rejected", "unreachable"} : Checked(a)
  BY StillIs DEF Next

\* What is accepted is open, with an empty wire no more; the rest is as it was.
LEMMA OpenedIs ==
  ASSUME TypeOK, NEW i \in DOMAIN socks, Opened(i)
  PROVE  /\ Len(socks') = Len(socks) /\ DOMAIN socks' = DOMAIN socks
         /\ socks[i].state = "connecting" /\ socks'[i].state = "open"
         /\ \A j \in DOMAIN socks : j # i =>
              socks'[j].state = socks[j].state /\ (socks[j].state # "open" => socks'[j] = socks[j])
         /\ screen = "home" => connection' = "online"
         /\ screen # "home" => connection' = connection
         /\ UNCHANGED <<screen, closed, timers, activeId, doubled, leftover>>
  <1>1. /\ Accepted(i) \in Seq(Sock) /\ Len(Accepted(i)) = Len(socks) /\ DOMAIN Accepted(i) = DOMAIN socks
        /\ Accepted(i)[i].state = "open"
        /\ \A j \in DOMAIN socks : j # i => Accepted(i)[j] = socks[j]
    BY AcceptedIs
  <1>2. \A s \in Sids :
          /\ Len(subscribe(Accepted(i), s)) = Len(Accepted(i))
          /\ DOMAIN subscribe(Accepted(i), s) = DOMAIN Accepted(i)
          /\ \A j \in DOMAIN Accepted(i) :
               /\ subscribe(Accepted(i), s)[j].state = Accepted(i)[j].state
               /\ Accepted(i)[j].state # "open" => subscribe(Accepted(i), s)[j] = Accepted(i)[j]
    BY <1>1, SubscribeIs
  <1>3. socks' = Accepted(i) \/ \E s \in Sids : socks' = subscribe(Accepted(i), s)
    BY DEF Opened, Accepted, OnOpen, TypeOK
  <1>4. /\ socks[i].state = "connecting"
        /\ screen = "home" => connection' = "online"
        /\ screen # "home" => connection' = connection
        /\ UNCHANGED <<screen, closed, timers, activeId, doubled, leftover>>
    BY DEF Opened, homeVars
  <1> QED
    BY <1>1, <1>2, <1>3, <1>4

\* Wires of sockets that are not open stay empty.
LEMMA WiresEmptyStep ==
  ASSUME TypeOK, WiresEmpty, [Next]_vars
  PROVE  WiresEmpty'
  <1>1. CASE Still
    BY <1>1 DEF Still, WiresEmpty
  <1>2. ASSUME NEW i \in DOMAIN socks, Opened(i)
        PROVE  WiresEmpty'
    BY <1>2, OpenedIs DEF WiresEmpty
  <1>3. ASSUME NEW i \in DOMAIN socks, OnClose(i)
        PROVE  WiresEmpty'
    BY <1>3, OnCloseIs DEF WiresEmpty
  <1>4. ASSUME Connect
        PROVE  WiresEmpty'
    <2>1. \A i \in DOMAIN socks' : i \in DOMAIN socks \/ i = Len(socks) + 1
      BY <1>4, ConnectIs, SocketsTyped
    <2> QED
      BY <1>4, <2>1, ConnectIs DEF WiresEmpty
  <1>5. ASSUME CloseLatest
        PROVE  WiresEmpty'
    BY <1>5, CloseLatestIs DEF WiresEmpty
  <1>6. ASSUME UNCHANGED socks
        PROVE  WiresEmpty'
    BY <1>6 DEF WiresEmpty
  <1> QED
    BY <1>1, <1>2, <1>3, <1>4, <1>5, <1>6, StepKinds
    DEF Drop, ClosingDone, TimerFires, Retry, LogIn, LogOut, Checked

\* The screen and the banner stay true.
LEMMA ScreenStep ==
  ASSUME TypeOK, ScreenTrue, OnlineOpen, [Next]_vars
  PROVE  ScreenTrue' /\ OnlineOpen'
  <1>0. TypeOK'
    BY TypeStep
  <1>1. socks \in Seq(Sock) /\ socks' \in Seq(Sock)
    BY <1>0 DEF TypeOK
  <1>2. (socks = <<>> <=> Len(socks) = 0) /\ (socks' = <<>> <=> Len(socks') = 0)
    BY <1>1, EmptySeq
  <1>3. CASE Still
    BY <1>2, <1>3 DEF Still, ScreenTrue, OnlineOpen, Open
  <1>4. ASSUME NEW i \in DOMAIN socks
        PROVE  socks # <<>>
    BY <1>4, SocketsTyped
  <1>5. ASSUME NEW i \in DOMAIN socks, Opened(i)
        PROVE  ScreenTrue' /\ OnlineOpen'
    BY <1>2, <1>4, <1>5, OpenedIs DEF ScreenTrue, OnlineOpen, Open
  <1>6. ASSUME NEW i \in DOMAIN socks, OnClose(i), UNCHANGED <<screen, closed, activeId>>
        PROVE  ScreenTrue' /\ OnlineOpen'
    <2>1. Len(socks') = Len(socks) /\ socks # <<>>
      BY <1>4, <1>6, OnCloseIs
    <2>2. CASE closed
      BY <1>2, <1>6, <2>1, <2>2 DEF ScreenTrue, OnlineOpen
    <2>3. CASE ~closed
      BY <1>2, <1>6, <2>1, <2>3, OnCloseIs DEF ScreenTrue, OnlineOpen
    <2> QED
      BY <2>2, <2>3
  <1>7. ASSUME NEW i \in DOMAIN socks, Drop(i) \/ ClosingDone(i)
        PROVE  ScreenTrue' /\ OnlineOpen'
    BY <1>6, <1>7 DEF Drop, ClosingDone, homeVars
  <1>8. ASSUME Connect
        PROVE  socks' # <<>> /\ connection' = "connecting"
    BY <1>2, <1>8, ConnectIs, SocketsTyped
  <1>9. CASE TimerFires
    <2>1. socks' # <<>> /\ connection' = "connecting" /\ timers > 0 /\ UNCHANGED <<screen, closed, activeId>>
      BY <1>8, <1>9 DEF TimerFires, homeVars
    <2>2. timers # 0
      BY <2>1 DEF TypeOK
    <2> QED
      BY <2>1, <2>2 DEF ScreenTrue, OnlineOpen
  <1>10. CASE Retry
    <2>1. /\ screen = "home" /\ connection = "offline" /\ UNCHANGED <<screen, closed>>
          /\ (CloseLatest /\ connection' = connection) \/ Connect
      BY <1>10 DEF Retry
    <2>2. socks' # <<>>
      BY <1>2, <1>8, <2>1, CloseLatestIs DEF ScreenTrue
    <2>3. connection' # "online"
      BY <1>8, <2>1
    <2> QED
      BY <2>1, <2>2, <2>3 DEF ScreenTrue, OnlineOpen
  <1>11. CASE LogIn
    <2>1. socks' # <<>> /\ connection' = "connecting" /\ screen' = "home" /\ ~closed /\ closed' = closed
      BY <1>8, <1>11 DEF LogIn, ScreenTrue
    <2> QED
      BY <2>1 DEF ScreenTrue, OnlineOpen
  <1>12. CASE LogOut
    <2>1. closed' = TRUE /\ screen' = "gate" /\ activeId' = None /\ Len(socks') = Len(socks) /\ socks # <<>>
      BY <1>12, CloseLatestIs DEF LogOut, ScreenTrue
    <2> QED
      BY <1>2, <2>1 DEF ScreenTrue, OnlineOpen
  <1>13. ASSUME NEW a \in {"ok", "rejected", "unreachable"}, Checked(a)
         PROVE  ScreenTrue' /\ OnlineOpen'
    <2>1. screen = "checking" /\ UNCHANGED <<closed, timers, activeId>>
      BY <1>13 DEF Checked, homeVars
    <2>2. socks = <<>> /\ timers = 0 /\ activeId = None /\ ~closed
      BY <2>1 DEF ScreenTrue
    <2>3. CASE screen' = "gate" /\ UNCHANGED <<socks, connection>>
      BY <2>1, <2>2, <2>3 DEF ScreenTrue, OnlineOpen
    <2>4. CASE screen' = "home" /\ Connect
      BY <1>8, <2>1, <2>2, <2>4 DEF ScreenTrue, OnlineOpen
    <2> QED
      BY <1>13, <2>3, <2>4 DEF Checked
  <1> QED
    BY <1>3, <1>5, <1>7, <1>9, <1>10, <1>11, <1>12, <1>13, StepKinds

-----------------------------------------------------------------------------
(* One connection at a time *)

\* The connection is one socket or one timer, step by step.
LEMMA OneAtATimeStep ==
  ASSUME TypeOK, ScreenTrue, OneAtATime, [Next]_vars
  PROVE  OneAtATime'
  <1>0. timers \in Nat /\ Len(socks) \in Nat /\ DOMAIN socks = 1 .. Len(socks)
    BY SocketsTyped DEF TypeOK
  <1>1. CASE Still
    <2>1. Used' = Used /\ LiveSocks' = LiveSocks
      BY <1>1 DEF Still, Used, LiveSocks
    <2> QED
      BY <1>1, <2>1 DEF Still, OneAtATime
  <1>2. ASSUME NEW i \in DOMAIN socks, Opened(i)
        PROVE  OneAtATime'
    <2>1. Used' = Used /\ LiveSocks' = LiveSocks
      BY <1>2, OpenedIs DEF Used, LiveSocks
    <2>2. screen' = "home" => connection' = "online"
      BY <1>2, OpenedIs
    <2> QED
      BY <1>2, <2>1, <2>2, OpenedIs DEF OneAtATime
  <1>3. ASSUME NEW i \in DOMAIN socks, OnClose(i), i \in Used, UNCHANGED <<screen, closed, doubled, leftover>>
        PROVE  OneAtATime'
    <2> SUFFICES ASSUME ~doubled
                 PROVE  /\ Used' \subseteq {Len(socks')}
                        /\ timers' <= 1
                        /\ timers' = 1 => Used' = {}
                        /\ screen = "home" /\ connection' = "offline" => timers' = 1
                        /\ closed /\ ~leftover => LiveSocks' = {} /\ timers' = 0
      BY <1>3 DEF OneAtATime
    <2>1. Used = {i} /\ timers = 0
      BY <1>0, <1>3 DEF OneAtATime
    <2>2. Used' = {} /\ LiveSocks' = {}
      BY <1>3, <2>1, OnCloseIs DEF Used, LiveSocks
    <2>3. CASE closed
      BY <1>3, <2>1, <2>2, <2>3, OnCloseIs DEF ScreenTrue
    <2>4. CASE ~closed
      BY <1>3, <2>1, <2>2, <2>4, OnCloseIs
    <2> QED
      BY <2>3, <2>4
  <1>4. ASSUME NEW i \in DOMAIN socks, Drop(i) \/ ClosingDone(i)
        PROVE  OneAtATime'
    <2>1. i \in Used
      BY <1>4 DEF Drop, ClosingDone, LiveSocks, Used
    <2> QED
      BY <1>3, <1>4, <2>1 DEF Drop, ClosingDone
  <1>5. ASSUME Connect, Used = {}
        PROVE  Used' \subseteq {Len(socks')}
    <2>1. /\ Len(socks') = Len(socks) + 1 /\ DOMAIN socks' = 1 .. Len(socks) + 1
          /\ \A i \in DOMAIN socks : socks'[i] = socks[i]
      BY <1>5, ConnectIs
    <2>2. \A i \in DOMAIN socks' : i \in DOMAIN socks \/ i = Len(socks) + 1
      BY <1>0, <2>1
    <2> QED
      BY <1>5, <2>1, <2>2 DEF Used
  <1>6. CASE TimerFires
    <2> SUFFICES ASSUME ~doubled
                 PROVE  OneAtATime'
      BY <1>6 DEF TimerFires, OneAtATime
    <2>1. timers = 1 /\ Used = {}
      BY <1>0, <1>6 DEF TimerFires, OneAtATime
    <2>2. Used' \subseteq {Len(socks')} /\ timers' = 0
      BY <1>5, <1>6, <2>1 DEF TimerFires
    <2>3. connection' = "connecting" /\ UNCHANGED <<closed, leftover>> /\ (closed => leftover)
      BY <1>6, <2>1 DEF TimerFires, Connect, OneAtATime
    <2> QED
      BY <2>2, <2>3 DEF OneAtATime
  <1>7. CASE Retry
    <2>1. ~doubled => doubled'
      <3> SUFFICES ASSUME ~doubled PROVE doubled'
        OBVIOUS
      <3>1. timers = 1 /\ Used = {}
        BY <1>7 DEF Retry, OneAtATime
      <3>2. LiveSocks = {}
        BY <3>1 DEF Used, LiveSocks
      <3>3. doubled' = (doubled \/ timers > 0)
        BY <1>7, <3>2 DEF Retry
      <3>4. timers > 0
        BY <3>1
      <3> QED
        BY <3>3, <3>4, Zenon
    <2>2. doubled => doubled'
      BY <1>7 DEF Retry
    <2> QED
      BY <2>1, <2>2 DEF OneAtATime
  <1>8. CASE LogIn
    <2>1. socks = <<>> /\ Connect /\ UNCHANGED <<closed, timers, doubled, leftover>> /\ screen = "gate"
      BY <1>8 DEF LogIn
    <2>2. DOMAIN socks = {} /\ ~closed /\ timers = 0
      BY <1>0, <2>1 DEF ScreenTrue
    <2>3. Used' \subseteq {Len(socks')} /\ connection' = "connecting"
      BY <1>5, <2>1, <2>2, ConnectIs DEF Used
    <2> QED
      BY <2>1, <2>2, <2>3 DEF OneAtATime
  <1>9. CASE LogOut
    <2> SUFFICES ASSUME ~doubled
                 PROVE  OneAtATime'
      BY <1>9 DEF LogOut, OneAtATime
    <2>1. /\ CloseLatest /\ screen' = "gate" /\ closed' = TRUE /\ leftover' = (timers > 0)
          /\ UNCHANGED <<timers, connection, doubled>>
      BY <1>9 DEF LogOut
    <2>2. /\ Len(socks') = Len(socks) /\ DOMAIN socks' = DOMAIN socks
          /\ \A i \in DOMAIN socks :
               /\ i = Len(socks) /\ i \in LiveSocks => socks'[i].state = "closing"
               /\ ~(i = Len(socks) /\ i \in LiveSocks) => socks'[i] = socks[i]
      BY <2>1, CloseLatestIs
    <2>3. Used' \subseteq Used
      BY <2>2 DEF Used, LiveSocks
    <2>4. LiveSocks' = {}
      <3>1. \A i \in LiveSocks : i = Len(socks)
        BY DEF OneAtATime, Used, LiveSocks
      <3>2. \A i \in DOMAIN socks : socks'[i].state \notin {"connecting", "open"}
        BY <2>2, <3>1 DEF LiveSocks
      <3> SUFFICES ASSUME NEW i \in LiveSocks' PROVE FALSE
        OBVIOUS
      <3>3. i \in DOMAIN socks /\ socks'[i].state \in {"connecting", "open"}
        BY <2>2 DEF LiveSocks
      <3> QED
        BY <3>2, <3>3
    <2>5. ~leftover' => timers' = 0
      <3>1. leftover' = (timers > 0) /\ timers' = timers
        BY <2>1
      <3>2. timers > 0 => leftover'
        BY <3>1, Zenon
      <3> QED
        BY <1>0, <3>1, <3>2
    <2> QED
      BY <2>1, <2>2, <2>3, <2>4, <2>5 DEF OneAtATime
  <1>10. ASSUME NEW a \in {"ok", "rejected", "unreachable"}, Checked(a)
         PROVE  OneAtATime'
    <2>1. screen = "checking" /\ UNCHANGED <<closed, timers, doubled, leftover>>
      BY <1>10 DEF Checked
    <2>2. socks = <<>> /\ timers = 0 /\ ~closed
      BY <2>1 DEF ScreenTrue
    <2>3. Used = {}
      BY <1>0, <2>2 DEF Used
    <2>4. CASE screen' = "gate" /\ UNCHANGED <<socks, connection>>
      BY <2>1, <2>2, <2>3, <2>4 DEF OneAtATime, Used
    <2>5. CASE screen' = "home" /\ Connect
      <3>1. Used' \subseteq {Len(socks')} /\ connection' = "connecting"
        BY <1>5, <2>3, <2>5, ConnectIs
      <3> QED
        BY <2>1, <2>2, <3>1 DEF OneAtATime
    <2> QED
      BY <1>10, <2>4, <2>5 DEF Checked
  <1> QED
    BY <1>1, <1>2, <1>4, <1>6, <1>7, <1>8, <1>9, <1>10, StepKinds

-----------------------------------------------------------------------------
(* What was ever listed *)

\* A subscription names no session in a list.
LEMMA SubscribeNames ==
  ASSUME TypeOK, NEW sks \in Seq(Sock), NEW x \in Sids, NEW i \in DOMAIN sks, NEW s,
         Names(subscribe(sks, x)[i].wire, s)
  PROVE  Names(sks[i].wire, s)
  <1>1. sks[i].wire \in Seq(Frame)
    <2>1. sks[i] \in Sock
      BY ElementOfSeq, LenProperties
    <2> QED
      BY <2>1 DEF Sock
  <1>2. EventFrame("history", x, events[x]) \in Frame /\ EventFrame("history", x, events[x]).type # "sessions"
    BY SubscribeIs, FramesAre
  <1>3. \/ subscribe(sks, x)[i] = sks[i]
        \/ subscribe(sks, x)[i].wire = Append(sks[i].wire, EventFrame("history", x, events[x]))
    BY SubscribeIs
  <1> QED
    BY <1>1, <1>2, <1>3, NamesOf

\* Sessions stay what they were, or new ones are there before they are listed.
LEMMA ListedStep ==
  ASSUME TypeOK, ListedExist, [Next]_vars
  PROVE  ListedExist'
  <1> USE BrowserOK
  <1>0. /\ socks \in Seq(Sock) /\ activeId \in Sids \cup {None} /\ wanted \in Sids \cup {None}
        /\ sessions \in Lists /\ live \in [Sids -> {"none", "active", "offline", "gone"}]
    BY DEF TypeOK
  <1>1. \A s \in Sids : /\ sessions[s] # "none" \/ activeId = s => live[s] # "none"
                        /\ \A i \in DOMAIN socks : Names(socks[i].wire, s) => live[s] # "none"
    BY DEF ListedExist
  <1>2. ASSUME \A s \in Sids : live[s] # "none" => live'[s] # "none",
               \A s \in Sids : sessions'[s] # "none" \/ activeId' = s => live[s] # "none",
               NEW l \in [Sids -> {"none", "active", "offline", "gone"}], l = live \/ l = live',
               DOMAIN socks' = DOMAIN socks,
               \A i \in DOMAIN socks :
                 \/ socks'[i].wire \in {socks[i].wire, <<>>}
                 \/ \E f \in Frame : /\ socks'[i].wire = Append(socks[i].wire, f)
                                     /\ f.type # "sessions" \/ f.list = Rows(l)
        PROVE  ListedExist'
    <2> SUFFICES ASSUME NEW s \in Sids, NEW i \in DOMAIN socks, Names(socks'[i].wire, s)
                 PROVE  live'[s] # "none"
      BY <1>1, <1>2 DEF ListedExist
    <2>1. Rows(l)[s] # "none" => live'[s] # "none"
      BY <1>2, FramesAre
    <2>2. socks[i].wire \in Seq(Frame)
      BY SocketsTyped
    <2>3. Names(socks[i].wire, s) \/ Rows(l)[s] # "none"
      <3>1. CASE socks'[i].wire \in {socks[i].wire, <<>>}
        BY <2>2, <3>1, NamesOf
      <3>2. CASE \E f \in Frame : /\ socks'[i].wire = Append(socks[i].wire, f)
                                  /\ f.type # "sessions" \/ f.list = Rows(l)
        <4>1. PICK f \in Frame : /\ socks'[i].wire = Append(socks[i].wire, f)
                                 /\ f.type # "sessions" \/ f.list = Rows(l)
          BY <3>2
        <4> QED
          BY <2>2, <4>1, NamesOf
      <3> QED
        BY <1>2, <3>1, <3>2
    <2> QED
      BY <1>1, <1>2, <2>1, <2>3
  <1>3. ASSUME NEW s \in Sids, WorkerEvent(s)
        PROVE  ListedExist'
    <2>1. live' = live /\ sessions' = sessions /\ activeId' = activeId
      BY <1>3 DEF WorkerEvent, homeVars
    <2>2. DOMAIN socks' = DOMAIN socks
      BY <1>3, WorkerEventIs
    <2>3. \A i \in DOMAIN socks :
            \/ socks'[i].wire \in {socks[i].wire, <<>>}
            \/ \E f \in Frame : /\ socks'[i].wire = Append(socks[i].wire, f)
                                /\ f.type # "sessions" \/ f.list = Rows(live)
      BY <1>3, WorkerEventIs
    <2> QED
      BY <1>0, <1>1, <1>2, <2>1, <2>2, <2>3
  <1>4. ASSUME live' \in [Sids -> {"none", "active", "offline", "gone"}], socks' = pushList(socks, live')
        PROVE  /\ DOMAIN socks' = DOMAIN socks
               /\ \A i \in DOMAIN socks :
                    \/ socks'[i].wire \in {socks[i].wire, <<>>}
                    \/ \E f \in Frame : /\ socks'[i].wire = Append(socks[i].wire, f)
                                        /\ f.type # "sessions" \/ f.list = Rows(live')
    <2>1. ListFrame(live') \in Frame /\ ListFrame(live').list = Rows(live')
      BY <1>4, FramesAre
    <2>2. /\ DOMAIN socks' = DOMAIN socks
          /\ \A i \in DOMAIN socks :
               \/ socks'[i] = socks[i]
               \/ socks'[i].wire = Append(socks[i].wire, ListFrame(live'))
      BY <1>0, <1>4, PushListIs
    <2> QED
      BY <2>1, <2>2
  <1>5. ASSUME NEW s \in Sids, NEW st \in {"active", "offline", "gone"}, SessionChange(s, st)
        PROVE  ListedExist'
    <2>1. /\ live' \in [Sids -> {"none", "active", "offline", "gone"}]
          /\ \A x \in Sids : live[x] # "none" => live'[x] # "none"
          /\ sessions' = sessions /\ activeId' = activeId /\ socks' = pushList(socks, live')
      BY <1>0, <1>5 DEF SessionChange, homeVars
    <2> QED
      BY <1>1, <1>2, <1>4, <2>1
  <1>6. ASSUME NEW s \in Sids, NEW fails \in BOOLEAN, DeleteSession(s, fails)
        PROVE  ListedExist'
    <2>1. /\ live' \in [Sids -> {"none", "active", "offline", "gone"}]
          /\ \A x \in Sids : live[x] # "none" => live'[x] # "none"
          /\ sessions' = sessions /\ activeId' \in {activeId, None}
          /\ socks' = socks \/ socks' = pushList(socks, live')
      BY <1>0, <1>6 DEF DeleteSession
    <2>2. \A x \in Sids : sessions'[x] # "none" \/ activeId' = x => live[x] # "none"
      BY <1>1, <2>1
    <2> QED
      BY <1>2, <1>4, <2>1, <2>2
  <1>7. ASSUME NEW x \in Sids, socks' = subscribe(socks, x), live' = live,
               \A s \in Sids : sessions'[s] # "none" \/ activeId' = s => live[s] # "none"
        PROVE  ListedExist'
    <2>1. DOMAIN socks' = DOMAIN socks
      BY <1>0, <1>7, SubscribeIs
    <2>2. \A s, i : i \in DOMAIN socks /\ Names(socks'[i].wire, s) => Names(socks[i].wire, s)
      BY <1>0, <1>7, SubscribeNames
    <2> QED
      BY <1>1, <1>7, <2>1, <2>2 DEF ListedExist
  <1>8. ASSUME NEW s \in Sids, OpenSession(s)
        PROVE  ListedExist'
    <2>1. /\ socks' = subscribe(socks, s) /\ live' = live /\ sessions' = sessions /\ activeId' = s
          /\ sessions[s] # "none"
      BY <1>8 DEF OpenSession, serverVars, Listed
    <2> QED
      BY <1>1, <1>7, <2>1
  <1>9. CASE Back
    <2>1. live' = live /\ sessions' = sessions
      BY <1>9 DEF Back, serverVars
    <2>2. CASE Listed(sessions, wanted)
      <3>1. wanted \in Sids /\ socks' = subscribe(socks, wanted) /\ activeId' = wanted /\ sessions[wanted] # "none"
        BY <1>0, <1>9, <2>2 DEF Back, Listed
      <3> QED
        BY <1>1, <1>7, <2>1, <3>1
    <2>3. CASE ~Listed(sessions, wanted)
      <3>1. socks' = socks /\ activeId' = None
        BY <1>9, <2>3 DEF Back
      <3> QED
        BY <1>1, <2>1, <3>1 DEF ListedExist
    <2> QED
      BY <2>2, <2>3
  <1>10. ASSUME NEW i \in DOMAIN socks, Deliver(i)
         PROVE  ListedExist'
    <2>1. PICK f : f = Head(socks[i].wire)
      OBVIOUS
    <2>2. socks[i].wire # <<>> /\ f \in Frame /\ live' = live
      BY <1>10, <2>1, DeliverIs DEF serverVars
    <2>3. /\ socks' = Taken(i) \/ \E x \in Sids : socks' = subscribe(Taken(i), x)
          /\ \/ /\ f.type = "sessions" /\ sessions' = f.list
                /\ activeId' = activeId \/ (activeId' = wanted /\ Listed(f.list, wanted))
             \/ sessions' = sessions /\ activeId' = activeId
      BY <1>10, <2>1, DeliverIs
    <2>4. /\ Taken(i) \in Seq(Sock) /\ DOMAIN Taken(i) = DOMAIN socks
          /\ Taken(i)[i].wire = Tail(socks[i].wire)
          /\ \A j \in DOMAIN socks : j # i => Taken(i)[j] = socks[j]
      BY <2>2, TakenIs
    <2>5. socks[i].wire \in Seq(Frame)
      BY SocketsTyped
    <2>6. \A s, j : j \in DOMAIN socks /\ Names(Taken(i)[j].wire, s) => Names(socks[j].wire, s)
      BY <2>2, <2>4, <2>5, NamesOf
    <2>7. DOMAIN socks' = DOMAIN socks
      BY <2>3, <2>4, SubscribeIs
    <2>8. \A s, j : j \in DOMAIN socks /\ Names(socks'[j].wire, s) => Names(socks[j].wire, s)
      BY <2>3, <2>4, <2>6, SubscribeNames
    <2>9. \A s \in Sids : f.type = "sessions" /\ f.list[s] # "none" => live[s] # "none"
      BY <1>1, <2>1, <2>2, <2>5, NamesOf
    <2>10. \A s \in Sids : sessions'[s] # "none" \/ activeId' = s => live[s] # "none"
      BY <1>1, <2>3, <2>9 DEF Listed
    <2> QED
      BY <1>1, <2>2, <2>7, <2>8, <2>10 DEF ListedExist
  <1>11. ASSUME NEW i \in DOMAIN socks, Opened(i)
         PROVE  ListedExist'
    <2>1. live' = live /\ sessions' = sessions /\ activeId' = activeId
      BY <1>11 DEF Opened, serverVars, homeVars
    <2>2. /\ Accepted(i) \in Seq(Sock) /\ DOMAIN Accepted(i) = DOMAIN socks
          /\ Accepted(i)[i].wire = Append(socks[i].wire, ListFrame(live))
          /\ \A j \in DOMAIN socks : j # i => Accepted(i)[j] = socks[j]
      BY AcceptedIs
    <2>3. socks' = Accepted(i) \/ \E s \in Sids : socks' = subscribe(Accepted(i), s)
      BY <1>11 DEF Opened, Accepted, OnOpen, TypeOK
    <2>4. ListFrame(live) \in Frame /\ \A s \in Sids : ListFrame(live).list[s] # "none" => live[s] # "none"
      BY <1>0, FramesAre
    <2>5. \A s \in Sids, j \in DOMAIN socks : Names(Accepted(i)[j].wire, s) => live[s] # "none"
      <3> SUFFICES ASSUME NEW s \in Sids, NEW j \in DOMAIN socks, Names(Accepted(i)[j].wire, s)
                   PROVE  live[s] # "none"
        OBVIOUS
      <3>1. CASE j # i
        BY <1>1, <2>2, <3>1
      <3>2. CASE j = i
        <4>1. socks[i].wire \in Seq(Frame)
          BY SocketsTyped
        <4>2. Names(socks[i].wire, s) \/ ListFrame(live).list[s] # "none"
          BY <2>2, <2>4, <3>2, <4>1, NamesOf
        <4> QED
          BY <1>1, <2>4, <4>2
      <3> QED
        BY <3>1, <3>2
    <2>6. DOMAIN socks' = DOMAIN socks
      BY <2>2, <2>3, SubscribeIs
    <2>7. \A s \in Sids, j \in DOMAIN socks : Names(socks'[j].wire, s) => live[s] # "none"
      BY <2>2, <2>3, <2>5, SubscribeNames
    <2> QED
      BY <1>1, <2>1, <2>6, <2>7 DEF ListedExist
  <1>12. ASSUME NEW i \in DOMAIN socks, OnClose(i), UNCHANGED <<live, sessions, activeId>>
         PROVE  ListedExist'
    BY <1>1, <1>12, OnCloseIs, NamesOf, EmptySeq DEF ListedExist, Names
  <1>13. ASSUME Connect, UNCHANGED <<live, sessions, activeId>>
         PROVE  ListedExist'
    <2>1. \A i \in DOMAIN socks' : socks'[i].wire = <<>> \/ (i \in DOMAIN socks /\ socks'[i] = socks[i])
      BY <1>13, ConnectIs, SocketsTyped
    <2>2. \A s : ~Names(<<>>, s)
      BY DEF Names
    <2> QED
      BY <1>1, <1>13, <2>1, <2>2 DEF ListedExist
  <1>14. ASSUME CloseLatest, live' = live, sessions' = sessions \/ \A s \in Sids : sessions'[s] = "none",
                activeId' = activeId \/ activeId' = None
         PROVE  ListedExist'
    <2>1. DOMAIN socks' = DOMAIN socks /\ \A i \in DOMAIN socks : socks'[i].wire = socks[i].wire
      BY <1>14, CloseLatestIs
    <2> QED
      BY <1>1, <1>14, <2>1 DEF ListedExist
  <1>15. ASSUME UNCHANGED <<socks, live, sessions, activeId>>
         PROVE  ListedExist'
    BY <1>15 DEF ListedExist
  <1>16. ASSUME NEW i \in DOMAIN socks, Drop(i) \/ ClosingDone(i)
         PROVE  ListedExist'
    BY <1>12, <1>16 DEF Drop, ClosingDone, homeVars, serverVars
  <1>17. CASE TimerFires \/ LogIn
    BY <1>13, <1>17 DEF TimerFires, LogIn, homeVars, serverVars
  <1>18. CASE Retry
    BY <1>13, <1>14, <1>18 DEF Retry, homeVars, serverVars
  <1>19. CASE LogOut
    <2>1. \A s \in Sids : sessions'[s] = "none"
      BY <1>19 DEF LogOut
    <2> QED
      BY <1>14, <1>19, <2>1 DEF LogOut, serverVars
  <1>20. ASSUME NEW a \in {"ok", "rejected", "unreachable"}, Checked(a)
         PROVE  ListedExist'
    BY <1>13, <1>15, <1>20 DEF Checked, homeVars, serverVars
  <1>21. CASE UNCHANGED vars
    BY <1>15, <1>21 DEF vars, socketVars, homeVars, serverVars
  <1> QED
    BY <1>3, <1>5, <1>6, <1>8, <1>9, <1>10, <1>11, <1>16, <1>17, <1>18, <1>19, <1>20, <1>21 DEF Next

-----------------------------------------------------------------------------
(* Notes *)

\* A subscription notes nothing.
LEMMA SubscribeNotes ==
  ASSUME TypeOK, NEW sks \in Seq(Sock), NEW x \in Sids, NEW i \in DOMAIN sks, NEW s, NEW n, NEW count, NEW N,
         NoteFeed(sks[i].wire, s, n, count, N)
  PROVE  NoteFeed(subscribe(sks, x)[i].wire, s, n, count, N)
  <1> DEFINE f == EventFrame("history", x, events[x])
  <1>1. sks[i].wire \in Seq(Frame)
    <2>1. sks[i] \in Sock
      BY ElementOfSeq, LenProperties
    <2> QED
      BY <2>1 DEF Sock
  <1>2. f \in Frame /\ f.type = "history"
    BY SubscribeIs, FramesAre
  <1>3. subscribe(sks, x)[i] = sks[i] \/ subscribe(sks, x)[i].wire = Append(sks[i].wire, f)
    BY SubscribeIs
  <1> HIDE DEF f
  <1>4. ~IsNote(f, s, n)
    BY <1>2 DEF IsNote
  <1> QED
    BY <1>1, <1>2, <1>3, <1>4, NoteFeedPush

\* What a note counts for in one state.
NotesOf(s, n) ==
  /\ notes[<<s, n>>] \in {0, 1}
  /\ notes[<<s, n>>] = 1 => n <= events[s]
  /\ \A i \in DOMAIN socks : NoteFeed(socks[i].wire, s, n, notes[<<s, n>>], events[s])

\* An event is noted once, step by step.
LEMMA NotedStep ==
  ASSUME TypeOK, WiresEmpty, OneAtATime, NotedOnce, [Next]_vars
  PROVE  NotedOnce'
  <1>0. socks \in Seq(Sock) /\ live \in [Sids -> {"none", "active", "offline", "gone"}]
    BY DEF TypeOK
  <1>1. ~doubled => \A s \in Sids, n \in 1 .. MaxEvents : NotesOf(s, n)
    BY DEF NotedOnce, NotesOf
  <1>2. ASSUME UNCHANGED <<notes, events>>, ~doubled' => ~doubled,
               \A i \in DOMAIN socks' :
                 \/ socks'[i].wire = <<>>
                 \/ /\ i \in DOMAIN socks
                    /\ \/ socks'[i].wire = socks[i].wire
                       \/ \E f \in Frame : /\ socks'[i].wire = Append(socks[i].wire, f)
                                           /\ f.type \notin {"event", "notify"}
        PROVE  NotedOnce'
    <2> SUFFICES ASSUME ~doubled, NEW s \in Sids, NEW n \in 1 .. MaxEvents, NEW i \in DOMAIN socks'
                 PROVE  NoteFeed(socks'[i].wire, s, n, notes[<<s, n>>], events[s])
      BY <1>1, <1>2 DEF NotedOnce, NotesOf
    <2>1. CASE socks'[i].wire = <<>>
      BY <2>1 DEF NoteFeed
    <2>2. CASE i \in DOMAIN socks /\ socks'[i].wire = socks[i].wire
      BY <1>1, <2>2 DEF NotesOf
    <2>3. CASE /\ i \in DOMAIN socks
               /\ \E f \in Frame : /\ socks'[i].wire = Append(socks[i].wire, f)
                                   /\ f.type \notin {"event", "notify"}
      <3>1. PICK f \in Frame : socks'[i].wire = Append(socks[i].wire, f) /\ f.type \notin {"event", "notify"}
        BY <2>3
      <3>2. ~IsNote(f, s, n) /\ socks[i].wire \in Seq(Frame)
        BY <2>3, <3>1, SocketsTyped DEF IsNote
      <3>3. NoteFeed(socks[i].wire, s, n, notes[<<s, n>>], events[s])
        BY <1>1, <2>3 DEF NotesOf
      <3> QED
        BY <3>1, <3>2, <3>3, NoteFeedPush
    <2> QED
      BY <1>2, <2>1, <2>2, <2>3
  <1>3. ASSUME NEW s \in Sids, WorkerEvent(s)
        PROVE  NotedOnce'
    <2> SUFFICES ASSUME ~doubled, NEW r \in Sids, NEW n \in 1 .. MaxEvents
                 PROVE  /\ notes'[<<r, n>>] \in {0, 1}
                        /\ notes'[<<r, n>>] = 1 => n <= events'[r]
                        /\ \A i \in DOMAIN socks' :
                             NoteFeed(socks'[i].wire, r, n, notes'[<<r, n>>], events'[r])
      BY <1>3 DEF NotedOnce, WorkerEvent
    <2>1. /\ NotesOf(r, n) /\ notes' = notes /\ events[r] \in Nat /\ events'[r] \in Nat
          /\ events'[r] = IF r = s THEN events[r] + 1 ELSE events[r]
      BY <1>1, <1>3, BrowserOK DEF WorkerEvent, TypeOK
    <2>2. /\ DOMAIN socks' = DOMAIN socks
          /\ \A i \in DOMAIN socks :
               \/ socks'[i] = socks[i]
               \/ \E f \in Frame : socks'[i].wire = Append(socks[i].wire, f) /\ f.sid = s /\ f.n = events[s] + 1
      BY <1>3, WorkerEventIs
    <2>3. ASSUME NEW i \in DOMAIN socks
          PROVE  NoteFeed(socks'[i].wire, r, n, notes[<<r, n>>], events'[r])
      <3>1. NoteFeed(socks[i].wire, r, n, notes[<<r, n>>], events[r])
        BY <2>1 DEF NotesOf
      <3>2. NoteFeed(socks[i].wire, r, n, notes[<<r, n>>], events'[r])
        BY <2>1, <3>1 DEF NoteFeed
      <3>3. CASE socks'[i] = socks[i]
        BY <3>2, <3>3
      <3>4. CASE \E f \in Frame : socks'[i].wire = Append(socks[i].wire, f) /\ f.sid = s /\ f.n = events[s] + 1
        <4>1. PICK f \in Frame : socks'[i].wire = Append(socks[i].wire, f) /\ f.sid = s /\ f.n = events[s] + 1
          BY <3>4
        <4>2. socks[i].wire \in Seq(Frame)
          BY SocketsTyped
        <4>3. CASE ~IsNote(f, r, n)
          BY <3>2, <4>1, <4>2, <4>3, NoteFeedPush
        <4>4. CASE IsNote(f, r, n)
          <5>1. r = s /\ n = events[r] + 1
            BY <4>1, <4>4 DEF IsNote
          <5>2. ~(n <= events[r]) /\ n <= events'[r]
            BY <2>1, <5>1
          <5>3. notes[<<r, n>>] = 0
            BY <2>1, <5>2 DEF NotesOf
          <5>4. \A k \in DOMAIN socks[i].wire : ~IsNote(socks[i].wire[k], r, n)
            BY <3>1, <5>2 DEF NoteFeed
          <5> QED
            BY <4>1, <4>2, <5>2, <5>3, <5>4, NoteFeedFirst
        <4> QED
          BY <4>3, <4>4
      <3> QED
        BY <2>2, <3>3, <3>4
    <2> QED
      BY <2>1, <2>2, <2>3 DEF NotesOf
  <1>4. ASSUME live' \in [Sids -> {"none", "active", "offline", "gone"}], socks' = pushList(socks, live'),
               UNCHANGED <<notes, events, doubled>>
        PROVE  NotedOnce'
    <2>1. ListFrame(live') \in Frame /\ ListFrame(live').type = "sessions"
      BY <1>4, FramesAre
    <2>2. /\ DOMAIN socks' = DOMAIN socks
          /\ \A i \in DOMAIN socks :
               socks'[i] = socks[i] \/ socks'[i].wire = Append(socks[i].wire, ListFrame(live'))
      BY <1>0, <1>4, PushListIs
    <2> QED
      BY <1>2, <1>4, <2>1, <2>2
  <1>5. ASSUME NEW s \in Sids, NEW st \in {"active", "offline", "gone"}, SessionChange(s, st)
        PROVE  NotedOnce'
    <2>1. live' \in [Sids -> {"none", "active", "offline", "gone"}] /\ socks' = pushList(socks, live')
      BY <1>5 DEF SessionChange, TypeOK
    <2> QED
      BY <1>4, <1>5, <2>1 DEF SessionChange
  <1>6. ASSUME UNCHANGED <<socks, notes, events>>, ~doubled' => ~doubled
        PROVE  NotedOnce'
    BY <1>1, <1>6 DEF NotedOnce, NotesOf
  <1>7. ASSUME NEW s \in Sids, NEW fails \in BOOLEAN, DeleteSession(s, fails)
        PROVE  NotedOnce'
    <2>1. live' \in [Sids -> {"none", "active", "offline", "gone"}]
      BY <1>7 DEF DeleteSession, TypeOK
    <2>2. socks' = socks \/ socks' = pushList(socks, live')
      BY <1>7 DEF DeleteSession
    <2> QED
      BY <1>4, <1>6, <1>7, <2>1, <2>2 DEF DeleteSession
  <1>8. ASSUME NEW s \in Sids, socks' = subscribe(socks, s), UNCHANGED <<notes, events, doubled>>
        PROVE  NotedOnce'
    <2>1. DOMAIN socks' = DOMAIN socks
      BY <1>0, <1>8, SubscribeIs
    <2>2. ~doubled => \A i \in DOMAIN socks', r \in Sids, n \in 1 .. MaxEvents :
                        NoteFeed(socks'[i].wire, r, n, notes[<<r, n>>], events[r])
      BY <1>0, <1>1, <1>8, <2>1, SubscribeNotes DEF NotesOf
    <2> QED
      BY <1>1, <1>8, <2>2 DEF NotedOnce, NotesOf
  <1>9. ASSUME NEW s \in Sids, OpenSession(s)
        PROVE  NotedOnce'
    BY <1>8, <1>9 DEF OpenSession, serverVars
  <1>10. CASE Back
    <2>1. socks' = socks \/ (wanted \in Sids /\ socks' = subscribe(socks, wanted))
      BY <1>10 DEF Back, Listed, TypeOK
    <2> QED
      BY <1>6, <1>8, <1>10, <2>1 DEF Back, serverVars
  <1>11. ASSUME NEW i \in DOMAIN socks, Deliver(i)
         PROVE  NotedOnce'
    <2>1. PICK f : f = Head(socks[i].wire)
      OBVIOUS
    <2>2. /\ socks[i].state = "open" /\ socks[i].wire # <<>> /\ f \in Frame
          /\ notes' = IF f.type \in {"event", "notify"} THEN [notes EXCEPT ![<<f.sid, f.n>>] = @ + 1] ELSE notes
          /\ UNCHANGED <<events, doubled>>
          /\ socks' = Taken(i) \/ \E x \in Sids : socks' = subscribe(Taken(i), x)
      BY <1>11, <2>1, DeliverIs DEF serverVars
    <2>3. /\ Taken(i) \in Seq(Sock) /\ DOMAIN Taken(i) = DOMAIN socks
          /\ Taken(i)[i].wire = Tail(socks[i].wire)
          /\ \A j \in DOMAIN socks : j # i => Taken(i)[j] = socks[j]
      BY <2>2, TakenIs
    <2>4. f.type \in {"event", "notify"} => f.sid \in Sids /\ f.n \in 1 .. MaxEvents
      BY <2>2 DEF Frame
    <2> SUFFICES ASSUME ~doubled, NEW s \in Sids, NEW n \in 1 .. MaxEvents
                 PROVE  /\ notes'[<<s, n>>] \in {0, 1}
                        /\ notes'[<<s, n>>] = 1 => n <= events[s]
                        /\ \A j \in DOMAIN socks' : NoteFeed(socks'[j].wire, s, n, notes'[<<s, n>>], events[s])
      BY <2>2 DEF NotedOnce
    <2>5. NotesOf(s, n)
      BY <1>1
    <2>6. socks[i].wire \in Seq(Frame) /\ NoteFeed(socks[i].wire, s, n, notes[<<s, n>>], events[s])
      BY <2>5, SocketsTyped DEF NotesOf
    <2>7. /\ NoteFeed(Tail(socks[i].wire), s, n, notes[<<s, n>>], events[s])
          /\ IsNote(f, s, n) =>
               /\ notes[<<s, n>>] = 0 /\ n <= events[s]
               /\ \A k \in DOMAIN Tail(socks[i].wire) : ~IsNote(Tail(socks[i].wire)[k], s, n)
      BY <2>1, <2>2, <2>6, NoteFeedTaken
    <2>8. \A j \in DOMAIN socks : j # i => socks[j].wire = <<>>
      <3>1. \A j \in DOMAIN socks : j # i => socks[j].state = "closed"
        BY <2>2 DEF OneAtATime, Used
      <3> QED
        BY <3>1 DEF WiresEmpty
    <2>9. /\ notes'[<<s, n>>] \in {0, 1}
          /\ notes'[<<s, n>>] = 1 => n <= events[s]
          /\ \A j \in DOMAIN socks : NoteFeed(Taken(i)[j].wire, s, n, notes'[<<s, n>>], events[s])
      <3>1. CASE IsNote(f, s, n)
        <4>1. notes'[<<s, n>>] = 1
          BY <2>2, <2>7, <3>1 DEF IsNote, TypeOK, EventIds
        <4>2. NoteFeed(Taken(i)[i].wire, s, n, 1, events[s])
          BY <2>3, <2>7, <3>1 DEF NoteFeed
        <4>3. \A j \in DOMAIN socks : j # i => NoteFeed(Taken(i)[j].wire, s, n, 1, events[s])
          BY <2>3, <2>8 DEF NoteFeed
        <4> QED
          BY <2>7, <3>1, <4>1, <4>2, <4>3
      <3>2. CASE ~IsNote(f, s, n)
        <4>1. notes'[<<s, n>>] = notes[<<s, n>>]
          BY <2>2, <2>4, <3>2 DEF IsNote, TypeOK, EventIds
        <4> QED
          BY <2>3, <2>5, <2>7, <4>1 DEF NotesOf
      <3> QED
        BY <3>1, <3>2
    <2>10. DOMAIN socks' = DOMAIN socks
      BY <2>2, <2>3, SubscribeIs
    <2>11. \A j \in DOMAIN socks' : NoteFeed(socks'[j].wire, s, n, notes'[<<s, n>>], events[s])
      BY <2>2, <2>3, <2>9, <2>10, SubscribeNotes
    <2> QED
      BY <2>9, <2>11
  <1>12. ASSUME NEW i \in DOMAIN socks, Opened(i)
         PROVE  NotedOnce'
    <2>1. UNCHANGED <<notes, events, doubled>>
      BY <1>12 DEF Opened, serverVars
    <2>2. /\ Accepted(i) \in Seq(Sock) /\ DOMAIN Accepted(i) = DOMAIN socks
          /\ Accepted(i)[i].wire = Append(socks[i].wire, ListFrame(live))
          /\ \A j \in DOMAIN socks : j # i => Accepted(i)[j] = socks[j]
      BY AcceptedIs
    <2>3. socks' = Accepted(i) \/ \E s \in Sids : socks' = subscribe(Accepted(i), s)
      BY <1>12 DEF Opened, Accepted, OnOpen, TypeOK
    <2>4. ListFrame(live) \in Frame /\ ListFrame(live).type = "sessions"
      BY <1>0, FramesAre
    <2>5. DOMAIN socks' = DOMAIN socks
      BY <2>2, <2>3, SubscribeIs
    <2> SUFFICES ASSUME ~doubled, NEW s \in Sids, NEW n \in 1 .. MaxEvents
                 PROVE  \A j \in DOMAIN socks' : NoteFeed(socks'[j].wire, s, n, notes[<<s, n>>], events[s])
      BY <1>1, <2>1 DEF NotedOnce, NotesOf
    <2>6. \A j \in DOMAIN socks : NoteFeed(socks[j].wire, s, n, notes[<<s, n>>], events[s])
      BY <1>1 DEF NotesOf
    <2>7. NoteFeed(Accepted(i)[i].wire, s, n, notes[<<s, n>>], events[s])
      <3>1. socks[i].wire \in Seq(Frame) /\ ~IsNote(ListFrame(live), s, n)
        BY <2>4, SocketsTyped DEF IsNote
      <3> QED
        BY <2>2, <2>4, <2>6, <3>1, NoteFeedPush
    <2>8. \A j \in DOMAIN socks : NoteFeed(Accepted(i)[j].wire, s, n, notes[<<s, n>>], events[s])
      BY <2>2, <2>6, <2>7
    <2> QED
      BY <2>2, <2>3, <2>5, <2>8, SubscribeNotes
  <1>13. ASSUME NEW i \in DOMAIN socks, OnClose(i), UNCHANGED <<notes, events, doubled>>
         PROVE  NotedOnce'
    BY <1>2, <1>13, OnCloseIs
  <1>14. ASSUME Connect, UNCHANGED <<notes, events>>, ~doubled' => ~doubled
         PROVE  NotedOnce'
    <2>1. \A i \in DOMAIN socks' : socks'[i].wire = <<>> \/ (i \in DOMAIN socks /\ socks'[i].wire = socks[i].wire)
      BY <1>14, ConnectIs, SocketsTyped
    <2> QED
      BY <1>2, <1>14, <2>1
  <1>15. ASSUME CloseLatest, UNCHANGED <<notes, events>>, ~doubled' => ~doubled
         PROVE  NotedOnce'
    <2>1. \A i \in DOMAIN socks' : i \in DOMAIN socks /\ socks'[i].wire = socks[i].wire
      BY <1>15, CloseLatestIs
    <2> QED
      BY <1>2, <1>15, <2>1
  <1>16. ASSUME NEW i \in DOMAIN socks, Drop(i) \/ ClosingDone(i)
         PROVE  NotedOnce'
    BY <1>13, <1>16 DEF Drop, ClosingDone, serverVars
  <1>17. CASE TimerFires \/ LogIn
    BY <1>14, <1>17 DEF TimerFires, LogIn, serverVars
  <1>18. CASE Retry
    <2>1. ~doubled' => ~doubled
      BY <1>18 DEF Retry
    <2> QED
      BY <1>14, <1>15, <1>18, <2>1 DEF Retry, serverVars
  <1>19. CASE LogOut
    BY <1>15, <1>19 DEF LogOut, serverVars
  <1>20. ASSUME NEW a \in {"ok", "rejected", "unreachable"}, Checked(a)
         PROVE  NotedOnce'
    BY <1>6, <1>14, <1>20 DEF Checked, serverVars
  <1>21. CASE UNCHANGED vars
    BY <1>6, <1>21 DEF vars, socketVars, serverVars
  <1> QED
    BY <1>3, <1>5, <1>7, <1>9, <1>10, <1>11, <1>12, <1>16, <1>17, <1>18, <1>19, <1>20, <1>21 DEF Next


-----------------------------------------------------------------------------
(* The page catches up *)

\* A steady page has one open socket, the newest.
LEMMA SteadyIs ==
  ASSUME TypeOK, OnlineOpen, Steady
  PROVE  /\ Len(socks) \in DOMAIN socks /\ socks # <<>>
         /\ socks[Len(socks)].state = "open"
         /\ \A i \in DOMAIN socks : socks[i].state \in {"connecting", "open"} => i = Len(socks)
  <1>1. PICK i \in DOMAIN socks : Open(i)
    BY DEF OnlineOpen, Steady
  <1>2. \A j \in DOMAIN socks : socks[j].state \in {"connecting", "open"} => j = Len(socks)
    BY DEF Steady, LiveSocks
  <1>3. DOMAIN socks = 1 .. Len(socks) /\ Len(socks) \in Nat
    BY SocketsTyped
  <1>4. i = Len(socks)
    BY <1>1, <1>2 DEF Open
  <1>5. socks # <<>>
    BY <1>3, EmptySeq
  <1> QED
    BY <1>1, <1>2, <1>4, <1>5 DEF Open

\* A subscription to a session the server lists brings all of it; the list stays what it was.
LEMMA SubscribeFeeds ==
  ASSUME TypeOK, NEW sks \in Seq(Sock), sks # <<>>, sks[Len(sks)].state = "open", NEW x \in Sids,
         NEW on, NEW l, NEW sh
  PROVE  /\ ListFeed(sks[Len(sks)].wire, on, l) => ListFeed(subscribe(sks, x)[Len(sks)].wire, on, l)
         /\ Listed(live, x) => /\ subscribe(sks, x)[Len(sks)].subscribed = x
                               /\ Feed(subscribe(sks, x)[Len(sks)].wire, x, sh, events[x])
  <1> DEFINE f == EventFrame("history", x, events[x])
  <1>0. Len(sks) \in DOMAIN sks /\ sks[Len(sks)] \in Sock
    BY ElementOfSeq, LenProperties, EmptySeq
  <1>1. sks[Len(sks)].wire \in Seq(Frame) /\ events[x] \in Nat
    BY <1>0, BrowserOK DEF Sock, TypeOK
  <1>2. f \in Frame /\ f.type = "history" /\ f.sid = x /\ f.n = events[x]
    BY SubscribeIs, FramesAre
  <1>3. \/ subscribe(sks, x)[Len(sks)] = sks[Len(sks)]
        \/ subscribe(sks, x)[Len(sks)].wire = Append(sks[Len(sks)].wire, f)
    BY <1>0, SubscribeIs
  <1>4. Listed(live, x) => /\ subscribe(sks, x)[Len(sks)].subscribed = x
                           /\ subscribe(sks, x)[Len(sks)].wire = Append(sks[Len(sks)].wire, f)
    BY SubscribeIs
  <1> HIDE DEF f
  <1>5. ListFeed(sks[Len(sks)].wire, on, l) => ListFeed(Append(sks[Len(sks)].wire, f), on, l)
    BY <1>1, <1>2, ListFeedPush
  <1>6. Feed(Append(sks[Len(sks)].wire, f), x, sh, events[x])
    BY <1>1, <1>2, FeedHistory
  <1> QED
    BY <1>3, <1>4, <1>5, <1>6

\* What the page has been told, or will be by the frames w on their way.
Told(w, sub, on, a, sh, l, ev, up) ==
  /\ ~up => ListFeed(w, on, Rows(l))
  /\ Listed(l, a) /\ Listed(on, a) => sub = a /\ Feed(w, a, sh, ev[a])

\* A list pushed to everyone: the page's own sessions are what they were, or nobody's.
LEMMA PushTold ==
  ASSUME TypeOK, ListedExist, OnlineOpen, Synced, Steady,
         NEW l \in [Sids -> {"none", "active", "offline", "gone"}],
         \A x \in Sids : Listed(l, x) => Listed(live, x) \/ live[x] = "none"
  PROVE  Told(pushList(socks, l)[Len(socks)].wire, pushList(socks, l)[Len(socks)].subscribed,
              sessions, activeId, shown, l, events, unpushed)
  <1> DEFINE n == Len(socks)
             f == ListFrame(l)
  <1>1. n \in DOMAIN socks /\ socks[n].state = "open" /\ socks[n].wire \in Seq(Frame) /\ socks \in Seq(Sock)
    BY SteadyIs, SocketsTyped
  <1>2. /\ pushList(socks, l)[n].subscribed = socks[n].subscribed
        /\ pushList(socks, l)[n].wire = Append(socks[n].wire, f)
    BY <1>1, PushListIs
  <1>3. f \in Frame /\ f.type = "sessions" /\ f.list = Rows(l)
    BY FramesAre
  <1>4. /\ activeId \in Sids \cup {None} /\ sessions \in Lists
        /\ \A x \in Sids : events[x] \in Nat
    BY BrowserOK DEF TypeOK
  <1> HIDE DEF n, f
  <1>5. ListFeed(Append(socks[n].wire, f), sessions, Rows(l))
    BY <1>1, <1>3, ListFeedPush
  <1>6. ASSUME Listed(l, activeId), Listed(sessions, activeId)
        PROVE  socks[n].subscribed = activeId /\ Feed(Append(socks[n].wire, f), activeId, shown, events[activeId])
    <2>1. activeId \in Sids /\ Listed(live, activeId)
      BY <1>4, <1>6 DEF Listed, ListedExist
    <2>2. socks[n].subscribed = activeId /\ Feed(socks[n].wire, activeId, shown, events[activeId])
      BY <1>6, <2>1 DEF Synced, n
    <2> QED
      BY <1>1, <1>3, <1>4, <2>1, <2>2, FeedOther
  <1> QED
    BY <1>2, <1>5, <1>6 DEF Told, n

\* An event goes to the page, which shows it if it shows its session.
LEMMA EventTold ==
  ASSUME TypeOK, OnlineOpen, Synced, Steady, NEW s \in Sids, WorkerEvent(s)
  PROVE  Told(socks'[Len(socks)].wire, socks'[Len(socks)].subscribed,
              sessions, activeId, shown, live, events', unpushed)
  <1>0. PICK n : n = Len(socks)
    OBVIOUS
  <1>1. n \in DOMAIN socks /\ socks[n].state = "open" /\ socks[n].wire \in Seq(Frame)
    BY <1>0, SteadyIs, SocketsTyped
  <1>2. PICK f \in Frame : /\ socks'[n].wire = Append(socks[n].wire, f)
                           /\ f.sid = s /\ f.n = events[s] + 1
                           /\ f.type = IF socks[n].subscribed = s THEN "event" ELSE "notify"
    BY <1>1, WorkerEventIs
  <1>3. socks'[n].subscribed = socks[n].subscribed
    BY <1>1, WorkerEventIs
  <1>4. /\ \A x \in Sids : events[x] \in Nat
        /\ \A x \in Sids : events'[x] = IF x = s THEN events[x] + 1 ELSE events[x]
        /\ activeId \in Sids \cup {None}
    BY BrowserOK DEF TypeOK, WorkerEvent
  <1>5. ~unpushed => ListFeed(socks'[n].wire, sessions, Rows(live))
    <2>1. ~unpushed => ListFeed(socks[n].wire, sessions, Rows(live))
      BY <1>0 DEF Synced
    <2>2. f.type # "sessions"
      BY <1>2
    <2> QED
      BY <1>1, <1>2, <2>1, <2>2, ListFeedPush
  <1>6. ASSUME Listed(live, activeId), Listed(sessions, activeId)
        PROVE  socks'[n].subscribed = activeId /\ Feed(socks'[n].wire, activeId, shown, events'[activeId])
    <2>1. activeId \in Sids
      BY <1>4, <1>6 DEF Listed
    <2>2. socks[n].subscribed = activeId /\ Feed(socks[n].wire, activeId, shown, events[activeId])
      BY <1>0, <1>6 DEF Synced
    <2>3. CASE activeId = s
      <3>1. f.type = "event" /\ f.sid = activeId /\ f.n = events[activeId] + 1
        BY <1>2, <2>2, <2>3
      <3>2. Feed(Append(socks[n].wire, f), activeId, shown, events[activeId] + 1)
        BY <1>1, <1>4, <2>1, <2>2, <3>1, FeedEvent
      <3> QED
        BY <1>2, <1>3, <1>4, <2>1, <2>2, <2>3, <3>2
    <2>4. CASE activeId # s
      <3>1. Feed(Append(socks[n].wire, f), activeId, shown, events[activeId])
        BY <1>1, <1>2, <1>4, <2>1, <2>2, <2>4, FeedOther
      <3> QED
        BY <1>2, <1>3, <1>4, <2>1, <2>2, <2>4, <3>1
    <2> QED
      BY <2>3, <2>4
  <1> QED
    BY <1>0, <1>5, <1>6 DEF Told

\* A frame arrives: what it says is shown, and what is shown next is asked for.
LEMMA DeliverTold ==
  ASSUME TypeOK, OnlineOpen, Synced, Steady, NEW i \in DOMAIN socks, Deliver(i)
  PROVE  Told(socks'[Len(socks)].wire, socks'[Len(socks)].subscribed,
              sessions', activeId', shown', live, events, unpushed)
  <1>0. PICK f : f = Head(socks[i].wire)
    OBVIOUS
  <1>1. PICK w : w = socks[i].wire
    OBVIOUS
  <1>2. i = Len(socks) /\ socks[i].state = "open" /\ w \in Seq(Frame) /\ w # <<>> /\ f = Head(w) /\ f \in Frame
    BY <1>0, <1>1, SteadyIs, SocketsTyped, DeliverIs
  <1>3. /\ ~unpushed => ListFeed(w, sessions, Rows(live))
        /\ Listed(live, activeId) /\ Listed(sessions, activeId) =>
             socks[i].subscribed = activeId /\ Feed(w, activeId, shown, events[activeId])
    BY <1>1, <1>2 DEF Synced
  <1>4. /\ Taken(i) \in Seq(Sock) /\ Len(Taken(i)) = Len(socks) /\ DOMAIN Taken(i) = DOMAIN socks
        /\ Taken(i)[i].state = "open" /\ Taken(i)[i].subscribed = socks[i].subscribed
        /\ Taken(i)[i].wire = Tail(w)
    BY <1>1, <1>2, TakenIs
  <1>5. Taken(i) # <<>>
    BY <1>4, EmptySeq
  <1>6. ~unpushed => ListFeed(Tail(w), IF f.type = "sessions" THEN f.list ELSE sessions, Rows(live))
    BY <1>2, <1>3, ListFeedTaken
  <1>7. Listed(live, activeId) /\ Listed(sessions, activeId) =>
          Feed(Tail(w), activeId, Shows(shown, f, activeId), events[activeId])
    <2> SUFFICES ASSUME Listed(live, activeId), Listed(sessions, activeId)
                 PROVE  Feed(Tail(w), activeId, Shows(shown, f, activeId), events[activeId])
      OBVIOUS
    <2>1. activeId \in Sids /\ events[activeId] \in Nat
      BY BrowserOK DEF TypeOK, Listed
    <2> QED
      BY <1>2, <1>3, <2>1, FeedTaken
  <1>8. ASSUME NEW x \in Sids, f.type = "sessions", sessions' = f.list, activeId' = x, shown' = <<>>,
               socks' = subscribe(Taken(i), x)
        PROVE  Told(socks'[i].wire, socks'[i].subscribed, sessions', activeId', shown', live, events, unpushed)
    <2>1. PICK sks : sks = Taken(i)
      OBVIOUS
    <2>2. /\ sks \in Seq(Sock) /\ sks # <<>> /\ Len(sks) = i
          /\ sks[Len(sks)].state = "open" /\ sks[Len(sks)].wire = Tail(w)
      BY <1>2, <1>4, <1>5, <2>1
    <2>3. /\ ListFeed(sks[Len(sks)].wire, f.list, Rows(live)) =>
               ListFeed(subscribe(sks, x)[Len(sks)].wire, f.list, Rows(live))
          /\ Listed(live, x) => /\ subscribe(sks, x)[Len(sks)].subscribed = x
                                /\ Feed(subscribe(sks, x)[Len(sks)].wire, x, <<>>, events[x])
      BY <2>2, SubscribeFeeds
    <2>4. /\ ListFeed(Tail(w), f.list, Rows(live)) => ListFeed(socks'[i].wire, f.list, Rows(live))
          /\ Listed(live, x) => socks'[i].subscribed = x /\ Feed(socks'[i].wire, x, <<>>, events[x])
      BY <1>8, <2>1, <2>2, <2>3
    <2> QED
      BY <1>6, <1>8, <2>4 DEF Told
  <1>9. screen = "home"
    BY DEF Steady
  <1>10. CASE /\ f.type = "sessions" /\ sessions' = f.list
              /\ ~(Listed(f.list, activeId) /\ ~Listed(sessions, activeId))
              /\ activeId' = activeId /\ shown' = shown /\ socks' = Taken(i)
    <2>1. Shows(shown, f, activeId) = shown
      BY <1>10 DEF Shows
    <2> QED
      BY <1>3, <1>4, <1>6, <1>7, <1>10, <2>1, <1>2 DEF Told
  <1>11. CASE /\ f.type # "sessions" /\ sessions' = sessions /\ activeId' = activeId
              /\ shown' = IF f.type \in {"history", "event"} /\ f.sid = activeId /\ Listed(sessions, activeId)
                          THEN Draw(f) ELSE shown
              /\ socks' = Taken(i)
    <2>1. Listed(sessions, activeId) => Shows(shown, f, activeId) = shown'
      BY <1>2, <1>11 DEF Shows, Draw, Upto, Frame
    <2> QED
      BY <1>2, <1>3, <1>4, <1>6, <1>7, <1>11, <2>1 DEF Told
  <1> QED
    BY <1>0, <1>2, <1>8, <1>9, <1>10, <1>11, DeliverIs

\* A connection of a page that was without one starts with the list, and what is open is asked for.
LEMMA OpenedTold ==
  ASSUME TypeOK, WiresEmpty, OnlineOpen, NEW i \in DOMAIN socks, Opened(i), Steady'
  PROVE  Told(socks'[Len(socks)].wire, socks'[Len(socks)].subscribed,
              sessions, activeId, shown, live, events, unpushed)
  <1>1. /\ Len(socks') = Len(socks) /\ DOMAIN socks' = DOMAIN socks
        /\ socks[i].state = "connecting" /\ socks'[i].state = "open"
        /\ \A j \in DOMAIN socks : j # i => socks'[j].state = socks[j].state
        /\ screen' = screen
    BY OpenedIs
  <1>2. screen = "home" /\ i = Len(socks) /\ \A j \in DOMAIN socks : socks[j].state = "open" => j = i
    BY <1>1 DEF Steady, LiveSocks
  <1>3. connection # "online"
    BY <1>1, <1>2 DEF OnlineOpen, Open
  <1>4. socks' = OnOpen(Accepted(i))
    BY <1>2, <1>3 DEF Opened, Accepted
  <1>5. /\ Accepted(i) \in Seq(Sock) /\ Len(Accepted(i)) = Len(socks) /\ DOMAIN Accepted(i) = DOMAIN socks
        /\ Accepted(i)[i].state = "open"
        /\ Accepted(i)[i].wire = Append(<<>>, ListFrame(live))
    BY <1>1, AcceptedIs DEF WiresEmpty
  <1>6. ListFrame(live) \in Frame /\ ListFrame(live).type = "sessions" /\ ListFrame(live).list = Rows(live)
    BY FramesAre DEF TypeOK
  <1>7. ListFeed(Accepted(i)[i].wire, sessions, Rows(live))
    <2>1. PICK w, f : w = <<>> /\ f = ListFrame(live)
      OBVIOUS
    <2>2. w \in Seq(Frame) /\ f \in Frame /\ f.type = "sessions" /\ f.list = Rows(live)
      BY <1>6, <2>1, EmptySeq
    <2>3. ListFeed(Append(w, f), sessions, Rows(live))
      BY <2>2, ListFeedPush
    <2> QED
      BY <1>5, <2>1, <2>3
  <1>8. CASE activeId = None
    <2>1. socks' = Accepted(i) /\ ~Listed(live, activeId)
      BY <1>4, <1>8 DEF OnOpen, Listed
    <2> QED
      BY <1>2, <1>7, <2>1 DEF Told
  <1>9. CASE activeId # None
    <2>1. activeId \in Sids /\ socks' = subscribe(Accepted(i), activeId)
      BY <1>4, <1>9 DEF OnOpen, TypeOK
    <2>2. Accepted(i) # <<>>
      BY <1>5, EmptySeq
    <2>3. PICK sks : sks = Accepted(i)
      OBVIOUS
    <2>4. sks \in Seq(Sock) /\ sks # <<>> /\ Len(sks) = i /\ sks[Len(sks)].state = "open"
      BY <1>2, <1>5, <2>2, <2>3
    <2>5. /\ ListFeed(sks[Len(sks)].wire, sessions, Rows(live)) =>
               ListFeed(subscribe(sks, activeId)[Len(sks)].wire, sessions, Rows(live))
          /\ Listed(live, activeId) =>
               /\ subscribe(sks, activeId)[Len(sks)].subscribed = activeId
               /\ Feed(subscribe(sks, activeId)[Len(sks)].wire, activeId, shown, events[activeId])
      BY <2>1, <2>4, SubscribeFeeds
    <2> QED
      BY <1>2, <1>7, <2>1, <2>3, <2>4, <2>5 DEF Told
  <1> QED
    BY <1>8, <1>9

\* Whatever was lost, left and opened again, the page is told what the server has, step by step.
LEMMA SyncedStep ==
  ASSUME TypeOK, WiresEmpty, ScreenTrue, OnlineOpen, ListedExist, Synced, [Next]_vars
  PROVE  Synced'
  <1> USE BrowserOK
  <1>0. /\ socks \in Seq(Sock) /\ activeId \in Sids \cup {None} /\ wanted \in Sids \cup {None}
        /\ sessions \in Lists /\ live \in [Sids -> {"none", "active", "offline", "gone"}]
    BY DEF TypeOK
  <1>1. ASSUME Steady
        PROVE  Told(socks[Len(socks)].wire, socks[Len(socks)].subscribed,
                    sessions, activeId, shown, live, events, unpushed)
    BY <1>1 DEF Synced, Told
  <1>2. ASSUME Len(socks') = Len(socks),
               Told(socks'[Len(socks)].wire, socks'[Len(socks)].subscribed,
                    sessions', activeId', shown', live', events', unpushed')
        PROVE  Synced'
    BY <1>2 DEF Synced, Told
  <1>3. ASSUME Still,
               Steady => Told(socks'[Len(socks)].wire, socks'[Len(socks)].subscribed,
                              sessions', activeId', shown', live', events', unpushed')
        PROVE  Synced'
    <2>1. Steady' => Steady
      <3>1. LiveSocks' = LiveSocks
        BY <1>3 DEF Still, LiveSocks
      <3> QED
        BY <1>3, <3>1 DEF Still, Steady
    <2>2. Len(socks') = Len(socks)
      BY <1>3 DEF Still
    <2> QED
      BY <1>2, <1>3, <2>1, <2>2 DEF Synced
  <1>4. ASSUME NEW s \in Sids, WorkerEvent(s)
        PROVE  Synced'
    <2>1. Still
      BY <1>4, StillIs
    <2>2. UNCHANGED <<sessions, activeId, shown, live, unpushed>>
      BY <1>4 DEF WorkerEvent, homeVars
    <2>3. Steady => Told(socks'[Len(socks)].wire, socks'[Len(socks)].subscribed,
                         sessions, activeId, shown, live, events', unpushed)
      BY <1>4, EventTold
    <2> QED
      BY <1>3, <2>1, <2>2, <2>3
  <1>5. ASSUME NEW s \in Sids, NEW st \in {"active", "offline", "gone"}, SessionChange(s, st)
        PROVE  Synced'
    <2>1. Still
      BY <1>5, StillIs
    <2>2. PICK l : l = live'
      OBVIOUS
    <2>3. /\ l \in [Sids -> {"none", "active", "offline", "gone"}]
          /\ \A x \in Sids : Listed(l, x) => Listed(live, x) \/ live[x] = "none"
          /\ UNCHANGED <<sessions, activeId, shown, events, unpushed>>
          /\ socks' = pushList(socks, l)
      BY <1>0, <1>5, <2>2 DEF SessionChange, homeVars, Listed
    <2>4. Steady => Told(pushList(socks, l)[Len(socks)].wire, pushList(socks, l)[Len(socks)].subscribed,
                         sessions, activeId, shown, l, events, unpushed)
      BY <2>3, PushTold
    <2> QED
      BY <1>3, <2>1, <2>2, <2>3, <2>4
  <1>6. ASSUME NEW s \in Sids, NEW fails \in BOOLEAN, DeleteSession(s, fails)
        PROVE  Synced'
    <2>1. Still
      BY <1>6, StillIs
    <2>2. /\ UNCHANGED <<sessions, events>>
          /\ activeId' = IF activeId = s THEN None ELSE activeId
          /\ shown' = IF activeId = s THEN <<>> ELSE shown
      BY <1>6 DEF DeleteSession
    <2>3. ~Listed(live', None)
      BY DEF Listed
    <2>4. CASE UNCHANGED <<live, socks, unpushed>>
      <3> SUFFICES ASSUME Steady
                   PROVE  Told(socks[Len(socks)].wire, socks[Len(socks)].subscribed,
                               sessions, activeId', shown', live, events, unpushed)
        BY <1>3, <2>1, <2>2, <2>4
      <3> QED
        BY <1>1, <2>2, <2>3, <2>4 DEF Told
    <2>5. CASE ~fails /\ live' = [live EXCEPT ![s] = "gone"] /\ socks' = pushList(socks, live')
      <3>1. PICK l : l = live'
        OBVIOUS
      <3>2. /\ l \in [Sids -> {"none", "active", "offline", "gone"}]
            /\ \A x \in Sids : Listed(l, x) => Listed(live, x) \/ live[x] = "none"
            /\ socks' = pushList(socks, l)
        BY <1>0, <2>5, <3>1 DEF Listed
      <3>3. ~unpushed' => ~unpushed
        <4>1. UNCHANGED unpushed \/ unpushed' = (unpushed \/ fails)
          BY <1>6 DEF DeleteSession
        <4> QED
          BY <4>1, Zenon
      <3>4. Steady => Told(socks'[Len(socks)].wire, socks'[Len(socks)].subscribed,
                           sessions, activeId, shown, l, events, unpushed)
        BY <3>2, PushTold
      <3>5. Steady => Told(socks'[Len(socks)].wire, socks'[Len(socks)].subscribed,
                           sessions, activeId', shown', l, events, unpushed')
        BY <2>2, <2>3, <3>1, <3>3, <3>4 DEF Told
      <3> QED
        BY <1>3, <2>1, <2>2, <3>1, <3>5
    <2>6. CASE fails /\ live' = [live EXCEPT ![s] = "gone"] /\ socks' = socks /\ unpushed'
      <3>1. \A x \in Sids : Listed(live', x) => Listed(live, x)
        BY <1>0, <2>6 DEF Listed
      <3>2. activeId' = activeId \/ activeId' = None
        BY <2>2
      <3>3. Listed(live', activeId') => Listed(live, activeId) /\ activeId' = activeId /\ shown' = shown
        BY <1>0, <2>2, <2>3, <3>1 DEF Listed
      <3>4. Steady => Told(socks'[Len(socks)].wire, socks'[Len(socks)].subscribed,
                           sessions, activeId', shown', live', events, unpushed')
        BY <1>1, <2>6, <3>3 DEF Told
      <3> QED
        BY <1>3, <2>1, <2>2, <3>4
    <2>7. \/ UNCHANGED <<live, socks, unpushed>>
          \/ /\ live' = [live EXCEPT ![s] = "gone"]
             /\ socks' = IF fails THEN socks ELSE pushList(socks, live')
             /\ unpushed' = (unpushed \/ fails)
      BY <1>6 DEF DeleteSession
    <2>8. fails /\ unpushed' = (unpushed \/ fails) => unpushed'
      BY Zenon
    <2> QED
      BY <2>4, <2>5, <2>6, <2>7, <2>8
  <1>7. ASSUME NEW x \in Sids, socks' = subscribe(socks, x), activeId' = x, Still,
               UNCHANGED <<sessions, live, events, unpushed>>
        PROVE  Synced'
    <2> SUFFICES ASSUME Steady
                 PROVE  Told(socks'[Len(socks)].wire, socks'[Len(socks)].subscribed,
                             sessions, activeId', shown', live, events, unpushed)
      BY <1>3, <1>7
    <2>1. socks # <<>> /\ socks[Len(socks)].state = "open"
      BY SteadyIs
    <2>2. PICK sh : sh = shown'
      OBVIOUS
    <2>3. /\ ListFeed(socks[Len(socks)].wire, sessions, Rows(live)) =>
               ListFeed(subscribe(socks, x)[Len(socks)].wire, sessions, Rows(live))
          /\ Listed(live, x) => /\ subscribe(socks, x)[Len(socks)].subscribed = x
                                /\ Feed(subscribe(socks, x)[Len(socks)].wire, x, sh, events[x])
      BY <1>0, <2>1, SubscribeFeeds
    <2> QED
      BY <1>1, <1>7, <2>2, <2>3 DEF Told
  <1>8. ASSUME NEW s \in Sids, OpenSession(s)
        PROVE  Synced'
    <2>1. Still
      BY <1>8, StillIs
    <2> QED
      BY <1>7, <1>8, <2>1 DEF OpenSession, serverVars
  <1>9. CASE Back
    <2>1. Still
      BY <1>9, StillIs
    <2>2. UNCHANGED <<sessions, live, events, unpushed>>
      BY <1>9 DEF Back, serverVars
    <2>3. CASE Listed(sessions, wanted)
      BY <1>0, <1>7, <1>9, <2>1, <2>2, <2>3 DEF Back, Listed
    <2>4. CASE ~Listed(sessions, wanted)
      <3>1. activeId' = None /\ socks' = socks
        BY <1>9, <2>4 DEF Back
      <3>2. Steady => Told(socks'[Len(socks)].wire, socks'[Len(socks)].subscribed,
                           sessions, activeId', shown', live, events, unpushed)
        BY <1>1, <3>1 DEF Told, Listed
      <3> QED
        BY <1>3, <2>1, <2>2, <3>2
    <2> QED
      BY <2>3, <2>4
  <1>10. ASSUME NEW i \in DOMAIN socks, Deliver(i)
         PROVE  Synced'
    <2>1. Still
      BY <1>10, StillIs
    <2>2. UNCHANGED <<live, events, unpushed>>
      BY <1>10 DEF Deliver, serverVars
    <2>3. Steady => Told(socks'[Len(socks)].wire, socks'[Len(socks)].subscribed,
                         sessions', activeId', shown', live, events, unpushed)
      BY <1>10, DeliverTold
    <2> QED
      BY <1>3, <2>1, <2>2, <2>3
  <1>11. ASSUME NEW i \in DOMAIN socks, Opened(i)
         PROVE  Synced'
    <2>1. UNCHANGED <<sessions, activeId, shown, live, events, unpushed>>
      BY <1>11 DEF Opened, homeVars, serverVars
    <2>2. Len(socks') = Len(socks)
      BY <1>11, OpenedIs
    <2>3. Steady' => Told(socks'[Len(socks)].wire, socks'[Len(socks)].subscribed,
                          sessions, activeId, shown, live, events, unpushed)
      BY <1>11, OpenedTold
    <2>4. CASE Steady'
      BY <1>2, <2>1, <2>2, <2>3, <2>4
    <2>5. CASE ~Steady'
      BY <2>5 DEF Synced
    <2> QED
      BY <2>4, <2>5
  <1>12. ASSUME screen' # "home" \/ connection' # "online"
         PROVE  Synced'
    BY <1>12 DEF Synced, Steady
  <1>13. ASSUME NEW i \in DOMAIN socks, Drop(i) \/ ClosingDone(i)
         PROVE  Synced'
    <2>1. OnClose(i) /\ screen' = screen
      BY <1>13 DEF Drop, ClosingDone
    <2>2. closed => screen = "gate"
      BY DEF ScreenTrue
    <2>3. ~closed => connection' = "offline"
      BY <2>1, OnCloseIs
    <2> QED
      BY <1>12, <2>1, <2>2, <2>3
  <1>14. CASE TimerFires \/ LogIn
    BY <1>12, <1>14 DEF TimerFires, LogIn, Connect
  <1>15. CASE Retry
    BY <1>12, <1>15 DEF Retry, Connect
  <1>16. CASE LogOut
    BY <1>12, <1>16 DEF LogOut
  <1>17. ASSUME NEW a \in {"ok", "rejected", "unreachable"}, Checked(a)
         PROVE  Synced'
    BY <1>12, <1>17 DEF Checked, Connect
  <1>18. CASE UNCHANGED vars
    <2>1. Still
      BY <1>18, StillIs
    <2>2. UNCHANGED <<socks, sessions, activeId, shown, live, events, unpushed>>
      BY <1>18 DEF vars, socketVars, homeVars, serverVars
    <2> QED
      BY <1>1, <1>3, <2>1, <2>2
  <1> QED
    BY <1>4, <1>5, <1>6, <1>8, <1>9, <1>10, <1>11, <1>13, <1>14, <1>15, <1>16, <1>17, <1>18 DEF Next

-----------------------------------------------------------------------------
(* What always holds *)

\* The invariant holds when the page is loaded.
LEMMA InitIInv == Init => IInv
  <1> SUFFICES ASSUME Init
               PROVE  IInv
    OBVIOUS
  <1>1. TypeOK
    BY InitType
  <1>2. socks = <<>> /\ DOMAIN socks = {} /\ Len(socks) = 0
    BY EmptySeq DEF Init
  <1>3. WiresEmpty /\ OnlineOpen /\ Synced
    BY <1>2 DEF Init, WiresEmpty, OnlineOpen, Synced, Steady
  <1>4. ScreenTrue
    BY <1>2 DEF Init, ScreenTrue
  <1>5. ListedExist
    BY <1>2, BrowserOK DEF Init, ListedExist
  <1>6. OneAtATime
    BY <1>2 DEF Init, OneAtATime, Used, LiveSocks
  <1>7. NotedOnce
    <2>1. ASSUME NEW s \in Sids, NEW n \in 1 .. MaxEvents
          PROVE  /\ notes[<<s, n>>] \in {0, 1}
                 /\ notes[<<s, n>>] = 1 => n <= events[s]
                 /\ \A i \in DOMAIN socks : NoteFeed(socks[i].wire, s, n, notes[<<s, n>>], events[s])
      <3>1. <<s, n>> \in EventIds
        BY DEF EventIds
      <3>2. notes[<<s, n>>] = 0
        BY <3>1 DEF Init
      <3> QED
        BY <1>2, <3>2
    <2> QED
      BY <2>1 DEF NotedOnce
  <1> QED
    BY <1>1, <1>3, <1>4, <1>5, <1>6, <1>7 DEF IInv

\* Every step keeps the invariant.
LEMMA StepIInv ==
  ASSUME IInv, [Next]_vars
  PROVE  IInv'
  <1> USE DEF IInv
  <1>1. TypeOK'
    BY TypeStep
  <1>2. WiresEmpty'
    BY WiresEmptyStep
  <1>3. ScreenTrue' /\ OnlineOpen'
    BY ScreenStep
  <1>4. ListedExist'
    BY ListedStep
  <1>5. Synced'
    BY SyncedStep
  <1>6. OneAtATime' /\ NotedOnce'
    BY OneAtATimeStep, NotedStep
  <1> QED
    BY <1>1, <1>2, <1>3, <1>4, <1>5, <1>6

\* The inductive invariant of the page and its channel.
THEOREM InvAlways == Spec => []IInv
  <1>1. Init => IInv
    BY InitIInv
  <1>2. IInv /\ [Next]_vars => IInv'
    BY StepIInv
  <1> QED
    BY <1>1, <1>2, PTL DEF Spec

\* The state stays what ws.ts, App.tsx and web-channel.ts can hold.
THEOREM TypesCorrect == Spec => []TypeOK
  <1>1. IInv => TypeOK
    BY DEF IInv
  <1> QED
    BY <1>1, InvAlways, PTL

\* A connected page whose frames have arrived shows what the server has, whatever was lost, deleted,
\* left and opened again.  (App.tsx:79-106, session.ts:76-96, web-channel.ts:143-171)
THEOREM CaughtUpAlways == Spec => []CaughtUp
  <1>1. ASSUME IInv
        PROVE  CaughtUp
    <2> SUFFICES ASSUME Settled
                 PROVE  /\ Listed(live, activeId) /\ Listed(sessions, activeId) =>
                             shown = [i \in 1 .. events[activeId] |-> i]
                        /\ ~unpushed => sessions = Rows(live)
      BY DEF CaughtUp
    <2>1. Steady /\ socks[Len(socks)].wire = <<>>
      BY DEF Settled, Steady
    <2>2. ASSUME ~unpushed
          PROVE  sessions = Rows(live)
      <3>1. ListFeed(<<>>, sessions, Rows(live))
        BY <1>1, <2>1, <2>2 DEF IInv, Synced
      <3> QED
        BY <3>1, ListFeedEmpty
    <2>3. ASSUME Listed(live, activeId), Listed(sessions, activeId)
          PROVE  shown = [i \in 1 .. events[activeId] |-> i]
      <3>1. Feed(<<>>, activeId, shown, events[activeId])
        BY <1>1, <2>1, <2>3 DEF IInv, Synced
      <3>2. events[activeId] \in Nat
        BY <1>1, <2>3, BrowserOK DEF IInv, TypeOK, Listed
      <3>3. shown = Upto(events[activeId])
        BY <3>1, <3>2, FeedEmpty
      <3> QED
        BY <3>3 DEF Upto
    <2> QED
      BY <2>2, <2>3
  <1> QED
    BY <1>1, InvAlways, PTL

\* Neither a connection nor a notification is ever doubled, unless Retry raced the backoff timer.
\* (ws.ts:62-77, 100; web-channel.ts:157-167; App.tsx:65-71)
THEOREM OnceOnlyAlways == Spec => []OnceOnly
  <1>1. ASSUME IInv
        PROVE  OnceOnly
    <2>1. ASSUME ~doubled
          PROVE  Cardinality(LiveSocks) <= 1
      <3>1. LiveSocks \subseteq {Len(socks)}
        BY <1>1, <2>1 DEF IInv, OneAtATime, Used, LiveSocks
      <3>2. IsFiniteSet({Len(socks)}) /\ Cardinality({Len(socks)}) = 1
        BY FS_Singleton
      <3>3. Cardinality(LiveSocks) <= Cardinality({Len(socks)})
        BY <3>1, <3>2, FS_Subset
      <3> QED
        BY <3>2, <3>3
    <2>2. closed /\ ~doubled /\ ~leftover => LiveSocks = {}
      BY <1>1 DEF IInv, OneAtATime
    <2>3. ASSUME ~doubled, NEW e \in EventIds
          PROVE  notes[e] <= 1
      <3>1. PICK s \in Sids, n \in 1 .. MaxEvents : e = <<s, n>>
        BY DEF EventIds
      <3>2. notes[e] \in {0, 1}
        BY <1>1, <2>3, <3>1 DEF IInv, NotedOnce
      <3> QED
        BY <3>2
    <2> QED
      BY <2>1, <2>2, <2>3 DEF OnceOnly, OneConnection, NotifiedOnce
  <1> QED
    BY <1>1, InvAlways, PTL

=============================================================================
