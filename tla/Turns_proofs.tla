----------------------------- MODULE Turns_proofs -----------------------------
(***************************************************************************)
(* Theorems about Turns: its types, that what the reader is shown of the   *)
(* turn, the calls and the asks is what they are, live and reopened, and   *)
(* that reopening a session shows it as it was seen, for any number of     *)
(* tools, texts, events and messages.                                      *)
(***************************************************************************)
EXTENDS Turns, FiniteSetTheorems, SequenceTheorems, WellFoundedInduction, TLAPS

-----------------------------------------------------------------------------
(* Induction over the naturals; the transcript rebuilt from a history *)

LEMMA Least ==
  ASSUME NEW T \in SUBSET Nat, T # {}
  PROVE  \E n \in T : \A m \in T : n <= m
  <1> DEFINE R == {p \in Nat \X Nat : p[1] < p[2]}
  <1>1. IsWellFoundedOn(R, Nat)
    BY NatLessThanWellFounded DEF OpToRel
  <1>2. PICK n \in T : \A m \in T : <<m, n>> \notin R
    <2> HIDE DEF R
    <2> QED
      BY <1>1, WFMin
  <1>3. ASSUME NEW m \in T PROVE ~(m < n)
    BY <1>2
  <1> HIDE DEF R
  <1> QED
    BY <1>3

\* What holds of 0, and of each number's successor, holds of every number.
LEMMA Induct ==
  ASSUME NEW T \in SUBSET Nat, 0 \in T, \A n \in T : n + 1 \in T
  PROVE  T = Nat
  <1> SUFFICES ASSUME Nat \ T # {} PROVE FALSE
    OBVIOUS
  <1>1. PICK n \in Nat \ T : \A m \in Nat \ T : n <= m
    BY Least
  <1>2. n # 0 /\ n - 1 \in Nat /\ n - 1 \in T
    BY <1>1
  <1> QED
    BY <1>1, <1>2

LEMMA MaxIs ==
  ASSUME NEW n \in Nat, NEW I \in SUBSET (1 .. n), I # {}
  PROVE  Max(I) \in I /\ \A i \in I : i <= Max(I)
  <1> DEFINE T == {n - i : i \in I}
  <1>1. T \in SUBSET Nat /\ T # {}
    <2>1. \A i \in I : n - i \in Nat
      OBVIOUS
    <2> QED
      BY <2>1
  <1>2. PICK k \in T : \A m \in T : k <= m
    <2> HIDE DEF T
    <2> QED
      BY <1>1, Least
  <1>3. PICK i \in I : k = n - i
    BY <1>2
  <1>4. \A j \in I : i >= j
    <2> SUFFICES ASSUME NEW j \in I PROVE i >= j
      OBVIOUS
    <2>1. k <= n - j
      BY <1>2
    <2> QED
      BY <1>3, <2>1
  <1>5. Max(I) \in I /\ \A j \in I : Max(I) >= j
    BY <1>4 DEF Max
  <1> QED
    BY <1>5

LEMMA MinIs ==
  ASSUME NEW n \in Nat, NEW I \in SUBSET (1 .. n), I # {}
  PROVE  Min(I) \in I /\ \A i \in I : Min(I) <= i
  <1>1. PICK k \in I : \A m \in I : k <= m
    BY Least
  <1> QED
    BY <1>1 DEF Min

\* Replayed(h) is what its definition says: payload after payload.
LEMMA ReplayedIs ==
  ASSUME NEW S, NEW h \in Seq(S)
  PROVE  /\ Replayed(h)[0] = initialState
         /\ \A n \in 1 .. Len(h) : Replayed(h)[n] = reduce(Replayed(h)[n - 1], h[n], TRUE)
  <1> DEFINE Reads(f, m) == f = [n \in 0 .. m |-> IF n = 0 THEN initialState ELSE reduce(f[n - 1], h[n], TRUE)]
             T == {m \in Nat : \E f : Reads(f, m)}
  <1>1. 0 \in T
    <2>1. Reads([n \in 0 .. 0 |-> initialState], 0)
      OBVIOUS
    <2> QED
      BY <2>1
  <1>2. ASSUME NEW m \in T PROVE m + 1 \in T
    <2>1. PICK f : Reads(f, m)
      BY <1>2
    <2> DEFINE g == [n \in 0 .. m + 1 |-> IF n = m + 1 THEN reduce(f[m], h[m + 1], TRUE) ELSE f[n]]
    <2>2. m \in Nat /\ \A n \in 0 .. m : g[n] = f[n]
      <3>1. m \in Nat
        BY <1>2
      <3>2. \A n \in 0 .. m : n \in 0 .. m + 1 /\ n # m + 1
        BY <3>1
      <3> QED
        BY <3>1, <3>2
    <2>3. ASSUME NEW n \in 0 .. m + 1 PROVE g[n] = IF n = 0 THEN initialState ELSE reduce(g[n - 1], h[n], TRUE)
      <3>1. CASE n = m + 1
        <4>1. n - 1 \in 0 .. m /\ n - 1 = m /\ n # 0
          BY <2>2, <3>1
        <4> QED
          BY <2>2, <3>1, <4>1
      <3>2. CASE n # m + 1
        <4>1. n \in 0 .. m /\ (n # 0 => n - 1 \in 0 .. m)
          BY <2>2, <3>2
        <4>2. f[n] = IF n = 0 THEN initialState ELSE reduce(f[n - 1], h[n], TRUE)
          BY <2>1, <4>1
        <4> QED
          BY <2>2, <4>1, <4>2
      <3> QED
        BY <3>1, <3>2
    <2>4. Reads(g, m + 1)
      BY <2>3
    <2> HIDE DEF Reads, g
    <2> QED
      BY <2>2, <2>4
  <1>3. Len(h) \in T
    <2>1. T \subseteq Nat /\ Len(h) \in Nat
      <3>1. T \subseteq Nat
        BY Zenon
      <3> HIDE DEF T
      <3> QED
        BY <3>1
    <2> HIDE DEF T
    <2> QED
      BY <1>1, <1>2, <2>1, Induct
  <1>4. Reads(Replayed(h), Len(h))
    BY <1>3 DEF Replayed
  <1> QED
    <2>1. Len(h) \in Nat
      OBVIOUS
    <2> HIDE DEF Reads
    <2> QED
      BY <1>4, <2>1 DEF Reads

\* A history with one more payload is replayed to one more step.
LEMMA ReplayNext ==
  ASSUME NEW S, NEW h \in Seq(S), NEW p \in S
  PROVE  reduceAll(Append(h, p)) = reduce(reduceAll(h), p, TRUE)
  <1> DEFINE more == Append(h, p)
             T == {n \in Nat : n <= Len(h) => Replayed(more)[n] = Replayed(h)[n]}
  <1>1. /\ Len(h) \in Nat /\ more \in Seq(S) /\ Len(more) = Len(h) + 1 /\ more[Len(h) + 1] = p
        /\ \A n \in 1 .. Len(h) : more[n] = h[n]
    OBVIOUS
  <1>2. /\ Replayed(h)[0] = initialState /\ Replayed(more)[0] = initialState
        /\ \A n \in 1 .. Len(h) : Replayed(h)[n] = reduce(Replayed(h)[n - 1], h[n], TRUE)
        /\ \A n \in 1 .. Len(more) : Replayed(more)[n] = reduce(Replayed(more)[n - 1], more[n], TRUE)
    <2> HIDE DEF more
    <2> QED
      BY <1>1, ReplayedIs
  <1> HIDE DEF more
  <1>3. 0 \in T
    BY <1>2
  <1>4. ASSUME NEW n \in T PROVE n + 1 \in T
    <2> SUFFICES ASSUME n + 1 <= Len(h) PROVE Replayed(more)[n + 1] = Replayed(h)[n + 1]
      OBVIOUS
    <2>1. n + 1 \in 1 .. Len(h) /\ n + 1 \in 1 .. Len(more) /\ (n + 1) - 1 = n /\ Replayed(more)[n] = Replayed(h)[n]
      BY <1>1
    <2>2. Replayed(more)[n + 1] = reduce(Replayed(more)[(n + 1) - 1], more[n + 1], TRUE)
      BY <1>2, <2>1
    <2>3. Replayed(h)[n + 1] = reduce(Replayed(h)[(n + 1) - 1], h[n + 1], TRUE)
      BY <1>2, <2>1
    <2> QED
      BY <1>1, <2>1, <2>2, <2>3
  <1>5. Len(h) \in T
    <2> HIDE DEF T
    <2>1. T \in SUBSET Nat
      BY DEF T
    <2> QED
      BY <1>1, <1>3, <1>4, <2>1, Induct
  <1>6. Replayed(more)[Len(h)] = Replayed(h)[Len(h)]
    BY <1>1, <1>5
  <1>7. Len(h) + 1 \in 1 .. Len(more) /\ (Len(h) + 1) - 1 = Len(h)
    BY <1>1
  <1>8. Replayed(more)[Len(h) + 1] = reduce(Replayed(more)[Len(h)], p, TRUE)
    BY <1>1, <1>2, <1>7
  <1> QED
    BY <1>1, <1>6, <1>8 DEF reduceAll, more

LEMMA ReplayNothing == reduceAll(<<>>) = initialState
  <1>1. <<>> \in Seq({}) /\ Len(<<>>) = 0
    OBVIOUS
  <1> QED
    BY <1>1, ReplayedIs DEF reduceAll

Decides(p) == EndsTurn(p) \/ p.type \in UserTypes \cup {"tool_use"}

\* The last payload that says anything of the turn decides.
LEMMA ActiveNext ==
  ASSUME NEW S, NEW h \in Seq(S), NEW p \in S
  PROVE  /\ Decides(p) => turnActiveIn(Append(h, p)) = ~EndsTurn(p)
         /\ ~Decides(p) => turnActiveIn(Append(h, p)) = turnActiveIn(h)
  <1> DEFINE more == Append(h, p)
             I == {i \in 1 .. Len(h) : Decides(h[i])}
             J == {i \in 1 .. Len(more) : Decides(more[i])}
  <1>1. /\ Len(h) \in Nat /\ more \in Seq(S) /\ Len(more) = Len(h) + 1 /\ more[Len(h) + 1] = p
        /\ \A n \in 1 .. Len(h) : more[n] = h[n]
    OBVIOUS
  <1>2. /\ turnActiveIn(h) = IF I = {} THEN FALSE ELSE ~EndsTurn(h[Max(I)])
        /\ turnActiveIn(more) = IF J = {} THEN FALSE ELSE ~EndsTurn(more[Max(J)])
    <2>1. I # {} => Max(I) \in I /\ Max(I) # 0
      <3>1. I \in SUBSET (1 .. Len(h)) /\ Len(h) \in Nat
        OBVIOUS
      <3>2. I # {} => Max(I) \in I
        <4> HIDE DEF I
        <4> QED
          BY <3>1, MaxIs
      <3> HIDE DEF I
      <3> QED
        BY <3>1, <3>2
    <2>2. J # {} => Max(J) \in J /\ Max(J) # 0
      <3> HIDE DEF more
      <3>1. J \in SUBSET (1 .. Len(more)) /\ Len(more) \in Nat
        BY <1>1
      <3>2. J # {} => Max(J) \in J
        <4> HIDE DEF J
        <4> QED
          BY <3>1, MaxIs
      <3> HIDE DEF J
      <3> QED
        BY <3>1, <3>2
    <2> QED
      BY <2>1, <2>2 DEF turnActiveIn, SelectLastInSeq, Decides
  <1>3. CASE Decides(p)
    <2>1. Len(h) + 1 \in J /\ J \in SUBSET (1 .. Len(h) + 1) /\ Len(h) + 1 \in Nat
      BY <1>1, <1>3
    <2>2. Max(J) \in J /\ Len(h) + 1 <= Max(J)
      <3> HIDE DEF J
      <3> QED
        BY <2>1, MaxIs
    <2>3. Max(J) = Len(h) + 1 /\ J # {}
      <3> HIDE DEF I, J, more
      <3> DEFINE n == Len(h) + 1
                 k == Max(J)
      <3>1. n \in Nat /\ k \in J /\ J \in SUBSET (1 .. n) /\ n <= k /\ n \in J
        BY <2>1, <2>2
      <3> HIDE DEF n, k
      <3>2. k \in 1 .. n
        BY <3>1
      <3>3. k = n
        BY <3>1, <3>2
      <3> QED
        BY <3>1, <3>3 DEF n, k
    <2> HIDE DEF I, J, more
    <2> QED
      BY <1>1, <1>2, <1>3, <2>3 DEF more
  <1>4. CASE ~Decides(p)
    <2>1. I = J
      BY <1>1, <1>4
    <2>2. I # {} => Max(I) \in 1 .. Len(h)
      <3>1. I \in SUBSET (1 .. Len(h)) /\ Len(h) \in Nat
        OBVIOUS
      <3> HIDE DEF I
      <3> QED
        BY <3>1, MaxIs
    <2>3. ~Decides(p)
      BY <1>4
    <2> HIDE DEF I, J, more
    <2>4. turnActiveIn(more) = turnActiveIn(h)
      <3>1. CASE I = {}
        BY <1>2, <2>1, <3>1
      <3>2. CASE I # {}
        <4>1. more[Max(I)] = h[Max(I)]
          BY <1>1, <2>2, <3>2
        <4>2. turnActiveIn(more) = ~EndsTurn(more[Max(J)])
          BY <1>2, <2>1, <3>2
        <4>3. turnActiveIn(h) = ~EndsTurn(h[Max(I)])
          BY <1>2, <3>2
        <4> QED
          BY <2>1, <4>1, <4>2, <4>3
      <3> QED
        BY <3>1, <3>2
    <2> QED
      BY <2>3, <2>4 DEF more
  <1> QED
    BY <1>3, <1>4


-----------------------------------------------------------------------------
(* What is read off the items of a transcript *)

Statuses == OpenStatus \cup {"ok", "error"}

View ==
  [items : Seq(Item), busy : BOOLEAN, running : Tools \cup {None},
   permission : Tools \cup {None}, pendingWeb : Seq(Texts)]

Payload ==
  [type : {"user_text"}, text : Texts]
    \cup [type : {"tool_result"}, tool : Tools, failed : BOOLEAN]
    \cup [type : {"tool_use", "can_use_tool", "control_cancel_request"}, tool : Tools]
    \cup [type : {"result"}, failed : BOOLEAN]
    \cup [type : {"interrupt_notice", "command_echo", "assistant_text", "content_block_delta", "message_stop",
                  "post_turn_summary", "worker_shutting_down", "conversation_reset"}]

OpenIn(s) ==
  {t \in Tools : \E i \in DOMAIN s : s[i].kind = "tools" /\
                   \E j \in DOMAIN s[i].calls : s[i].calls[j].tool = t /\ s[i].calls[j].status \in OpenStatus}

Cards(s) == {t \in Asking : \E i \in DOMAIN s : s[i] = CardOf(t)}

Had(s) == {t \in Tools : \E i \in DOMAIN s : s[i].kind = "question" /\ s[i].tool = t}

Bub(s, t) == {i \in DOMAIN s : s[i].kind = "user" /\ s[i].text = t}

Que(s, t) == {i \in DOMAIN s : s[i] = Bubble(t, TRUE)}

\* The items of the kinds K are the same ones, at the same places.
Keeps(s, t, K) ==
  /\ \A i \in DOMAIN s : s[i].kind \in K => i \in DOMAIN t /\ t[i] = s[i]
  /\ \A i \in DOMAIN t : t[i].kind \in K => i \in DOMAIN s /\ t[i] = s[i]

LEMMA ItemIs ==
  ASSUME NEW it \in Item
  PROVE  /\ it.kind \in {"user", "prose", "tools", "question", "divider", "status", "error"}
         /\ it.kind = "user" => it.text \in Texts /\ it.queued \in BOOLEAN /\ it = Bubble(it.text, it.queued)
         /\ it.kind = "prose" => it.state \in {"streaming", "stopped", "final"} /\ it = [kind |-> "prose", state |-> it.state]
         /\ it.kind = "tools" => it.calls \in Seq(Call) /\ it = [kind |-> "tools", calls |-> it.calls]
         /\ it.kind = "question" => it.tool \in Asking /\ it.answered \in BOOLEAN
                                    /\ it = [kind |-> "question", tool |-> it.tool, answered |-> it.answered]
  BY DEF Item, Bubble

LEMMA ItemsAre ==
  /\ \A t \in Texts, q \in BOOLEAN : Bubble(t, q) \in Item /\ Bubble(t, q).kind = "user"
       /\ Bubble(t, q).text = t /\ Bubble(t, q).queued = q
  /\ \A st \in {"streaming", "stopped", "final"} : [kind |-> "prose", state |-> st] \in Item
  /\ \A cs \in Seq(Call) : [kind |-> "tools", calls |-> cs] \in Item
  /\ \A t \in Asking, a \in BOOLEAN : [kind |-> "question", tool |-> t, answered |-> a] \in Item
  /\ \A t \in Asking : CardOf(t) \in Item /\ CardOf(t).kind = "question" /\ CardOf(t).tool = t
  /\ \A l \in {"reset", "disconnected"} : [kind |-> "divider", label |-> l] \in Item
  /\ [kind |-> "status"] \in Item /\ [kind |-> "error"] \in Item
  <1>1. \A t \in Texts, q \in BOOLEAN : Bubble(t, q) \in Item /\ Bubble(t, q).kind = "user"
          /\ Bubble(t, q).text = t /\ Bubble(t, q).queued = q
    BY DEF Item, Bubble
  <1>2. \A st \in {"streaming", "stopped", "final"} : [kind |-> "prose", state |-> st] \in Item
    BY DEF Item
  <1>3. \A cs \in Seq(Call) : [kind |-> "tools", calls |-> cs] \in Item
    BY DEF Item
  <1>4. \A t \in Asking, a \in BOOLEAN : [kind |-> "question", tool |-> t, answered |-> a] \in Item
    BY DEF Item
  <1>5. \A t \in Asking : CardOf(t) \in Item /\ CardOf(t).kind = "question" /\ CardOf(t).tool = t
    BY <1>4 DEF CardOf
  <1>6. \A l \in {"reset", "disconnected"} : [kind |-> "divider", label |-> l] \in Item
    BY DEF Item
  <1>7. [kind |-> "status"] \in Item /\ [kind |-> "error"] \in Item
    BY DEF Item
  <1> QED
    BY <1>1, <1>2, <1>3, <1>4, <1>5, <1>6, <1>7

LEMMA Appended ==
  ASSUME NEW S, NEW s \in Seq(S), NEW x \in S
  PROVE  /\ Append(s, x) \in Seq(S)
         /\ Len(s) \in Nat
         /\ DOMAIN s = 1 .. Len(s)
         /\ DOMAIN Append(s, x) = 1 .. Len(s) + 1
         /\ Len(Append(s, x)) = Len(s) + 1
         /\ \A i \in DOMAIN s : i \in DOMAIN Append(s, x) /\ Append(s, x)[i] = s[i] /\ s[i] \in S /\ i # Len(s) + 1
         /\ Append(s, x)[Len(s) + 1] = x
         /\ \A i \in DOMAIN Append(s, x) : i \in DOMAIN s \/ i = Len(s) + 1
         /\ Len(s) + 1 \in DOMAIN Append(s, x)
  OBVIOUS

LEMMA KeepsAppended ==
  ASSUME NEW s \in Seq(Item), NEW x \in Item, NEW K, x.kind \notin K
  PROVE  Keeps(s, Append(s, x), K)
  BY Appended DEF Keeps

\* Item by item, the kind stays, and what is of the kinds K is left alone.
LEMMA KeepsMapped ==
  ASSUME NEW s \in Seq(Item), NEW K, NEW G,
         DOMAIN G = DOMAIN s,
         \A i \in DOMAIN s : G[i] \in Item /\ G[i].kind = s[i].kind /\ (s[i].kind \in K => G[i] = s[i])
  PROVE  Keeps(s, G, K)
  BY DEF Keeps

LEMMA SeqMapped ==
  ASSUME NEW S, NEW s \in Seq(S), NEW T, NEW G \in [DOMAIN s -> T]
  PROVE  G \in Seq(T) /\ Len(G) = Len(s)
  <1>1. Len(s) \in Nat /\ DOMAIN s = 1 .. Len(s)
    OBVIOUS
  <1>2. G \in [1 .. Len(s) -> T]
    BY <1>1
  <1> QED
    BY <1>1, <1>2

LEMMA KeepsSame ==
  ASSUME NEW s, NEW K
  PROVE  Keeps(s, s, K)
  BY DEF Keeps

LEMMA KeptOpen ==
  ASSUME NEW s, NEW t, NEW K, Keeps(s, t, K), "tools" \in K
  PROVE  OpenIn(t) = OpenIn(s)
  <1>1. OpenIn(t) \subseteq OpenIn(s)
    BY DEF Keeps, OpenIn
  <1>2. OpenIn(s) \subseteq OpenIn(t)
    BY DEF Keeps, OpenIn
  <1> QED
    BY <1>1, <1>2

LEMMA KeptCards ==
  ASSUME NEW s, NEW t, NEW K, Keeps(s, t, K), "question" \in K
  PROVE  Cards(t) = Cards(s) /\ Had(t) = Had(s)
  <1>1. \A a : CardOf(a).kind = "question"
    BY DEF CardOf
  <1>2. Cards(t) \subseteq Cards(s) /\ Cards(s) \subseteq Cards(t)
    BY <1>1 DEF Keeps, Cards
  <1>3. Had(t) = Had(s)
    BY DEF Keeps, Had
  <1> QED
    BY <1>2, <1>3

LEMMA KeptBubbles ==
  ASSUME NEW s, NEW t, NEW K, Keeps(s, t, K), "user" \in K, NEW x
  PROVE  Bub(t, x) = Bub(s, x) /\ Que(t, x) = Que(s, x)
  <1>1. \A q : Bubble(x, q).kind = "user"
    BY DEF Bubble
  <1>2. Bub(t, x) = Bub(s, x)
    BY DEF Keeps, Bub
  <1>3. Que(t, x) = Que(s, x)
    BY <1>1 DEF Keeps, Que
  <1> QED
    BY <1>2, <1>3

\* What is appended is seen, and nothing else changes.
LEMMA AppendedOpen ==
  ASSUME NEW s \in Seq(Item), NEW cs \in Seq(Call)
  PROVE  OpenIn(Append(s, [kind |-> "tools", calls |-> cs]))
           = OpenIn(s) \cup {t \in Tools : \E j \in DOMAIN cs : cs[j].tool = t /\ cs[j].status \in OpenStatus}
  <1> DEFINE x == [kind |-> "tools", calls |-> cs]
             u == Append(s, x)
  <1>1. x \in Item /\ x.kind = "tools" /\ x.calls = cs
    BY ItemsAre
  <1>2. /\ \A i \in DOMAIN s : i \in DOMAIN u /\ u[i] = s[i]
        /\ Len(s) + 1 \in DOMAIN u /\ u[Len(s) + 1] = x
        /\ \A i \in DOMAIN u : i \in DOMAIN s \/ i = Len(s) + 1
    BY <1>1, Appended
  <1> HIDE DEF u, x
  <1>3. OpenIn(u) \subseteq OpenIn(s) \cup {t \in Tools : \E j \in DOMAIN cs : cs[j].tool = t /\ cs[j].status \in OpenStatus}
    BY <1>1, <1>2 DEF OpenIn
  <1>4. OpenIn(s) \subseteq OpenIn(u)
    BY <1>1, <1>2 DEF OpenIn
  <1>5. {t \in Tools : \E j \in DOMAIN cs : cs[j].tool = t /\ cs[j].status \in OpenStatus} \subseteq OpenIn(u)
    BY <1>1, <1>2 DEF OpenIn
  <1> QED
    BY <1>3, <1>4, <1>5 DEF u, x

LEMMA AppendedCard ==
  ASSUME NEW s \in Seq(Item), NEW a \in Asking, Asking \subseteq Tools
  PROVE  /\ Cards(Append(s, CardOf(a))) = Cards(s) \cup {a}
         /\ Had(Append(s, CardOf(a))) = Had(s) \cup {a}
  <1> DEFINE x == CardOf(a)
             u == Append(s, x)
  <1>1. x \in Item /\ x.kind = "question" /\ x.tool = a
    BY ItemsAre
  <1>2. /\ \A i \in DOMAIN s : i \in DOMAIN u /\ u[i] = s[i]
        /\ Len(s) + 1 \in DOMAIN u /\ u[Len(s) + 1] = x
        /\ \A i \in DOMAIN u : i \in DOMAIN s \/ i = Len(s) + 1
    BY <1>1, Appended
  <1>3. \A b : CardOf(b) = x => b = a
    BY DEF CardOf
  <1> HIDE DEF u
  <1>4. Cards(u) = Cards(s) \cup {a}
    <2> HIDE DEF x
    <2> QED
      BY <1>2, <1>3 DEF Cards, x
  <1>5. Had(u) = Had(s) \cup {a}
    <2> HIDE DEF x
    <2> QED
      BY <1>1, <1>2 DEF Had
  <1> QED
    BY <1>4, <1>5 DEF u

LEMMA AppendedBubble ==
  ASSUME NEW s \in Seq(Item), NEW a \in Texts, NEW q \in BOOLEAN
  PROVE  /\ Len(s) + 1 \notin DOMAIN s
         /\ Bub(Append(s, Bubble(a, q)), a) = Bub(s, a) \cup {Len(s) + 1}
         /\ Que(Append(s, Bubble(a, q)), a) = IF q THEN Que(s, a) \cup {Len(s) + 1} ELSE Que(s, a)
         /\ \A b \in Texts : b # a => /\ Bub(Append(s, Bubble(a, q)), b) = Bub(s, b)
                                      /\ Que(Append(s, Bubble(a, q)), b) = Que(s, b)
  <1> DEFINE x == Bubble(a, q)
             u == Append(s, x)
  <1>1. x \in Item /\ x.kind = "user" /\ x.text = a /\ x.queued = q
    BY ItemsAre
  <1>2. /\ \A i \in DOMAIN s : i \in DOMAIN u /\ u[i] = s[i] /\ i # Len(s) + 1
        /\ Len(s) + 1 \in DOMAIN u /\ u[Len(s) + 1] = x
        /\ \A i \in DOMAIN u : i \in DOMAIN s \/ i = Len(s) + 1
    BY <1>1, Appended
  <1>3. \A b : (Bubble(b, TRUE) = x) <=> (b = a /\ q)
    BY DEF Bubble
  <1> HIDE DEF u, x
  <1>4. Bub(u, a) = Bub(s, a) \cup {Len(s) + 1}
    BY <1>1, <1>2 DEF Bub
  <1>5. Que(u, a) = IF q THEN Que(s, a) \cup {Len(s) + 1} ELSE Que(s, a)
    BY <1>2, <1>3 DEF Que
  <1>6. ASSUME NEW b \in Texts, b # a PROVE Bub(u, b) = Bub(s, b)
    BY <1>1, <1>2, <1>6 DEF Bub
  <1>7. ASSUME NEW b \in Texts, b # a PROVE Que(u, b) = Que(s, b)
    BY <1>2, <1>3, <1>7 DEF Que
  <1>8. Len(s) + 1 \notin DOMAIN s
    BY <1>2
  <1> QED
    BY <1>4, <1>5, <1>6, <1>7, <1>8 DEF u, x

-----------------------------------------------------------------------------
(* What each operation of the transcript changes *)

LEMMA ViewFields ==
  ASSUME NEW v \in View
  PROVE  /\ v.items \in Seq(Item) /\ v.busy \in BOOLEAN /\ v.running \in Tools \cup {None}
         /\ v.permission \in Tools \cup {None} /\ v.pendingWeb \in Seq(Texts)
         /\ v = [items |-> v.items, busy |-> v.busy, running |-> v.running,
                 permission |-> v.permission, pendingWeb |-> v.pendingWeb]
  BY DEF View

\* The other fields are those of v.
But(v, w, F) ==
  /\ "items" \notin F => w.items = v.items
  /\ "busy" \notin F => w.busy = v.busy
  /\ "running" \notin F => w.running = v.running
  /\ "permission" \notin F => w.permission = v.permission
  /\ "pendingWeb" \notin F => w.pendingWeb = v.pendingWeb

LEMMA WithItems ==
  ASSUME NEW v \in View, NEW e \in Seq(Item)
  PROVE  [v EXCEPT !.items = e] \in View /\ [v EXCEPT !.items = e].items = e /\ But(v, [v EXCEPT !.items = e], {"items"})
  BY DEF View, But

LEMMA WithBusy ==
  ASSUME NEW v \in View, NEW e \in BOOLEAN
  PROVE  [v EXCEPT !.busy = e] \in View /\ [v EXCEPT !.busy = e].busy = e /\ But(v, [v EXCEPT !.busy = e], {"busy"})
  BY DEF View, But

LEMMA WithRunning ==
  ASSUME NEW v \in View, NEW e \in Tools \cup {None}
  PROVE  /\ [v EXCEPT !.running = e] \in View /\ [v EXCEPT !.running = e].running = e
         /\ But(v, [v EXCEPT !.running = e], {"running"})
  BY DEF View, But

LEMMA WithPermission ==
  ASSUME NEW v \in View, NEW e \in Tools \cup {None}
  PROVE  /\ [v EXCEPT !.permission = e] \in View /\ [v EXCEPT !.permission = e].permission = e
         /\ But(v, [v EXCEPT !.permission = e], {"permission"})
  BY DEF View, But

LEMMA WithPending ==
  ASSUME NEW v \in View, NEW e \in Seq(Texts)
  PROVE  /\ [v EXCEPT !.pendingWeb = e] \in View /\ [v EXCEPT !.pendingWeb = e].pendingWeb = e
         /\ But(v, [v EXCEPT !.pendingWeb = e], {"pendingWeb"})
  BY DEF View, But

LEMMA ButMore ==
  ASSUME NEW v, NEW w, NEW F, NEW G, F \subseteq G, But(v, w, F)
  PROVE  But(v, w, G)
  BY DEF But

LEMMA Initially ==
  /\ initialState \in View /\ initialState.items = <<>> /\ initialState.busy = FALSE
  /\ initialState.running = None /\ initialState.permission = None /\ initialState.pendingWeb = <<>>
  BY DEF initialState, View

LEMMA Pushed ==
  ASSUME NEW v \in View, NEW x \in Item
  PROVE  /\ push(v, x) \in View /\ push(v, x).items = Append(v.items, x) /\ But(v, push(v, x), {"items"})
         /\ \A K : x.kind \notin K => Keeps(v.items, push(v, x).items, K)
  <1>1. v.items \in Seq(Item)
    BY ViewFields
  <1>2. Append(v.items, x) \in Seq(Item)
    BY <1>1
  <1>3. push(v, x) = [v EXCEPT !.items = Append(v.items, x)]
    BY DEF push
  <1>4. push(v, x) \in View /\ push(v, x).items = Append(v.items, x) /\ But(v, push(v, x), {"items"})
    BY <1>2, <1>3, WithItems
  <1> QED
    BY <1>1, <1>4, KeepsAppended

\* The item at the tail, if there is one.
LEMMA TailOf ==
  ASSUME NEW v \in View, NEW k, TailIs(v, k)
  PROVE  /\ Len(v.items) \in DOMAIN v.items /\ v.items[Len(v.items)] \in Item
         /\ v.items[Len(v.items)].kind = k /\ Last(v.items) = v.items[Len(v.items)]
  <1>1. v.items \in Seq(Item) /\ v.items # <<>> /\ Last(v.items).kind = k
    BY ViewFields DEF TailIs
  <1>2. Last(v.items) = v.items[Len(v.items)]
    BY DEF Last
  <1>3. Len(v.items) \in DOMAIN v.items /\ v.items[Len(v.items)] \in Item
    BY <1>1
  <1> QED
    BY <1>1, <1>2, <1>3

\* One item is replaced by another of its kind.
LEMMA Replaced ==
  ASSUME NEW v \in View, NEW at \in DOMAIN v.items, NEW x \in Item, x.kind = v.items[at].kind,
         NEW w, w = [v EXCEPT !.items = [v.items EXCEPT ![at] = x]]
  PROVE  /\ w \in View /\ But(v, w, {"items"}) /\ DOMAIN w.items = DOMAIN v.items
         /\ \A i \in DOMAIN v.items : w.items[i] = IF i = at THEN x ELSE v.items[i]
         /\ \A K : x.kind \notin K => Keeps(v.items, w.items, K)
         /\ w.items = [v.items EXCEPT ![at] = x]
  <1> DEFINE t == [v.items EXCEPT ![at] = x]
  <1>1. v.items \in Seq(Item)
    BY ViewFields
  <1>2. /\ t \in Seq(Item) /\ DOMAIN t = DOMAIN v.items
        /\ \A i \in DOMAIN v.items : t[i] = (IF i = at THEN x ELSE v.items[i]) /\ v.items[i] \in Item
    BY <1>1
  <1>3. \A K : x.kind \notin K => Keeps(v.items, t, K)
    <2> HIDE DEF t
    <2> QED
      BY <1>2 DEF Keeps
  <1> HIDE DEF t
  <1>4. w \in View /\ w.items = t /\ But(v, w, {"items"})
    <2>1. w = [v EXCEPT !.items = t]
      BY DEF t
    <2> QED
      BY <1>2, <2>1, WithItems
  <1> QED
    BY <1>2, <1>3, <1>4 DEF t

LEMMA SettledStreamed ==
  ASSUME NEW v \in View
  PROVE  LET w == settleStreamed(v)
             final == [kind |-> "prose", state |-> "final"]
         IN /\ w \in View /\ But(v, w, {"items"}) /\ Keeps(v.items, w.items, {"user", "tools", "question"})
            /\ w.items = IF TailIs(v, "prose") /\ Last(v.items).state # "final"
                         THEN [v.items EXCEPT ![Len(v.items)] = final] ELSE Append(v.items, final)
  <1> DEFINE final == [kind |-> "prose", state |-> "final"]
  <1>1. final \in Item /\ final.kind = "prose" /\ "prose" \notin {"user", "tools", "question"}
    BY ItemsAre
  <1>2. CASE TailIs(v, "prose") /\ Last(v.items).state # "final"
    <2>1. settleStreamed(v) = [v EXCEPT !.items = [v.items EXCEPT ![Len(v.items)] = final]]
      BY <1>2 DEF settleStreamed, SetTail
    <2>2. Len(v.items) \in DOMAIN v.items /\ v.items[Len(v.items)].kind = "prose"
      BY <1>2, TailOf
    <2> HIDE DEF final
    <2>3. /\ settleStreamed(v) \in View /\ But(v, settleStreamed(v), {"items"})
          /\ Keeps(v.items, settleStreamed(v).items, {"user", "tools", "question"})
          /\ settleStreamed(v).items = [v.items EXCEPT ![Len(v.items)] = final]
      <3> DEFINE at == Len(v.items)
                 w == settleStreamed(v)
      <3>1. at \in DOMAIN v.items /\ final \in Item /\ final.kind = v.items[at].kind
        BY <1>1, <2>2
      <3>2. w = [v EXCEPT !.items = [v.items EXCEPT ![at] = final]]
        BY <2>1
      <3> HIDE DEF at, w
      <3>3. /\ w \in View /\ But(v, w, {"items"}) /\ \A K : final.kind \notin K => Keeps(v.items, w.items, K)
            /\ w.items = [v.items EXCEPT ![at] = final]
        BY <3>1, <3>2, Replaced
      <3>4. Keeps(v.items, w.items, {"user", "tools", "question"})
        BY <1>1, <3>3
      <3> QED
        BY <3>3, <3>4 DEF at, w
    <2> QED
      BY <1>2, <2>3 DEF final
  <1>3. CASE ~(TailIs(v, "prose") /\ Last(v.items).state # "final")
    <2>1. settleStreamed(v) = push(v, final)
      BY <1>3 DEF settleStreamed
    <2> HIDE DEF final
    <2> QED
      BY <1>1, <1>3, <2>1, Pushed DEF final
  <1> QED
    BY <1>2, <1>3

LEMMA AppendedStreamed ==
  ASSUME NEW v \in View
  PROVE  LET w == appendStreamed(v)
             draft == [kind |-> "prose", state |-> "streaming"]
         IN /\ w \in View /\ But(v, w, {"items"}) /\ Keeps(v.items, w.items, {"user", "tools", "question"})
            /\ w.items = IF TailIs(v, "prose") /\ Last(v.items).state = "streaming"
                         THEN v.items ELSE Append(v.items, draft)
  <1> DEFINE draft == [kind |-> "prose", state |-> "streaming"]
  <1>1. draft \in Item /\ draft.kind = "prose" /\ "prose" \notin {"user", "tools", "question"}
    BY ItemsAre
  <1>2. CASE TailIs(v, "prose") /\ Last(v.items).state = "streaming"
    <2>1. appendStreamed(v) = v
      BY <1>2 DEF appendStreamed
    <2>2. But(v, v, {"items"})
      BY DEF But
    <2> QED
      BY <1>2, <2>1, <2>2, KeepsSame
  <1>3. CASE ~(TailIs(v, "prose") /\ Last(v.items).state = "streaming")
    <2>1. appendStreamed(v) = push(v, draft)
      BY <1>3 DEF appendStreamed
    <2> HIDE DEF draft
    <2> QED
      BY <1>1, <1>3, <2>1, Pushed DEF draft
  <1> QED
    BY <1>2, <1>3

\* What the search for the last, and for the first, returns.
LEMMA LastFound ==
  ASSUME NEW S, NEW s \in Seq(S), NEW I, I = {i \in 1 .. Len(s) : i \in I}
  PROVE  LET at == IF I # {} THEN Max(I) ELSE 0
         IN /\ at = 0 <=> I = {}
            /\ at # 0 => at \in I /\ at \in DOMAIN s /\ \A i \in I : i <= at
  <1>1. Len(s) \in Nat /\ I \in SUBSET (1 .. Len(s)) /\ DOMAIN s = 1 .. Len(s)
    OBVIOUS
  <1>2. CASE I = {}
    BY <1>2
  <1>3. CASE I # {}
    <2>1. Max(I) \in I /\ \A i \in I : i <= Max(I)
      BY <1>1, <1>3, MaxIs
    <2>2. Max(I) # 0
      BY <1>1, <2>1
    <2> QED
      BY <1>1, <1>3, <2>1, <2>2
  <1> QED
    BY <1>2, <1>3

LEMMA FirstFound ==
  ASSUME NEW S, NEW s \in Seq(S), NEW I, I = {i \in 1 .. Len(s) : i \in I}
  PROVE  LET at == IF I # {} THEN Min(I) ELSE 0
         IN /\ at = 0 <=> I = {}
            /\ at # 0 => at \in I /\ at \in DOMAIN s /\ \A i \in I : at <= i
  <1>1. Len(s) \in Nat /\ I \in SUBSET (1 .. Len(s)) /\ DOMAIN s = 1 .. Len(s)
    OBVIOUS
  <1>2. CASE I = {}
    BY <1>2
  <1>3. CASE I # {}
    <2>1. Min(I) \in I /\ \A i \in I : Min(I) <= i
      BY <1>1, <1>3, MinIs
    <2>2. Min(I) # 0
      BY <1>1, <2>1
    <2> QED
      BY <1>1, <1>3, <2>1, <2>2
  <1> QED
    BY <1>2, <1>3

LEMMA StoppedStreaming ==
  ASSUME NEW v \in View
  PROVE  LET w == stopStreaming(v)
             D == {i \in DOMAIN v.items : v.items[i].kind = "prose" /\ v.items[i].state = "streaming"}
         IN /\ w \in View /\ But(v, w, {"items"}) /\ Keeps(v.items, w.items, {"user", "tools", "question"})
            /\ D = {} => w = v
            /\ \A at \in D : (\A i \in D : i <= at)
                 => w.items = [v.items EXCEPT ![at] = [kind |-> "prose", state |-> "stopped"]]
  <1> DEFINE D == {i \in 1 .. Len(v.items) : v.items[i].kind = "prose" /\ v.items[i].state = "streaming"}
             at == IF D # {} THEN Max(D) ELSE 0
  <1>1. v.items \in Seq(Item) /\ DOMAIN v.items = 1 .. Len(v.items)
    BY ViewFields
  <1>2. stopStreaming(v) = IF at = 0 THEN v ELSE [v EXCEPT !.items = [v.items EXCEPT ![at] = [v.items[at] EXCEPT !.state = "stopped"]]]
    BY DEF stopStreaming, SelectLastInSeq
  <1>3. /\ at = 0 <=> D = {}
        /\ at # 0 => at \in D /\ at \in DOMAIN v.items /\ \A i \in D : i <= at
    <2>1. D = {i \in 1 .. Len(v.items) : i \in D}
      OBVIOUS
    <2> HIDE DEF D
    <2> QED
      BY <1>1, <2>1, LastFound
  <1>4. CASE at = 0
    <2>1. stopStreaming(v) = v /\ D = {}
      BY <1>2, <1>3, <1>4
    <2>2. But(v, v, {"items"})
      BY DEF But
    <2> QED
      BY <1>1, <2>1, <2>2, KeepsSame
  <1>5. CASE at # 0
    <2> DEFINE x == [kind |-> "prose", state |-> "stopped"]
    <2>1. at \in DOMAIN v.items /\ at \in D /\ \A i \in D : i <= at
      BY <1>3, <1>5
    <2>2. v.items[at] \in Item /\ v.items[at].kind = "prose"
      <3>1. v.items[at].kind = "prose"
        BY <2>1
      <3> HIDE DEF at, D
      <3> QED
        BY <1>1, <2>1, <3>1
    <2>3. [v.items[at] EXCEPT !.state = "stopped"] = x
      <3>1. v.items[at] = [kind |-> "prose", state |-> v.items[at].state]
        BY <2>2, ItemIs
      <3> HIDE DEF at, D
      <3> QED
        BY <3>1
    <2>4. x \in Item /\ x.kind = "prose" /\ "prose" \notin {"user", "tools", "question"}
      BY ItemsAre
    <2>5. stopStreaming(v) = [v EXCEPT !.items = [v.items EXCEPT ![at] = x]]
      BY <1>2, <1>5, <2>3
    <2>6. \A i \in D : D # {} /\ ((\A j \in D : j <= i) => i = at)
      <3> HIDE DEF D, at
      <3>1. D \subseteq Nat
        BY DEF D
      <3> QED
        BY <2>1, <3>1
    <2> HIDE DEF x, at
    <2>7. /\ stopStreaming(v) \in View /\ But(v, stopStreaming(v), {"items"})
          /\ Keeps(v.items, stopStreaming(v).items, {"user", "tools", "question"})
          /\ stopStreaming(v).items = [v.items EXCEPT ![at] = x]
      <3> DEFINE w == stopStreaming(v)
      <3>1. at \in DOMAIN v.items /\ x \in Item /\ x.kind = v.items[at].kind
        BY <2>1, <2>2, <2>4
      <3>2. w = [v EXCEPT !.items = [v.items EXCEPT ![at] = x]]
        BY <2>5
      <3> HIDE DEF w
      <3>3. /\ w \in View /\ But(v, w, {"items"}) /\ \A K : x.kind \notin K => Keeps(v.items, w.items, K)
            /\ w.items = [v.items EXCEPT ![at] = x]
        BY <3>1, <3>2, Replaced
      <3>4. Keeps(v.items, w.items, {"user", "tools", "question"})
        BY <2>4, <3>3
      <3> QED
        BY <3>3, <3>4 DEF w
    <2>8. D = {i \in DOMAIN v.items : v.items[i].kind = "prose" /\ v.items[i].state = "streaming"}
      BY <1>1
    <2> HIDE DEF D
    <2> QED
      BY <2>1, <2>6, <2>7, <2>8 DEF x
  <1> QED
    BY <1>4, <1>5

-----------------------------------------------------------------------------
(* Items changed one by one *)

LEMMA ItemsMapped ==
  ASSUME NEW v \in View, NEW G \in [DOMAIN v.items -> Item],
         \A i \in DOMAIN v.items : G[i].kind = v.items[i].kind,
         NEW w, w = [v EXCEPT !.items = G]
  PROVE  /\ w \in View /\ w.items = G /\ But(v, w, {"items"})
         /\ DOMAIN w.items = DOMAIN v.items /\ Len(w.items) = Len(v.items)
         /\ \A K : (\A i \in DOMAIN v.items : v.items[i].kind \in K => G[i] = v.items[i]) => Keeps(v.items, w.items, K)
  <1>1. v.items \in Seq(Item)
    BY ViewFields
  <1>2. G \in Seq(Item) /\ Len(G) = Len(v.items)
    BY <1>1, SeqMapped
  <1>3. DOMAIN G = DOMAIN v.items
    OBVIOUS
  <1>4. w \in View /\ w.items = G /\ But(v, w, {"items"})
    BY <1>2, WithItems
  <1> QED
    BY <1>1, <1>2, <1>3, <1>4, KeepsMapped

PatchedItem(it, tool, status) ==
  IF it.kind = "tools"
  THEN [it EXCEPT !.calls = [j \in DOMAIN it.calls |-> IF it.calls[j].tool = tool THEN [it.calls[j] EXCEPT !.status = status]
                                                        ELSE it.calls[j]]]
  ELSE it

LEMMA PatchedIs ==
  ASSUME NEW it \in Item, NEW tool, NEW status \in Statuses
  PROVE  LET x == PatchedItem(it, tool, status)
         IN /\ x \in Item /\ x.kind = it.kind
            /\ it.kind # "tools" => x = it
            /\ it.kind = "tools" =>
                 /\ DOMAIN x.calls = DOMAIN it.calls
                 /\ \A j \in DOMAIN it.calls : /\ x.calls[j].tool = it.calls[j].tool
                                               /\ x.calls[j].status = IF it.calls[j].tool = tool THEN status ELSE it.calls[j].status
  <1>1. CASE it.kind # "tools"
    BY <1>1 DEF PatchedItem
  <1>2. CASE it.kind = "tools"
    <2> DEFINE cs == it.calls
               G == [j \in DOMAIN cs |-> IF cs[j].tool = tool THEN [cs[j] EXCEPT !.status = status] ELSE cs[j]]
               x == PatchedItem(it, tool, status)
    <2>1. cs \in Seq(Call) /\ it = [kind |-> "tools", calls |-> cs]
      BY <1>2, ItemIs
    <2>2. x = [it EXCEPT !.calls = G]
      BY <1>2 DEF PatchedItem
    <2>3. \A j \in DOMAIN cs : cs[j] \in Call
      BY <2>1
    <2> HIDE DEF cs
    <2>4. \A j \in DOMAIN cs : G[j] \in Call /\ G[j].tool = cs[j].tool
                               /\ G[j].status = IF cs[j].tool = tool THEN status ELSE cs[j].status
      BY <2>3 DEF Call, Statuses
    <2>5. DOMAIN G = DOMAIN cs /\ G \in [DOMAIN cs -> Call]
      BY <2>4
    <2> HIDE DEF G
    <2>6. G \in Seq(Call)
      BY <2>1, <2>4, <2>5, SeqMapped
    <2>7. x = [kind |-> "tools", calls |-> G]
      BY <2>1, <2>2
    <2> HIDE DEF x
    <2>8. x \in Item /\ x.kind = "tools" /\ x.calls = G
      BY <2>6, <2>7, ItemsAre
    <2>9. \A j \in DOMAIN cs : x.calls[j] = G[j]
      BY <2>8
    <2> QED
      BY <1>2, <2>4, <2>5, <2>8, <2>9 DEF x, cs
  <1> QED
    BY <1>1, <1>2

LEMMA PatchedCall ==
  ASSUME NEW v \in View, NEW tool, NEW status \in Statuses, NEW w, w = patchCall(v, tool, status)
  PROVE  /\ w \in View /\ But(v, w, {"items"}) /\ Keeps(v.items, w.items, {"user", "prose", "question"})
         /\ DOMAIN w.items = DOMAIN v.items /\ Len(w.items) = Len(v.items)
         /\ \A i \in DOMAIN v.items : w.items[i] = PatchedItem(v.items[i], tool, status)
         /\ \A i \in DOMAIN v.items : w.items[i].kind = v.items[i].kind
         /\ \A i \in DOMAIN v.items : v.items[i].kind = "tools" =>
              /\ DOMAIN w.items[i].calls = DOMAIN v.items[i].calls
              /\ \A j \in DOMAIN v.items[i].calls :
                   /\ w.items[i].calls[j].tool = v.items[i].calls[j].tool
                   /\ w.items[i].calls[j].status =
                        IF v.items[i].calls[j].tool = tool THEN status ELSE v.items[i].calls[j].status
  <1> DEFINE G == [i \in DOMAIN v.items |-> PatchedItem(v.items[i], tool, status)]
             K == {"user", "prose", "question"}
  <1>1. w = [v EXCEPT !.items = G]
    BY Zenon DEF patchCall, MapCalls, MapItems, PatchedItem
  <1>2. \A i \in DOMAIN v.items : v.items[i] \in Item
    BY ViewFields
  <1>3. \A i \in DOMAIN v.items : G[i] \in Item /\ G[i].kind = v.items[i].kind
    BY <1>2, PatchedIs
  <1>4. \A i \in DOMAIN v.items : v.items[i].kind \in K => G[i] = v.items[i]
    BY <1>2, PatchedIs
  <1>5. G \in [DOMAIN v.items -> Item]
    BY <1>3
  <1>6. \A i \in DOMAIN v.items : v.items[i].kind = "tools" =>
                 /\ DOMAIN G[i].calls = DOMAIN v.items[i].calls
                 /\ \A j \in DOMAIN v.items[i].calls :
                      /\ G[i].calls[j].tool = v.items[i].calls[j].tool
                      /\ G[i].calls[j].status =
                           IF v.items[i].calls[j].tool = tool THEN status ELSE v.items[i].calls[j].status
    <2> SUFFICES ASSUME NEW i \in DOMAIN v.items, v.items[i].kind = "tools"
                 PROVE  /\ DOMAIN G[i].calls = DOMAIN v.items[i].calls
                        /\ \A j \in DOMAIN v.items[i].calls :
                             /\ G[i].calls[j].tool = v.items[i].calls[j].tool
                             /\ G[i].calls[j].status =
                                  IF v.items[i].calls[j].tool = tool THEN status ELSE v.items[i].calls[j].status
      OBVIOUS
    <2>1. G[i] = PatchedItem(v.items[i], tool, status) /\ v.items[i] \in Item
      BY <1>2
    <2> HIDE DEF G
    <2> QED
      BY <2>1, PatchedIs
  <1> HIDE DEF G, K
  <1>7. w \in View /\ w.items = G /\ But(v, w, {"items"}) /\ Keeps(v.items, w.items, K)
        /\ DOMAIN w.items = DOMAIN v.items /\ Len(w.items) = Len(v.items)
    <2>1. \A i \in DOMAIN v.items : G[i].kind = v.items[i].kind
      BY <1>3
    <2>2. /\ w \in View /\ w.items = G /\ But(v, w, {"items"})
          /\ DOMAIN w.items = DOMAIN v.items /\ Len(w.items) = Len(v.items)
          /\ \A L : (\A i \in DOMAIN v.items : v.items[i].kind \in L => G[i] = v.items[i]) => Keeps(v.items, w.items, L)
      BY <1>1, <1>5, <2>1, ItemsMapped
    <2> QED
      BY <1>4, <2>2
  <1> QED
    BY <1>3, <1>6, <1>7 DEF G, K

LEMMA PatchedOpen ==
  ASSUME NEW v \in View, NEW tool, NEW status \in Statuses, NEW w, w = patchCall(v, tool, status)
  PROVE  /\ status \in OpenStatus => OpenIn(v.items) \subseteq OpenIn(w.items) /\ OpenIn(w.items) \subseteq OpenIn(v.items) \cup {tool}
         /\ status \notin OpenStatus => OpenIn(w.items) = OpenIn(v.items) \ {tool}
  <1>1. /\ DOMAIN w.items = DOMAIN v.items
        /\ \A i \in DOMAIN v.items : w.items[i].kind = v.items[i].kind
        /\ \A i \in DOMAIN v.items : v.items[i].kind = "tools" =>
             /\ DOMAIN w.items[i].calls = DOMAIN v.items[i].calls
             /\ \A j \in DOMAIN v.items[i].calls :
                  /\ w.items[i].calls[j].tool = v.items[i].calls[j].tool
                  /\ w.items[i].calls[j].status =
                       IF v.items[i].calls[j].tool = tool THEN status ELSE v.items[i].calls[j].status
    BY PatchedCall
  <1>2. ASSUME status \in OpenStatus PROVE OpenIn(v.items) \subseteq OpenIn(w.items)
    BY <1>1, <1>2 DEF OpenIn
  <1>3. OpenIn(w.items) \subseteq OpenIn(v.items) \cup {tool}
    BY <1>1 DEF OpenIn
  <1>4. ASSUME status \notin OpenStatus PROVE OpenIn(v.items) \ {tool} \subseteq OpenIn(w.items)
    BY <1>1, <1>4 DEF OpenIn
  <1>5. ASSUME status \notin OpenStatus PROVE tool \notin OpenIn(w.items)
    BY <1>1, <1>5 DEF OpenIn
  <1> QED
    BY <1>2, <1>3, <1>4, <1>5

SettledItem(it, tool) == IF it = CardOf(tool) THEN [it EXCEPT !.answered = TRUE] ELSE it

LEMMA SettledCard ==
  ASSUME NEW v \in View, NEW tool, NEW w, w = SettleCard(v, tool)
  PROVE  /\ w \in View /\ But(v, w, {"items"}) /\ Keeps(v.items, w.items, {"user", "prose", "tools"})
         /\ Cards(w.items) = Cards(v.items) \ {tool} /\ Had(w.items) = Had(v.items)
         /\ DOMAIN w.items = DOMAIN v.items /\ Len(w.items) = Len(v.items)
         /\ \A i \in DOMAIN v.items : w.items[i] = SettledItem(v.items[i], tool)
  <1> DEFINE G == [i \in DOMAIN v.items |-> IF v.items[i] = CardOf(tool) THEN [v.items[i] EXCEPT !.answered = TRUE]
                                            ELSE v.items[i]]
             K == {"user", "prose", "tools"}
  <1>1. w = [v EXCEPT !.items = G]
    BY Zenon DEF SettleCard, MapItems
  <1>2. \A i \in DOMAIN v.items : v.items[i] \in Item
    BY ViewFields
  <1>3. ASSUME NEW i \in DOMAIN v.items
        PROVE  /\ G[i] \in Item /\ G[i].kind = v.items[i].kind
               /\ v.items[i].kind # "question" => G[i] = v.items[i]
               /\ v.items[i].kind = "question" => G[i].tool = v.items[i].tool
               /\ v.items[i] = CardOf(tool) => \A a : G[i] # CardOf(a)
               /\ v.items[i] # CardOf(tool) => G[i] = v.items[i]
    <2>1. CASE v.items[i] = CardOf(tool)
      <3>1. CardOf(tool).kind = "question"
        BY DEF CardOf
      <3>2. v.items[i].kind = "question" /\ v.items[i].tool = tool /\ tool \in Asking
        BY <1>2, <2>1, ItemIs DEF CardOf
      <3>3. G[i] = [kind |-> "question", tool |-> tool, answered |-> TRUE]
        <4>1. G[i] = [CardOf(tool) EXCEPT !.answered = TRUE]
          BY <2>1
        <4> QED
          BY <4>1 DEF CardOf
      <3> HIDE DEF G
      <3>4. G[i] \in Item
        BY <3>2, <3>3, ItemsAre
      <3>5. G[i].kind = "question" /\ G[i].tool = tool /\ G[i].answered = TRUE
        BY <3>3
      <3>6. \A a : CardOf(a).answered = FALSE
        BY DEF CardOf
      <3>7. \A a : G[i] # CardOf(a)
        BY <3>5, <3>6
      <3> QED
        BY <2>1, <3>2, <3>4, <3>5, <3>7
    <2>2. CASE v.items[i] # CardOf(tool)
      BY <1>2, <2>2
    <2> QED
      BY <2>1, <2>2
  <1>4. G \in [DOMAIN v.items -> Item]
    <2>1. \A i \in DOMAIN v.items : G[i] \in Item
      BY <1>3
    <2> QED
      BY <2>1
  <1>5. \A i \in DOMAIN v.items : v.items[i].kind \in K => G[i] = v.items[i]
    <2> HIDE DEF G
    <2> QED
      BY <1>3
  <1> HIDE DEF G, K
  <1>6. w \in View /\ w.items = G /\ But(v, w, {"items"}) /\ Keeps(v.items, w.items, K)
        /\ DOMAIN w.items = DOMAIN v.items /\ Len(w.items) = Len(v.items)
    <2>1. \A i \in DOMAIN v.items : G[i].kind = v.items[i].kind
      BY <1>3
    <2>2. /\ w \in View /\ w.items = G /\ But(v, w, {"items"})
          /\ DOMAIN w.items = DOMAIN v.items /\ Len(w.items) = Len(v.items)
          /\ \A L : (\A i \in DOMAIN v.items : v.items[i].kind \in L => G[i] = v.items[i]) => Keeps(v.items, w.items, L)
      BY <1>1, <1>4, <2>1, ItemsMapped
    <2> QED
      BY <1>5, <2>2
  <1>7. Cards(w.items) = Cards(v.items) \ {tool}
    <2>1. \A a : CardOf(a) = CardOf(tool) => a = tool
      BY DEF CardOf
    <2> QED
      BY <1>3, <1>6, <2>1 DEF Cards
  <1>8. Had(w.items) = Had(v.items)
    BY <1>3, <1>6 DEF Had
  <1> QED
    BY <1>6, <1>7, <1>8 DEF G, K, SettledItem

LEMMA AddedToolCall ==
  ASSUME NEW v \in View, NEW tool \in Tools, NEW w, w = addToolCall(v, tool)
  PROVE  /\ w \in View /\ But(v, w, {"items", "running"}) /\ Keeps(v.items, w.items, {"user", "prose", "question"})
         /\ OpenIn(w.items) = OpenIn(v.items) \cup {tool} /\ w.running = tool
         /\ w.items = IF TailIs(v, "tools")
                      THEN [v.items EXCEPT ![Len(v.items)] =
                              [Last(v.items) EXCEPT !.calls = Append(@, [tool |-> tool, status |-> "running"])]]
                      ELSE Append(v.items, [kind |-> "tools", calls |-> <<[tool |-> tool, status |-> "running"]>>])
  <1> DEFINE call == [tool |-> tool, status |-> "running"]
             K == {"user", "prose", "question"}
             u == IF TailIs(v, "tools")
                  THEN SetTail(v, [Last(v.items) EXCEPT !.calls = Append(@, call)])
                  ELSE push(v, [kind |-> "tools", calls |-> <<call>>])
  <1>0. w = [u EXCEPT !.running = tool]
    BY DEF addToolCall
  <1>1. call \in Call /\ call.tool = tool /\ call.status \in OpenStatus
    BY DEF Call, OpenStatus
  <1>2. "tools" \notin K
    OBVIOUS
  <1> SUFFICES /\ u \in View /\ But(v, u, {"items"}) /\ Keeps(v.items, u.items, K)
               /\ OpenIn(u.items) = OpenIn(v.items) \cup {tool}
               /\ u.items = IF TailIs(v, "tools")
                            THEN [v.items EXCEPT ![Len(v.items)] = [Last(v.items) EXCEPT !.calls = Append(@, call)]]
                            ELSE Append(v.items, [kind |-> "tools", calls |-> <<call>>])
    <2> HIDE DEF u, call
    <2>1. ASSUME u \in View PROVE w \in View /\ w.running = tool /\ But(u, w, {"running"})
      BY <1>0, <2>1, WithRunning
    <2>2. ASSUME u \in View, But(v, u, {"items"}) PROVE But(v, w, {"items", "running"}) /\ w.items = u.items
      BY <2>1, <2>2 DEF But
    <2> QED
      BY <2>1, <2>2 DEF call
  <1>3. CASE ~TailIs(v, "tools")
    <2> DEFINE x == [kind |-> "tools", calls |-> <<call>>]
    <2>1. <<call>> \in Seq(Call) /\ DOMAIN <<call>> = {1} /\ <<call>>[1] = call
      <3> HIDE DEF call
      <3> QED
        BY <1>1
    <2> HIDE DEF call
    <2>2. x \in Item /\ x.kind = "tools"
      BY <2>1, ItemsAre
    <2>3. u = push(v, x)
      BY <1>3
    <2>4. OpenIn(Append(v.items, x)) = OpenIn(v.items) \cup {tool}
      <3> DEFINE cs == <<call>>
      <3>1. cs \in Seq(Call) /\ DOMAIN cs = {1} /\ cs[1] = call /\ v.items \in Seq(Item)
        BY <2>1, ViewFields
      <3>2. x = [kind |-> "tools", calls |-> cs]
        OBVIOUS
      <3> HIDE DEF cs
      <3>3. {t \in Tools : \E j \in DOMAIN cs : cs[j].tool = t /\ cs[j].status \in OpenStatus} = {tool}
        BY <1>1, <3>1
      <3> HIDE DEF x
      <3> QED
        BY <3>1, <3>2, <3>3, AppendedOpen
    <2> HIDE DEF u, x, K
    <2>5. u \in View /\ u.items = Append(v.items, x) /\ But(v, u, {"items"}) /\ Keeps(v.items, u.items, K)
      BY <1>2, <2>2, <2>3, Pushed
    <2> QED
      BY <1>3, <2>4, <2>5 DEF x
  <1>4. CASE TailIs(v, "tools")
    <2> DEFINE at == Len(v.items)
               cs == v.items[at].calls
               x == [kind |-> "tools", calls |-> Append(cs, call)]
    <2>1. at \in DOMAIN v.items /\ v.items[at] \in Item /\ v.items[at].kind = "tools" /\ Last(v.items) = v.items[at]
      BY <1>4, TailOf
    <2>2. cs \in Seq(Call) /\ v.items[at] = [kind |-> "tools", calls |-> cs]
      <3> HIDE DEF at
      <3> QED
        BY <2>1, ItemIs
    <2>3. [Last(v.items) EXCEPT !.calls = Append(@, call)] = x
      <3> HIDE DEF at, call
      <3>1. Last(v.items) = [kind |-> "tools", calls |-> cs]
        BY <2>1, <2>2
      <3> HIDE DEF cs
      <3> QED
        BY <3>1
    <2> HIDE DEF call
    <2>4. /\ Append(cs, call) \in Seq(Call)
          /\ \A j \in DOMAIN cs : j \in DOMAIN Append(cs, call) /\ Append(cs, call)[j] = cs[j]
          /\ Len(cs) + 1 \in DOMAIN Append(cs, call) /\ Append(cs, call)[Len(cs) + 1] = call
          /\ \A j \in DOMAIN Append(cs, call) : j \in DOMAIN cs \/ j = Len(cs) + 1
      <3> HIDE DEF cs
      <3> QED
        BY <1>1, <2>2, Appended
    <2>5. x \in Item /\ x.kind = "tools" /\ x.calls = Append(cs, call)
      <3> HIDE DEF cs
      <3> QED
        BY <2>4, ItemsAre
    <2>6. u = [v EXCEPT !.items = [v.items EXCEPT ![at] = x]]
      <3>1. u = SetTail(v, [Last(v.items) EXCEPT !.calls = Append(@, call)])
        BY <1>4
      <3>2. u = SetTail(v, x)
        BY <2>3, <3>1
      <3> QED
        BY <3>2 DEF SetTail
    <2> HIDE DEF u, x, K, at
    <2>7. /\ u \in View /\ But(v, u, {"items"}) /\ DOMAIN u.items = DOMAIN v.items
          /\ \A i \in DOMAIN v.items : u.items[i] = IF i = at THEN x ELSE v.items[i]
          /\ \A L : x.kind \notin L => Keeps(v.items, u.items, L)
          /\ u.items = [v.items EXCEPT ![at] = x]
      BY <2>1, <2>5, <2>6, Replaced
    <2>8. Keeps(v.items, u.items, K)
      BY <1>2, <2>5, <2>7
    <2>9. OpenIn(u.items) \subseteq OpenIn(v.items) \cup {tool}
      BY <1>1, <2>1, <2>4, <2>5, <2>7 DEF OpenIn
    <2>10. OpenIn(v.items) \subseteq OpenIn(u.items)
      BY <1>1, <2>1, <2>4, <2>5, <2>7 DEF OpenIn
    <2>11. tool \in OpenIn(u.items)
      BY <1>1, <2>1, <2>4, <2>5, <2>7 DEF OpenIn
    <2> QED
      BY <1>4, <2>3, <2>7, <2>8, <2>9, <2>10, <2>11 DEF at
  <1> QED
    BY <1>3, <1>4

-----------------------------------------------------------------------------
(* The end of a turn, results, asks *)

ClosedCall(c, failed) ==
  IF c.status \in OpenStatus THEN [c EXCEPT !.status = IF failed THEN "error" ELSE "ok"] ELSE c

ClosedItem(it, failed) ==
  IF it.kind = "tools" THEN [it EXCEPT !.calls = [j \in DOMAIN it.calls |-> ClosedCall(it.calls[j], failed)]] ELSE it

StilledItem(it) ==
  IF it = [kind |-> "prose", state |-> "streaming"] THEN [it EXCEPT !.state = "stopped"] ELSE it

LEMMA ClosedIs ==
  ASSUME NEW it \in Item, NEW failed \in BOOLEAN, NEW x, x = ClosedItem(it, failed)
  PROVE  /\ x \in Item /\ x.kind = it.kind
         /\ it.kind # "tools" => x = it
         /\ it.kind = "tools" => \A j \in DOMAIN x.calls : x.calls[j].status \notin OpenStatus
  <1>1. CASE it.kind # "tools"
    BY <1>1 DEF ClosedItem
  <1>2. CASE it.kind = "tools"
    <2> DEFINE cs == it.calls
               G == [j \in DOMAIN cs |-> ClosedCall(cs[j], failed)]
    <2>1. cs \in Seq(Call) /\ it = [kind |-> "tools", calls |-> cs]
      BY <1>2, ItemIs
    <2>2. x = [it EXCEPT !.calls = G]
      BY <1>2 DEF ClosedItem
    <2>3. \A c \in Call : ClosedCall(c, failed) \in Call /\ ClosedCall(c, failed).status \notin OpenStatus
      BY DEF Call, OpenStatus, ClosedCall
    <2> HIDE DEF cs
    <2>4. \A j \in DOMAIN cs : G[j] \in Call /\ G[j].status \notin OpenStatus
      BY <2>1, <2>3
    <2>5. DOMAIN G = DOMAIN cs /\ G \in [DOMAIN cs -> Call]
      BY <2>4
    <2> HIDE DEF G
    <2>6. G \in Seq(Call)
      BY <2>1, <2>5, SeqMapped
    <2>7. x = [kind |-> "tools", calls |-> G]
      BY <2>1, <2>2
    <2>8. x \in Item /\ x.kind = "tools" /\ x.calls = G
      BY <2>6, <2>7, ItemsAre
    <2> QED
      BY <1>2, <2>4, <2>5, <2>8
  <1> QED
    BY <1>1, <1>2

LEMMA StilledIs ==
  ASSUME NEW it \in Item, NEW x, x = StilledItem(it)
  PROVE  x \in Item /\ x.kind = it.kind /\ (it.kind # "prose" => x = it)
  <1>1. CASE it = [kind |-> "prose", state |-> "streaming"]
    <2>1. x = [kind |-> "prose", state |-> "stopped"]
      BY <1>1 DEF StilledItem
    <2>2. [kind |-> "prose", state |-> "stopped"] \in Item
      BY ItemsAre
    <2> QED
      BY <1>1, <2>1, <2>2
  <1>2. CASE it # [kind |-> "prose", state |-> "streaming"]
    BY <1>2 DEF StilledItem
  <1> QED
    BY <1>1, <1>2

LEMMA Idled ==
  ASSUME NEW v \in View
  PROVE  idle(v) \in View /\ But(v, idle(v), {"busy", "running"}) /\ idle(v).busy = FALSE /\ idle(v).running = None
  BY DEF idle, View, But

Ended(s, t, failed) == \A i \in DOMAIN s : t[i] = StilledItem(ClosedItem(s[i], failed))

LEMMA EndedTurn ==
  ASSUME NEW v \in View, NEW failed \in BOOLEAN, NEW w, w = endTurn(v, failed)
  PROVE  /\ w \in View /\ But(v, w, {"items", "busy", "running", "permission"})
         /\ w.busy = FALSE /\ w.running = None /\ w.permission = None
         /\ Keeps(v.items, w.items, {"user", "question"}) /\ OpenIn(w.items) = {}
         /\ DOMAIN w.items = DOMAIN v.items /\ Len(w.items) = Len(v.items)
         /\ Ended(v.items, w.items, failed)
  <1> DEFINE G1 == [i \in DOMAIN idle(v).items |-> ClosedItem(idle(v).items[i], failed)]
             u1 == [idle(v) EXCEPT !.items = G1]
             G2 == [i \in DOMAIN u1.items |-> StilledItem(u1.items[i])]
             u2 == [u1 EXCEPT !.items = G2]
             K == {"user", "question"}
  <1>1. w = [u2 EXCEPT !.permission = None]
    BY Zenon DEF endTurn, MapItems, MapCalls, ClosedItem, ClosedCall, StilledItem
  <1>2. /\ idle(v) \in View /\ idle(v).items = v.items /\ But(v, idle(v), {"busy", "running"})
        /\ idle(v).busy = FALSE /\ idle(v).running = None
    BY Idled DEF But
  <1>3. \A i \in DOMAIN v.items : v.items[i] \in Item
    BY ViewFields
  <1>4. /\ u1 \in View /\ u1.items = G1 /\ But(idle(v), u1, {"items"}) /\ Len(u1.items) = Len(v.items)
        /\ DOMAIN u1.items = DOMAIN v.items
        /\ \A i \in DOMAIN v.items : u1.items[i] = ClosedItem(v.items[i], failed)
    <2>1. \A i \in DOMAIN v.items : G1[i] = ClosedItem(v.items[i], failed)
      BY <1>2
    <2>2. \A i \in DOMAIN v.items : G1[i] \in Item /\ G1[i].kind = idle(v).items[i].kind
      <3> HIDE DEF G1
      <3> QED
        BY <1>2, <1>3, <2>1, ClosedIs
    <2>3. G1 \in [DOMAIN idle(v).items -> Item]
      BY <1>2, <2>2
    <2>4. u1 = [idle(v) EXCEPT !.items = G1]
      OBVIOUS
    <2> HIDE DEF G1, u1
    <2>5. /\ u1 \in View /\ u1.items = G1 /\ But(idle(v), u1, {"items"}) /\ Len(u1.items) = Len(idle(v).items)
          /\ DOMAIN u1.items = DOMAIN idle(v).items
      BY <1>2, <2>2, <2>3, <2>4, ItemsMapped
    <2> QED
      BY <1>2, <2>1, <2>5
  <1> HIDE DEF u1
  <1>5. /\ u2 \in View /\ u2.items = G2 /\ But(u1, u2, {"items"}) /\ Len(u2.items) = Len(v.items)
        /\ DOMAIN u2.items = DOMAIN v.items
        /\ \A i \in DOMAIN v.items : u2.items[i] = StilledItem(ClosedItem(v.items[i], failed))
    <2>1. \A i \in DOMAIN v.items : G2[i] = StilledItem(ClosedItem(v.items[i], failed))
      BY <1>4
    <2>2. \A i \in DOMAIN u1.items : u1.items[i] \in Item
      BY <1>4, ViewFields
    <2>3. \A i \in DOMAIN u1.items : G2[i] = StilledItem(u1.items[i])
      OBVIOUS
    <2>4. \A i \in DOMAIN u1.items : G2[i] \in Item /\ G2[i].kind = u1.items[i].kind
      <3> HIDE DEF G2
      <3> QED
        BY <2>2, <2>3, StilledIs
    <2>5. G2 \in [DOMAIN u1.items -> Item]
      BY <2>4
    <2>6. u2 = [u1 EXCEPT !.items = G2]
      OBVIOUS
    <2> HIDE DEF G2, u2
    <2>7. /\ u2 \in View /\ u2.items = G2 /\ But(u1, u2, {"items"}) /\ Len(u2.items) = Len(u1.items)
          /\ DOMAIN u2.items = DOMAIN u1.items
      BY <1>4, <2>4, <2>5, <2>6, ItemsMapped
    <2> QED
      BY <1>4, <2>1, <2>7
  <1> HIDE DEF u2
  <1>6. w \in View /\ w.permission = None /\ But(u2, w, {"permission"})
    <2>1. None \in Tools \cup {None}
      OBVIOUS
    <2>2. [u2 EXCEPT !.permission = None] \in View /\ [u2 EXCEPT !.permission = None].permission = None
          /\ But(u2, [u2 EXCEPT !.permission = None], {"permission"})
      BY <1>5, <2>1, WithPermission
    <2> QED
      BY <1>1, <2>2
  <1>7. /\ But(v, w, {"items", "busy", "running", "permission"}) /\ w.items = u2.items
        /\ w.busy = FALSE /\ w.running = None
    BY <1>2, <1>4, <1>5, <1>6 DEF But
  <1>8. \A i \in DOMAIN v.items : /\ w.items[i] = StilledItem(ClosedItem(v.items[i], failed))
                                  /\ w.items[i].kind = v.items[i].kind
                                  /\ v.items[i].kind \in K => w.items[i] = v.items[i]
                                  /\ v.items[i].kind = "tools" =>
                                       \A j \in DOMAIN w.items[i].calls : w.items[i].calls[j].status \notin OpenStatus
    <2> SUFFICES ASSUME NEW i \in DOMAIN v.items
                 PROVE  /\ w.items[i] = StilledItem(ClosedItem(v.items[i], failed))
                        /\ w.items[i].kind = v.items[i].kind
                        /\ v.items[i].kind \in K => w.items[i] = v.items[i]
                        /\ v.items[i].kind = "tools" =>
                             \A j \in DOMAIN w.items[i].calls : w.items[i].calls[j].status \notin OpenStatus
      OBVIOUS
    <2> DEFINE it == v.items[i]
               x == ClosedItem(it, failed)
    <2>1. it \in Item
      BY <1>3
    <2>2. w.items[i] = StilledItem(x)
      BY <1>5, <1>7
    <2> HIDE DEF it
    <2>3. /\ x \in Item /\ x.kind = it.kind
          /\ it.kind # "tools" => x = it
          /\ it.kind = "tools" => \A j \in DOMAIN x.calls : x.calls[j].status \notin OpenStatus
      BY <2>1, ClosedIs
    <2>4. w.items[i] \in Item /\ w.items[i].kind = x.kind /\ (x.kind # "prose" => w.items[i] = x)
      <3> HIDE DEF x
      <3> QED
        BY <2>2, <2>3, StilledIs
    <2> HIDE DEF x
    <2> QED
      BY <2>2, <2>3, <2>4 DEF it, x
  <1>9. DOMAIN w.items = DOMAIN v.items /\ Len(w.items) = Len(v.items)
    BY <1>5, <1>7
  <1>10. OpenIn(w.items) = {}
    BY <1>8, <1>9 DEF OpenIn
  <1>11. Keeps(v.items, w.items, K)
    BY <1>8, <1>9 DEF Keeps
  <1> QED
    BY <1>6, <1>7, <1>8, <1>9, <1>10, <1>11 DEF Ended

LEMMA HandedOver ==
  ASSUME NEW v \in View, NEW tool \in Tools, NEW w, w = HandOverLine(v, tool)
  PROVE  /\ w \in View /\ But(v, w, {"running"})
         /\ w.running \notin OpenIn(v.items) \cup {None} =>
              /\ w.running = v.running
              /\ v.running # tool \/ \A i \in DOMAIN v.items : v.items[i].kind = "tools" =>
                                        \A j \in DOMAIN v.items[i].calls : v.items[i].calls[j].tool # tool
  <1> DEFINE I == {i \in 1 .. Len(v.items) : v.items[i].kind = "tools" /\ \E c \in Range(v.items[i].calls) : c.tool = tool}
             g == IF I # {} THEN Min(I) ELSE 0
             cs == v.items[g].calls
             J == {j \in 1 .. Len(cs) : cs[j].status \in OpenStatus}
             o == IF J # {} THEN Max(J) ELSE 0
  <1>1. w = IF v.running # tool \/ g = 0 THEN v ELSE [v EXCEPT !.running = IF o = 0 THEN None ELSE cs[o].tool]
    BY DEF HandOverLine, GroupOf, SelectInSeq, SelectLastInSeq
  <1>2. v.items \in Seq(Item)
    BY ViewFields
  <1>3. (g = 0 <=> I = {}) /\ (g # 0 => g \in I /\ g \in DOMAIN v.items)
    <2>1. I = {i \in 1 .. Len(v.items) : i \in I}
      OBVIOUS
    <2> HIDE DEF I
    <2> QED
      BY <1>2, <2>1, FirstFound
  <1>4. CASE v.running # tool \/ g = 0
    <2>1. w = v
      BY <1>1, <1>4
    <2>2. But(v, w, {"running"})
      BY <2>1 DEF But
    <2>3. CASE v.running # tool
      BY <2>1, <2>2, <2>3
    <2>4. CASE g = 0
      <3>1. I = {}
        BY <1>3, <2>4
      <3>2. ASSUME NEW i \in DOMAIN v.items, v.items[i].kind = "tools", NEW j \in DOMAIN v.items[i].calls
            PROVE  v.items[i].calls[j].tool # tool
        <4>1. i \in 1 .. Len(v.items)
          BY <1>2
        <4>2. v.items[i].calls[j] \in Range(v.items[i].calls)
          BY DEF Range
        <4> HIDE DEF g
        <4> QED
          BY <3>1, <3>2, <4>1, <4>2
      <3> HIDE DEF I, g
      <3> QED
        BY <2>1, <2>2, <3>2
    <2> QED
      BY <1>4, <2>3, <2>4
  <1>5. CASE ~(v.running # tool \/ g = 0)
    <2>1. g \in I /\ g \in DOMAIN v.items
      BY <1>3, <1>5
    <2>2. v.items[g].kind = "tools" /\ v.items[g] \in Item
      <3>1. v.items[g].kind = "tools"
        BY <2>1
      <3> HIDE DEF g, I
      <3> QED
        BY <1>2, <2>1, <3>1
    <2> HIDE DEF g, I
    <2>3. cs \in Seq(Call)
      BY <2>2, ItemIs
    <2>4. (o = 0 <=> J = {}) /\ (o # 0 => o \in J /\ o \in DOMAIN cs)
      <3>1. J = {j \in 1 .. Len(cs) : j \in J}
        OBVIOUS
      <3> HIDE DEF J, cs
      <3> QED
        BY <2>3, <3>1, LastFound
    <2>5. w = [v EXCEPT !.running = IF o = 0 THEN None ELSE cs[o].tool]
      BY <1>1, <1>5
    <2>6. CASE o = 0
      <3>1. w = [v EXCEPT !.running = None]
        BY <2>5, <2>6
      <3>2. w \in View /\ But(v, w, {"running"}) /\ w.running = None
        BY <3>1, WithRunning
      <3> QED
        BY <3>2
    <2>7. CASE o # 0
      <3>1. o \in DOMAIN cs /\ cs[o].status \in OpenStatus
        BY <2>4, <2>7
      <3>2. cs[o].tool \in Tools
        <4> HIDE DEF cs, o
        <4> QED
          <5>1. cs[o] \in Call
            BY <2>3, <3>1
          <5> QED
            BY <5>1 DEF Call
      <3>3. cs[o].tool \in OpenIn(v.items)
        <4> HIDE DEF o
        <4> QED
          BY <2>1, <2>2, <3>1, <3>2 DEF OpenIn
      <3>4. w = [v EXCEPT !.running = cs[o].tool]
        BY <2>5, <2>7
      <3> HIDE DEF cs, o
      <3>5. w \in View /\ But(v, w, {"running"}) /\ w.running = cs[o].tool
        BY <3>2, <3>4, WithRunning
      <3> QED
        BY <3>3, <3>5
    <2> QED
      BY <2>6, <2>7
  <1> QED
    BY <1>4, <1>5

LEMMA CardHad ==
  ASSUME NEW v \in View, Asking \subseteq Tools, NEW tool \in Tools
  PROVE  /\ HasCard(v, tool) <=> tool \in Had(v.items)
         /\ Cards(v.items) \subseteq Had(v.items)
  <1>1. HasCard(v, tool) <=> tool \in Had(v.items)
    BY DEF HasCard, Had
  <1>2. ASSUME NEW t \in Cards(v.items) PROVE t \in Had(v.items)
    <2>1. PICK i \in DOMAIN v.items : v.items[i] = CardOf(t)
      BY <1>2 DEF Cards
    <2>2. CardOf(t).kind = "question" /\ CardOf(t).tool = t
      BY DEF CardOf
    <2> QED
      BY <1>2, <2>1, <2>2 DEF Had, Cards
  <1> QED
    BY <1>1, <1>2

LEMMA ClosedPermission ==
  ASSUME NEW v \in View, NEW tool, NEW w, w = closeOpenPermission(v, tool)
  PROVE  /\ w \in View /\ But(v, w, {"permission"}) /\ w.items = v.items /\ w.running = v.running
         /\ w.permission = IF v.permission = tool THEN None ELSE v.permission
  <1>1. None \in Tools \cup {None}
    OBVIOUS
  <1>2. CASE v.permission = tool
    <2>1. [v EXCEPT !.permission = None] \in View /\ [v EXCEPT !.permission = None].permission = None
          /\ But(v, [v EXCEPT !.permission = None], {"permission"})
      BY <1>1, WithPermission
    <2>2. w = [v EXCEPT !.permission = None]
      BY <1>2 DEF closeOpenPermission
    <2>3. w \in View /\ w.permission = None /\ But(v, w, {"permission"})
      BY <2>1, <2>2
    <2> QED
      BY <1>2, <2>3 DEF But
  <1>3. CASE v.permission # tool
    <2>1. w = v
      BY <1>3 DEF closeOpenPermission
    <2> QED
      BY <1>3, <2>1 DEF But
  <1> QED
    BY <1>2, <1>3

LEMMA ResultOfCard ==
  ASSUME NEW v \in View, NEW tool \in Tools, NEW failed \in BOOLEAN, NEW w, w = TakeToolResult(v, tool, failed),
         HasCard(v, tool)
  PROVE  /\ w \in View /\ But(v, w, {"items", "permission"}) /\ Keeps(v.items, w.items, {"user", "prose", "tools"})
         /\ w.permission = (IF v.permission = tool THEN None ELSE v.permission)
         /\ Had(w.items) = Had(v.items) /\ Cards(w.items) = Cards(v.items) \ {tool}
         /\ OpenIn(w.items) = OpenIn(v.items) /\ w.running = v.running
         /\ w.items = SettleCard(closeOpenPermission(v, tool), tool).items
  <1> DEFINE u == closeOpenPermission(v, tool)
  <1>1. /\ u \in View /\ But(v, u, {"permission"}) /\ u.items = v.items /\ u.running = v.running
        /\ u.permission = IF v.permission = tool THEN None ELSE v.permission
    BY ClosedPermission
  <1>2. w = SettleCard(u, tool)
    BY DEF TakeToolResult
  <1> HIDE DEF u
  <1>3. /\ w \in View /\ But(u, w, {"items"}) /\ Keeps(u.items, w.items, {"user", "prose", "tools"})
        /\ Cards(w.items) = Cards(u.items) \ {tool} /\ Had(w.items) = Had(u.items)
    BY <1>1, <1>2, SettledCard
  <1>4. OpenIn(w.items) = OpenIn(v.items)
    BY <1>1, <1>3, KeptOpen
  <1>5. But(v, w, {"items", "permission"}) /\ w.permission = u.permission /\ w.running = u.running
    BY <1>1, <1>3 DEF But
  <1> QED
    BY <1>1, <1>2, <1>3, <1>4, <1>5 DEF u

LEMMA ResultOfCall ==
  ASSUME NEW v \in View, NEW tool \in Tools, NEW failed \in BOOLEAN, NEW w, w = TakeToolResult(v, tool, failed),
         ~HasCard(v, tool), Asking \subseteq Tools
  PROVE  /\ w \in View /\ But(v, w, {"items", "running", "permission"})
         /\ Keeps(v.items, w.items, {"user", "prose", "question"})
         /\ w.permission = (IF v.permission = tool THEN None ELSE v.permission)
         /\ tool \notin Cards(v.items)
         /\ OpenIn(w.items) = OpenIn(v.items) \ {tool}
         /\ w.running \in OpenIn(w.items) \cup {None}
              \/ (w.running = v.running /\ (v.running # tool \/ tool \notin OpenIn(v.items)))
         /\ w.items = patchCall(closeOpenPermission(v, tool), tool, IF failed THEN "error" ELSE "ok").items
  <1> DEFINE u == closeOpenPermission(v, tool)
             st == IF failed THEN "error" ELSE "ok"
             p == patchCall(u, tool, st)
  <1>1. /\ u \in View /\ But(v, u, {"permission"}) /\ u.items = v.items /\ u.running = v.running
        /\ u.permission = IF v.permission = tool THEN None ELSE v.permission
    BY ClosedPermission
  <1>2. w = HandOverLine(p, tool)
    BY DEF TakeToolResult
  <1>3. st \in Statuses /\ st \notin OpenStatus
    BY DEF Statuses, OpenStatus
  <1>4. p = patchCall(u, tool, st)
    OBVIOUS
  <1> HIDE DEF u, st, p
  <1>5. /\ p \in View /\ But(u, p, {"items"}) /\ Keeps(u.items, p.items, {"user", "prose", "question"})
        /\ DOMAIN p.items = DOMAIN u.items
        /\ \A i \in DOMAIN u.items : p.items[i].kind = u.items[i].kind
        /\ \A i \in DOMAIN u.items : u.items[i].kind = "tools" =>
             /\ DOMAIN p.items[i].calls = DOMAIN u.items[i].calls
             /\ \A j \in DOMAIN u.items[i].calls : p.items[i].calls[j].tool = u.items[i].calls[j].tool
    BY <1>1, <1>3, <1>4, PatchedCall
  <1>6. OpenIn(p.items) = OpenIn(u.items) \ {tool}
    BY <1>1, <1>3, <1>4, PatchedOpen
  <1>7. /\ w \in View /\ But(p, w, {"running"})
        /\ w.running \notin OpenIn(p.items) \cup {None} =>
             /\ w.running = p.running
             /\ p.running # tool \/ \A i \in DOMAIN p.items : p.items[i].kind = "tools" =>
                                       \A j \in DOMAIN p.items[i].calls : p.items[i].calls[j].tool # tool
    BY <1>2, <1>5, HandedOver
  <1>8. /\ w.items = p.items /\ w.permission = u.permission /\ p.running = v.running
        /\ But(v, w, {"items", "running", "permission"})
    BY <1>1, <1>5, <1>7 DEF But
  <1>9. tool \notin Cards(v.items)
    BY CardHad
  <1>10. (\A i \in DOMAIN p.items : p.items[i].kind = "tools" => \A j \in DOMAIN p.items[i].calls : p.items[i].calls[j].tool # tool)
           => tool \notin OpenIn(v.items)
    BY <1>1, <1>5 DEF OpenIn
  <1>11. w.running \in OpenIn(w.items) \cup {None}
           \/ (w.running = v.running /\ (v.running # tool \/ tool \notin OpenIn(v.items)))
    BY <1>7, <1>8, <1>10
  <1>12. w.items = patchCall(u, tool, st).items
    BY <1>4, <1>8
  <1> QED
    BY <1>1, <1>5, <1>6, <1>7, <1>8, <1>9, <1>11, <1>12 DEF u, st

LEMMA RequestedCard ==
  ASSUME NEW v \in View, NEW tool \in Asking, NEW w, w = controlRequest(v, tool), Asking \subseteq Tools
  PROVE  /\ w \in View /\ But(v, w, {"items", "permission"}) /\ Keeps(v.items, w.items, {"user", "prose", "tools"})
         /\ w.permission = v.permission /\ OpenIn(w.items) = OpenIn(v.items)
         /\ Had(w.items) = Had(v.items) \cup {tool}
         /\ tool \in Had(v.items) => Cards(w.items) = Cards(v.items)
         /\ tool \notin Had(v.items) => Cards(w.items) = Cards(v.items) \cup {tool}
  <1>1. CASE HasCard(v, tool)
    <2>1. w = v
      BY <1>1 DEF controlRequest
    <2>2. tool \in Had(v.items)
      BY <1>1, CardHad
    <2>3. But(v, w, {"items", "permission"}) /\ Keeps(v.items, w.items, {"user", "prose", "tools"})
      BY <2>1 DEF But, Keeps
    <2> QED
      BY <1>1, <2>1, <2>2, <2>3
  <1>2. CASE ~HasCard(v, tool)
    <2> DEFINE x == CardOf(tool)
    <2>1. x \in Item /\ x.kind = "question"
      BY <1>2, ItemsAre
    <2>2. w = push(v, x)
      BY <1>2 DEF controlRequest
    <2> HIDE DEF x
    <2>3. /\ w \in View /\ w.items = Append(v.items, x) /\ But(v, w, {"items"})
          /\ \A K : x.kind \notin K => Keeps(v.items, w.items, K)
      BY <2>1, <2>2, Pushed
    <2>4. Keeps(v.items, w.items, {"user", "prose", "tools"})
      BY <2>1, <2>3
    <2>5. OpenIn(w.items) = OpenIn(v.items)
      BY <2>4, KeptOpen
    <2>6. Cards(w.items) = Cards(v.items) \cup {tool} /\ Had(w.items) = Had(v.items) \cup {tool}
      BY <1>2, <2>3, ViewFields, AppendedCard DEF x
    <2>7. tool \notin Had(v.items)
      BY <1>2, CardHad
    <2>8. But(v, w, {"items", "permission"}) /\ w.permission = v.permission
      BY <2>3 DEF But
    <2> QED
      BY <1>2, <2>3, <2>4, <2>5, <2>6, <2>7, <2>8 DEF x
  <1> QED
    BY <1>1, <1>2

LEMMA RequestedSheet ==
  ASSUME NEW v \in View, NEW tool \in Tools, tool \notin Asking, NEW w, w = controlRequest(v, tool)
  PROVE  /\ w \in View /\ But(v, w, {"items", "permission"}) /\ Keeps(v.items, w.items, {"user", "prose", "question"})
         /\ OpenIn(v.items) \subseteq OpenIn(w.items) /\ OpenIn(w.items) \subseteq OpenIn(v.items) \cup {tool}
         /\ w.permission = tool /\ Cards(w.items) = Cards(v.items) /\ Had(w.items) = Had(v.items)
         /\ w.items = patchCall(v, tool, "awaiting").items
  <1> DEFINE u == patchCall(v, tool, "awaiting")
  <1>1. w = [u EXCEPT !.permission = tool]
    BY DEF controlRequest
  <1>2. "awaiting" \in Statuses /\ "awaiting" \in OpenStatus /\ u = patchCall(v, tool, "awaiting")
    BY DEF Statuses, OpenStatus
  <1> HIDE DEF u
  <1>3. u \in View /\ But(v, u, {"items"}) /\ Keeps(v.items, u.items, {"user", "prose", "question"})
    BY <1>2, PatchedCall
  <1>4. OpenIn(v.items) \subseteq OpenIn(u.items) /\ OpenIn(u.items) \subseteq OpenIn(v.items) \cup {tool}
    BY <1>2, PatchedOpen
  <1>5. w \in View /\ w.permission = tool /\ But(u, w, {"permission"})
    BY <1>1, <1>3, WithPermission
  <1>6. w.items = u.items /\ But(v, w, {"items", "permission"})
    BY <1>3, <1>5 DEF But
  <1>7. Cards(w.items) = Cards(v.items) /\ Had(w.items) = Had(v.items)
    BY <1>3, <1>6, KeptCards
  <1>8. Keeps(v.items, w.items, {"user", "prose", "question"})
    BY <1>3, <1>6
  <1> QED
    BY <1>3, <1>4, <1>5, <1>6, <1>7, <1>8 DEF u

\* The permission of a call is taken off the screen; the call runs on.
LEMMA Released ==
  ASSUME NEW v \in View, NEW tool, NEW w, w = [patchCall(v, tool, "running") EXCEPT !.permission = None]
  PROVE  /\ w \in View /\ But(v, w, {"items", "permission"}) /\ w.permission = None
         /\ Keeps(v.items, w.items, {"user", "prose", "question"})
         /\ w.items = patchCall(v, tool, "running").items
         /\ OpenIn(v.items) \subseteq OpenIn(w.items) /\ OpenIn(w.items) \subseteq OpenIn(v.items) \cup {tool}
  <1> DEFINE u == patchCall(v, tool, "running")
  <1>1. "running" \in Statuses /\ "running" \in OpenStatus /\ u = patchCall(v, tool, "running")
    BY DEF Statuses, OpenStatus
  <1>2. w = [u EXCEPT !.permission = None]
    OBVIOUS
  <1> HIDE DEF u
  <1>3. u \in View /\ But(v, u, {"items"}) /\ Keeps(v.items, u.items, {"user", "prose", "question"})
    BY <1>1, PatchedCall
  <1>4. OpenIn(v.items) \subseteq OpenIn(u.items) /\ OpenIn(u.items) \subseteq OpenIn(v.items) \cup {tool}
    BY <1>1, PatchedOpen
  <1>5. w \in View /\ w.permission = None /\ But(u, w, {"permission"})
    <2>1. None \in Tools \cup {None}
      OBVIOUS
    <2>2. [u EXCEPT !.permission = None] \in View /\ [u EXCEPT !.permission = None].permission = None
          /\ But(u, [u EXCEPT !.permission = None], {"permission"})
      BY <1>3, <2>1, WithPermission
    <2> QED
      BY <1>2, <2>2
  <1>6. w.items = u.items /\ But(v, w, {"items", "permission"})
    BY <1>3, <1>5 DEF But
  <1> QED
    BY <1>3, <1>4, <1>5, <1>6 DEF u

LEMMA Cancelled ==
  ASSUME NEW v \in View, NEW tool \in Tools, NEW w, w = controlCancel(v, tool)
  PROVE  /\ w \in View /\ But(v, w, {"items", "permission"}) /\ Keeps(v.items, w.items, {"user", "prose"})
         /\ w.permission = (IF v.permission = tool THEN None ELSE v.permission)
         /\ Cards(w.items) = Cards(v.items) \ {tool} /\ Had(w.items) = Had(v.items)
         /\ OpenIn(v.items) \subseteq OpenIn(w.items)
         /\ OpenIn(w.items) \subseteq OpenIn(v.items) \cup ({v.permission} \cap {tool})
  <1> DEFINE u == IF v.permission = tool THEN [patchCall(v, tool, "running") EXCEPT !.permission = None] ELSE v
  <1>1. w = SettleCard(u, tool)
    BY DEF controlCancel
  <1>2. /\ u \in View /\ But(v, u, {"items", "permission"}) /\ Keeps(v.items, u.items, {"user", "prose", "question"})
        /\ u.permission = (IF v.permission = tool THEN None ELSE v.permission)
        /\ OpenIn(v.items) \subseteq OpenIn(u.items)
        /\ OpenIn(u.items) \subseteq OpenIn(v.items) \cup ({v.permission} \cap {tool})
    <2>1. CASE v.permission = tool
      <3>1. u = [patchCall(v, tool, "running") EXCEPT !.permission = None]
        BY <2>1
      <3> HIDE DEF u
      <3> QED
        BY <2>1, <3>1, Released
    <2>2. CASE v.permission # tool
      <3>1. u = v
        BY <2>2
      <3> HIDE DEF u
      <3> QED
        BY <2>2, <3>1 DEF But, Keeps
    <2> QED
      BY <2>1, <2>2
  <1> HIDE DEF u
  <1>3. /\ w \in View /\ But(u, w, {"items"}) /\ Keeps(u.items, w.items, {"user", "prose", "tools"})
        /\ Cards(w.items) = Cards(u.items) \ {tool} /\ Had(w.items) = Had(u.items)
    BY <1>1, <1>2, SettledCard
  <1>4. OpenIn(w.items) = OpenIn(u.items)
    BY <1>3, KeptOpen
  <1>5. Cards(u.items) = Cards(v.items) /\ Had(u.items) = Had(v.items)
    BY <1>2, KeptCards
  <1>6. But(v, w, {"items", "permission"}) /\ w.permission = u.permission
    BY <1>2, <1>3 DEF But
  <1>7. Keeps(v.items, w.items, {"user", "prose"})
    BY <1>2, <1>3 DEF Keeps
  <1> QED
    BY <1>2, <1>3, <1>4, <1>5, <1>6, <1>7

LEMMA Slashed ==
  ASSUME NEW v \in View, NEW w, w = slashCommand(v)
  PROVE  /\ w \in View /\ But(v, w, {"items"}) /\ Keeps(v.items, w.items, {"user", "prose", "tools", "question"})
         /\ w.items = IF TailIs(v, "divider") /\ Last(v.items).label = "reset" THEN v.items
                      ELSE Append(v.items, [kind |-> "status"])
  <1>1. CASE TailIs(v, "divider") /\ Last(v.items).label = "reset"
    <2>1. w = v
      BY <1>1 DEF slashCommand
    <2> QED
      BY <1>1, <2>1 DEF But, Keeps
  <1>2. CASE ~(TailIs(v, "divider") /\ Last(v.items).label = "reset")
    <2> DEFINE x == [kind |-> "status"]
    <2>1. x \in Item /\ x.kind = "status"
      BY ItemsAre
    <2>2. w = push(v, x)
      BY <1>2 DEF slashCommand
    <2>3. x.kind \notin {"user", "prose", "tools", "question"}
      BY <2>1
    <2> HIDE DEF x
    <2>4. /\ w \in View /\ w.items = Append(v.items, x) /\ But(v, w, {"items"})
          /\ \A K : x.kind \notin K => Keeps(v.items, w.items, K)
      BY <2>1, <2>2, Pushed
    <2> QED
      BY <1>2, <2>3, <2>4 DEF x
  <1> QED
    BY <1>1, <1>2

-----------------------------------------------------------------------------
(* Messages: the bubbles, and the texts whose echo is to come *)

Waits(s, t) == {i \in DOMAIN s : s[i] = t}

Said(h, t) == {i \in DOMAIN h : h[i] = [type |-> "user_text", text |-> t]}

Drawn(v, t) == Cardinality(Bub(v.items, t))
Marked(v, t) == Cardinality(Que(v.items, t))
Due(v, t) == Cardinality(Waits(v.pendingWeb, t))

LEMMA Countable ==
  ASSUME NEW S, NEW s \in Seq(S), NEW I \in SUBSET DOMAIN s
  PROVE  IsFiniteSet(I) /\ Cardinality(I) \in Nat
  <1>1. DOMAIN s = 1 .. Len(s) /\ Len(s) \in Int /\ 1 \in Int
    OBVIOUS
  <1>2. IsFiniteSet(DOMAIN s)
    BY <1>1, FS_Interval
  <1>3. IsFiniteSet(I)
    BY <1>2, FS_Subset
  <1> QED
    BY <1>3, FS_CardinalityType

LEMMA AllCounted ==
  ASSUME NEW v \in View, NEW t
  PROVE  /\ IsFiniteSet(Bub(v.items, t)) /\ Drawn(v, t) \in Nat
         /\ IsFiniteSet(Que(v.items, t)) /\ Marked(v, t) \in Nat
         /\ IsFiniteSet(Waits(v.pendingWeb, t)) /\ Due(v, t) \in Nat
  <1>1. v.items \in Seq(Item) /\ v.pendingWeb \in Seq(Texts)
    BY ViewFields
  <1>2. /\ Bub(v.items, t) \in SUBSET DOMAIN v.items /\ Que(v.items, t) \in SUBSET DOMAIN v.items
        /\ Waits(v.pendingWeb, t) \in SUBSET DOMAIN v.pendingWeb
    BY DEF Bub, Que, Waits
  <1> QED
    BY <1>1, <1>2, Countable DEF Drawn, Marked, Due

\* One more at the end counts one more.
LEMMA OneMore ==
  ASSUME NEW S, NEW s \in Seq(S), NEW I \in SUBSET DOMAIN s
  PROVE  Cardinality(I \cup {Len(s) + 1}) = Cardinality(I) + 1
  <1>1. IsFiniteSet(I)
    BY Countable
  <1>2. Len(s) + 1 \notin I
    OBVIOUS
  <1> QED
    BY <1>1, <1>2, FS_AddElement

LEMMA AppendedWait ==
  ASSUME NEW S, NEW s \in Seq(S), NEW x \in S
  PROVE  /\ Waits(Append(s, x), x) = Waits(s, x) \cup {Len(s) + 1}
         /\ \A t : t # x => Waits(Append(s, x), t) = Waits(s, t)
  <1> DEFINE u == Append(s, x)
  <1>1. /\ \A i \in DOMAIN s : i \in DOMAIN u /\ u[i] = s[i]
        /\ Len(s) + 1 \in DOMAIN u /\ u[Len(s) + 1] = x
        /\ \A i \in DOMAIN u : i \in DOMAIN s \/ i = Len(s) + 1
    BY Appended
  <1> HIDE DEF u
  <1>2. Waits(u, x) = Waits(s, x) \cup {Len(s) + 1}
    BY <1>1 DEF Waits
  <1>3. ASSUME NEW t, t # x PROVE Waits(u, t) = Waits(s, t)
    BY <1>1, <1>3 DEF Waits
  <1> QED
    BY <1>2, <1>3 DEF u

LEMMA RemovedAt ==
  ASSUME NEW S, NEW s \in Seq(S), NEW at \in 1 .. Len(s), NEW r, r = RemoveAt(s, at)
  PROVE  /\ r \in Seq(S) /\ Len(r) = Len(s) - 1 /\ Len(s) \in Nat
         /\ \A i \in 1 .. Len(r) : r[i] = IF i < at THEN s[i] ELSE s[i + 1]
  <1> DEFINE a == SubSeq(s, 1, at - 1)
             b == SubSeq(s, at + 1, Len(s))
  <1>0. r = a \o b
    BY DEF RemoveAt
  <1>1. Len(s) \in Nat /\ at \in Nat /\ 1 <= at /\ at <= Len(s)
    OBVIOUS
  <1>2. a \in Seq(S) /\ Len(a) = at - 1 /\ \A i \in 1 .. at - 1 : a[i] = s[i]
    BY <1>1
  <1>3. b \in Seq(S) /\ Len(b) = Len(s) - at /\ \A i \in 1 .. Len(s) - at : b[i] = s[at + i]
    BY <1>1
  <1> HIDE DEF a, b
  <1>4. /\ r \in Seq(S) /\ Len(r) = Len(a) + Len(b)
        /\ \A i \in 1 .. Len(a) + Len(b) : r[i] = IF i <= Len(a) THEN a[i] ELSE b[i - Len(a)]
    <2>1. a \in Seq(S) /\ b \in Seq(S)
      BY <1>2, <1>3
    <2> QED
      BY <1>0, <2>1, ConcatProperties
  <1>5. Len(r) = Len(s) - 1
    BY <1>1, <1>2, <1>3, <1>4
  <1>6. ASSUME NEW i \in 1 .. Len(r) PROVE r[i] = IF i < at THEN s[i] ELSE s[i + 1]
    <2>1. CASE i < at
      <3>1. i \in 1 .. at - 1 /\ i <= Len(a) /\ i \in 1 .. Len(a) + Len(b)
        BY <1>1, <1>2, <1>4, <2>1
      <3> QED
        BY <1>2, <1>4, <2>1, <3>1
    <2>2. CASE ~(i < at)
      <3>1. /\ ~(i <= Len(a)) /\ i \in 1 .. Len(a) + Len(b)
            /\ i - Len(a) \in 1 .. Len(s) - at /\ at + (i - Len(a)) = i + 1
        BY <1>1, <1>2, <1>4, <1>5, <2>2
      <3>2. r[i] = b[i - Len(a)] /\ b[i - Len(a)] = s[at + (i - Len(a))]
        BY <1>3, <1>4, <3>1
      <3> QED
        BY <2>2, <3>1, <3>2
    <2> QED
      BY <2>1, <2>2
  <1> QED
    BY <1>1, <1>4, <1>5, <1>6

\* A place taken out of a sequence takes one off the count of what was there, and nothing else.
LEMMA RemovedWait ==
  ASSUME NEW S, NEW s \in Seq(S), NEW at \in 1 .. Len(s), NEW r, r = RemoveAt(s, at), NEW t
  PROVE  /\ s[at] = t => Cardinality(Waits(r, t)) = Cardinality(Waits(s, t)) - 1
         /\ s[at] # t => Cardinality(Waits(r, t)) = Cardinality(Waits(s, t))
  <1>1. /\ r \in Seq(S) /\ Len(r) = Len(s) - 1 /\ Len(s) \in Nat
        /\ \A i \in 1 .. Len(r) : r[i] = IF i < at THEN s[i] ELSE s[i + 1]
    BY RemovedAt
  <1>2. DOMAIN r = 1 .. Len(r) /\ DOMAIN s = 1 .. Len(s) /\ at \in Nat
    BY <1>1
  <1> DEFINE A == Waits(r, t)
             B == Waits(s, t) \ {at}
             f == [i \in A |-> IF i < at THEN i ELSE i + 1]
  <1>3. \A i \in A : i \in 1 .. Len(r) /\ f[i] \in B /\ f[i] = (IF i < at THEN i ELSE i + 1)
    <2> SUFFICES ASSUME NEW i \in A PROVE i \in 1 .. Len(r) /\ f[i] \in B /\ f[i] = (IF i < at THEN i ELSE i + 1)
      OBVIOUS
    <2>1. i \in 1 .. Len(r) /\ r[i] = t
      BY <1>2 DEF Waits
    <2>2. f[i] = IF i < at THEN i ELSE i + 1
      OBVIOUS
    <2>3. CASE i < at
      <3>1. i \in 1 .. Len(s) /\ i # at /\ s[i] = t
        BY <1>1, <1>2, <2>1, <2>3
      <3> QED
        BY <1>2, <2>1, <2>2, <2>3, <3>1 DEF Waits
    <2>4. CASE ~(i < at)
      <3>1. i + 1 \in 1 .. Len(s) /\ i + 1 # at /\ s[i + 1] = t
        BY <1>1, <1>2, <2>1, <2>4
      <3> QED
        BY <1>2, <2>1, <2>2, <2>4, <3>1 DEF Waits
    <2> QED
      BY <2>3, <2>4
  <1>4. \A i, j \in A : f[i] = f[j] => i = j
    <2> HIDE DEF f, A, B
    <2> QED
      BY <1>1, <1>2, <1>3
  <1>5. \A k \in B : \E i \in A : f[i] = k
    <2> SUFFICES ASSUME NEW k \in B PROVE \E i \in A : f[i] = k
      OBVIOUS
    <2>1. k \in 1 .. Len(s) /\ s[k] = t /\ k # at
      BY <1>2 DEF Waits
    <2>2. CASE k < at
      <3>1. k \in 1 .. Len(r) /\ r[k] = t
        BY <1>1, <1>2, <2>1, <2>2
      <3>2. k \in A
        BY <1>2, <3>1 DEF Waits
      <3> QED
        BY <2>2, <3>2
    <2>3. CASE ~(k < at)
      <3>1. k - 1 \in 1 .. Len(r) /\ r[k - 1] = t /\ ~(k - 1 < at) /\ (k - 1) + 1 = k
        <4>1. k - 1 \in 1 .. Len(r) /\ ~(k - 1 < at) /\ (k - 1) + 1 = k
          BY <1>1, <1>2, <2>1, <2>3
        <4> QED
          BY <1>1, <2>1, <4>1
      <3>2. k - 1 \in A
        BY <1>2, <3>1 DEF Waits
      <3> QED
        BY <3>1, <3>2
    <2> QED
      BY <2>2, <2>3
  <1>6. Cardinality(A) = Cardinality(B)
    <2>1. A \in SUBSET DOMAIN r /\ Waits(s, t) \in SUBSET DOMAIN s
      BY DEF Waits
    <2>2. IsFiniteSet(A)
      BY <1>1, <2>1, Countable
    <2>3. f \in [A -> B]
      BY <1>3
    <2> HIDE DEF A, B, f
    <2>4. f \in Bijection(A, B)
      BY <1>4, <1>5, <2>3 DEF Bijection, Injection, Surjection, IsInjective
    <2>5. ExistsBijection(A, B)
      BY <2>4 DEF ExistsBijection
    <2> QED
      BY <2>2, <2>5, FS_Bijection
  <1>7. IsFiniteSet(Waits(s, t)) /\ Cardinality(Waits(s, t)) \in Nat
    <2>1. Waits(s, t) \in SUBSET DOMAIN s
      BY DEF Waits
    <2> QED
      BY <2>1, Countable
  <1>8. s[at] = t <=> at \in Waits(s, t)
    BY <1>2 DEF Waits
  <1> HIDE DEF A
  <1> QED
    BY <1>6, <1>7, <1>8, FS_RemoveElement DEF A

LEMMA TakenVisible ==
  ASSUME NEW v \in View, NEW x \in Texts, Contains(v.pendingWeb, x), NEW w, w = takeVisibleUserTexts(v, x)
  PROVE  /\ w \in View /\ But(v, w, {"pendingWeb"}) /\ w.items = v.items
         /\ Due(w, x) = Due(v, x) - 1
         /\ \A t : t # x => Due(w, t) = Due(v, t)
  <1> DEFINE s == v.pendingWeb
             I == {i \in 1 .. Len(s) : s[i] = x}
             at == IF I # {} THEN Min(I) ELSE 0
             r == RemoveAt(s, at)
  <1>1. s \in Seq(Texts) /\ I # {}
    BY ViewFields DEF Contains
  <1>2. w = [v EXCEPT !.pendingWeb = r]
    <2>1. \E i \in 1 .. Len(s) : s[i] = x
      BY <1>1
    <2>2. RemoveFirst(s, x) = r
      BY <2>1 DEF RemoveFirst, SelectInSeq
    <2> QED
      BY <2>2 DEF takeVisibleUserTexts
  <1>3. at \in 1 .. Len(s) /\ s[at] = x
    <2>1. I = {i \in 1 .. Len(s) : i \in I}
      OBVIOUS
    <2>2. at \in I
      <3> HIDE DEF I, s
      <3> QED
        BY <1>1, <2>1, FirstFound
    <2> HIDE DEF at
    <2> QED
      BY <2>2
  <1> HIDE DEF at
  <1>4. r \in Seq(Texts)
    <2> HIDE DEF s
    <2> QED
      BY <1>1, <1>3, RemovedAt
  <1>5. \A t : /\ x = t => Cardinality(Waits(r, t)) = Cardinality(Waits(s, t)) - 1
               /\ x # t => Cardinality(Waits(r, t)) = Cardinality(Waits(s, t))
    <2> SUFFICES ASSUME NEW t
                 PROVE  /\ x = t => Cardinality(Waits(r, t)) = Cardinality(Waits(s, t)) - 1
                        /\ x # t => Cardinality(Waits(r, t)) = Cardinality(Waits(s, t))
      OBVIOUS
    <2>1. r = RemoveAt(s, at)
      OBVIOUS
    <2> HIDE DEF s, r
    <2>2. /\ s[at] = t => Cardinality(Waits(r, t)) = Cardinality(Waits(s, t)) - 1
          /\ s[at] # t => Cardinality(Waits(r, t)) = Cardinality(Waits(s, t))
      BY <1>1, <1>3, <2>1, RemovedWait
    <2> QED
      BY <1>3, <2>2
  <1> HIDE DEF r
  <1>6. w \in View /\ w.pendingWeb = r /\ But(v, w, {"pendingWeb"})
    BY <1>2, <1>4, WithPending
  <1> QED
    BY <1>5, <1>6 DEF Due, But

LEMMA SettledQueued ==
  ASSUME NEW v \in View, NEW x \in Texts, NEW w, w = settleQueued(v, x)
  PROVE  /\ w \in View /\ But(v, w, {"items"}) /\ Keeps(v.items, w.items, {"prose", "tools", "question"})
         /\ \A t \in Texts : Drawn(w, t) = Drawn(v, t)
         /\ \A t \in Texts : t # x => Marked(w, t) = Marked(v, t)
         /\ Marked(w, x) = IF Marked(v, x) = 0 THEN 0 ELSE Marked(v, x) - 1
  <1> DEFINE I == {i \in 1 .. Len(v.items) : v.items[i] = Bubble(x, TRUE)}
             at == IF I # {} THEN Min(I) ELSE 0
             K == {"prose", "tools", "question"}
  <1>1. v.items \in Seq(Item) /\ DOMAIN v.items = 1 .. Len(v.items)
    BY ViewFields
  <1>2. w = IF at = 0 THEN v ELSE [v EXCEPT !.items = [v.items EXCEPT ![at] = [v.items[at] EXCEPT !.queued = FALSE]]]
    BY DEF settleQueued, SelectInSeq
  <1>3. (at = 0 <=> I = {}) /\ (at # 0 => at \in I /\ at \in DOMAIN v.items)
    <2>1. I = {i \in 1 .. Len(v.items) : i \in I}
      OBVIOUS
    <2> HIDE DEF I
    <2> QED
      BY <1>1, <2>1, FirstFound
  <1>4. I = Que(v.items, x)
    BY <1>1 DEF Que
  <1>5. IsFiniteSet(I) /\ Marked(v, x) = Cardinality(I) /\ Cardinality(I) \in Nat
    BY <1>4, AllCounted DEF Marked
  <1> HIDE DEF K
  <1>6. CASE at = 0
    <2>1. w = v /\ Cardinality(I) = 0
      <3>1. Cardinality({}) = 0
        BY FS_EmptySet
      <3> HIDE DEF I, at
      <3> QED
        BY <1>2, <1>3, <1>6, <3>1
    <2> HIDE DEF I, at
    <2> QED
      BY <1>5, <2>1 DEF But, Keeps, K
  <1>7. CASE at # 0
    <2> DEFINE b == Bubble(x, FALSE)
    <2>1. v.items[at] = Bubble(x, TRUE) /\ at \in DOMAIN v.items
      BY <1>3, <1>7
    <2>2. [v.items[at] EXCEPT !.queued = FALSE] = b
      <3> HIDE DEF at, I, K
      <3>1. [Bubble(x, TRUE) EXCEPT !.queued = FALSE] = b
        <4>1. \A p, q : [Bubble(x, p) EXCEPT !.queued = q] = Bubble(x, q)
          <5> SUFFICES ASSUME NEW p, NEW q PROVE [Bubble(x, p) EXCEPT !.queued = q] = Bubble(x, q)
            OBVIOUS
          <5> QED
            BY DEF Bubble
        <4> QED
          BY <4>1, Zenon
      <3> QED
        BY <2>1, <3>1
    <2>3. b \in Item /\ b.kind = "user" /\ b.text = x /\ "user" \notin K /\ \A t : b # Bubble(t, TRUE)
      BY ItemsAre DEF Bubble, K
    <2>4. Bubble(x, TRUE).kind = "user" /\ Bubble(x, TRUE).text = x /\ \A t : Bubble(x, TRUE) = Bubble(t, TRUE) => t = x
      BY DEF Bubble
    <2>5. w = [v EXCEPT !.items = [v.items EXCEPT ![at] = b]]
      <3>1. w = [v EXCEPT !.items = [v.items EXCEPT ![at] = [v.items[at] EXCEPT !.queued = FALSE]]]
        BY <1>2, <1>7
      <3> HIDE DEF at, b
      <3> QED
        BY <2>2, <3>1
    <2>6. at \in I
      BY <1>3, <1>7
    <2> HIDE DEF b, at, I
    <2>7. b.kind = v.items[at].kind
      BY <2>1, <2>3, <2>4
    <2>8. /\ w \in View /\ But(v, w, {"items"}) /\ DOMAIN w.items = DOMAIN v.items
          /\ \A i \in DOMAIN v.items : w.items[i] = IF i = at THEN b ELSE v.items[i]
          /\ \A L : b.kind \notin L => Keeps(v.items, w.items, L)
      <3>1. at \in DOMAIN v.items /\ b \in Item
        BY <2>1, <2>3
      <3> QED
        BY <2>5, <2>7, <3>1, Replaced
    <2>9. Keeps(v.items, w.items, K)
      BY <2>3, <2>8
    <2>10. \A t \in Texts : Bub(w.items, t) = Bub(v.items, t)
      <3>1. v.items[at].kind = "user" /\ v.items[at].text = x /\ b.kind = "user" /\ b.text = x
        BY <2>1, <2>3, <2>4
      <3>2. \A i \in DOMAIN v.items : w.items[i].kind = "user" <=> v.items[i].kind = "user"
        BY <2>8, <3>1
      <3>3. \A i \in DOMAIN v.items : v.items[i].kind = "user" => w.items[i].text = v.items[i].text
        BY <2>8, <3>1
      <3> QED
        BY <2>8, <3>2, <3>3 DEF Bub
    <2>11. ASSUME NEW t \in Texts, t # x PROVE Que(w.items, t) = Que(v.items, t)
      BY <2>1, <2>3, <2>4, <2>8, <2>11 DEF Que
    <2>12. Que(w.items, x) = I \ {at}
      BY <1>4, <2>1, <2>3, <2>8 DEF Que
    <2>13. Cardinality(I \ {at}) = Cardinality(I) - 1
      BY <1>5, <2>6, FS_RemoveElement
    <2>14. Cardinality(I) # 0
      BY <1>5, <2>6, FS_EmptySet
    <2> QED
      BY <1>5, <2>8, <2>9, <2>10, <2>11, <2>12, <2>13, <2>14 DEF Drawn, Marked, K
  <1> QED
    BY <1>6, <1>7

\* A bubble more.
LEMMA PushedBubble ==
  ASSUME NEW v \in View, NEW x \in Texts, NEW q \in BOOLEAN, NEW w, w = push(v, Bubble(x, q))
  PROVE  /\ w \in View /\ But(v, w, {"items"}) /\ Keeps(v.items, w.items, {"prose", "tools", "question"})
         /\ w.items = Append(v.items, Bubble(x, q))
         /\ Drawn(w, x) = Drawn(v, x) + 1 /\ Marked(w, x) = Marked(v, x) + (IF q THEN 1 ELSE 0)
         /\ \A t \in Texts : t # x => Drawn(w, t) = Drawn(v, t) /\ Marked(w, t) = Marked(v, t)
  <1> DEFINE b == Bubble(x, q)
             s == v.items
  <1>1. b \in Item /\ b.kind = "user" /\ b.kind \notin {"prose", "tools", "question"} /\ s \in Seq(Item)
    BY ItemsAre, ViewFields
  <1>2. w = push(v, b)
    OBVIOUS
  <1>3. /\ Bub(Append(s, b), x) = Bub(s, x) \cup {Len(s) + 1}
        /\ Que(Append(s, b), x) = IF q THEN Que(s, x) \cup {Len(s) + 1} ELSE Que(s, x)
        /\ \A t \in Texts : t # x => Bub(Append(s, b), t) = Bub(s, t) /\ Que(Append(s, b), t) = Que(s, t)
    BY <1>1, AppendedBubble
  <1> HIDE DEF b
  <1>4. /\ w \in View /\ w.items = Append(v.items, b) /\ But(v, w, {"items"})
        /\ \A K : b.kind \notin K => Keeps(v.items, w.items, K)
    BY <1>1, <1>2, Pushed
  <1>5. Bub(s, x) \in SUBSET DOMAIN s /\ Que(s, x) \in SUBSET DOMAIN s
    BY DEF Bub, Que
  <1>6. /\ Cardinality(Bub(s, x) \cup {Len(s) + 1}) = Cardinality(Bub(s, x)) + 1
        /\ Cardinality(Que(s, x) \cup {Len(s) + 1}) = Cardinality(Que(s, x)) + 1
    <2> HIDE DEF s
    <2> QED
      BY <1>1, <1>5, OneMore
  <1>7. Cardinality(Que(s, x)) \in Nat
    BY AllCounted DEF Marked
  <1>8. Drawn(w, x) = Drawn(v, x) + 1
    BY <1>3, <1>4, <1>6 DEF Drawn
  <1>9. Marked(w, x) = Marked(v, x) + (IF q THEN 1 ELSE 0)
    BY <1>3, <1>4, <1>6, <1>7 DEF Marked
  <1>10. \A t \in Texts : t # x => Drawn(w, t) = Drawn(v, t) /\ Marked(w, t) = Marked(v, t)
    BY <1>3, <1>4 DEF Drawn, Marked
  <1>11. Keeps(v.items, w.items, {"prose", "tools", "question"})
    BY <1>1, <1>4
  <1> QED
    BY <1>4, <1>8, <1>9, <1>10, <1>11 DEF b

\* The counts of the other texts are the same.
CountsBut(v, w, x) ==
  \A t \in Texts : t # x => Drawn(w, t) = Drawn(v, t) /\ Due(w, t) = Due(v, t) /\ Marked(w, t) = Marked(v, t)

LEMMA TakenUserText ==
  ASSUME NEW v \in View, NEW x \in Texts, NEW history_ \in BOOLEAN, NEW w, w = TakeUserText(v, x, history_)
  PROVE  /\ w \in View /\ But(v, w, {"items", "busy", "pendingWeb"})
         /\ Keeps(v.items, w.items, {"prose", "tools", "question"})
         /\ history_ \/ v.pendingWeb = <<>> => w.items = Append(v.items, Bubble(x, FALSE)) /\ w.pendingWeb = v.pendingWeb
         /\ history_ => w.busy = v.busy
         /\ Drawn(w, x) - Due(w, x) = Drawn(v, x) - Due(v, x) + 1
         /\ CountsBut(v, w, x)
         /\ Marked(v, x) <= Due(v, x) => Marked(w, x) <= Due(w, x)
         /\ Marked(v, x) = 0 => Marked(w, x) = 0
         /\ v.busy => w.busy
  <1>0. \A t : Drawn(v, t) \in Nat /\ Marked(v, t) \in Nat /\ Due(v, t) \in Nat
    BY AllCounted
  <1>1. CASE ~history_ /\ Contains(v.pendingWeb, x)
    <2> DEFINE u == takeVisibleUserTexts(v, x)
    <2>1. w = settleQueued(u, x)
      BY <1>1 DEF TakeUserText
    <2>2. /\ u \in View /\ But(v, u, {"pendingWeb"}) /\ u.items = v.items
          /\ Due(u, x) = Due(v, x) - 1 /\ \A t : t # x => Due(u, t) = Due(v, t)
      BY <1>1, TakenVisible
    <2> HIDE DEF u
    <2>3. /\ w \in View /\ But(u, w, {"items"}) /\ Keeps(u.items, w.items, {"prose", "tools", "question"})
          /\ \A t \in Texts : Drawn(w, t) = Drawn(u, t)
          /\ \A t \in Texts : t # x => Marked(w, t) = Marked(u, t)
          /\ Marked(w, x) = IF Marked(u, x) = 0 THEN 0 ELSE Marked(u, x) - 1
      BY <2>1, <2>2, SettledQueued
    <2>4. \A t : Drawn(u, t) = Drawn(v, t) /\ Marked(u, t) = Marked(v, t) /\ Due(w, t) = Due(u, t)
      BY <2>2, <2>3 DEF Drawn, Marked, Due, But
    <2>5. But(v, w, {"items", "busy", "pendingWeb"}) /\ w.busy = v.busy
      BY <2>2, <2>3 DEF But
    <2>6. v.pendingWeb # <<>>
      BY <1>1 DEF Contains
    <2>7. /\ Drawn(w, x) = Drawn(v, x) /\ Due(w, x) = Due(v, x) - 1
          /\ Marked(w, x) = IF Marked(v, x) = 0 THEN 0 ELSE Marked(v, x) - 1
      BY <2>2, <2>3, <2>4
    <2>8. Due(v, x) # 0 /\ Due(w, x) \in Nat
      BY <1>0, <2>3, <2>7, AllCounted
    <2>9. /\ Drawn(w, x) - Due(w, x) = Drawn(v, x) - Due(v, x) + 1
          /\ Marked(v, x) <= Due(v, x) => Marked(w, x) <= Due(w, x)
          /\ Marked(v, x) = 0 => Marked(w, x) = 0
      BY <1>0, <2>7, <2>8
    <2>10. CountsBut(v, w, x)
      BY <2>2, <2>3, <2>4 DEF CountsBut
    <2> QED
      BY <1>1, <2>2, <2>3, <2>5, <2>6, <2>9, <2>10
  <1>2. CASE ~(~history_ /\ Contains(v.pendingWeb, x))
    <2> DEFINE u == push(v, Bubble(x, FALSE))
    <2>1. w = IF history_ THEN u ELSE [u EXCEPT !.busy = TRUE]
      BY <1>2 DEF TakeUserText
    <2>2. /\ u \in View /\ But(v, u, {"items"}) /\ Keeps(v.items, u.items, {"prose", "tools", "question"})
          /\ u.items = Append(v.items, Bubble(x, FALSE))
          /\ Drawn(u, x) = Drawn(v, x) + 1 /\ Marked(u, x) = Marked(v, x) + 0
          /\ \A t \in Texts : t # x => Drawn(u, t) = Drawn(v, t) /\ Marked(u, t) = Marked(v, t)
      <3>1. u = push(v, Bubble(x, FALSE))
        OBVIOUS
      <3> DEFINE q == FALSE
      <3>2. q \in BOOLEAN /\ ~q /\ u = push(v, Bubble(x, q))
        BY <3>1
      <3> HIDE DEF u, q
      <3>3. /\ u \in View /\ But(v, u, {"items"}) /\ Keeps(v.items, u.items, {"prose", "tools", "question"})
            /\ u.items = Append(v.items, Bubble(x, q))
            /\ Drawn(u, x) = Drawn(v, x) + 1 /\ Marked(u, x) = Marked(v, x) + (IF q THEN 1 ELSE 0)
            /\ \A t \in Texts : t # x => Drawn(u, t) = Drawn(v, t) /\ Marked(u, t) = Marked(v, t)
        BY <3>2, PushedBubble
      <3>4. Marked(u, x) = Marked(v, x) + 0
        BY <3>2, <3>3
      <3> QED
        BY <3>3, <3>4 DEF q
    <2> HIDE DEF u
    <2>3. w \in View /\ But(u, w, {"busy"}) /\ (history_ => w = u) /\ (~history_ => w.busy = TRUE)
      <3>1. TRUE \in BOOLEAN
        OBVIOUS
      <3>2. [u EXCEPT !.busy = TRUE] \in View /\ [u EXCEPT !.busy = TRUE].busy = TRUE /\ But(u, [u EXCEPT !.busy = TRUE], {"busy"})
        BY <2>2, <3>1, WithBusy
      <3>3. But(u, u, {"busy"})
        BY DEF But
      <3> QED
        BY <2>1, <2>2, <3>2, <3>3
    <2>4. But(v, w, {"items", "busy", "pendingWeb"}) /\ w.items = u.items /\ w.pendingWeb = v.pendingWeb
      BY <2>2, <2>3 DEF But
    <2>5. history_ => w.busy = v.busy
      BY <2>2, <2>3 DEF But
    <2>6. \A t : Drawn(w, t) = Drawn(u, t) /\ Marked(w, t) = Marked(u, t) /\ Due(w, t) = Due(v, t)
      BY <2>4 DEF Drawn, Marked, Due
    <2>7. /\ Drawn(w, x) - Due(w, x) = Drawn(v, x) - Due(v, x) + 1
          /\ Marked(w, x) = Marked(v, x) /\ Due(w, x) = Due(v, x)
      BY <1>0, <2>2, <2>6
    <2>8. CountsBut(v, w, x)
      BY <2>2, <2>6 DEF CountsBut
    <2>9. v.busy => w.busy
      BY <2>3, <2>5
    <2> QED
      BY <2>2, <2>3, <2>4, <2>5, <2>7, <2>8, <2>9
  <1> QED
    BY <1>1, <1>2

LEMMA SentLocally ==
  ASSUME NEW v \in View, NEW x \in Texts, NEW q \in BOOLEAN, NEW w, w = localSend(v, x, q)
  PROVE  /\ w \in View /\ But(v, w, {"items", "busy", "pendingWeb"}) /\ w.busy = TRUE /\ w.pendingWeb # <<>>
         /\ Keeps(v.items, w.items, {"prose", "tools", "question"})
         /\ Drawn(w, x) = Drawn(v, x) + 1 /\ Due(w, x) = Due(v, x) + 1
         /\ Marked(w, x) = Marked(v, x) + (IF q THEN 1 ELSE 0)
         /\ CountsBut(v, w, x)
  <1> DEFINE u == push(v, Bubble(x, q))
             s == v.pendingWeb
             more == Append(s, x)
             y == [u EXCEPT !.pendingWeb = more]
  <1>1. /\ u \in View /\ But(v, u, {"items"}) /\ Keeps(v.items, u.items, {"prose", "tools", "question"})
        /\ Drawn(u, x) = Drawn(v, x) + 1 /\ Marked(u, x) = Marked(v, x) + (IF q THEN 1 ELSE 0)
        /\ \A t \in Texts : t # x => Drawn(u, t) = Drawn(v, t) /\ Marked(u, t) = Marked(v, t)
    <2>1. u = push(v, Bubble(x, q))
      OBVIOUS
    <2> HIDE DEF u
    <2> QED
      BY <2>1, PushedBubble
  <1>2. s \in Seq(Texts) /\ u.pendingWeb = s
    BY <1>1, ViewFields DEF But
  <1>3. more \in Seq(Texts) /\ more # <<>>
    BY <1>2
  <1>4. w = [y EXCEPT !.busy = TRUE]
    <2>1. w = [u EXCEPT !.pendingWeb = Append(u.pendingWeb, x), !.busy = TRUE]
      BY DEF localSend
    <2> HIDE DEF u
    <2> QED
      BY <1>2, <2>1
  <1>5. /\ Waits(more, x) = Waits(s, x) \cup {Len(s) + 1}
        /\ \A t : t # x => Waits(more, t) = Waits(s, t)
    <2> HIDE DEF s
    <2> QED
      BY <1>2, AppendedWait
  <1>6. Cardinality(Waits(s, x) \cup {Len(s) + 1}) = Cardinality(Waits(s, x)) + 1
    <2>1. Waits(s, x) \in SUBSET DOMAIN s
      BY DEF Waits
    <2> HIDE DEF s
    <2> QED
      BY <1>2, <2>1, OneMore
  <1> HIDE DEF u, more
  <1>7. y \in View /\ y.pendingWeb = more /\ But(u, y, {"pendingWeb"})
    BY <1>1, <1>3, WithPending
  <1> HIDE DEF y
  <1>8. w \in View /\ w.busy = TRUE /\ But(y, w, {"busy"})
    <2>1. TRUE \in BOOLEAN
      OBVIOUS
    <2>2. [y EXCEPT !.busy = TRUE] \in View /\ [y EXCEPT !.busy = TRUE].busy = TRUE /\ But(y, [y EXCEPT !.busy = TRUE], {"busy"})
      BY <1>7, <2>1, WithBusy
    <2> QED
      BY <1>4, <2>2
  <1>9. /\ But(v, w, {"items", "busy", "pendingWeb"}) /\ w.items = u.items /\ w.pendingWeb = more
    BY <1>1, <1>7, <1>8 DEF But
  <1>10. \A t : Drawn(w, t) = Drawn(u, t) /\ Marked(w, t) = Marked(u, t) /\ Due(w, t) = Cardinality(Waits(more, t))
    BY <1>9 DEF Drawn, Marked, Due
  <1>11. \A t : Due(v, t) = Cardinality(Waits(s, t))
    BY DEF Due
  <1> HIDE DEF s
  <1>12. Due(w, x) = Due(v, x) + 1
    BY <1>5, <1>6, <1>10, <1>11
  <1>13. CountsBut(v, w, x)
    BY <1>1, <1>5, <1>10, <1>11 DEF CountsBut
  <1> QED
    BY <1>1, <1>3, <1>8, <1>9, <1>10, <1>12, <1>13

-----------------------------------------------------------------------------
(* What each payload does to a transcript, live (hist = FALSE) or replayed *)

\* A view that is made busy.
LEMMA MadeBusy ==
  ASSUME NEW v \in View, NEW w, w = [v EXCEPT !.busy = TRUE]
  PROVE  w \in View /\ w.busy /\ But(v, w, {"busy"}) /\ w.items = v.items
  <1>1. TRUE \in BOOLEAN
    OBVIOUS
  <1>2. [v EXCEPT !.busy = TRUE] \in View /\ [v EXCEPT !.busy = TRUE].busy = TRUE
        /\ But(v, [v EXCEPT !.busy = TRUE], {"busy"})
    BY <1>1, WithBusy
  <1>3. w \in View /\ w.busy = TRUE /\ But(v, w, {"busy"})
    BY <1>2
  <1> QED
    BY <1>3 DEF But

\* Prose and status lines.
LEMMA ReducedPlain ==
  ASSUME NEW v \in View, NEW p, NEW hist \in BOOLEAN, NEW w, w = reduce(v, p, hist),
         p.type \in {"interrupt_notice", "command_echo", "assistant_text", "content_block_delta", "message_stop"}
  PROVE  /\ w \in View /\ But(v, w, {"items", "busy"}) /\ Keeps(v.items, w.items, {"user", "tools", "question"})
         /\ v.busy => w.busy
         /\ w.busy => v.busy \/ p.type = "content_block_delta"
         /\ p.type \in {"interrupt_notice", "command_echo"} =>
              Keeps(v.items, w.items, {"user", "prose", "tools", "question"})
  <1>1. CASE p.type = "interrupt_notice"
    <2> DEFINE x == [kind |-> "status"]
    <2>1. x \in Item /\ x.kind = "status" /\ x.kind \notin {"user", "prose", "tools", "question"}
          /\ x.kind \notin {"user", "tools", "question"}
      BY ItemsAre
    <2>2. w = push(v, x)
      BY <1>1 DEF reduce
    <2> HIDE DEF x
    <2>3. w \in View /\ But(v, w, {"items"}) /\ \A K : x.kind \notin K => Keeps(v.items, w.items, K)
      BY <2>1, <2>2, Pushed
    <2> QED
      BY <1>1, <2>1, <2>3 DEF But
  <1>2. CASE p.type = "command_echo"
    <2>1. w = slashCommand(v)
      BY <1>2 DEF reduce
    <2>2. w \in View /\ But(v, w, {"items"}) /\ Keeps(v.items, w.items, {"user", "prose", "tools", "question"})
      BY <2>1, Slashed
    <2> QED
      BY <1>2, <2>2 DEF But, Keeps
  <1>3. CASE p.type = "assistant_text"
    <2>1. w = settleStreamed(v)
      BY <1>3 DEF reduce
    <2>2. w \in View /\ But(v, w, {"items"}) /\ Keeps(v.items, w.items, {"user", "tools", "question"})
      BY <2>1, SettledStreamed
    <2> QED
      BY <1>3, <2>2 DEF But
  <1>4. CASE p.type = "content_block_delta"
    <2> DEFINE u == appendStreamed(v)
    <2>1. w = IF hist THEN u ELSE [u EXCEPT !.busy = TRUE]
      BY <1>4 DEF reduce
    <2>2. u \in View /\ But(v, u, {"items"}) /\ Keeps(v.items, u.items, {"user", "tools", "question"})
      BY AppendedStreamed
    <2> HIDE DEF u
    <2>3. w \in View /\ But(u, w, {"busy"}) /\ (w.busy \/ w.busy = u.busy) /\ w.items = u.items
      <3>1. CASE hist
        BY <2>1, <2>2, <3>1 DEF But
      <3>2. CASE ~hist
        BY <2>1, <2>2, <3>2, MadeBusy
      <3> QED
        BY <3>1, <3>2
    <2> QED
      BY <1>4, <2>2, <2>3 DEF But
  <1>5. CASE p.type = "message_stop"
    <2>1. w = stopStreaming(v)
      BY <1>5 DEF reduce
    <2>2. w \in View /\ But(v, w, {"items"}) /\ Keeps(v.items, w.items, {"user", "tools", "question"})
      BY <2>1, StoppedStreaming
    <2> QED
      BY <1>5, <2>2 DEF But
  <1> QED
    BY <1>1, <1>2, <1>3, <1>4, <1>5

LEMMA ReducedUse ==
  ASSUME NEW v \in View, NEW p, NEW hist \in BOOLEAN, NEW w, w = reduce(v, p, hist),
         p.type = "tool_use", p.tool \in Tools
  PROVE  /\ w \in View /\ But(v, w, {"items", "running", "busy"})
         /\ Keeps(v.items, w.items, {"user", "prose", "question"})
         /\ v.busy => w.busy
         /\ p.tool \in Asking => w = v
         /\ p.tool \notin Asking => OpenIn(w.items) = OpenIn(v.items) \cup {p.tool} /\ w.running = p.tool
         /\ w.items = IF p.tool \in Asking THEN v.items ELSE addToolCall(v, p.tool).items
  <1>1. CASE p.tool \in Asking
    <2>1. w = v
      BY <1>1 DEF reduce
    <2> QED
      BY <1>1, <2>1, KeepsSame DEF But
  <1>2. CASE p.tool \notin Asking
    <2> DEFINE u == IF hist THEN v ELSE [v EXCEPT !.busy = TRUE]
    <2>1. w = addToolCall(u, p.tool)
      BY <1>2 DEF reduce
    <2>2. u \in View /\ But(v, u, {"busy"}) /\ u.items = v.items /\ (v.busy => u.busy)
      <3>1. CASE hist
        BY <3>1 DEF But
      <3>2. CASE ~hist
        BY <3>2, MadeBusy
      <3> QED
        BY <3>1, <3>2
    <2> HIDE DEF u
    <2>3. /\ w \in View /\ But(u, w, {"items", "running"}) /\ Keeps(u.items, w.items, {"user", "prose", "question"})
          /\ OpenIn(w.items) = OpenIn(u.items) \cup {p.tool} /\ w.running = p.tool
      BY <2>1, <2>2, AddedToolCall, ZenonT(60)
    <2>4. w.items = addToolCall(v, p.tool).items
      <3>1. TailIs(u, "tools") = TailIs(v, "tools")
        BY <2>2 DEF TailIs
      <3>2. w.items = IF TailIs(u, "tools")
                      THEN [u.items EXCEPT ![Len(u.items)] =
                              [Last(u.items) EXCEPT !.calls = Append(@, [tool |-> p.tool, status |-> "running"])]]
                      ELSE Append(u.items, [kind |-> "tools", calls |-> <<[tool |-> p.tool, status |-> "running"]>>])
        BY <2>1, <2>2, AddedToolCall, ZenonT(60)
      <3>3. ASSUME NEW y, y = addToolCall(v, p.tool)
            PROVE  y.items = IF TailIs(v, "tools")
                             THEN [v.items EXCEPT ![Len(v.items)] =
                                     [Last(v.items) EXCEPT !.calls = Append(@, [tool |-> p.tool, status |-> "running"])]]
                             ELSE Append(v.items, [kind |-> "tools", calls |-> <<[tool |-> p.tool, status |-> "running"]>>])
        BY <3>3, AddedToolCall, Zenon
      <3> QED
        BY <2>2, <3>1, <3>2, <3>3, Zenon
    <2>5. But(v, w, {"items", "running", "busy"}) /\ w.busy = u.busy
      BY <2>2, <2>3 DEF But
    <2> QED
      BY <1>2, <2>2, <2>3, <2>4, <2>5
  <1> QED
    BY <1>1, <1>2

\* The turn is over.
\* The items t are those of v at the end of its turn, or those and one more that is no prose.
EndedAs(v, t) ==
  \E failed \in BOOLEAN :
    \/ t = endTurn(v, failed).items
    \/ \E x \in Item : x.kind # "prose" /\ t = Append(endTurn(v, failed).items, x)

LEMMA ReducedEnd ==
  ASSUME NEW v \in View, NEW p, NEW hist \in BOOLEAN, NEW w, w = reduce(v, p, hist),
         p.type = "conversation_reset" \/ (p.type = "result" /\ p.failed \in BOOLEAN)
  PROVE  /\ w \in View /\ w.pendingWeb = v.pendingWeb
         /\ w.busy = FALSE /\ w.running = None /\ w.permission = None
         /\ Keeps(v.items, w.items, {"user", "question"}) /\ OpenIn(w.items) = {}
         /\ EndedAs(v, w.items)
  <1>0. ASSUME NEW failed \in BOOLEAN, NEW u, u = endTurn(v, failed)
        PROVE  /\ u \in View /\ But(v, u, {"items", "busy", "running", "permission"})
               /\ u.busy = FALSE /\ u.running = None /\ u.permission = None
               /\ Keeps(v.items, u.items, {"user", "question"}) /\ OpenIn(u.items) = {}
    BY <1>0, EndedTurn
  <1>1. ASSUME NEW failed \in BOOLEAN, NEW x \in Item, x.kind \in {"divider", "error"}, w = push(endTurn(v, failed), x)
        PROVE  /\ w \in View /\ w.pendingWeb = v.pendingWeb
               /\ w.busy = FALSE /\ w.running = None /\ w.permission = None
               /\ Keeps(v.items, w.items, {"user", "question"}) /\ OpenIn(w.items) = {}
               /\ x.kind # "prose" /\ w.items = Append(endTurn(v, failed).items, x)
    <2> DEFINE u == endTurn(v, failed)
    <2>1. /\ u \in View /\ But(v, u, {"items", "busy", "running", "permission"})
          /\ u.busy = FALSE /\ u.running = None /\ u.permission = None
          /\ Keeps(v.items, u.items, {"user", "question"}) /\ OpenIn(u.items) = {}
      BY <1>0
    <2>2. w = push(u, x)
      BY <1>1
    <2> HIDE DEF u
    <2>3. x.kind \notin {"user", "question", "tools"} /\ x.kind # "prose"
      BY <1>1
    <2>4. /\ w \in View /\ w.items = Append(u.items, x) /\ But(u, w, {"items"})
          /\ \A K : x.kind \notin K => Keeps(u.items, w.items, K)
      BY <2>1, <2>2, Pushed
    <2>5. Keeps(u.items, w.items, {"user", "question", "tools"})
      BY <2>3, <2>4
    <2>6. OpenIn(w.items) = {}
      BY <2>1, <2>5, KeptOpen
    <2>7. Keeps(v.items, w.items, {"user", "question"})
      BY <2>1, <2>5 DEF Keeps
    <2> QED
      BY <2>1, <2>3, <2>4, <2>6, <2>7 DEF But, u
  <1>2. CASE p.type = "conversation_reset"
    <2> DEFINE x == [kind |-> "divider", label |-> "reset"]
    <2>1. x \in Item /\ x.kind \in {"divider", "error"} /\ FALSE \in BOOLEAN
      BY ItemsAre
    <2>2. w = push(endTurn(v, FALSE), x)
      BY <1>2 DEF reduce
    <2> HIDE DEF x
    <2> QED
      BY <1>1, <2>1, <2>2 DEF EndedAs
  <1>3. CASE p.type = "result" /\ p.failed
    <2> DEFINE x == [kind |-> "error"]
    <2>1. x \in Item /\ x.kind \in {"divider", "error"} /\ TRUE \in BOOLEAN
      BY ItemsAre
    <2>2. w = push(endTurn(v, TRUE), x)
      BY <1>3 DEF reduce
    <2> HIDE DEF x
    <2> QED
      BY <1>1, <2>1, <2>2 DEF EndedAs
  <1>4. CASE p.type = "result" /\ ~p.failed
    <2>1. w = endTurn(v, FALSE)
      BY <1>4 DEF reduce
    <2> QED
      BY <1>0, <2>1 DEF But, EndedAs
  <1> QED
    BY <1>2, <1>3, <1>4

LEMMA ReducedIdle ==
  ASSUME NEW v \in View, NEW p, NEW hist \in BOOLEAN, NEW w, w = reduce(v, p, hist),
         p.type \in {"post_turn_summary", "worker_shutting_down"}
  PROVE  /\ w \in View /\ w.pendingWeb = v.pendingWeb /\ w.permission = v.permission
         /\ w.busy = FALSE /\ w.running = None
         /\ Keeps(v.items, w.items, {"user", "prose", "tools", "question"})
         /\ w.items = Append(v.items, IF p.type = "post_turn_summary" THEN [kind |-> "status"]
                                      ELSE [kind |-> "divider", label |-> "disconnected"])
  <1> DEFINE u == idle(v)
             x == IF p.type = "post_turn_summary" THEN [kind |-> "status"]
                  ELSE [kind |-> "divider", label |-> "disconnected"]
  <1>1. x \in Item /\ x.kind \in {"status", "divider"}
    <2>1. [kind |-> "status"] \in Item /\ [kind |-> "divider", label |-> "disconnected"] \in Item
      BY ItemsAre
    <2> QED
      BY <2>1
  <1>2. w = push(u, x)
    <2>1. CASE p.type = "post_turn_summary"
      BY <2>1 DEF reduce
    <2>2. CASE p.type = "worker_shutting_down"
      BY <2>2 DEF reduce
    <2> QED
      BY <2>1, <2>2
  <1>3. /\ u \in View /\ u.busy = FALSE /\ u.running = None /\ u.items = v.items /\ u.permission = v.permission
        /\ u.pendingWeb = v.pendingWeb
    BY Idled DEF But
  <1> HIDE DEF u, x
  <1>4. x.kind \notin {"user", "prose", "tools", "question"}
    BY <1>1
  <1>5. /\ w \in View /\ w.items = Append(u.items, x) /\ But(u, w, {"items"})
        /\ \A K : x.kind \notin K => Keeps(u.items, w.items, K)
    BY <1>1, <1>2, <1>3, Pushed
  <1> QED
    BY <1>3, <1>4, <1>5 DEF But, x

-----------------------------------------------------------------------------
(* What a transcript shows of the calls and the asks, event after event *)

Worker ==
  [turn : BOOLEAN, open : SUBSET Tools, waiting : Tools \cup {None}, granted : SUBSET Tools,
   draft : {"none", "streaming", "stopped"}, late : BOOLEAN, gone : BOOLEAN]

AskedIn(h, t) == \E i \in DOMAIN h : h[i] = [type |-> "can_use_tool", tool |-> t]

AskedFor(v) == ({v.permission} \ {None}) \cup Cards(v.items)

\* The worker, the calls it dropped and what is stored agree.
WorkOK(wk, lp, h) ==
  /\ wk \in Worker /\ lp \in SUBSET Tools /\ h \in Seq(Payload)
  /\ wk.granted \subseteq wk.open
  /\ wk.waiting # None => wk.waiting \in wk.open /\ AskedIn(h, wk.waiting)
  /\ wk.open \cap lp = {}
  /\ wk.gone => ~wk.turn /\ wk.waiting = None /\ wk.open = {}
  /\ ~wk.gone => lp \cap Asking = {}
  /\ wk.draft # "none" => wk.open = {}
  /\ wk.draft # "none" /\ ~wk.gone /\ ~wk.turn => wk.late
  /\ wk.turn => turnActiveIn(h)

AsksOK(wk, lp, h, v, given) ==
  /\ wk.waiting \notin given \cup {None} => wk.waiting \in AskedFor(v)
  /\ AskedFor(v) \subseteq {wk.waiting} \cup wk.granted \cup lp
  /\ v.permission \notin Asking
  /\ \A t \in Had(v.items) : AskedIn(h, t)

CallsOK(wk, lp, v) ==
  /\ OpenIn(v.items) = (wk.open \cup lp) \ Asking
  /\ v.running \in OpenIn(v.items) \cup {None}

ViewOK(wk, lp, h, v, given) ==
  v \in View /\ AsksOK(wk, lp, h, v, given) /\ CallsOK(wk, lp, v)

LEMMA AskedMore ==
  ASSUME NEW h \in Seq(Payload), NEW p \in Payload, NEW t, AskedIn(h, t)
  PROVE  AskedIn(Append(h, p), t)
  BY Appended DEF AskedIn

LEMMA AskedNow ==
  ASSUME NEW h \in Seq(Payload), NEW p \in Payload, NEW t, p = [type |-> "can_use_tool", tool |-> t]
  PROVE  AskedIn(Append(h, p), t)
  BY Appended DEF AskedIn

LEMMA HadAsking ==
  ASSUME NEW v \in View
  PROVE  Had(v.items) \subseteq Asking
  <1>1. \A i \in DOMAIN v.items : v.items[i] \in Item
    BY ViewFields
  <1>2. \A i \in DOMAIN v.items : v.items[i].kind = "question" => v.items[i].tool \in Asking
    BY <1>1, ItemIs
  <1> QED
    BY <1>2 DEF Had

\* The worker's record in parts.
LEMMA WorkerIs ==
  ASSUME NEW wk \in Worker
  PROVE  /\ wk.turn \in BOOLEAN /\ wk.open \in SUBSET Tools /\ wk.waiting \in Tools \cup {None}
         /\ wk.granted \in SUBSET Tools /\ wk.draft \in {"none", "streaming", "stopped"}
         /\ wk.late \in BOOLEAN /\ wk.gone \in BOOLEAN
  BY DEF Worker

\* A step that leaves the items' calls and cards, and the worker's, alone.
LEMMA ViewKept ==
  ASSUME NEW wk, NEW wk2, NEW lp, NEW h \in Seq(Payload), NEW h2, NEW v, NEW given, NEW w \in View,
         ViewOK(wk, lp, h, v, given),
         \A t : AskedIn(h, t) => AskedIn(h2, t),
         wk2.open = wk.open, wk2.waiting = wk.waiting, wk2.granted = wk.granted,
         Keeps(v.items, w.items, {"user", "tools", "question"}),
         w.permission = v.permission, w.running = v.running
  PROVE  ViewOK(wk2, lp, h2, w, given)
  <1>1. OpenIn(w.items) = OpenIn(v.items)
    BY KeptOpen
  <1>2. Cards(w.items) = Cards(v.items) /\ Had(w.items) = Had(v.items)
    BY KeptCards
  <1>3. AskedFor(w) = AskedFor(v)
    BY <1>2 DEF AskedFor
  <1>4. AsksOK(wk2, lp, h2, w, given)
    BY <1>2, <1>3 DEF ViewOK, AsksOK
  <1>5. CallsOK(wk2, lp, w)
    BY <1>1 DEF ViewOK, CallsOK
  <1> QED
    BY <1>4, <1>5 DEF ViewOK

LEMMA ViewUse ==
  ASSUME ConstantsOK, NEW wk, NEW lp, NEW h, NEW v, NEW given, NEW hist \in BOOLEAN, NEW tool \in Tools,
         WorkOK(wk, lp, h), ViewOK(wk, lp, h, v, given), wk.waiting = None,
         NEW p, p = [type |-> "tool_use", tool |-> tool], p \in Payload,
         NEW wk2, wk2 = [wk EXCEPT !.open = @ \cup {tool}],
         NEW w, w = reduce(v, p, hist)
  PROVE  ViewOK(wk2, lp, Append(h, p), w, given)
  <1>1. v \in View /\ p.type = "tool_use" /\ p.tool = tool /\ h \in Seq(Payload) /\ wk \in Worker
    BY DEF ViewOK, WorkOK
  <1>2. /\ w \in View /\ But(v, w, {"items", "running", "busy"})
        /\ Keeps(v.items, w.items, {"user", "prose", "question"})
        /\ p.tool \in Asking => w = v
        /\ p.tool \notin Asking => OpenIn(w.items) = OpenIn(v.items) \cup {p.tool} /\ w.running = p.tool
    BY <1>1, ReducedUse
  <1>3. wk2.open = wk.open \cup {tool} /\ wk2.waiting = wk.waiting /\ wk2.granted = wk.granted
    BY <1>1 DEF Worker
  <1>4. Cards(w.items) = Cards(v.items) /\ Had(w.items) = Had(v.items)
    BY <1>2, KeptCards
  <1>5. w.permission = v.permission /\ AskedFor(w) = AskedFor(v)
    BY <1>2, <1>4 DEF But, AskedFor
  <1>6. \A t : AskedIn(h, t) => AskedIn(Append(h, p), t)
    BY <1>1, AskedMore
  <1>7. AsksOK(wk2, lp, Append(h, p), w, given)
    BY <1>3, <1>4, <1>5, <1>6 DEF ViewOK, AsksOK
  <1>8. CallsOK(wk2, lp, w)
    <2>1. CASE tool \in Asking
      BY <1>1, <1>2, <1>3, <2>1 DEF ViewOK, CallsOK
    <2>2. CASE tool \notin Asking
      BY <1>1, <1>2, <1>3, <2>2 DEF ViewOK, CallsOK
    <2> QED
      BY <2>1, <2>2
  <1> QED
    BY <1>2, <1>7, <1>8 DEF ViewOK

LEMMA ViewAsk ==
  ASSUME ConstantsOK, NEW wk, NEW lp, NEW h, NEW v, NEW given, NEW hist \in BOOLEAN, NEW tool \in Tools,
         WorkOK(wk, lp, h), ViewOK(wk, lp, h, v, given), wk.waiting = None, tool \in wk.open, ~AskedIn(h, tool),
         NEW p, p = [type |-> "can_use_tool", tool |-> tool], p \in Payload,
         NEW wk2, wk2 = [wk EXCEPT !.waiting = tool],
         NEW w, w = reduce(v, p, hist)
  PROVE  ViewOK(wk2, lp, Append(h, p), w, given)
  <1>1. v \in View /\ p.type = "can_use_tool" /\ p.tool = tool /\ h \in Seq(Payload) /\ wk \in Worker
    BY DEF ViewOK, WorkOK
  <1>2. w = controlRequest(v, tool)
    BY <1>1 DEF reduce
  <1>3. Asking \subseteq Tools /\ tool # None /\ \A t \in Asking : t # None
    BY DEF ConstantsOK
  <1>4. wk2.open = wk.open /\ wk2.waiting = tool /\ wk2.granted = wk.granted
    BY <1>1 DEF Worker
  <1>5. tool \notin Had(v.items)
    BY DEF ViewOK, AsksOK
  <1>6. \A t : AskedIn(h, t) \/ t = tool => AskedIn(Append(h, p), t)
    BY <1>1, AskedMore, AskedNow
  <1>7. /\ w \in View /\ w.running = v.running /\ w.permission \notin Asking
        /\ OpenIn(w.items) = OpenIn(v.items) /\ Had(w.items) \subseteq Had(v.items) \cup {tool}
        /\ AskedFor(w) \subseteq AskedFor(v) \cup {tool} /\ tool \in AskedFor(w)
    <2>1. CASE tool \in Asking
      <3>1. /\ w \in View /\ But(v, w, {"items", "permission"})
            /\ w.permission = v.permission /\ OpenIn(w.items) = OpenIn(v.items)
            /\ Had(w.items) = Had(v.items) \cup {tool}
            /\ (tool \notin Had(v.items) => Cards(w.items) = Cards(v.items) \cup {tool})
        BY ONLY <1>1, <1>2, <1>3, <2>1, RequestedCard
      <3>2. Cards(w.items) = Cards(v.items) \cup {tool}
        BY <1>5, <3>1
      <3> QED
        BY <3>1, <3>2 DEF But, AskedFor, ViewOK, AsksOK
    <2>2. CASE tool \notin Asking
      <3>1. /\ w \in View /\ But(v, w, {"items", "permission"})
            /\ OpenIn(v.items) \subseteq OpenIn(w.items) /\ OpenIn(w.items) \subseteq OpenIn(v.items) \cup {tool}
            /\ w.permission = tool /\ Cards(w.items) = Cards(v.items) /\ Had(w.items) = Had(v.items)
        BY ONLY <1>1, <1>2, <2>2, tool \in Tools, RequestedSheet
      <3>2. tool \in OpenIn(v.items)
        BY <2>2 DEF ViewOK, CallsOK
      <3>3. AskedFor(w) = {tool} \cup Cards(v.items) /\ Cards(v.items) \subseteq AskedFor(v)
        BY <1>3, <3>1 DEF AskedFor
      <3> QED
        BY <2>2, <3>1, <3>2, <3>3 DEF But
    <2> QED
      BY <2>1, <2>2
  <1>8. None \notin AskedFor(v)
    BY <1>3 DEF AskedFor, Cards
  <1>9. AsksOK(wk2, lp, Append(h, p), w, given)
    BY <1>4, <1>6, <1>7, <1>8 DEF ViewOK, AsksOK
  <1>10. CallsOK(wk2, lp, w)
    BY <1>4, <1>7 DEF ViewOK, CallsOK
  <1> QED
    BY <1>7, <1>9, <1>10 DEF ViewOK

LEMMA ViewWithdraw ==
  ASSUME ConstantsOK, NEW wk, NEW lp, NEW h, NEW v, NEW given, NEW hist \in BOOLEAN,
         WorkOK(wk, lp, h), ViewOK(wk, lp, h, v, given), wk.waiting # None,
         NEW p, p = [type |-> "control_cancel_request", tool |-> wk.waiting], p \in Payload,
         NEW wk2, wk2 = [wk EXCEPT !.waiting = None],
         NEW w, w = reduce(v, p, hist)
  PROVE  ViewOK(wk2, lp, Append(h, p), w, given)
  <1> DEFINE tool == wk.waiting
  <1>1. v \in View /\ p.type = "control_cancel_request" /\ p.tool = tool /\ h \in Seq(Payload) /\ wk \in Worker
    BY DEF ViewOK, WorkOK
  <1>2. tool \in Tools /\ tool \in wk.open
    BY <1>1, WorkerIs DEF WorkOK
  <1>3. w = controlCancel(v, tool)
    BY <1>1 DEF reduce
  <1>4. wk2.open = wk.open /\ wk2.waiting = None /\ wk2.granted = wk.granted
    BY <1>1 DEF Worker
  <1>5. wk.waiting = tool
    OBVIOUS
  <1> HIDE DEF tool
  <1>6. /\ w \in View /\ But(v, w, {"items", "permission"})
        /\ w.permission = (IF v.permission = tool THEN None ELSE v.permission)
        /\ Cards(w.items) = Cards(v.items) \ {tool} /\ Had(w.items) = Had(v.items)
        /\ OpenIn(v.items) \subseteq OpenIn(w.items)
        /\ OpenIn(w.items) \subseteq OpenIn(v.items) \cup ({v.permission} \cap {tool})
    BY ONLY <1>1, <1>2, <1>3, Cancelled
  <1>7. AskedFor(w) = AskedFor(v) \ {tool}
    BY <1>6 DEF AskedFor
  <1>8. \A t : AskedIn(h, t) => AskedIn(Append(h, p), t)
    BY <1>1, AskedMore
  <1>9. AsksOK(wk2, lp, Append(h, p), w, given)
    <2>1. w.permission \notin Asking
      BY <1>6 DEF ViewOK, AsksOK, ConstantsOK
    <2> QED
      BY <1>4, <1>5, <1>6, <1>7, <1>8, <2>1 DEF ViewOK, AsksOK
  <1>10. CallsOK(wk2, lp, w)
    <2>1. OpenIn(w.items) = OpenIn(v.items)
      BY <1>2, <1>6 DEF ViewOK, CallsOK, AsksOK
    <2>2. w.running = v.running
      BY <1>6 DEF But
    <2> QED
      BY <1>4, <2>1, <2>2 DEF ViewOK, CallsOK
  <1> QED
    BY <1>6, <1>9, <1>10 DEF ViewOK

LEMMA ViewFinish ==
  ASSUME ConstantsOK, NEW wk, NEW lp, NEW h, NEW v, NEW given, NEW hist \in BOOLEAN, NEW tool \in Tools,
         WorkOK(wk, lp, h), ViewOK(wk, lp, h, v, given), tool \in wk.open, wk.waiting # tool, NEW failed \in BOOLEAN,
         NEW p, p = [type |-> "tool_result", tool |-> tool, failed |-> failed], p \in Payload,
         NEW wk2, wk2 = [wk EXCEPT !.open = @ \ {tool}, !.granted = @ \ {tool}],
         NEW w, w = reduce(v, p, hist)
  PROVE  ViewOK(wk2, lp, Append(h, p), w, given)
  <1>1. /\ v \in View /\ p.type = "tool_result" /\ p.tool = tool /\ p.failed = failed
        /\ h \in Seq(Payload) /\ wk \in Worker
    BY DEF ViewOK, WorkOK
  <1>2. w = TakeToolResult(v, tool, failed)
    BY <1>1 DEF reduce
  <1>3. Asking \subseteq Tools /\ None \notin Asking
    BY DEF ConstantsOK
  <1>4. wk2.open = wk.open \ {tool} /\ wk2.waiting = wk.waiting /\ wk2.granted = wk.granted \ {tool}
    BY <1>1 DEF Worker
  <1>5. tool \notin lp
    BY DEF WorkOK
  <1>6. \A t : AskedIn(h, t) => AskedIn(Append(h, p), t)
    BY <1>1, AskedMore
  <1>7. /\ w \in View
        /\ w.permission = (IF v.permission = tool THEN None ELSE v.permission)
        /\ Had(w.items) = Had(v.items) /\ Cards(w.items) = Cards(v.items) \ {tool}
        /\ CallsOK(wk2, lp, w)
    <2>1. CASE HasCard(v, tool)
      <3>1. /\ w \in View
            /\ w.permission = (IF v.permission = tool THEN None ELSE v.permission)
            /\ Had(w.items) = Had(v.items) /\ Cards(w.items) = Cards(v.items) \ {tool}
            /\ OpenIn(w.items) = OpenIn(v.items) /\ w.running = v.running
        BY ONLY <1>1, <1>2, <2>1, tool \in Tools, failed \in BOOLEAN, ResultOfCard
      <3>2. tool \in Asking
        BY <1>1, <1>3, <2>1, CardHad, HadAsking
      <3> QED
        BY <1>4, <3>1, <3>2 DEF ViewOK, CallsOK
    <2>2. CASE ~HasCard(v, tool)
      <3>1. /\ w \in View /\ Keeps(v.items, w.items, {"user", "prose", "question"})
            /\ w.permission = (IF v.permission = tool THEN None ELSE v.permission)
            /\ tool \notin Cards(v.items)
            /\ OpenIn(w.items) = OpenIn(v.items) \ {tool}
            /\ w.running \in OpenIn(w.items) \cup {None}
                 \/ (w.running = v.running /\ (v.running # tool \/ tool \notin OpenIn(v.items)))
        BY ONLY <1>1, <1>2, <1>3, <2>2, tool \in Tools, failed \in BOOLEAN, ResultOfCall
      <3>2. Cards(w.items) = Cards(v.items) /\ Had(w.items) = Had(v.items)
        BY <3>1, KeptCards
      <3>3. CallsOK(wk2, lp, w)
        BY <1>4, <1>5, <3>1 DEF ViewOK, CallsOK
      <3> QED
        BY <3>1, <3>2, <3>3
    <2> QED
      BY <2>1, <2>2
  <1>8. AskedFor(w) = AskedFor(v) \ {tool}
    BY <1>7 DEF AskedFor
  <1>9. AsksOK(wk2, lp, Append(h, p), w, given)
    <2>1. w.permission \notin Asking
      BY <1>3, <1>7 DEF ViewOK, AsksOK
    <2>2. AskedFor(w) \subseteq {wk2.waiting} \cup wk2.granted \cup lp
      BY <1>4, <1>8 DEF ViewOK, AsksOK
    <2>3. wk2.waiting \notin given \cup {None} => wk2.waiting \in AskedFor(w)
      BY <1>4, <1>8 DEF ViewOK, AsksOK
    <2>4. \A t \in Had(w.items) : AskedIn(Append(h, p), t)
      BY <1>6, <1>7 DEF ViewOK, AsksOK
    <2> QED
      BY <2>1, <2>2, <2>3, <2>4 DEF AsksOK
  <1> QED
    BY <1>7, <1>9 DEF ViewOK

\* The turn is over: no call is open, no ask is left.
LEMMA ViewEnd ==
  ASSUME ConstantsOK, NEW wk, NEW lp, NEW h, NEW v, NEW given, NEW hist \in BOOLEAN,
         WorkOK(wk, lp, h), ViewOK(wk, lp, h, v, given), ~wk.gone, wk.waiting = None, wk.open \cap Asking = {},
         NEW p \in Payload, p.type = "conversation_reset" \/ (p.type = "result" /\ p.failed \in BOOLEAN),
         NEW wk2, wk2.open = {}, wk2.granted = {}, wk2.waiting = None,
         NEW w, w = reduce(v, p, hist)
  PROVE  ViewOK(wk2, {}, Append(h, p), w, given)
  <1>1. v \in View /\ h \in Seq(Payload) /\ wk \in Worker
    BY DEF ViewOK, WorkOK
  <1>2. /\ w \in View /\ w.running = None /\ w.permission = None
        /\ Keeps(v.items, w.items, {"user", "question"}) /\ OpenIn(w.items) = {}
    BY ONLY <1>1, w = reduce(v, p, hist), hist \in BOOLEAN,
            p.type = "conversation_reset" \/ (p.type = "result" /\ p.failed \in BOOLEAN), ReducedEnd
  <1>3. Cards(w.items) = Cards(v.items) /\ Had(w.items) = Had(v.items)
    BY <1>2, KeptCards
  <1>4. Cards(v.items) = {}
    <2>1. Cards(v.items) \subseteq Asking /\ Cards(v.items) \subseteq AskedFor(v)
      BY DEF Cards, AskedFor
    <2>2. AskedFor(v) \subseteq {None} \cup wk.open \cup lp
      BY DEF ViewOK, AsksOK, WorkOK
    <2>3. lp \cap Asking = {} /\ None \notin Asking
      BY DEF WorkOK, ConstantsOK
    <2> QED
      BY <2>1, <2>2, <2>3
  <1>5. AskedFor(w) = {}
    BY <1>2, <1>3, <1>4 DEF AskedFor
  <1>6. \A t : AskedIn(h, t) => AskedIn(Append(h, p), t)
    BY <1>1, AskedMore
  <1>7. AsksOK(wk2, {}, Append(h, p), w, given)
    BY <1>2, <1>3, <1>5, <1>6 DEF ViewOK, AsksOK, ConstantsOK
  <1>8. CallsOK(wk2, {}, w)
    BY <1>2 DEF CallsOK
  <1> QED
    BY <1>2, <1>7, <1>8 DEF ViewOK

\* The worker leaves its turn without a result: what was open is shown as it was.
LEMMA ViewLeave ==
  ASSUME ConstantsOK, NEW wk, NEW lp, NEW h, NEW v, NEW given, NEW hist \in BOOLEAN,
         WorkOK(wk, lp, h), ViewOK(wk, lp, h, v, given),
         NEW p \in Payload, p.type \in {"post_turn_summary", "worker_shutting_down"},
         NEW wk2, wk2.open = {}, wk2.granted = {}, wk2.waiting = None,
         NEW w, w = reduce(v, p, hist)
  PROVE  ViewOK(wk2, lp \cup wk.open, Append(h, p), w, given)
  <1>1. v \in View /\ h \in Seq(Payload) /\ wk \in Worker
    BY DEF ViewOK, WorkOK
  <1>2. /\ w \in View /\ w.permission = v.permission /\ w.running = None
        /\ Keeps(v.items, w.items, {"user", "prose", "tools", "question"})
    BY <1>1, ReducedIdle
  <1>3. Cards(w.items) = Cards(v.items) /\ Had(w.items) = Had(v.items) /\ OpenIn(w.items) = OpenIn(v.items)
    BY <1>2, KeptCards, KeptOpen
  <1>4. AskedFor(w) = AskedFor(v) /\ None \notin AskedFor(v)
    BY <1>2, <1>3 DEF AskedFor, Cards, ConstantsOK
  <1>5. AskedFor(v) \subseteq wk.open \cup lp
    <2>1. AskedFor(v) \subseteq {wk.waiting} \cup wk.granted \cup lp
      BY DEF ViewOK, AsksOK
    <2>2. wk.granted \subseteq wk.open /\ (wk.waiting # None => wk.waiting \in wk.open)
      BY DEF WorkOK
    <2> QED
      BY <1>4, <2>1, <2>2
  <1>6. \A t : AskedIn(h, t) => AskedIn(Append(h, p), t)
    BY <1>1, AskedMore
  <1>7. AsksOK(wk2, lp \cup wk.open, Append(h, p), w, given)
    BY <1>2, <1>3, <1>4, <1>5, <1>6 DEF ViewOK, AsksOK
  <1>8. CallsOK(wk2, lp \cup wk.open, w)
    BY <1>2, <1>3 DEF ViewOK, CallsOK
  <1> QED
    BY <1>2, <1>7, <1>8 DEF ViewOK

LEMMA ViewSaid ==
  ASSUME ConstantsOK, NEW wk, NEW lp, NEW h \in Seq(Payload), NEW v, NEW given, NEW hist \in BOOLEAN, NEW text \in Texts,
         ViewOK(wk, lp, h, v, given),
         NEW p \in Payload, p = [type |-> "user_text", text |-> text],
         NEW wk2, wk2.open = wk.open, wk2.waiting = wk.waiting, wk2.granted = wk.granted,
         NEW w, w = reduce(v, p, hist)
  PROVE  ViewOK(wk2, lp, Append(h, p), w, given)
  <1>1. v \in View /\ p.type = "user_text" /\ p.text = text
    BY DEF ViewOK
  <1>2. w = TakeUserText(v, text, hist)
    BY <1>1 DEF reduce
  <1>3. w \in View /\ But(v, w, {"items", "busy", "pendingWeb"}) /\ Keeps(v.items, w.items, {"prose", "tools", "question"})
    BY <1>1, <1>2, TakenUserText
  <1>4. /\ Cards(w.items) = Cards(v.items) /\ Had(w.items) = Had(v.items) /\ OpenIn(w.items) = OpenIn(v.items)
    BY <1>3, KeptCards, KeptOpen
  <1>5. w.permission = v.permission /\ w.running = v.running /\ AskedFor(w) = AskedFor(v)
    BY <1>3, <1>4 DEF But, AskedFor
  <1>6. \A t : AskedIn(h, t) => AskedIn(Append(h, p), t)
    BY AskedMore
  <1>7. AsksOK(wk2, lp, Append(h, p), w, given)
    BY <1>4, <1>5, <1>6 DEF ViewOK, AsksOK
  <1>8. CallsOK(wk2, lp, w)
    BY <1>4, <1>5 DEF ViewOK, CallsOK
  <1> QED
    BY <1>3, <1>7, <1>8 DEF ViewOK

-----------------------------------------------------------------------------
(* The digest, event after event *)

Digest ==
  [turnActive : BOOLEAN, toolStatus : {None, "running", "ok", "error"},
   currentToolUseId : Tools \cup {None}, pendingTools : SUBSET Tools, pendingApproval : BOOLEAN]

\* The row says what the worker does, and counts the ask nobody has answered.
DigestOK(d, wk, cl, h) ==
  /\ d \in Digest
  /\ d.pendingTools = {wk.waiting} \ (cl \cup {None})
  /\ d.pendingApproval <=> d.pendingTools # {}
  /\ \A t \in cl : AskedIn(h, t)
  /\ d.turnActive => wk.turn
  /\ d.toolStatus = "running" => d.currentToolUseId \in wk.open

LEMMA FoldedEnd ==
  ASSUME NEW d \in Digest, NEW p \in Payload, EndsTurn(p), NEW e, e = foldDigest(d, p), None \notin {"running", "ok", "error"}
  PROVE  /\ e \in Digest /\ e.turnActive = FALSE /\ e.pendingTools = {} /\ e.pendingApproval = FALSE
         /\ e.toolStatus # "running"
  <1> DEFINE q == p.type = "result" /\ p.failed
             f == FALSE
             x == IF d.toolStatus = "running" THEN (IF q THEN "error" ELSE "ok") ELSE d.toolStatus
  <1>1. e = settle(d, q)
    BY DEF foldDigest, EndsTurn
  <1>2. x \in {None, "running", "ok", "error"} /\ x # "running" /\ f \in BOOLEAN /\ f = FALSE
    BY DEF Digest
  <1>3. e = [d EXCEPT !.turnActive = f, !.pendingTools = {}, !.pendingApproval = f, !.toolStatus = x]
    BY <1>1 DEF settle, Digest
  <1> HIDE DEF x, q, f
  <1> QED
    BY <1>2, <1>3 DEF Digest

LEMMA FoldedTake ==
  ASSUME NEW d \in Digest, NEW p, p.type = "user_text", NEW e, e = foldDigest(d, p)
  PROVE  e \in Digest /\ e.pendingTools = d.pendingTools /\ e.pendingApproval = d.pendingApproval
         /\ e.toolStatus = d.toolStatus /\ e.currentToolUseId = d.currentToolUseId
  <1> DEFINE f == TRUE
  <1>1. f \in BOOLEAN
    OBVIOUS
  <1>2. e = [d EXCEPT !.turnActive = f]
    BY DEF foldDigest, EndsTurn
  <1> HIDE DEF f
  <1> QED
    BY <1>1, <1>2 DEF Digest

LEMMA FoldedResult ==
  ASSUME NEW d \in Digest, NEW p, p.type = "tool_result", NEW e, e = foldDigest(d, p), None \notin {"running", "ok", "error"}
  PROVE  /\ e \in Digest /\ e.turnActive = d.turnActive /\ e.currentToolUseId = d.currentToolUseId
         /\ e.pendingTools = d.pendingTools \ {p.tool} /\ (e.pendingApproval <=> e.pendingTools # {})
         /\ e.toolStatus = "running" => d.toolStatus = "running" /\ p.tool # d.currentToolUseId
  <1> DEFINE left == d.pendingTools \ {p.tool}
             b == left # {}
             x == IF p.tool = d.currentToolUseId THEN (IF p.failed THEN "error" ELSE "ok") ELSE d.toolStatus
  <1>1. e = [d EXCEPT !.pendingTools = left, !.pendingApproval = b, !.toolStatus = x]
    BY DEF foldDigest, EndsTurn, Digest
  <1>2. x \in {None, "running", "ok", "error"} /\ (x = "running" => d.toolStatus = "running" /\ p.tool # d.currentToolUseId)
    BY DEF Digest
  <1>3. b \in BOOLEAN /\ left \in SUBSET Tools /\ (b <=> left # {}) /\ left = d.pendingTools \ {p.tool}
    BY DEF Digest
  <1> HIDE DEF left, b, x
  <1>4. /\ e \in Digest /\ e.turnActive = d.turnActive /\ e.currentToolUseId = d.currentToolUseId
        /\ e.pendingTools = left /\ e.pendingApproval = b /\ e.toolStatus = x
    BY <1>1, <1>2, <1>3 DEF Digest
  <1> QED
    BY <1>2, <1>3, <1>4

LEMMA FoldedUse ==
  ASSUME NEW d \in Digest, NEW p, p.type = "tool_use", p.tool \in Tools, NEW e, e = foldDigest(d, p)
  PROVE  e \in Digest /\ e.pendingTools = d.pendingTools /\ e.pendingApproval = d.pendingApproval /\ e.currentToolUseId = p.tool
  <1> DEFINE f == TRUE
             r == "running"
  <1>1. f \in BOOLEAN /\ r \in {None, "running", "ok", "error"}
    OBVIOUS
  <1>2. e = [d EXCEPT !.toolStatus = r, !.currentToolUseId = p.tool, !.turnActive = f]
    BY DEF foldDigest, EndsTurn
  <1> HIDE DEF f, r
  <1> QED
    BY <1>1, <1>2 DEF Digest

LEMMA FoldedAsk ==
  ASSUME NEW d \in Digest, NEW p, p.type = "can_use_tool", p.tool \in Tools, NEW e, e = foldDigest(d, p)
  PROVE  /\ e \in Digest /\ e.turnActive = d.turnActive /\ e.toolStatus = d.toolStatus
         /\ e.currentToolUseId = d.currentToolUseId
         /\ e.pendingTools = d.pendingTools \cup {p.tool} /\ e.pendingApproval
  <1> DEFINE f == TRUE
             s == d.pendingTools \cup {p.tool}
  <1>1. f \in BOOLEAN /\ s \in SUBSET Tools /\ f = TRUE /\ s = d.pendingTools \cup {p.tool}
    BY DEF Digest
  <1>2. e = [d EXCEPT !.pendingTools = s, !.pendingApproval = f]
    BY DEF foldDigest, EndsTurn, Digest
  <1> HIDE DEF f, s
  <1>3. /\ e \in Digest /\ e.turnActive = d.turnActive /\ e.toolStatus = d.toolStatus
        /\ e.currentToolUseId = d.currentToolUseId /\ e.pendingTools = s /\ e.pendingApproval = f
    BY <1>1, <1>2 DEF Digest
  <1> QED
    BY <1>1, <1>3

LEMMA FoldedClear ==
  ASSUME NEW d \in Digest, NEW e, e = clearPendingApproval(d)
  PROVE  /\ e \in Digest /\ e.turnActive = d.turnActive /\ e.toolStatus = d.toolStatus
         /\ e.currentToolUseId = d.currentToolUseId /\ e.pendingTools = {} /\ e.pendingApproval = FALSE
  <1> DEFINE f == FALSE
             s == {}
  <1>1. f \in BOOLEAN /\ s \in SUBSET Tools /\ f = FALSE /\ s = {}
    OBVIOUS
  <1>2. e = [d EXCEPT !.pendingTools = s, !.pendingApproval = f]
    BY DEF clearPendingApproval
  <1> HIDE DEF f, s
  <1>3. /\ e \in Digest /\ e.turnActive = d.turnActive /\ e.toolStatus = d.toolStatus
        /\ e.currentToolUseId = d.currentToolUseId /\ e.pendingTools = s /\ e.pendingApproval = f
    BY <1>1, <1>2 DEF Digest
  <1> QED
    BY <1>1, <1>3

LEMMA FoldedOther ==
  ASSUME NEW d, NEW p
  PROVE  /\ p.type = "control_cancel_request" => foldDigest(d, p) = clearPendingApproval(d)
         /\ p.type \in {"interrupt_notice", "command_echo", "assistant_text"} => foldDigest(d, p) = d
  BY DEF foldDigest, EndsTurn, Withdrawn, clearPendingApproval

-----------------------------------------------------------------------------
(* The worker's events keep the transcript, live and rebuilt, and the row *)

Replay == reduceAll(history)

\* The calls and the asks of the worker are those of the transcript, of the one
\* that reopening would rebuild, and of the row in the list.
Shown ==
  /\ WorkOK(worker, lapsed, history)
  /\ ViewOK(worker, lapsed, history, view, answered)
  /\ ViewOK(worker, lapsed, history, Replay, {})
  /\ DigestOK(digest, worker, cleared, history)
  /\ inbox \in Seq(Texts) /\ cleared \in SUBSET Tools /\ answered \in SUBSET Tools

LEMMA Stored ==
  ASSUME Shown, NEW p \in Payload, Post(p), p.type \notin {"content_block_delta", "message_stop"}
  PROVE  /\ \E f, t \in BOOLEAN : ~f /\ t /\ view' = reduce(view, p, f) /\ Replay' = reduce(Replay, p, t)
         /\ history \in Seq(Payload) /\ history' = Append(history, p) /\ history' \in Seq(Payload)
         /\ digest' = foldDigest(digest, p)
         /\ \A x : AskedIn(history, x) => AskedIn(history', x)
         /\ Decides(p) => turnActiveIn(history') = ~EndsTurn(p)
         /\ ~Decides(p) => turnActiveIn(history') = turnActiveIn(history)
         /\ cleared' = cleared /\ answered' = answered /\ local' = local
  <1>1. history \in Seq(Payload)
    BY DEF Shown, WorkOK
  <1>2. /\ view' = reduce(view, p, FALSE) /\ history' = Append(history, p) /\ digest' = foldDigest(digest, p)
        /\ cleared' = cleared /\ answered' = answered /\ local' = local
    BY DEF Post
  <1>3. Replay' = reduce(Replay, p, TRUE)
    BY <1>1, <1>2, ReplayNext DEF Replay
  <1>4. history' \in Seq(Payload)
    BY <1>1, <1>2
  <1>5. \A x : AskedIn(history, x) => AskedIn(history', x)
    BY <1>1, <1>2, AskedMore
  <1>6. /\ Decides(p) => turnActiveIn(history') = ~EndsTurn(p)
        /\ ~Decides(p) => turnActiveIn(history') = turnActiveIn(history)
    BY <1>1, <1>2, ActiveNext
  <1>7. \E f, t \in BOOLEAN : ~f /\ t /\ view' = reduce(view, p, f) /\ Replay' = reduce(Replay, p, t)
    BY <1>2, <1>3
  <1> QED
    BY <1>1, <1>2, <1>4, <1>5, <1>6, <1>7

LEMMA Streamed ==
  ASSUME Shown, NEW p, Post(p), p.type \in {"content_block_delta", "message_stop"}
  PROVE  /\ \E f \in BOOLEAN : ~f /\ view' = reduce(view, p, f)
         /\ history' = history /\ Replay' = Replay /\ digest' = digest
         /\ cleared' = cleared /\ answered' = answered /\ local' = local
  <1>1. view' = reduce(view, p, FALSE) /\ history' = history /\ digest' = digest
        /\ cleared' = cleared /\ answered' = answered /\ local' = local
    BY DEF Post
  <1> QED
    BY <1>1 DEF Replay

\* Prose and status lines leave the calls and the asks alone.
LEMMA ViewPlain ==
  ASSUME NEW wk, NEW lp, NEW h \in Seq(Payload), NEW h2, NEW v, NEW given, NEW hist \in BOOLEAN,
         ViewOK(wk, lp, h, v, given), \A t : AskedIn(h, t) => AskedIn(h2, t),
         NEW p, p.type \in {"interrupt_notice", "command_echo", "assistant_text", "content_block_delta", "message_stop"},
         NEW wk2, wk2.open = wk.open, wk2.waiting = wk.waiting, wk2.granted = wk.granted,
         NEW w, w = reduce(v, p, hist)
  PROVE  ViewOK(wk2, lp, h2, w, given)
  <1>1. v \in View
    BY DEF ViewOK
  <1>2. w \in View /\ But(v, w, {"items", "busy"}) /\ Keeps(v.items, w.items, {"user", "tools", "question"})
    BY <1>1, ReducedPlain
  <1>3. w.permission = v.permission /\ w.running = v.running
    BY <1>2 DEF But
  <1> QED
    BY <1>2, <1>3, ViewKept

\* The worker goes on with its calls as they are.
LEMMA ViewSame ==
  ASSUME NEW wk, NEW lp, NEW h \in Seq(Payload), NEW v, NEW given, ViewOK(wk, lp, h, v, given),
         NEW wk2, wk2.open = wk.open, wk2.waiting = wk.waiting, wk2.granted = wk.granted
  PROVE  ViewOK(wk2, lp, h, v, given)
  BY DEF ViewOK, AsksOK, CallsOK

LEMMA TakeTurnShown ==
  ASSUME ConstantsOK, Shown, NEW text \in Texts, TakeTurn(text)
  PROVE  Shown'
  <1> DEFINE p == [type |-> "user_text", text |-> text]
  <1>1. p \in Payload /\ p.type = "user_text" /\ p = [type |-> "user_text", text |-> text] /\ ~EndsTurn(p) /\ Decides(p)
    BY DEF Payload, EndsTurn, Decides, UserTypes
  <1>2. Post(p) /\ lapsed' = lapsed /\ worker' = [worker EXCEPT !.turn = TRUE]
        /\ ~worker.gone /\ worker.waiting = None /\ worker.draft = "none"
    BY DEF TakeTurn, Free
  <1> HIDE DEF p
  <1>3. /\ \E f, t \in BOOLEAN : ~f /\ t /\ view' = reduce(view, p, f) /\ Replay' = reduce(Replay, p, t)
        /\ history \in Seq(Payload) /\ history' = Append(history, p) /\ history' \in Seq(Payload)
        /\ digest' = foldDigest(digest, p)
        /\ \A x : AskedIn(history, x) => AskedIn(history', x)
        /\ turnActiveIn(history')
        /\ cleared' = cleared /\ answered' = answered /\ local' = local
    BY <1>1, <1>2, Stored
  <1>4. PICK f, t \in BOOLEAN : ~f /\ t /\ view' = reduce(view, p, f) /\ Replay' = reduce(Replay, p, t)
    BY <1>3
  <1>5. /\ worker' \in Worker /\ worker'.turn /\ worker'.open = worker.open /\ worker'.waiting = worker.waiting
        /\ worker'.granted = worker.granted /\ worker'.draft = worker.draft /\ worker'.gone = worker.gone
    <2>1. worker \in Worker
      BY DEF Shown, WorkOK
    <2> QED
      BY <1>2, <2>1 DEF Worker
  <1>6. WorkOK(worker, lapsed, history)'
    BY <1>2, <1>3, <1>5 DEF Shown, WorkOK
  <1>7. ViewOK(worker, lapsed, history, view, answered)'
    BY <1>1, <1>2, <1>3, <1>4, <1>5, ViewSaid DEF Shown
  <1>8. ViewOK(worker, lapsed, history, Replay, {})'
    BY <1>1, <1>2, <1>3, <1>4, <1>5, ViewSaid DEF Shown
  <1>9. DigestOK(digest, worker, cleared, history)'
    <2>1. digest \in Digest
      BY DEF Shown, DigestOK
    <2>2. /\ digest' \in Digest /\ digest'.pendingTools = digest.pendingTools
          /\ digest'.pendingApproval = digest.pendingApproval
          /\ digest'.toolStatus = digest.toolStatus /\ digest'.currentToolUseId = digest.currentToolUseId
      BY <1>1, <1>3, <2>1, FoldedTake
    <2> QED
      BY <1>3, <1>5, <2>2 DEF Shown, DigestOK
  <1>10. inbox' \in Seq(Texts)
    <2>1. inbox' = inbox \/ (inbox # <<>> /\ inbox' = Tail(inbox))
      BY DEF TakeTurn
    <2> QED
      BY <2>1 DEF Shown
  <1> QED
    BY <1>3, <1>6, <1>7, <1>8, <1>9, <1>10 DEF Shown

LEMMA SayTextShown ==
  ASSUME ConstantsOK, Shown, SayText
  PROVE  Shown'
  <1> DEFINE p == [type |-> "assistant_text"]
  <1>1. p \in Payload /\ p = [type |-> "assistant_text"] /\ p.type = "assistant_text" /\ ~Decides(p)
    BY DEF Payload, EndsTurn, Decides, UserTypes
  <1>2. Post(p) /\ lapsed' = lapsed /\ inbox' = inbox
        /\ worker' = [worker EXCEPT !.draft = "none", !.late = FALSE]
    BY DEF SayText
  <1> HIDE DEF p
  <1>3. /\ \E f, t \in BOOLEAN : ~f /\ t /\ view' = reduce(view, p, f) /\ Replay' = reduce(Replay, p, t)
        /\ history \in Seq(Payload) /\ history' = Append(history, p) /\ history' \in Seq(Payload)
        /\ digest' = foldDigest(digest, p)
        /\ \A x : AskedIn(history, x) => AskedIn(history', x)
        /\ turnActiveIn(history') = turnActiveIn(history)
        /\ cleared' = cleared /\ answered' = answered /\ local' = local
    BY <1>1, <1>2, Stored
  <1>4. PICK f, t \in BOOLEAN : ~f /\ t /\ view' = reduce(view, p, f) /\ Replay' = reduce(Replay, p, t)
    BY <1>3
  <1>5. /\ worker' \in Worker /\ worker'.turn = worker.turn /\ worker'.open = worker.open /\ worker'.waiting = worker.waiting
        /\ worker'.granted = worker.granted /\ worker'.draft = "none" /\ worker'.gone = worker.gone
    <2>1. worker \in Worker
      BY DEF Shown, WorkOK
    <2> QED
      BY <1>2, <2>1 DEF Worker
  <1>6. WorkOK(worker, lapsed, history)'
    BY <1>2, <1>3, <1>5 DEF Shown, WorkOK
  <1>7. ViewOK(worker, lapsed, history, view, answered)'
    <2>1. ViewOK(worker, lapsed, history, view, answered)
      BY DEF Shown
    <2>2. p.type \in {"interrupt_notice", "command_echo", "assistant_text", "content_block_delta", "message_stop"}
      BY <1>1
    <2>3. view' = reduce(view, p, f) /\ f \in BOOLEAN /\ lapsed' = lapsed
      BY <1>2, <1>4
    <2>4. worker'.open = worker.open /\ worker'.waiting = worker.waiting /\ worker'.granted = worker.granted
      BY <1>5
    <2>5. history \in Seq(Payload) /\ \A x : AskedIn(history, x) => AskedIn(history', x)
      BY <1>3
    <2>6. ViewOK(worker', lapsed, history', view', answered)
      BY ONLY <2>1, <2>2, <2>3, <2>4, <2>5, ViewPlain
    <2> QED
      BY <1>3, <2>3, <2>6
  <1>8. ViewOK(worker, lapsed, history, Replay, {})'
    <2>1. ViewOK(worker, lapsed, history, Replay, {})
      BY DEF Shown
    <2>2. p.type \in {"interrupt_notice", "command_echo", "assistant_text", "content_block_delta", "message_stop"}
      BY <1>1
    <2>3. Replay' = reduce(Replay, p, t) /\ t \in BOOLEAN /\ lapsed' = lapsed
      BY <1>2, <1>4
    <2>4. worker'.open = worker.open /\ worker'.waiting = worker.waiting /\ worker'.granted = worker.granted
      BY <1>5
    <2>5. history \in Seq(Payload) /\ \A x : AskedIn(history, x) => AskedIn(history', x)
      BY <1>3
    <2>6. ViewOK(worker', lapsed, history', Replay', {})
      BY ONLY <2>1, <2>2, <2>3, <2>4, <2>5, ViewPlain
    <2> QED
      BY <1>3, <2>3, <2>6
  <1>9. DigestOK(digest, worker, cleared, history)'
    <2>1. digest \in Digest
      BY DEF Shown, DigestOK
    <2>2. digest' = digest
      BY <1>1, <1>3, FoldedOther
    <2> QED
      BY <1>3, <1>5, <2>2 DEF Shown, DigestOK
  <1>10. inbox' \in Seq(Texts)
    BY <1>2 DEF Shown
  <1> QED
    BY <1>3, <1>6, <1>7, <1>8, <1>9, <1>10 DEF Shown

LEMMA UseToolShown ==
  ASSUME ConstantsOK, Shown, NEW tool \in Tools, UseTool(tool)
  PROVE  Shown'
  <1> DEFINE p == [type |-> "tool_use", tool |-> tool]
  <1>1. p \in Payload /\ p = [type |-> "tool_use", tool |-> tool] /\ p.type = "tool_use" /\ p.tool = tool /\ ~EndsTurn(p) /\ Decides(p)
    BY DEF Payload, EndsTurn, Decides, UserTypes
  <1>2. Post(p) /\ lapsed' = lapsed /\ inbox' = inbox
        /\ worker' = [worker EXCEPT !.open = @ \cup {tool}]
        /\ ~worker.gone /\ worker.waiting = None /\ worker.draft = "none" /\ worker.turn /\ tool \notin lapsed
    BY DEF UseTool, Thinking, Free
  <1> HIDE DEF p
  <1>3. /\ \E f, t \in BOOLEAN : ~f /\ t /\ view' = reduce(view, p, f) /\ Replay' = reduce(Replay, p, t)
        /\ history \in Seq(Payload) /\ history' = Append(history, p) /\ history' \in Seq(Payload)
        /\ digest' = foldDigest(digest, p)
        /\ \A x : AskedIn(history, x) => AskedIn(history', x)
        /\ turnActiveIn(history')
        /\ cleared' = cleared /\ answered' = answered /\ local' = local
    BY <1>1, <1>2, Stored
  <1>4. PICK f, t \in BOOLEAN : ~f /\ t /\ view' = reduce(view, p, f) /\ Replay' = reduce(Replay, p, t)
    BY <1>3
  <1>5. /\ worker' \in Worker /\ worker'.turn = worker.turn /\ worker'.open = worker.open \cup {tool} /\ worker'.waiting = worker.waiting
        /\ worker'.granted = worker.granted /\ worker'.draft = worker.draft /\ worker'.gone = worker.gone
    <2>1. worker \in Worker
      BY DEF Shown, WorkOK
    <2> QED
      BY <1>2, <2>1 DEF Worker
  <1>6. WorkOK(worker, lapsed, history)'
    BY <1>2, <1>3, <1>5 DEF Shown, WorkOK
  <1>7. ViewOK(worker, lapsed, history, view, answered)'
    BY <1>1, <1>2, <1>3, <1>4, <1>5, ViewUse DEF Shown
  <1>8. ViewOK(worker, lapsed, history, Replay, {})'
    BY <1>1, <1>2, <1>3, <1>4, <1>5, ViewUse DEF Shown
  <1>9. DigestOK(digest, worker, cleared, history)'
    <2>1. digest \in Digest
      BY DEF Shown, DigestOK
    <2>2. /\ digest' \in Digest /\ digest'.pendingTools = digest.pendingTools
          /\ digest'.pendingApproval = digest.pendingApproval /\ digest'.currentToolUseId = tool
      BY <1>1, <1>3, <2>1, FoldedUse
    <2> QED
      BY <1>2, <1>3, <1>5, <2>2 DEF Shown, DigestOK
  <1>10. inbox' \in Seq(Texts)
    BY <1>2 DEF Shown
  <1> QED
    BY <1>3, <1>6, <1>7, <1>8, <1>9, <1>10 DEF Shown

LEMMA AskShownAgain ==
  ASSUME ConstantsOK, Shown, NEW tool \in Tools, Ask(tool)
  PROVE  Shown'
  <1> DEFINE p == [type |-> "can_use_tool", tool |-> tool]
  <1>1. p \in Payload /\ p = [type |-> "can_use_tool", tool |-> tool] /\ p.type = "can_use_tool" /\ p.tool = tool /\ ~Decides(p)
    BY DEF Payload, EndsTurn, Decides, UserTypes
  <1>2. Post(p) /\ lapsed' = lapsed /\ inbox' = inbox
        /\ worker' = [worker EXCEPT !.waiting = tool]
        /\ ~worker.gone /\ worker.waiting = None /\ worker.turn /\ tool \in worker.open /\ ~AskedIn(history, tool)
    BY DEF Ask, Thinking, Free, Asked, AskedIn
  <1> HIDE DEF p
  <1>3. /\ \E f, t \in BOOLEAN : ~f /\ t /\ view' = reduce(view, p, f) /\ Replay' = reduce(Replay, p, t)
        /\ history \in Seq(Payload) /\ history' = Append(history, p) /\ history' \in Seq(Payload)
        /\ digest' = foldDigest(digest, p)
        /\ \A x : AskedIn(history, x) => AskedIn(history', x)
        /\ turnActiveIn(history') = turnActiveIn(history)
        /\ cleared' = cleared /\ answered' = answered /\ local' = local
    BY <1>1, <1>2, Stored
  <1>4. PICK f, t \in BOOLEAN : ~f /\ t /\ view' = reduce(view, p, f) /\ Replay' = reduce(Replay, p, t)
    BY <1>3
  <1>5. /\ worker' \in Worker /\ worker'.turn = worker.turn /\ worker'.open = worker.open /\ worker'.waiting = tool
        /\ worker'.granted = worker.granted /\ worker'.draft = worker.draft /\ worker'.gone = worker.gone
    <2>1. worker \in Worker
      BY DEF Shown, WorkOK
    <2> QED
      BY <1>2, <2>1 DEF Worker
  <1>6. WorkOK(worker, lapsed, history)'
    <2>1. AskedIn(history', tool)
      BY <1>1, <1>3, AskedNow
    <2> QED
      BY <1>2, <1>3, <1>5, <2>1 DEF Shown, WorkOK
  <1>7. ViewOK(worker, lapsed, history, view, answered)'
    BY <1>1, <1>2, <1>3, <1>4, <1>5, ViewAsk DEF Shown
  <1>8. ViewOK(worker, lapsed, history, Replay, {})'
    BY <1>1, <1>2, <1>3, <1>4, <1>5, ViewAsk DEF Shown
  <1>9. DigestOK(digest, worker, cleared, history)'
    <2>1. digest \in Digest
      BY DEF Shown, DigestOK
    <2>2. /\ digest' \in Digest /\ digest'.turnActive = digest.turnActive /\ digest'.toolStatus = digest.toolStatus
          /\ digest'.currentToolUseId = digest.currentToolUseId
          /\ digest'.pendingTools = digest.pendingTools \cup {tool} /\ digest'.pendingApproval
      BY <1>1, <1>3, <2>1, FoldedAsk
    <2>3. tool \notin cleared /\ tool # None
      BY <1>2 DEF Shown, DigestOK, ConstantsOK
    <2> QED
      BY <1>2, <1>3, <1>5, <2>2, <2>3 DEF Shown, DigestOK
  <1>10. inbox' \in Seq(Texts)
    BY <1>2 DEF Shown
  <1> QED
    BY <1>3, <1>6, <1>7, <1>8, <1>9, <1>10 DEF Shown

LEMMA WithdrawShown ==
  ASSUME ConstantsOK, Shown, Withdraw
  PROVE  Shown'
  <1> DEFINE p == [type |-> "control_cancel_request", tool |-> worker.waiting]
  <1>1. p \in Payload /\ p = [type |-> "control_cancel_request", tool |-> worker.waiting] /\ p.type = "control_cancel_request" /\ ~Decides(p)
    BY DEF Payload, EndsTurn, Decides, UserTypes, Withdraw, Shown, WorkOK, Worker
  <1>2. Post(p) /\ lapsed' = lapsed /\ inbox' = inbox
        /\ worker' = [worker EXCEPT !.waiting = None]
        /\ ~worker.gone /\ worker.waiting # None
    BY DEF Withdraw
  <1> HIDE DEF p
  <1>3. /\ \E f, t \in BOOLEAN : ~f /\ t /\ view' = reduce(view, p, f) /\ Replay' = reduce(Replay, p, t)
        /\ history \in Seq(Payload) /\ history' = Append(history, p) /\ history' \in Seq(Payload)
        /\ digest' = foldDigest(digest, p)
        /\ \A x : AskedIn(history, x) => AskedIn(history', x)
        /\ turnActiveIn(history') = turnActiveIn(history)
        /\ cleared' = cleared /\ answered' = answered /\ local' = local
    BY <1>1, <1>2, Stored
  <1>4. PICK f, t \in BOOLEAN : ~f /\ t /\ view' = reduce(view, p, f) /\ Replay' = reduce(Replay, p, t)
    BY <1>3
  <1>5. /\ worker' \in Worker /\ worker'.turn = worker.turn /\ worker'.open = worker.open /\ worker'.waiting = None
        /\ worker'.granted = worker.granted /\ worker'.draft = worker.draft /\ worker'.gone = worker.gone
    <2>1. worker \in Worker
      BY DEF Shown, WorkOK
    <2> QED
      BY <1>2, <2>1 DEF Worker
  <1>6. WorkOK(worker, lapsed, history)'
    BY <1>2, <1>3, <1>5 DEF Shown, WorkOK
  <1>7. ViewOK(worker, lapsed, history, view, answered)'
    BY <1>1, <1>2, <1>3, <1>4, <1>5, ViewWithdraw DEF Shown
  <1>8. ViewOK(worker, lapsed, history, Replay, {})'
    BY <1>1, <1>2, <1>3, <1>4, <1>5, ViewWithdraw DEF Shown
  <1>9. DigestOK(digest, worker, cleared, history)'
    <2>1. digest \in Digest
      BY DEF Shown, DigestOK
    <2>2. digest' = clearPendingApproval(digest)
      BY <1>1, <1>3, FoldedOther
    <2>3. /\ digest' \in Digest /\ digest'.turnActive = digest.turnActive /\ digest'.toolStatus = digest.toolStatus
          /\ digest'.currentToolUseId = digest.currentToolUseId /\ digest'.pendingTools = {} /\ digest'.pendingApproval = FALSE
      BY <2>1, <2>2, FoldedClear
    <2> QED
      BY <1>3, <1>5, <2>3 DEF Shown, DigestOK
  <1>10. inbox' \in Seq(Texts)
    BY <1>2 DEF Shown
  <1> QED
    BY <1>3, <1>6, <1>7, <1>8, <1>9, <1>10 DEF Shown

LEMMA FinishToolShown ==
  ASSUME ConstantsOK, Shown, NEW tool \in Tools, NEW failed \in BOOLEAN, FinishTool(tool, failed)
  PROVE  Shown'
  <1> DEFINE p == [type |-> "tool_result", tool |-> tool, failed |-> failed]
  <1>1. p \in Payload /\ p = [type |-> "tool_result", tool |-> tool, failed |-> failed] /\ p.type = "tool_result" /\ p.tool = tool /\ ~EndsTurn(p) /\ Decides(p)
    BY DEF Payload, EndsTurn, Decides, UserTypes
  <1>2. Post(p) /\ lapsed' = lapsed /\ inbox' = inbox
        /\ worker' = [worker EXCEPT !.open = @ \ {tool}, !.granted = @ \ {tool}]
        /\ ~worker.gone /\ worker.waiting # tool /\ tool \in worker.open
    BY DEF FinishTool
  <1> HIDE DEF p
  <1>3. /\ \E f, t \in BOOLEAN : ~f /\ t /\ view' = reduce(view, p, f) /\ Replay' = reduce(Replay, p, t)
        /\ history \in Seq(Payload) /\ history' = Append(history, p) /\ history' \in Seq(Payload)
        /\ digest' = foldDigest(digest, p)
        /\ \A x : AskedIn(history, x) => AskedIn(history', x)
        /\ turnActiveIn(history')
        /\ cleared' = cleared /\ answered' = answered /\ local' = local
    BY <1>1, <1>2, Stored
  <1>4. PICK f, t \in BOOLEAN : ~f /\ t /\ view' = reduce(view, p, f) /\ Replay' = reduce(Replay, p, t)
    BY <1>3
  <1>5. /\ worker' \in Worker /\ worker'.turn = worker.turn /\ worker'.open = worker.open \ {tool} /\ worker'.waiting = worker.waiting
        /\ worker'.granted = worker.granted \ {tool} /\ worker'.draft = worker.draft /\ worker'.gone = worker.gone
    <2>1. worker \in Worker
      BY DEF Shown, WorkOK
    <2> QED
      BY <1>2, <2>1 DEF Worker
  <1>6. WorkOK(worker, lapsed, history)'
    BY <1>2, <1>3, <1>5 DEF Shown, WorkOK
  <1>7. ViewOK(worker, lapsed, history, view, answered)'
    BY <1>1, <1>2, <1>3, <1>4, <1>5, ViewFinish DEF Shown
  <1>8. ViewOK(worker, lapsed, history, Replay, {})'
    BY <1>1, <1>2, <1>3, <1>4, <1>5, ViewFinish DEF Shown
  <1>9. DigestOK(digest, worker, cleared, history)'
    <2>1. digest \in Digest
      BY DEF Shown, DigestOK
    <2>2. /\ digest' \in Digest /\ digest'.turnActive = digest.turnActive /\ digest'.currentToolUseId = digest.currentToolUseId
          /\ digest'.pendingTools = digest.pendingTools \ {tool} /\ (digest'.pendingApproval <=> digest'.pendingTools # {})
          /\ digest'.toolStatus = "running" => digest.toolStatus = "running" /\ tool # digest.currentToolUseId
      BY <1>1, <1>3, <2>1, FoldedResult DEF ConstantsOK
    <2> QED
      BY <1>2, <1>3, <1>5, <2>2 DEF Shown, DigestOK
  <1>10. inbox' \in Seq(Texts)
    BY <1>2 DEF Shown
  <1> QED
    BY <1>3, <1>6, <1>7, <1>8, <1>9, <1>10 DEF Shown

LEMMA EndTurnShown ==
  ASSUME ConstantsOK, Shown, NEW failed \in BOOLEAN, NEW late \in BOOLEAN, EndTurn(failed, late)
  PROVE  Shown'
  <1> DEFINE p == [type |-> "result", failed |-> failed]
  <1>1. p \in Payload /\ p = [type |-> "result", failed |-> failed] /\ p.type = "result" /\ p.failed = failed /\ EndsTurn(p)
    BY DEF Payload, EndsTurn
  <1>2. Post(p) /\ lapsed' = {} /\ inbox' = inbox
        /\ worker' = [worker EXCEPT !.turn = FALSE, !.open = {}, !.granted = {}, !.late = late]
        /\ ~worker.gone /\ worker.waiting = None /\ worker.open \cap Asking = {} /\ (worker.draft # "none" => late)
    BY DEF EndTurn, Thinking, Free
  <1> HIDE DEF p
  <1>3. /\ \E f, t \in BOOLEAN : ~f /\ t /\ view' = reduce(view, p, f) /\ Replay' = reduce(Replay, p, t)
        /\ history \in Seq(Payload) /\ history' = Append(history, p) /\ history' \in Seq(Payload)
        /\ digest' = foldDigest(digest, p)
        /\ \A x : AskedIn(history, x) => AskedIn(history', x)
        /\ TRUE
        /\ cleared' = cleared /\ answered' = answered /\ local' = local
    BY <1>1, <1>2, Stored
  <1>4. PICK f, t \in BOOLEAN : ~f /\ t /\ view' = reduce(view, p, f) /\ Replay' = reduce(Replay, p, t)
    BY <1>3
  <1>5. /\ worker' \in Worker /\ worker'.turn = FALSE /\ worker'.open = {} /\ worker'.waiting = None
        /\ worker'.granted = {} /\ worker'.draft = worker.draft /\ worker'.gone = worker.gone /\ worker'.late = late
    <2>1. worker \in Worker
      BY DEF Shown, WorkOK
    <2> QED
      BY <1>2, <2>1 DEF Worker
  <1>6. WorkOK(worker, lapsed, history)'
    BY <1>2, <1>3, <1>5 DEF Shown, WorkOK
  <1>7. ViewOK(worker, lapsed, history, view, answered)'
    BY <1>1, <1>2, <1>3, <1>4, <1>5, ViewEnd DEF Shown
  <1>8. ViewOK(worker, lapsed, history, Replay, {})'
    BY <1>1, <1>2, <1>3, <1>4, <1>5, ViewEnd DEF Shown
  <1>9. DigestOK(digest, worker, cleared, history)'
    <2>1. digest \in Digest
      BY DEF Shown, DigestOK
    <2>2. /\ digest' \in Digest /\ digest'.turnActive = FALSE /\ digest'.pendingTools = {} /\ digest'.pendingApproval = FALSE
          /\ digest'.toolStatus # "running"
      BY <1>1, <1>3, <2>1, FoldedEnd DEF ConstantsOK
    <2> QED
      BY <1>3, <1>5, <2>2 DEF Shown, DigestOK
  <1>10. inbox' \in Seq(Texts)
    BY <1>2 DEF Shown
  <1> QED
    BY <1>3, <1>6, <1>7, <1>8, <1>9, <1>10 DEF Shown

LEMMA ResetShown ==
  ASSUME ConstantsOK, Shown, Reset
  PROVE  Shown'
  <1> DEFINE p == [type |-> "conversation_reset"]
  <1>1. p \in Payload /\ p = [type |-> "conversation_reset"] /\ p.type = "conversation_reset" /\ EndsTurn(p)
    BY DEF Payload, EndsTurn
  <1>2. Post(p) /\ lapsed' = {} /\ inbox' = inbox
        /\ worker' = [worker EXCEPT !.turn = FALSE, !.open = {}, !.granted = {}, !.late = FALSE]
        /\ ~worker.gone /\ worker.waiting = None /\ worker.open \cap Asking = {} /\ worker.draft = "none"
    BY DEF Reset, Free
  <1> HIDE DEF p
  <1>3. /\ \E f, t \in BOOLEAN : ~f /\ t /\ view' = reduce(view, p, f) /\ Replay' = reduce(Replay, p, t)
        /\ history \in Seq(Payload) /\ history' = Append(history, p) /\ history' \in Seq(Payload)
        /\ digest' = foldDigest(digest, p)
        /\ \A x : AskedIn(history, x) => AskedIn(history', x)
        /\ TRUE
        /\ cleared' = cleared /\ answered' = answered /\ local' = local
    BY <1>1, <1>2, Stored
  <1>4. PICK f, t \in BOOLEAN : ~f /\ t /\ view' = reduce(view, p, f) /\ Replay' = reduce(Replay, p, t)
    BY <1>3
  <1>5. /\ worker' \in Worker /\ worker'.turn = FALSE /\ worker'.open = {} /\ worker'.waiting = None
        /\ worker'.granted = {} /\ worker'.draft = "none" /\ worker'.gone = worker.gone
    <2>1. worker \in Worker
      BY DEF Shown, WorkOK
    <2> QED
      BY <1>2, <2>1 DEF Worker
  <1>6. WorkOK(worker, lapsed, history)'
    BY <1>2, <1>3, <1>5 DEF Shown, WorkOK
  <1>7. ViewOK(worker, lapsed, history, view, answered)'
    BY <1>1, <1>2, <1>3, <1>4, <1>5, ViewEnd DEF Shown
  <1>8. ViewOK(worker, lapsed, history, Replay, {})'
    BY <1>1, <1>2, <1>3, <1>4, <1>5, ViewEnd DEF Shown
  <1>9. DigestOK(digest, worker, cleared, history)'
    <2>1. digest \in Digest
      BY DEF Shown, DigestOK
    <2>2. /\ digest' \in Digest /\ digest'.turnActive = FALSE /\ digest'.pendingTools = {} /\ digest'.pendingApproval = FALSE
          /\ digest'.toolStatus # "running"
      BY <1>1, <1>3, <2>1, FoldedEnd DEF ConstantsOK
    <2> QED
      BY <1>3, <1>5, <2>2 DEF Shown, DigestOK
  <1>10. inbox' \in Seq(Texts)
    BY <1>2 DEF Shown
  <1> QED
    BY <1>3, <1>6, <1>7, <1>8, <1>9, <1>10 DEF Shown

LEMMA SummariseShown ==
  ASSUME ConstantsOK, Shown, Summarise
  PROVE  Shown'
  <1> DEFINE p == [type |-> "post_turn_summary"]
  <1>1. p \in Payload /\ p = [type |-> "post_turn_summary"] /\ p.type = "post_turn_summary" /\ EndsTurn(p)
    BY DEF Payload, EndsTurn
  <1>2. Post(p) /\ lapsed' = lapsed \cup worker.open /\ inbox' = inbox
        /\ worker' = [worker EXCEPT !.turn = FALSE, !.open = {}, !.granted = {}]
        /\ ~worker.gone /\ worker.waiting = None /\ worker.open \cap Asking = {} /\ worker.draft = "none"
    BY DEF Summarise, Free
  <1> HIDE DEF p
  <1>3. /\ \E f, t \in BOOLEAN : ~f /\ t /\ view' = reduce(view, p, f) /\ Replay' = reduce(Replay, p, t)
        /\ history \in Seq(Payload) /\ history' = Append(history, p) /\ history' \in Seq(Payload)
        /\ digest' = foldDigest(digest, p)
        /\ \A x : AskedIn(history, x) => AskedIn(history', x)
        /\ TRUE
        /\ cleared' = cleared /\ answered' = answered /\ local' = local
    BY <1>1, <1>2, Stored
  <1>4. PICK f, t \in BOOLEAN : ~f /\ t /\ view' = reduce(view, p, f) /\ Replay' = reduce(Replay, p, t)
    BY <1>3
  <1>5. /\ worker' \in Worker /\ worker'.turn = FALSE /\ worker'.open = {} /\ worker'.waiting = None
        /\ worker'.granted = {} /\ worker'.draft = "none" /\ worker'.gone = worker.gone
    <2>1. worker \in Worker
      BY DEF Shown, WorkOK
    <2> QED
      BY <1>2, <2>1 DEF Worker
  <1>6. WorkOK(worker, lapsed, history)'
    <2>1. worker \in Worker
      BY DEF Shown, WorkOK
    <2> QED
      BY <1>2, <1>3, <1>5, <2>1, WorkerIs DEF Shown, WorkOK
  <1>7. ViewOK(worker, lapsed, history, view, answered)'
    BY <1>1, <1>2, <1>3, <1>4, <1>5, ViewLeave DEF Shown
  <1>8. ViewOK(worker, lapsed, history, Replay, {})'
    BY <1>1, <1>2, <1>3, <1>4, <1>5, ViewLeave DEF Shown
  <1>9. DigestOK(digest, worker, cleared, history)'
    <2>1. digest \in Digest
      BY DEF Shown, DigestOK
    <2>2. /\ digest' \in Digest /\ digest'.turnActive = FALSE /\ digest'.pendingTools = {} /\ digest'.pendingApproval = FALSE
          /\ digest'.toolStatus # "running"
      BY <1>1, <1>3, <2>1, FoldedEnd DEF ConstantsOK
    <2> QED
      BY <1>3, <1>5, <2>2 DEF Shown, DigestOK
  <1>10. inbox' \in Seq(Texts)
    BY <1>2 DEF Shown
  <1> QED
    BY <1>3, <1>6, <1>7, <1>8, <1>9, <1>10 DEF Shown

LEMMA ShutDownShown ==
  ASSUME ConstantsOK, Shown, ShutDown
  PROVE  Shown'
  <1> DEFINE p == [type |-> "worker_shutting_down"]
  <1>1. p \in Payload /\ p = [type |-> "worker_shutting_down"] /\ p.type = "worker_shutting_down" /\ EndsTurn(p)
    BY DEF Payload, EndsTurn
  <1>2. Post(p) /\ lapsed' = lapsed \cup worker.open /\ inbox' = inbox
        /\ worker' = [idleWorker EXCEPT !.gone = TRUE, !.draft = worker.draft] /\ ~worker.gone
    BY DEF ShutDown
  <1> HIDE DEF p
  <1>3. /\ \E f, t \in BOOLEAN : ~f /\ t /\ view' = reduce(view, p, f) /\ Replay' = reduce(Replay, p, t)
        /\ history \in Seq(Payload) /\ history' = Append(history, p) /\ history' \in Seq(Payload)
        /\ digest' = foldDigest(digest, p)
        /\ \A x : AskedIn(history, x) => AskedIn(history', x)
        /\ TRUE
        /\ cleared' = cleared /\ answered' = answered /\ local' = local
    BY <1>1, <1>2, Stored
  <1>4. PICK f, t \in BOOLEAN : ~f /\ t /\ view' = reduce(view, p, f) /\ Replay' = reduce(Replay, p, t)
    BY <1>3
  <1>5. /\ worker' \in Worker /\ worker'.turn = FALSE /\ worker'.open = {} /\ worker'.waiting = None
        /\ worker'.granted = {} /\ worker'.draft = worker.draft /\ worker'.gone
    <2>1. worker \in Worker
      BY DEF Shown, WorkOK
    <2> QED
      BY <1>2, <2>1 DEF Worker, idleWorker
  <1>6. WorkOK(worker, lapsed, history)'
    <2>1. worker \in Worker
      BY DEF Shown, WorkOK
    <2> QED
      BY <1>2, <1>3, <1>5, <2>1, WorkerIs DEF Shown, WorkOK
  <1>7. ViewOK(worker, lapsed, history, view, answered)'
    BY <1>1, <1>2, <1>3, <1>4, <1>5, ViewLeave DEF Shown
  <1>8. ViewOK(worker, lapsed, history, Replay, {})'
    BY <1>1, <1>2, <1>3, <1>4, <1>5, ViewLeave DEF Shown
  <1>9. DigestOK(digest, worker, cleared, history)'
    <2>1. digest \in Digest
      BY DEF Shown, DigestOK
    <2>2. /\ digest' \in Digest /\ digest'.turnActive = FALSE /\ digest'.pendingTools = {} /\ digest'.pendingApproval = FALSE
          /\ digest'.toolStatus # "running"
      BY <1>1, <1>3, <2>1, FoldedEnd DEF ConstantsOK
    <2> QED
      BY <1>3, <1>5, <2>2 DEF Shown, DigestOK
  <1>10. inbox' \in Seq(Texts)
    BY <1>2 DEF Shown
  <1> QED
    BY <1>3, <1>6, <1>7, <1>8, <1>9, <1>10 DEF Shown

LEMMA InterruptNoticeShown ==
  ASSUME ConstantsOK, Shown, InterruptNotice
  PROVE  Shown'
  <1> DEFINE p == [type |-> "interrupt_notice"]
  <1>1. p \in Payload /\ p = [type |-> "interrupt_notice"] /\ p.type = "interrupt_notice" /\ ~EndsTurn(p) /\ Decides(p)
    BY DEF Payload, EndsTurn, Decides, UserTypes
  <1>2. Post(p) /\ lapsed' = lapsed /\ inbox' = inbox /\ worker' = worker
    BY DEF InterruptNotice
  <1> HIDE DEF p
  <1>3. /\ \E f, t \in BOOLEAN : ~f /\ t /\ view' = reduce(view, p, f) /\ Replay' = reduce(Replay, p, t)
        /\ history \in Seq(Payload) /\ history' = Append(history, p) /\ history' \in Seq(Payload)
        /\ digest' = foldDigest(digest, p)
        /\ \A x : AskedIn(history, x) => AskedIn(history', x)
        /\ turnActiveIn(history')
        /\ cleared' = cleared /\ answered' = answered /\ local' = local
    BY <1>1, <1>2, Stored
  <1>4. PICK f, t \in BOOLEAN : ~f /\ t /\ view' = reduce(view, p, f) /\ Replay' = reduce(Replay, p, t)
    BY <1>3
  <1>5. /\ worker' \in Worker /\ worker'.turn = worker.turn /\ worker'.open = worker.open
        /\ worker'.waiting = worker.waiting /\ worker'.granted = worker.granted
    <2>1. worker \in Worker
      BY DEF Shown, WorkOK
    <2> QED
      BY <1>2, <2>1 DEF Worker
  <1>6. WorkOK(worker, lapsed, history)'
    BY <1>2, <1>3, <1>5 DEF Shown, WorkOK
  <1>7. ViewOK(worker, lapsed, history, view, answered)'
    <2>1. ViewOK(worker, lapsed, history, view, answered)
      BY DEF Shown
    <2>2. p.type \in {"interrupt_notice", "command_echo", "assistant_text", "content_block_delta", "message_stop"}
      BY <1>1
    <2>3. view' = reduce(view, p, f) /\ f \in BOOLEAN /\ lapsed' = lapsed
      BY <1>2, <1>4
    <2>4. worker'.open = worker.open /\ worker'.waiting = worker.waiting /\ worker'.granted = worker.granted
      BY <1>5
    <2>5. history \in Seq(Payload) /\ \A x : AskedIn(history, x) => AskedIn(history', x)
      BY <1>3
    <2>6. ViewOK(worker', lapsed, history', view', answered)
      BY ONLY <2>1, <2>2, <2>3, <2>4, <2>5, ViewPlain
    <2> QED
      BY <1>3, <2>3, <2>6
  <1>8. ViewOK(worker, lapsed, history, Replay, {})'
    <2>1. ViewOK(worker, lapsed, history, Replay, {})
      BY DEF Shown
    <2>2. p.type \in {"interrupt_notice", "command_echo", "assistant_text", "content_block_delta", "message_stop"}
      BY <1>1
    <2>3. Replay' = reduce(Replay, p, t) /\ t \in BOOLEAN /\ lapsed' = lapsed
      BY <1>2, <1>4
    <2>4. worker'.open = worker.open /\ worker'.waiting = worker.waiting /\ worker'.granted = worker.granted
      BY <1>5
    <2>5. history \in Seq(Payload) /\ \A x : AskedIn(history, x) => AskedIn(history', x)
      BY <1>3
    <2>6. ViewOK(worker', lapsed, history', Replay', {})
      BY ONLY <2>1, <2>2, <2>3, <2>4, <2>5, ViewPlain
    <2> QED
      BY <1>3, <2>3, <2>6
  <1>9. DigestOK(digest, worker, cleared, history)'
    <2>1. digest \in Digest
      BY DEF Shown, DigestOK
    <2>2. digest' = digest
      BY <1>1, <1>3, FoldedOther
    <2> QED
      BY <1>3, <1>5, <2>2 DEF Shown, DigestOK
  <1>10. inbox' \in Seq(Texts)
    BY <1>2 DEF Shown
  <1> QED
    BY <1>3, <1>6, <1>7, <1>8, <1>9, <1>10 DEF Shown

LEMMA CommandEchoShown ==
  ASSUME ConstantsOK, Shown, CommandEcho
  PROVE  Shown'
  <1> DEFINE p == [type |-> "command_echo"]
  <1>1. p \in Payload /\ p = [type |-> "command_echo"] /\ p.type = "command_echo" /\ ~EndsTurn(p) /\ Decides(p)
    BY DEF Payload, EndsTurn, Decides, UserTypes
  <1>2. Post(p) /\ lapsed' = lapsed /\ inbox' = inbox /\ worker' = worker
    BY DEF CommandEcho
  <1> HIDE DEF p
  <1>3. /\ \E f, t \in BOOLEAN : ~f /\ t /\ view' = reduce(view, p, f) /\ Replay' = reduce(Replay, p, t)
        /\ history \in Seq(Payload) /\ history' = Append(history, p) /\ history' \in Seq(Payload)
        /\ digest' = foldDigest(digest, p)
        /\ \A x : AskedIn(history, x) => AskedIn(history', x)
        /\ turnActiveIn(history')
        /\ cleared' = cleared /\ answered' = answered /\ local' = local
    BY <1>1, <1>2, Stored
  <1>4. PICK f, t \in BOOLEAN : ~f /\ t /\ view' = reduce(view, p, f) /\ Replay' = reduce(Replay, p, t)
    BY <1>3
  <1>5. /\ worker' \in Worker /\ worker'.turn = worker.turn /\ worker'.open = worker.open
        /\ worker'.waiting = worker.waiting /\ worker'.granted = worker.granted
    <2>1. worker \in Worker
      BY DEF Shown, WorkOK
    <2> QED
      BY <1>2, <2>1 DEF Worker
  <1>6. WorkOK(worker, lapsed, history)'
    BY <1>2, <1>3, <1>5 DEF Shown, WorkOK
  <1>7. ViewOK(worker, lapsed, history, view, answered)'
    <2>1. ViewOK(worker, lapsed, history, view, answered)
      BY DEF Shown
    <2>2. p.type \in {"interrupt_notice", "command_echo", "assistant_text", "content_block_delta", "message_stop"}
      BY <1>1
    <2>3. view' = reduce(view, p, f) /\ f \in BOOLEAN /\ lapsed' = lapsed
      BY <1>2, <1>4
    <2>4. worker'.open = worker.open /\ worker'.waiting = worker.waiting /\ worker'.granted = worker.granted
      BY <1>5
    <2>5. history \in Seq(Payload) /\ \A x : AskedIn(history, x) => AskedIn(history', x)
      BY <1>3
    <2>6. ViewOK(worker', lapsed, history', view', answered)
      BY ONLY <2>1, <2>2, <2>3, <2>4, <2>5, ViewPlain
    <2> QED
      BY <1>3, <2>3, <2>6
  <1>8. ViewOK(worker, lapsed, history, Replay, {})'
    <2>1. ViewOK(worker, lapsed, history, Replay, {})
      BY DEF Shown
    <2>2. p.type \in {"interrupt_notice", "command_echo", "assistant_text", "content_block_delta", "message_stop"}
      BY <1>1
    <2>3. Replay' = reduce(Replay, p, t) /\ t \in BOOLEAN /\ lapsed' = lapsed
      BY <1>2, <1>4
    <2>4. worker'.open = worker.open /\ worker'.waiting = worker.waiting /\ worker'.granted = worker.granted
      BY <1>5
    <2>5. history \in Seq(Payload) /\ \A x : AskedIn(history, x) => AskedIn(history', x)
      BY <1>3
    <2>6. ViewOK(worker', lapsed, history', Replay', {})
      BY ONLY <2>1, <2>2, <2>3, <2>4, <2>5, ViewPlain
    <2> QED
      BY <1>3, <2>3, <2>6
  <1>9. DigestOK(digest, worker, cleared, history)'
    <2>1. digest \in Digest
      BY DEF Shown, DigestOK
    <2>2. digest' = digest
      BY <1>1, <1>3, FoldedOther
    <2> QED
      BY <1>3, <1>5, <2>2 DEF Shown, DigestOK
  <1>10. inbox' \in Seq(Texts)
    BY <1>2 DEF Shown
  <1> QED
    BY <1>3, <1>6, <1>7, <1>8, <1>9, <1>10 DEF Shown

\* An event that is not stored, and leaves the calls and the asks alone.
LEMMA StreamShown ==
  ASSUME Shown, NEW p, Post(p), p.type \in {"content_block_delta", "message_stop"}, lapsed' = lapsed, inbox' = inbox,
         WorkOK(worker', lapsed, history), worker'.open = worker.open, worker'.waiting = worker.waiting,
         worker'.granted = worker.granted, worker'.turn = worker.turn
  PROVE  Shown'
  <1>1. /\ \E f \in BOOLEAN : ~f /\ view' = reduce(view, p, f)
        /\ history' = history /\ Replay' = Replay /\ digest' = digest
        /\ cleared' = cleared /\ answered' = answered /\ local' = local
    BY Streamed
  <1>2. PICK f \in BOOLEAN : ~f /\ view' = reduce(view, p, f)
    BY <1>1
  <1>3. history \in Seq(Payload)
    BY DEF Shown, WorkOK
  <1>4. ViewOK(worker, lapsed, history, view, answered)'
    <2>1. ViewOK(worker, lapsed, history, view, answered)
      BY DEF Shown
    <2>2. p.type \in {"interrupt_notice", "command_echo", "assistant_text", "content_block_delta", "message_stop"}
      OBVIOUS
    <2>3. worker'.open = worker.open /\ worker'.waiting = worker.waiting /\ worker'.granted = worker.granted
      OBVIOUS
    <2>4. \A x : AskedIn(history, x) => AskedIn(history, x)
      OBVIOUS
    <2>5. ViewOK(worker', lapsed, history, view', answered)
      BY ONLY <1>2, <1>3, <2>1, <2>2, <2>3, <2>4, ViewPlain
    <2> QED
      BY <1>1, <2>5
  <1>5. ViewOK(worker, lapsed, history, Replay, {})'
    <2>1. ViewOK(worker, lapsed, history, Replay, {})
      BY DEF Shown
    <2>2. worker'.open = worker.open /\ worker'.waiting = worker.waiting /\ worker'.granted = worker.granted
      OBVIOUS
    <2>3. ViewOK(worker', lapsed, history, Replay, {})
      BY ONLY <1>3, <2>1, <2>2, ViewSame
    <2> QED
      BY <1>1, <2>3
  <1>6. DigestOK(digest, worker, cleared, history)'
    BY <1>1 DEF Shown, DigestOK
  <1> QED
    BY <1>1, <1>4, <1>5, <1>6 DEF Shown

LEMMA StreamTextShown ==
  ASSUME Shown, StreamText
  PROVE  Shown'
  <1> DEFINE p == [type |-> "content_block_delta"]
  <1>1. p.type \in {"content_block_delta", "message_stop"} /\ Post(p)
    BY DEF StreamText
  <1>2. /\ worker' = [worker EXCEPT !.draft = "streaming"] /\ lapsed' = lapsed /\ inbox' = inbox
        /\ worker.open = {} /\ worker.turn /\ ~worker.gone
    BY DEF StreamText, Thinking, Free
  <1>3. /\ worker' \in Worker /\ worker'.turn = worker.turn /\ worker'.open = worker.open /\ worker'.waiting = worker.waiting
        /\ worker'.granted = worker.granted /\ worker'.gone = worker.gone
    <2>1. worker \in Worker
      BY DEF Shown, WorkOK
    <2> QED
      BY <1>2, <2>1 DEF Worker
  <1>4. WorkOK(worker', lapsed, history)
    BY <1>2, <1>3 DEF Shown, WorkOK
  <1> HIDE DEF p
  <1> QED
    BY <1>1, <1>2, <1>3, <1>4, StreamShown

LEMMA StopStreamingShown ==
  ASSUME Shown, StopStreaming
  PROVE  Shown'
  <1> DEFINE p == [type |-> "message_stop"]
  <1>1. p.type \in {"content_block_delta", "message_stop"} /\ Post(p)
    BY DEF StopStreaming
  <1>2. /\ worker' = [worker EXCEPT !.draft = "stopped"] /\ lapsed' = lapsed /\ inbox' = inbox
        /\ worker.draft = "streaming" /\ ~worker.gone
    BY DEF StopStreaming, Free
  <1>3. /\ worker' \in Worker /\ worker'.turn = worker.turn /\ worker'.open = worker.open /\ worker'.waiting = worker.waiting
        /\ worker'.granted = worker.granted /\ worker'.gone = worker.gone /\ worker'.late = worker.late
    <2>1. worker \in Worker
      BY DEF Shown, WorkOK
    <2> QED
      BY <1>2, <2>1 DEF Worker
  <1>4. WorkOK(worker', lapsed, history)
    BY <1>2, <1>3 DEF Shown, WorkOK
  <1> HIDE DEF p
  <1> QED
    BY <1>1, <1>2, <1>3, <1>4, StreamShown

-----------------------------------------------------------------------------
(* The reader's steps *)

LEMMA SendMessageShown ==
  ASSUME Shown, NEW text \in Texts, NEW delivered \in BOOLEAN, SendMessage(text, delivered)
  PROVE  Shown'
  <1>1. /\ view' = localSend(view, text, view.busy) /\ worker' = worker /\ history' = history /\ digest' = digest
        /\ lapsed' = lapsed /\ cleared' = cleared /\ answered' = answered
    BY DEF SendMessage
  <1>2. inbox' \in Seq(Texts)
    BY DEF SendMessage, Shown
  <1>3. ViewOK(worker, lapsed, history, view', answered)
    <2>1. view \in View /\ view.busy \in BOOLEAN /\ history \in Seq(Payload)
      BY ViewFields DEF Shown, ViewOK, WorkOK
    <2>2. view' \in View /\ But(view, view', {"items", "busy", "pendingWeb"})
          /\ Keeps(view.items, view'.items, {"prose", "tools", "question"})
      BY ONLY <1>1, <2>1, text \in Texts, SentLocally
    <2>3. /\ Cards(view'.items) = Cards(view.items) /\ Had(view'.items) = Had(view.items)
          /\ OpenIn(view'.items) = OpenIn(view.items)
      BY <2>2, KeptCards, KeptOpen
    <2>4. view'.permission = view.permission /\ view'.running = view.running /\ AskedFor(view') = AskedFor(view)
      BY <2>2, <2>3 DEF But, AskedFor
    <2> QED
      BY <2>2, <2>3, <2>4 DEF Shown, ViewOK, AsksOK, CallsOK
  <1> QED
    BY <1>1, <1>2, <1>3 DEF Shown, Replay

\* What the reader answers is off the screen; what the worker hears is granted.
LEMMA AnswerShown ==
  ASSUME ConstantsOK, Shown, NEW tool \in Tools, NEW reach, Answer(tool, reach),
         view' \in View, AskedFor(view') = AskedFor(view) \ {tool}, view'.permission \notin Asking,
         Had(view'.items) = Had(view.items), OpenIn(view'.items) = OpenIn(view.items), view'.running = view.running
  PROVE  Shown'
  <1>1. /\ inbox' = inbox /\ history' = history /\ lapsed' = lapsed /\ answered' = answered \cup {tool} /\ Replay' = Replay
    BY DEF Answer, Replay
  <1>2. worker \in Worker /\ digest \in Digest /\ history \in Seq(Payload)
    BY DEF Shown, WorkOK, DigestOK
  <1>3. \/ worker' = worker
        \/ worker.waiting = tool /\ worker' = [worker EXCEPT !.waiting = None, !.granted = @ \cup {tool}] /\ reach = "child"
    BY DEF Answer
  <1>4. \/ digest' = digest /\ cleared' = cleared /\ reach = "socket"
        \/ digest' = clearPendingApproval(digest) /\ cleared' = cleared \cup ({worker.waiting} \ {None})
    BY DEF Answer
  <1>5. /\ worker' \in Worker /\ worker'.turn = worker.turn /\ worker'.open = worker.open
        /\ worker'.draft = worker.draft /\ worker'.gone = worker.gone /\ worker'.late = worker.late
        /\ \/ worker' = worker /\ worker'.waiting = worker.waiting /\ worker'.granted = worker.granted
           \/ /\ worker.waiting = tool /\ worker'.waiting = None /\ worker'.granted = worker.granted \cup {tool}
              /\ reach = "child"
    <2>1. CASE worker' = worker
      BY <1>2, <2>1
    <2>2. CASE worker.waiting = tool /\ worker' = [worker EXCEPT !.waiting = None, !.granted = @ \cup {tool}] /\ reach = "child"
      <3>1. worker.granted \cup {tool} \in SUBSET Tools
        BY <1>2, WorkerIs
      <3>2. worker' \in Worker /\ worker'.waiting = None /\ worker'.granted = worker.granted \cup {tool}
        BY <1>2, <2>2, <3>1 DEF Worker
      <3>3. /\ worker'.turn = worker.turn /\ worker'.open = worker.open
            /\ worker'.draft = worker.draft /\ worker'.gone = worker.gone /\ worker'.late = worker.late
        BY <1>2, <2>2 DEF Worker
      <3> QED
        BY <2>2, <3>2, <3>3
    <2> QED
      BY <1>3, <2>1, <2>2
  <1>6. tool # None
    BY DEF ConstantsOK
  <1>7. WorkOK(worker, lapsed, history)'
    BY <1>1, <1>5, <1>6 DEF Shown, WorkOK
  <1>8. ViewOK(worker, lapsed, history, view, answered)'
    <2>1. CallsOK(worker', lapsed, view')
      BY <1>5 DEF Shown, ViewOK, CallsOK
    <2>2. AsksOK(worker', lapsed, history, view', answered \cup {tool})
      BY <1>5, <1>6 DEF Shown, ViewOK, AsksOK
    <2> QED
      BY <1>1, <2>1, <2>2 DEF ViewOK
  <1>9. ViewOK(worker, lapsed, history, Replay, {})'
    <2>1. CallsOK(worker', lapsed, Replay)
      BY <1>5 DEF Shown, ViewOK, CallsOK
    <2>2. AsksOK(worker', lapsed, history, Replay, {})
      BY <1>5, <1>6 DEF Shown, ViewOK, AsksOK
    <2> QED
      BY <1>1, <2>1, <2>2 DEF ViewOK, Shown
  <1>10. DigestOK(digest, worker, cleared, history)'
    <2>1. CASE digest' = digest /\ cleared' = cleared /\ reach = "socket"
      BY <1>1, <1>5, <2>1 DEF Shown, DigestOK
    <2>2. CASE digest' = clearPendingApproval(digest) /\ cleared' = cleared \cup ({worker.waiting} \ {None})
      <3>1. /\ digest' \in Digest /\ digest'.turnActive = digest.turnActive /\ digest'.toolStatus = digest.toolStatus
            /\ digest'.currentToolUseId = digest.currentToolUseId /\ digest'.pendingTools = {} /\ digest'.pendingApproval = FALSE
        BY <1>2, <2>2, FoldedClear
      <3>2. \A t \in cleared' : AskedIn(history, t)
        BY <2>2 DEF Shown, DigestOK, WorkOK
      <3> QED
        BY <1>1, <1>5, <2>2, <3>1, <3>2 DEF Shown, DigestOK
    <2> QED
      BY <1>4, <2>1, <2>2
  <1>11. cleared' \in SUBSET Tools
    BY <1>2, <1>4, WorkerIs DEF Shown
  <1> QED
    BY <1>1, <1>7, <1>8, <1>9, <1>10, <1>11 DEF Shown

LEMMA AnswerPermissionShown ==
  ASSUME ConstantsOK, Shown, NEW reach, AnswerPermission(reach)
  PROVE  Shown'
  <1> DEFINE tool == view.permission
  <1>1. tool # None /\ view' = [patchCall(view, tool, "running") EXCEPT !.permission = None] /\ Answer(tool, reach)
    BY DEF AnswerPermission, clearPermission
  <1>2. view \in View /\ tool \in Tools /\ tool \notin Asking /\ None \notin Asking
    BY <1>1, ViewFields DEF Shown, ViewOK, AsksOK, ConstantsOK
  <1>3. view.permission = tool
    OBVIOUS
  <1> HIDE DEF tool
  <1>4. /\ view' \in View /\ But(view, view', {"items", "permission"}) /\ view'.permission = None
        /\ Keeps(view.items, view'.items, {"user", "prose", "question"})
        /\ OpenIn(view.items) \subseteq OpenIn(view'.items) /\ OpenIn(view'.items) \subseteq OpenIn(view.items) \cup {tool}
    BY <1>1, <1>2, Released
  <1>5. Cards(view'.items) = Cards(view.items) /\ Had(view'.items) = Had(view.items)
    BY <1>4, KeptCards
  <1>6. AskedFor(view') = AskedFor(view) \ {tool}
    BY <1>2, <1>3, <1>4, <1>5 DEF AskedFor, Cards
  <1>7. tool \in OpenIn(view.items)
    <2>1. tool \in AskedFor(view)
      BY <1>1, <1>3 DEF AskedFor
    <2>2. AskedFor(view) \subseteq {worker.waiting} \cup worker.granted \cup lapsed
      BY DEF Shown, ViewOK, AsksOK
    <2>3. worker.granted \subseteq worker.open /\ (worker.waiting # None => worker.waiting \in worker.open)
      BY DEF Shown, WorkOK
    <2>4. OpenIn(view.items) = (worker.open \cup lapsed) \ Asking
      BY DEF Shown, ViewOK, CallsOK
    <2> QED
      BY <1>1, <1>2, <2>1, <2>2, <2>3, <2>4
  <1>8. OpenIn(view'.items) = OpenIn(view.items)
    BY <1>4, <1>7
  <1>9. view'.running = view.running
    BY <1>4 DEF But
  <1> QED
    BY <1>1, <1>2, <1>4, <1>5, <1>6, <1>8, <1>9, AnswerShown

LEMMA AnswerCardShown ==
  ASSUME ConstantsOK, Shown, NEW tool \in Asking, NEW reach, AnswerCard(tool, reach)
  PROVE  Shown'
  <1>1. view' = SettleCard(view, tool) /\ Answer(tool, reach)
    BY DEF AnswerCard
  <1>2. view \in View /\ tool \in Tools /\ view.permission \notin Asking
    BY DEF Shown, ViewOK, AsksOK, ConstantsOK
  <1>3. /\ view' \in View /\ But(view, view', {"items"}) /\ Keeps(view.items, view'.items, {"user", "prose", "tools"})
        /\ Cards(view'.items) = Cards(view.items) \ {tool} /\ Had(view'.items) = Had(view.items)
    BY <1>1, <1>2, SettledCard
  <1>4. OpenIn(view'.items) = OpenIn(view.items)
    BY <1>3, KeptOpen
  <1>5. view'.permission = view.permission /\ view'.running = view.running
    BY <1>3 DEF But
  <1>6. AskedFor(view') = AskedFor(view) \ {tool}
    BY <1>2, <1>3, <1>5 DEF AskedFor
  <1> QED
    BY <1>1, <1>2, <1>3, <1>4, <1>5, <1>6, AnswerShown

LEMMA StopShown ==
  ASSUME ConstantsOK, Shown, Stop
  PROVE  Shown'
  <1> DEFINE q == FALSE
             none == None
  <1>1. /\ view' = [view EXCEPT !.busy = q, !.running = none]
        /\ worker' = worker /\ inbox' = inbox /\ history' = history /\ digest' = digest
        /\ lapsed' = lapsed /\ cleared' = cleared /\ answered' = answered
    BY DEF Stop
  <1>2. view \in View /\ q \in BOOLEAN /\ none \in Tools \cup {None} /\ none = None
    BY DEF Shown, ViewOK
  <1> HIDE DEF q, none
  <1>3. view' \in View /\ view'.items = view.items /\ view'.permission = view.permission /\ view'.running = None
    BY <1>1, <1>2 DEF View
  <1>4. ViewOK(worker, lapsed, history, view', answered)
    BY <1>3 DEF Shown, ViewOK, AsksOK, CallsOK, AskedFor
  <1> QED
    BY <1>1, <1>4 DEF Shown, Replay

LEMMA ReopenShown ==
  ASSUME Shown, Reopen
  PROVE  Shown'
  <1> DEFINE q == ~worker.gone /\ turnActiveIn(history)
  <1>1. /\ view' = [Replay EXCEPT !.busy = q] /\ answered' = {}
        /\ worker' = worker /\ inbox' = inbox /\ history' = history /\ digest' = digest
        /\ lapsed' = lapsed /\ cleared' = cleared
    BY DEF Reopen, Replay
  <1>2. Replay \in View /\ q \in BOOLEAN
    BY DEF Shown, ViewOK
  <1> HIDE DEF q
  <1>3. view' \in View /\ But(Replay, view', {"busy"})
    BY <1>1, <1>2, WithBusy
  <1>4. view'.items = Replay.items /\ view'.permission = Replay.permission /\ view'.running = Replay.running
    BY <1>3 DEF But
  <1>5. ViewOK(worker, lapsed, history, view', {})
    BY <1>3, <1>4 DEF Shown, ViewOK, AsksOK, CallsOK, AskedFor
  <1> QED
    BY <1>1, <1>5 DEF Shown, Replay

-----------------------------------------------------------------------------
(* The first theorems *)

LEMMA ShownAtFirst ==
  ASSUME ConstantsOK, Init
  PROVE  Shown
  <1>1. /\ worker = idleWorker /\ inbox = <<>> /\ history = <<>> /\ digest = emptyDigest /\ view = initialState
        /\ lapsed = {} /\ cleared = {} /\ answered = {}
    BY DEF Init
  <1>2. /\ worker \in Worker /\ ~worker.turn /\ worker.open = {} /\ worker.waiting = None /\ worker.granted = {}
        /\ worker.draft = "none" /\ ~worker.gone
    BY <1>1 DEF idleWorker, Worker
  <1>3. history \in Seq(Payload)
    BY <1>1
  <1>4. Replay = initialState
    BY <1>1, ReplayNothing DEF Replay
  <1>5. OpenIn(<<>>) = {} /\ Cards(<<>>) = {} /\ Had(<<>>) = {}
    BY DEF OpenIn, Cards, Had
  <1>6. \A given \in SUBSET Tools : ViewOK(worker, lapsed, history, initialState, given)
    BY <1>1, <1>2, <1>5, Initially DEF ViewOK, AsksOK, CallsOK, AskedFor, ConstantsOK
  <1>7. DigestOK(digest, worker, cleared, history)
    BY <1>1, <1>2 DEF DigestOK, Digest, emptyDigest, ConstantsOK
  <1>8. WorkOK(worker, lapsed, history)
    BY <1>1, <1>2, <1>3 DEF WorkOK
  <1> QED
    BY <1>1, <1>4, <1>6, <1>7, <1>8 DEF Shown

LEMMA ShownAgain ==
  ASSUME ConstantsOK, Shown, [Next]_vars
  PROVE  Shown'
  <1>1. CASE WorkerNext
    <2>1. ASSUME NEW t \in Texts, TakeTurn(t) PROVE Shown'
      BY <2>1, TakeTurnShown
    <2>2. CASE StreamText
      BY <2>2, StreamTextShown
    <2>3. CASE StopStreaming
      BY <2>3, StopStreamingShown
    <2>4. CASE SayText
      BY <2>4, SayTextShown
    <2>5. ASSUME NEW t \in Tools, UseTool(t) PROVE Shown'
      BY <2>5, UseToolShown
    <2>6. ASSUME NEW t \in Tools, Ask(t) PROVE Shown'
      BY <2>6, AskShownAgain
    <2>7. ASSUME NEW t \in Tools, NEW failed \in BOOLEAN, FinishTool(t, failed) PROVE Shown'
      BY <2>7, FinishToolShown
    <2>8. CASE Withdraw
      BY <2>8, WithdrawShown
    <2>9. ASSUME NEW failed \in BOOLEAN, NEW late \in BOOLEAN, EndTurn(failed, late) PROVE Shown'
      BY <2>9, EndTurnShown
    <2>10. CASE Summarise
      BY <2>10, SummariseShown
    <2>11. CASE InterruptNotice
      BY <2>11, InterruptNoticeShown
    <2>12. CASE CommandEcho
      BY <2>12, CommandEchoShown
    <2>13. CASE Reset
      BY <2>13, ResetShown
    <2>14. CASE ShutDown
      BY <2>14, ShutDownShown
    <2> QED
      BY <1>1, <2>1, <2>2, <2>3, <2>4, <2>5, <2>6, <2>7, <2>8, <2>9, <2>10, <2>11, <2>12, <2>13, <2>14 DEF WorkerNext
  <1>2. CASE ReaderNext
    <2>1. ASSUME NEW t \in Texts, NEW delivered \in BOOLEAN, SendMessage(t, delivered) PROVE Shown'
      BY <2>1, SendMessageShown
    <2>2. ASSUME NEW reach \in Reach, AnswerPermission(reach) PROVE Shown'
      BY <2>2, AnswerPermissionShown
    <2>3. ASSUME NEW reach \in Reach, NEW t \in Asking, AnswerCard(t, reach) PROVE Shown'
      BY <2>3, AnswerCardShown
    <2>4. CASE Stop
      BY <2>4, StopShown
    <2>5. CASE Reopen
      BY <2>5, ReopenShown
    <2> QED
      BY <1>2, <2>1, <2>2, <2>3, <2>4, <2>5 DEF ReaderNext
  <1>3. CASE UNCHANGED vars
    BY <1>3 DEF vars, ghosts, Shown, Replay
  <1> QED
    BY <1>1, <1>2, <1>3 DEF Next

\* The items as the properties read them.
LEMMA ShownIs ==
  ASSUME Shown
  PROVE  ShownOpen = OpenIn(view.items) /\ ShownAsks = AskedFor(view)
  <1>1. view \in View /\ view.items \in Seq(Item)
    BY ViewFields DEF Shown, ViewOK
  <1>2. ASSUME NEW i \in DOMAIN view.items, view.items[i].kind = "tools", NEW j \in DOMAIN view.items[i].calls
        PROVE  view.items[i].calls[j] \in Call /\ view.items[i].calls[j].tool \in Tools
    <2>1. view.items[i].calls \in Seq(Call)
      BY <1>1, <1>2, ItemIs
    <2>2. view.items[i].calls[j] \in Call
      BY <1>2, <2>1
    <2> QED
      BY <2>2 DEF Call
  <1>3. ShownOpen \subseteq OpenIn(view.items)
    BY <1>2 DEF ShownOpen, Calls, Range, OpenIn
  <1>4. OpenIn(view.items) \subseteq ShownOpen
    BY DEF ShownOpen, Calls, Range, OpenIn
  <1>5. ShownAsks = AskedFor(view)
    BY DEF ShownAsks, AskedFor, Cards
  <1> QED
    BY <1>3, <1>4, <1>5

LEMMA AlwaysShown == Spec => []Shown
  <1>1. Init => Shown
    BY ShownAtFirst, ConstantsOK
  <1>2. Shown /\ [Next]_vars => Shown'
    BY ShownAgain, ConstantsOK
  <1> QED
    BY <1>1, <1>2, PTL DEF Spec

(* The variables keep the shapes the code gives them: the transcript its     *)
(* kinds of items, whatever the events and the reader's steps (model.ts).    *)
THEOREM TypesCorrect == Spec => []TypeOK
  <1>1. Shown => TypeOK
    BY DEF Shown, WorkOK, ViewOK, DigestOK, Worker, View, Digest, TypeOK
  <1> QED
    BY <1>1, AlwaysShown, PTL

(* The calls shown as running are the worker's open calls and the ones it    *)
(* dropped, and the activity line names one of them (reduce, patchCall,      *)
(* endTurn, the hand-over of the line).                                      *)
THEOREM CallsAlwaysShown == Spec => []CallsShown
  <1>1. Shown => CallsShown
    BY ShownIs DEF Shown, ViewOK, CallsOK, CallsShown, ToolsExact, RunningLineHonest
  <1> QED
    BY <1>1, AlwaysShown, PTL

(* What waits for an answer can be answered from the transcript, nothing     *)
(* else can, and the badge and the row of the list agree (controlRequest,    *)
(* controlCancel, foldDigest, clearPendingApproval).                         *)
THEOREM AsksAlwaysShown == Spec => []AsksShown
  <1>1. ASSUME Shown PROVE AskShown /\ SheetHonest
    BY <1>1, ShownIs DEF Shown, ViewOK, AsksOK, AskShown, SheetHonest
  <1>2. ASSUME Shown PROVE BadgeExact /\ RowHonest
    BY <1>2 DEF Shown, DigestOK, BadgeExact, RowHonest
  <1>3. Shown => AsksShown
    BY <1>1, <1>2 DEF AsksShown
  <1> QED
    BY <1>3, AlwaysShown, PTL

-----------------------------------------------------------------------------
(* The messages drawn, the spinner and the Stop button *)

LEMMA PayloadIs ==
  ASSUME NEW p \in Payload
  PROVE  /\ p.type \in {"user_text", "tool_result", "tool_use", "can_use_tool", "control_cancel_request", "result",
                        "interrupt_notice", "command_echo", "assistant_text", "content_block_delta", "message_stop",
                        "post_turn_summary", "worker_shutting_down", "conversation_reset"}
         /\ p.type = "user_text" => p.text \in Texts /\ p = [type |-> "user_text", text |-> p.text]
         /\ p.type \in {"tool_result", "tool_use", "can_use_tool", "control_cancel_request"} => p.tool \in Tools
         /\ p.type \in {"tool_result", "result"} => p.failed \in BOOLEAN
  BY DEF Payload

LEMMA KeepsLess ==
  ASSUME NEW s, NEW t, NEW K, NEW L, L \subseteq K, Keeps(s, t, K)
  PROVE  Keeps(s, t, L)
  BY DEF Keeps

\* An event that is no message leaves the bubbles alone; only work makes a view busy, only an end makes it idle.
LEMMA ReducedRest ==
  ASSUME Asking \subseteq Tools, NEW v \in View, NEW p \in Payload, p.type # "user_text", NEW hist \in BOOLEAN,
         NEW w, w = reduce(v, p, hist)
  PROVE  /\ w \in View /\ w.pendingWeb = v.pendingWeb /\ Keeps(v.items, w.items, {"user"})
         /\ p.type \notin {"assistant_text", "content_block_delta", "message_stop", "result", "conversation_reset"}
              => Keeps(v.items, w.items, {"prose"})
         /\ EndsTurn(p) => ~w.busy
         /\ ~EndsTurn(p) /\ v.busy => w.busy
         /\ w.busy => v.busy \/ p.type \in {"tool_use", "content_block_delta"}
  <1> DEFINE plain == {"interrupt_notice", "command_echo", "assistant_text", "content_block_delta", "message_stop"}
             ends == {"conversation_reset", "result", "post_turn_summary", "worker_shutting_down"}
  <1>1. EndsTurn(p) <=> p.type \in ends
    BY DEF EndsTurn
  <1>2. CASE p.type \in plain
    <2>1. /\ w \in View /\ But(v, w, {"items", "busy"}) /\ Keeps(v.items, w.items, {"user", "tools", "question"})
          /\ v.busy => w.busy
          /\ w.busy => v.busy \/ p.type = "content_block_delta"
          /\ p.type \in {"interrupt_notice", "command_echo"} => Keeps(v.items, w.items, {"user", "prose", "tools", "question"})
      BY ONLY <1>2, v \in View, hist \in BOOLEAN, w = reduce(v, p, hist), ReducedPlain
    <2>2. /\ Keeps(v.items, w.items, {"user"})
          /\ p.type \in {"interrupt_notice", "command_echo"} => Keeps(v.items, w.items, {"prose"})
      BY <2>1, KeepsLess
    <2> QED
      BY <1>1, <1>2, <2>1, <2>2 DEF But
  <1>3. CASE p.type = "tool_use"
    <2>1. /\ w \in View /\ But(v, w, {"items", "running", "busy"}) /\ Keeps(v.items, w.items, {"user", "prose", "question"})
          /\ v.busy => w.busy
      BY <1>3, PayloadIs, ReducedUse
    <2>2. Keeps(v.items, w.items, {"user"}) /\ Keeps(v.items, w.items, {"prose"})
      BY <2>1, KeepsLess
    <2> QED
      BY <1>1, <1>3, <2>1, <2>2 DEF But
  <1>4. CASE p.type = "conversation_reset" \/ p.type = "result"
    <2>1. /\ w \in View /\ w.pendingWeb = v.pendingWeb /\ w.busy = FALSE /\ Keeps(v.items, w.items, {"user", "question"})
      <3>1. p.type = "conversation_reset" \/ (p.type = "result" /\ p.failed \in BOOLEAN)
        BY <1>4, PayloadIs
      <3> QED
        BY ONLY <3>1, v \in View, hist \in BOOLEAN, w = reduce(v, p, hist), ReducedEnd
    <2>2. Keeps(v.items, w.items, {"user"})
      BY <2>1, KeepsLess
    <2> QED
      BY <1>1, <1>4, <2>1, <2>2
  <1>5. CASE p.type \in {"post_turn_summary", "worker_shutting_down"}
    <2>1. /\ w \in View /\ w.pendingWeb = v.pendingWeb /\ w.busy = FALSE
          /\ Keeps(v.items, w.items, {"user", "prose", "tools", "question"})
      BY <1>5, ReducedIdle
    <2>2. Keeps(v.items, w.items, {"user"}) /\ Keeps(v.items, w.items, {"prose"})
      BY <2>1, KeepsLess
    <2> QED
      BY <1>1, <1>5, <2>1, <2>2
  <1>6. CASE p.type = "tool_result"
    <2>1. w = TakeToolResult(v, p.tool, p.failed) /\ p.tool \in Tools /\ p.failed \in BOOLEAN
      BY <1>6, PayloadIs DEF reduce
    <2>2. w \in View /\ w.pendingWeb = v.pendingWeb /\ w.busy = v.busy /\ Keeps(v.items, w.items, {"user"}) /\ Keeps(v.items, w.items, {"prose"})
      <3>1. CASE HasCard(v, p.tool)
        <4>1. w \in View /\ But(v, w, {"items", "permission"}) /\ Keeps(v.items, w.items, {"user", "prose", "tools"})
          BY ONLY <2>1, <3>1, v \in View, ResultOfCard
        <4>2. Keeps(v.items, w.items, {"user"}) /\ Keeps(v.items, w.items, {"prose"})
          BY <4>1, KeepsLess
        <4> QED
          BY <4>1, <4>2 DEF But
      <3>2. CASE ~HasCard(v, p.tool)
        <4>1. /\ w \in View /\ But(v, w, {"items", "running", "permission"})
              /\ Keeps(v.items, w.items, {"user", "prose", "question"})
          BY ONLY <2>1, <3>2, v \in View, Asking \subseteq Tools, ResultOfCall
        <4>2. Keeps(v.items, w.items, {"user"}) /\ Keeps(v.items, w.items, {"prose"})
          BY <4>1, KeepsLess
        <4> QED
          BY <4>1, <4>2 DEF But
      <3> QED
        BY <3>1, <3>2
    <2> QED
      BY <1>1, <1>6, <2>2
  <1>7. CASE p.type = "can_use_tool"
    <2>1. w = controlRequest(v, p.tool) /\ p.tool \in Tools
      BY <1>7, PayloadIs DEF reduce
    <2>2. w \in View /\ But(v, w, {"items", "permission"}) /\ Keeps(v.items, w.items, {"user"}) /\ Keeps(v.items, w.items, {"prose"})
      <3>1. CASE p.tool \in Asking
        <4>1. w \in View /\ But(v, w, {"items", "permission"}) /\ Keeps(v.items, w.items, {"user", "prose", "tools"})
          BY ONLY <2>1, <3>1, v \in View, Asking \subseteq Tools, RequestedCard
        <4> QED
          BY <4>1, KeepsLess
      <3>2. CASE p.tool \notin Asking
        <4>1. w \in View /\ But(v, w, {"items", "permission"}) /\ Keeps(v.items, w.items, {"user", "prose", "question"})
          BY ONLY <2>1, <3>2, v \in View, RequestedSheet
        <4> QED
          BY <4>1, KeepsLess
      <3> QED
        BY <3>1, <3>2
    <2> QED
      BY <1>1, <1>7, <2>2 DEF But
  <1>8. CASE p.type = "control_cancel_request"
    <2>1. w = controlCancel(v, p.tool) /\ p.tool \in Tools
      BY <1>8, PayloadIs DEF reduce
    <2>2. w \in View /\ But(v, w, {"items", "permission"}) /\ Keeps(v.items, w.items, {"user", "prose"})
      BY ONLY <2>1, v \in View, Cancelled
    <2>3. Keeps(v.items, w.items, {"user"}) /\ Keeps(v.items, w.items, {"prose"})
      BY <2>2, KeepsLess
    <2> QED
      BY <1>1, <1>8, <2>2, <2>3 DEF But
  <1> QED
    BY <1>2, <1>3, <1>4, <1>5, <1>6, <1>7, <1>8, PayloadIs

\* What every step of the worker tells, and what it does to the turn.
LEMMA Events ==
  ASSUME Shown, WorkerNext
  PROVE  \E p \in Payload :
           /\ Post(p)
           /\ p.type = "user_text" => worker'.turn
           /\ p.type \in {"tool_use", "content_block_delta"} => worker.turn
           /\ EndsTurn(p) => ~worker'.turn
           /\ p.type # "user_text" /\ ~EndsTurn(p) => worker'.turn = worker.turn
  <1> DEFINE Tells(p) ==
           /\ Post(p)
           /\ p.type = "user_text" => worker'.turn
           /\ p.type \in {"tool_use", "content_block_delta"} => worker.turn
           /\ EndsTurn(p) => ~worker'.turn
           /\ p.type # "user_text" /\ ~EndsTurn(p) => worker'.turn = worker.turn
  <1>1. worker \in Worker
    BY DEF Shown, WorkOK
  <1>2. ASSUME NEW t \in Texts, TakeTurn(t) PROVE \E p \in Payload : Tells(p)
    <2>1. [type |-> "user_text", text |-> t] \in Payload
      BY DEF Payload
    <2> QED
      BY <1>1, <1>2, <2>1 DEF TakeTurn, EndsTurn, Worker
  <1>3. ASSUME StreamText PROVE \E p \in Payload : Tells(p)
    <2>1. [type |-> "content_block_delta"] \in Payload
      BY DEF Payload
    <2> QED
      BY <1>1, <1>3, <2>1 DEF StreamText, Thinking, EndsTurn, Worker
  <1>4. ASSUME StopStreaming PROVE \E p \in Payload : Tells(p)
    <2>1. [type |-> "message_stop"] \in Payload
      BY DEF Payload
    <2> QED
      BY <1>1, <1>4, <2>1 DEF StopStreaming, EndsTurn, Worker
  <1>5. ASSUME SayText PROVE \E p \in Payload : Tells(p)
    <2>1. [type |-> "assistant_text"] \in Payload
      BY DEF Payload
    <2> QED
      BY <1>1, <1>5, <2>1 DEF SayText, EndsTurn, Worker
  <1>6. ASSUME NEW t \in Tools, UseTool(t) PROVE \E p \in Payload : Tells(p)
    <2>1. [type |-> "tool_use", tool |-> t] \in Payload
      BY DEF Payload
    <2> QED
      BY <1>1, <1>6, <2>1 DEF UseTool, Thinking, EndsTurn, Worker
  <1>7. ASSUME NEW t \in Tools, Ask(t) PROVE \E p \in Payload : Tells(p)
    <2>1. [type |-> "can_use_tool", tool |-> t] \in Payload
      BY DEF Payload
    <2> QED
      BY <1>1, <1>7, <2>1 DEF Ask, EndsTurn, Worker
  <1>8. ASSUME NEW t \in Tools, NEW failed \in BOOLEAN, FinishTool(t, failed) PROVE \E p \in Payload : Tells(p)
    <2>1. [type |-> "tool_result", tool |-> t, failed |-> failed] \in Payload
      BY DEF Payload
    <2> QED
      BY <1>1, <1>8, <2>1 DEF FinishTool, EndsTurn, Worker
  <1>9. ASSUME Withdraw PROVE \E p \in Payload : Tells(p)
    <2>1. [type |-> "control_cancel_request", tool |-> worker.waiting] \in Payload
      BY <1>1, <1>9 DEF Payload, Withdraw, Worker
    <2> QED
      BY <1>1, <1>9, <2>1 DEF Withdraw, EndsTurn, Worker
  <1>10. ASSUME NEW failed \in BOOLEAN, NEW late \in BOOLEAN, EndTurn(failed, late) PROVE \E p \in Payload : Tells(p)
    <2>1. [type |-> "result", failed |-> failed] \in Payload
      BY DEF Payload
    <2> QED
      BY <1>1, <1>10, <2>1 DEF EndTurn, EndsTurn, Worker
  <1>11. ASSUME Summarise PROVE \E p \in Payload : Tells(p)
    <2>1. [type |-> "post_turn_summary"] \in Payload
      BY DEF Payload
    <2> QED
      BY <1>1, <1>11, <2>1 DEF Summarise, EndsTurn, Worker
  <1>12. ASSUME InterruptNotice PROVE \E p \in Payload : Tells(p)
    <2>1. [type |-> "interrupt_notice"] \in Payload
      BY DEF Payload
    <2> QED
      BY <1>1, <1>12, <2>1 DEF InterruptNotice, EndsTurn, Worker
  <1>13. ASSUME CommandEcho PROVE \E p \in Payload : Tells(p)
    <2>1. [type |-> "command_echo"] \in Payload
      BY DEF Payload
    <2> QED
      BY <1>1, <1>13, <2>1 DEF CommandEcho, EndsTurn, Worker
  <1>14. ASSUME Reset PROVE \E p \in Payload : Tells(p)
    <2>1. [type |-> "conversation_reset"] \in Payload
      BY DEF Payload
    <2> QED
      BY <1>1, <1>14, <2>1 DEF Reset, EndsTurn, Worker
  <1>15. ASSUME ShutDown PROVE \E p \in Payload : Tells(p)
    <2>1. [type |-> "worker_shutting_down"] \in Payload
      BY DEF Payload
    <2> QED
      BY <1>1, <1>15, <2>1 DEF ShutDown, EndsTurn, idleWorker
  <1> QED
    BY <1>2, <1>3, <1>4, <1>5, <1>6, <1>7, <1>8, <1>9, <1>10, <1>11, <1>12, <1>13, <1>14, <1>15 DEF WorkerNext

\* A bubble for each message stored and each still to be echoed; none in a rebuilt
\* transcript waits.
Counted ==
  /\ \A t \in Texts : Drawn(view, t) = Cardinality(Said(history, t)) + Due(view, t) /\ Marked(view, t) <= Due(view, t)
  /\ \A t \in Texts : Drawn(Replay, t) = Cardinality(Said(history, t)) /\ Marked(Replay, t) = 0
  /\ Replay.pendingWeb = <<>>

TurnOK == Counted /\ SpinnerHonest /\ StopOffered

LEMMA SaidMore ==
  ASSUME NEW h \in Seq(Payload), NEW p \in Payload, NEW t \in Texts
  PROVE  /\ Cardinality(Said(h, t)) \in Nat
         /\ Cardinality(Said(Append(h, p), t)) = Cardinality(Said(h, t)) + (IF p = [type |-> "user_text", text |-> t] THEN 1 ELSE 0)
  <1>1. Said(h, t) \in SUBSET DOMAIN h
    BY DEF Said
  <1>2. Cardinality(Said(h, t)) \in Nat /\ Cardinality(Said(h, t) \cup {Len(h) + 1}) = Cardinality(Said(h, t)) + 1
    BY <1>1, Countable, OneMore
  <1> DEFINE u == Append(h, p)
             x == [type |-> "user_text", text |-> t]
  <1>3. /\ \A i \in DOMAIN h : i \in DOMAIN u /\ u[i] = h[i]
        /\ Len(h) + 1 \in DOMAIN u /\ u[Len(h) + 1] = p
        /\ \A i \in DOMAIN u : i \in DOMAIN h \/ i = Len(h) + 1
    BY Appended
  <1>4. Said(u, t) = {i \in DOMAIN u : u[i] = x} /\ Said(h, t) = {i \in DOMAIN h : h[i] = x}
    BY DEF Said
  <1> HIDE DEF u, x
  <1>5. CASE p = x
    <2>1. Said(u, t) = Said(h, t) \cup {Len(h) + 1}
      BY <1>3, <1>4, <1>5
    <2> QED
      BY <1>2, <1>5, <2>1 DEF u, x
  <1>6. CASE p # x
    <2>1. Said(u, t) = Said(h, t)
      BY <1>3, <1>4, <1>6
    <2> QED
      BY <1>2, <1>6, <2>1 DEF u, x
  <1> QED
    BY <1>5, <1>6

\* The same bubbles and the same echoes to come: the same counts.
LEMMA CountsKept ==
  ASSUME NEW v, NEW w, Keeps(v.items, w.items, {"user"}), w.pendingWeb = v.pendingWeb
  PROVE  \A t : Drawn(w, t) = Drawn(v, t) /\ Marked(w, t) = Marked(v, t) /\ Due(w, t) = Due(v, t)
  <1>1. \A t : Bub(w.items, t) = Bub(v.items, t) /\ Que(w.items, t) = Que(v.items, t)
    BY KeptBubbles
  <1> QED
    BY <1>1 DEF Drawn, Marked, Due

LEMMA NothingDue ==
  ASSUME NEW v, v.pendingWeb = <<>>
  PROVE  \A t : Due(v, t) = 0
  <1>1. \A t : Waits(v.pendingWeb, t) = {}
    BY DEF Waits
  <1> QED
    BY <1>1, FS_EmptySet DEF Due

LEMMA SaidKeepsCounts ==
  ASSUME Shown, Counted, NEW p \in Payload, Post(p), p.type = "user_text"
  PROVE  Counted'
  <1>1. PICK x \in Texts : p = [type |-> "user_text", text |-> x] /\ p.text = x
    BY PayloadIs
  <1>2. /\ \E f, t \in BOOLEAN : ~f /\ t /\ view' = reduce(view, p, f) /\ Replay' = reduce(Replay, p, t)
        /\ history \in Seq(Payload) /\ history' = Append(history, p)
    BY Stored
  <1>3. PICK f, t \in BOOLEAN : ~f /\ t /\ view' = reduce(view, p, f) /\ Replay' = reduce(Replay, p, t)
    BY <1>2
  <1>4. view \in View /\ Replay \in View
    BY DEF Shown, ViewOK
  <1>5. view' = TakeUserText(view, x, f) /\ Replay' = TakeUserText(Replay, x, t)
    BY <1>1, <1>3 DEF reduce
  <1>6. /\ view' \in View
        /\ Drawn(view', x) - Due(view', x) = Drawn(view, x) - Due(view, x) + 1
        /\ \A y \in Texts : y # x => Drawn(view', y) = Drawn(view, y) /\ Due(view', y) = Due(view, y) /\ Marked(view', y) = Marked(view, y)
        /\ Marked(view, x) <= Due(view, x) => Marked(view', x) <= Due(view', x)
    <2>1. view' \in View
      BY ONLY <1>4, <1>5, f \in BOOLEAN, x \in Texts, TakenUserText
    <2>2. Drawn(view', x) - Due(view', x) = Drawn(view, x) - Due(view, x) + 1
      BY ONLY <1>4, <1>5, f \in BOOLEAN, x \in Texts, TakenUserText
    <2>3. CountsBut(view, view', x)
      BY ONLY <1>4, <1>5, f \in BOOLEAN, x \in Texts, TakenUserText
    <2>4. Marked(view, x) <= Due(view, x) => Marked(view', x) <= Due(view', x)
      BY ONLY <1>4, <1>5, f \in BOOLEAN, x \in Texts, TakenUserText
    <2> QED
      BY <2>1, <2>2, <2>3, <2>4 DEF CountsBut
  <1>7. /\ Replay' \in View /\ (t => Replay'.pendingWeb = Replay.pendingWeb)
        /\ Drawn(Replay', x) - Due(Replay', x) = Drawn(Replay, x) - Due(Replay, x) + 1
        /\ \A y \in Texts : y # x => Drawn(Replay', y) = Drawn(Replay, y) /\ Marked(Replay', y) = Marked(Replay, y)
        /\ Marked(Replay, x) = 0 => Marked(Replay', x) = 0
    <2>1. Replay' \in View /\ (t => Replay'.pendingWeb = Replay.pendingWeb)
      BY ONLY <1>4, <1>5, t \in BOOLEAN, x \in Texts, TakenUserText
    <2>2. Drawn(Replay', x) - Due(Replay', x) = Drawn(Replay, x) - Due(Replay, x) + 1
      BY ONLY <1>4, <1>5, t \in BOOLEAN, x \in Texts, TakenUserText
    <2>3. CountsBut(Replay, Replay', x)
      BY ONLY <1>4, <1>5, t \in BOOLEAN, x \in Texts, TakenUserText
    <2>4. Marked(Replay, x) = 0 => Marked(Replay', x) = 0
      BY ONLY <1>4, <1>5, t \in BOOLEAN, x \in Texts, TakenUserText
    <2> QED
      BY <2>1, <2>2, <2>3, <2>4 DEF CountsBut
  <1>8. \A y \in Texts : Cardinality(Said(history, y)) \in Nat
          /\ Cardinality(Said(history', y)) = Cardinality(Said(history, y)) + (IF y = x THEN 1 ELSE 0)
    <2>1. \A y \in Texts : (p = [type |-> "user_text", text |-> y]) <=> (y = x)
      BY <1>1
    <2> QED
      BY <1>2, <2>1, SaidMore
  <1>9. Replay'.pendingWeb = <<>> /\ Due(Replay, x) = 0 /\ Due(Replay', x) = 0
    BY <1>3, <1>7, NothingDue DEF Counted
  <1>10. \A y : /\ Drawn(view, y) \in Nat /\ Due(view, y) \in Nat /\ Drawn(view', y) \in Nat /\ Due(view', y) \in Nat
                /\ Drawn(Replay, y) \in Nat /\ Drawn(Replay', y) \in Nat
    BY <1>4, <1>6, <1>7, AllCounted
  <1>11. \A y \in Texts : Drawn(view', y) = Cardinality(Said(history', y)) + Due(view', y) /\ Marked(view', y) <= Due(view', y)
    <2> TAKE y \in Texts
    <2>1. CASE y = x
      BY <1>6, <1>8, <1>10, <2>1 DEF Counted
    <2>2. CASE y # x
      BY <1>6, <1>8, <1>10, <2>2 DEF Counted
    <2> QED
      BY <2>1, <2>2
  <1>12. \A y \in Texts : Drawn(Replay', y) = Cardinality(Said(history', y)) /\ Marked(Replay', y) = 0
    <2> TAKE y \in Texts
    <2>1. CASE y = x
      BY <1>7, <1>8, <1>9, <1>10, <2>1 DEF Counted
    <2>2. CASE y # x
      BY <1>7, <1>8, <1>10, <2>2 DEF Counted
    <2> QED
      BY <2>1, <2>2
  <1> QED
    BY <1>9, <1>11, <1>12 DEF Counted

LEMMA RestKeepsCounts ==
  ASSUME Asking \subseteq Tools, Shown, Counted, NEW p \in Payload, Post(p), p.type # "user_text"
  PROVE  Counted'
  <1>1. view \in View /\ Replay \in View /\ history \in Seq(Payload)
    BY DEF Shown, ViewOK, WorkOK
  <1>2. ASSUME NEW v \in View, NEW hist \in BOOLEAN, NEW w, w = reduce(v, p, hist)
        PROVE  /\ w.pendingWeb = v.pendingWeb
               /\ \A t : Drawn(w, t) = Drawn(v, t) /\ Marked(w, t) = Marked(v, t) /\ Due(w, t) = Due(v, t)
    <2>1. Keeps(v.items, w.items, {"user"}) /\ w.pendingWeb = v.pendingWeb
      BY <1>2, ReducedRest
    <2> QED
      BY <2>1, CountsKept
  <1>3. \E f \in BOOLEAN : view' = reduce(view, p, f)
    BY DEF Post
  <1>4. \A t : Drawn(view', t) = Drawn(view, t) /\ Marked(view', t) = Marked(view, t) /\ Due(view', t) = Due(view, t)
    BY <1>1, <1>2, <1>3
  <1>5. /\ Replay'.pendingWeb = Replay.pendingWeb
        /\ \A t : Drawn(Replay', t) = Drawn(Replay, t) /\ Marked(Replay', t) = Marked(Replay, t)
        /\ \A t \in Texts : Cardinality(Said(history', t)) = Cardinality(Said(history, t))
    <2>1. CASE p.type \in {"content_block_delta", "message_stop"}
      BY <2>1, Streamed
    <2>2. CASE p.type \notin {"content_block_delta", "message_stop"}
      <3>1. /\ \E f, t \in BOOLEAN : ~f /\ t /\ view' = reduce(view, p, f) /\ Replay' = reduce(Replay, p, t)
            /\ history' = Append(history, p)
        BY <2>2, Stored
      <3>2. \A t \in Texts : p # [type |-> "user_text", text |-> t]
        OBVIOUS
      <3>3. \A t \in Texts : Cardinality(Said(history', t)) = Cardinality(Said(history, t))
        BY <1>1, <3>1, <3>2, SaidMore
      <3>4. PICK r \in BOOLEAN : Replay' = reduce(Replay, p, r)
        BY <3>1
      <3>5. /\ Replay'.pendingWeb = Replay.pendingWeb
            /\ \A t : Drawn(Replay', t) = Drawn(Replay, t) /\ Marked(Replay', t) = Marked(Replay, t)
        BY <1>1, <1>2, <3>4
      <3> QED
        BY <3>3, <3>5
    <2> QED
      BY <2>1, <2>2
  <1> QED
    BY <1>4, <1>5 DEF Counted

LEMMA QuietKeepsCounts ==
  ASSUME Counted, history' = history, Keeps(view.items, view'.items, {"user"}), view'.pendingWeb = view.pendingWeb
  PROVE  Counted'
  <1>1. \A t : Drawn(view', t) = Drawn(view, t) /\ Marked(view', t) = Marked(view, t) /\ Due(view', t) = Due(view, t)
    BY CountsKept
  <1> QED
    BY <1>1 DEF Counted, Replay

LEMMA SendKeepsCounts ==
  ASSUME Shown, Counted, NEW text \in Texts, NEW delivered \in BOOLEAN, SendMessage(text, delivered)
  PROVE  Counted' /\ view'.busy /\ view'.pendingWeb # <<>>
  <1>1. view' = localSend(view, text, view.busy) /\ history' = history
    BY DEF SendMessage
  <1>2. view \in View /\ view.busy \in BOOLEAN /\ history \in Seq(Payload)
    BY ViewFields DEF Shown, ViewOK, WorkOK
  <1>3. view' \in View /\ view'.busy = TRUE /\ view'.pendingWeb # <<>>
    BY ONLY <1>1, <1>2, text \in Texts, SentLocally
  <1>4. Drawn(view', text) = Drawn(view, text) + 1 /\ Due(view', text) = Due(view, text) + 1 /\ CountsBut(view, view', text)
    BY ONLY <1>1, <1>2, text \in Texts, SentLocally
  <1>5. Marked(view', text) = Marked(view, text) + (IF view.busy THEN 1 ELSE 0)
    BY ONLY <1>1, <1>2, text \in Texts, SentLocally
  <1>6. \A y : Drawn(view, y) \in Nat /\ Due(view, y) \in Nat /\ Marked(view, y) \in Nat
    BY <1>2, AllCounted
  <1>7. \A y \in Texts : Cardinality(Said(history, y)) \in Nat
    <2>1. \A y \in Texts : Said(history, y) \in SUBSET DOMAIN history
      BY DEF Said
    <2> QED
      BY <1>2, <2>1, Countable
  <1>8. \A y \in Texts : Drawn(view', y) = Cardinality(Said(history, y)) + Due(view', y) /\ Marked(view', y) <= Due(view', y)
    <2> TAKE y \in Texts
    <2>1. CASE y = text
      BY <1>4, <1>5, <1>6, <1>7, <2>1 DEF Counted
    <2>2. CASE y # text
      BY <1>4, <2>2 DEF Counted, CountsBut
    <2> QED
      BY <2>1, <2>2
  <1> QED
    BY <1>1, <1>3, <1>8 DEF Counted, Replay

LEMMA ReopenKeepsCounts ==
  ASSUME Shown, Counted, Reopen
  PROVE  Counted' /\ view'.pendingWeb = <<>> /\ view'.busy = (~worker.gone /\ turnActiveIn(history))
  <1> DEFINE q == ~worker.gone /\ turnActiveIn(history)
  <1>1. view' = [Replay EXCEPT !.busy = q] /\ history' = history
    BY DEF Reopen, Replay
  <1>2. Replay \in View /\ q \in BOOLEAN
    BY DEF Shown, ViewOK
  <1>3. q = (~worker.gone /\ turnActiveIn(history))
    OBVIOUS
  <1> HIDE DEF q
  <1>4. view' \in View /\ view'.busy = q /\ But(Replay, view', {"busy"})
    BY <1>1, <1>2, WithBusy
  <1>5. view'.items = Replay.items /\ view'.pendingWeb = <<>>
    BY <1>4 DEF But, Counted
  <1>6. \A t : Drawn(view', t) = Drawn(Replay, t) /\ Marked(view', t) = Marked(Replay, t) /\ Due(view', t) = 0
    BY <1>5, NothingDue DEF Drawn, Marked
  <1>7. \A t \in Texts : Drawn(Replay, t) \in Nat
    BY <1>2, AllCounted
  <1>8. \A t \in Texts : Drawn(view', t) = Cardinality(Said(history, t)) + Due(view', t) /\ Marked(view', t) <= Due(view', t)
    BY <1>6, <1>7 DEF Counted
  <1>9. Counted'
    BY <1>1, <1>8 DEF Counted, Replay
  <1> QED
    BY <1>3, <1>4, <1>5, <1>9

\* An answer takes its ask off the screen and leaves the rest.
LEMMA AnswersKeep ==
  ASSUME ConstantsOK, Shown, NEW reach,
         AnswerPermission(reach) \/ \E tool \in Asking : AnswerCard(tool, reach)
  PROVE  /\ But(view, view', {"items", "permission"}) /\ Keeps(view.items, view'.items, {"user", "prose"})
         /\ history' = history /\ worker'.turn = worker.turn /\ misled' = misled /\ unarmed' = unarmed /\ local'
  <1>1. \A tool : Answer(tool, reach) =>
          history' = history /\ worker'.turn = worker.turn /\ misled' = misled /\ unarmed' = unarmed /\ local'
    BY DEF Answer, Shown, WorkOK, Worker
  <1>2. view \in View
    BY DEF Shown, ViewOK
  <1>3. CASE AnswerPermission(reach)
    <2>1. view' = [patchCall(view, view.permission, "running") EXCEPT !.permission = None] /\ Answer(view.permission, reach)
      BY <1>3 DEF AnswerPermission, clearPermission
    <2>2. But(view, view', {"items", "permission"}) /\ Keeps(view.items, view'.items, {"user", "prose", "question"})
      BY <1>2, <2>1, Released
    <2> QED
      BY <1>1, <2>1, <2>2, KeepsLess
  <1>4. ASSUME NEW tool \in Asking, AnswerCard(tool, reach)
        PROVE  But(view, view', {"items", "permission"}) /\ Keeps(view.items, view'.items, {"user", "prose"}) /\ Answer(tool, reach)
    <2>1. view' = SettleCard(view, tool) /\ Answer(tool, reach)
      BY <1>4 DEF AnswerCard
    <2>2. But(view, view', {"items"}) /\ Keeps(view.items, view'.items, {"user", "prose", "tools"})
      BY <1>2, <2>1, SettledCard
    <2> QED
      BY <2>1, <2>2, KeepsLess, ButMore
  <1> QED
    BY <1>1, <1>3, <1>4

LEMMA WorkerKeepsTurn ==
  ASSUME ConstantsOK, Shown, TurnOK, WorkerNext
  PROVE  TurnOK'
  <1>1. PICK p \in Payload :
          /\ Post(p)
          /\ p.type = "user_text" => worker'.turn
          /\ p.type \in {"tool_use", "content_block_delta"} => worker.turn
          /\ EndsTurn(p) => ~worker'.turn
          /\ p.type # "user_text" /\ ~EndsTurn(p) => worker'.turn = worker.turn
    BY Events
  <1>2. Asking \subseteq Tools /\ view \in View
    BY DEF ConstantsOK, Shown, ViewOK
  <1>3. /\ view' = reduce(view, p, FALSE)
        /\ unarmed' = (~view'.busy /\ (unarmed \/ p.type = "user_text"))
        /\ misled' = (misled /\ view'.busy)
    BY <1>1 DEF Post
  <1>4. CASE p.type = "user_text"
    <2>1. Counted'
      BY <1>1, <1>4, SaidKeepsCounts DEF TurnOK
    <2>2. SpinnerHonest' /\ StopOffered'
      BY <1>1, <1>3, <1>4 DEF SpinnerHonest, StopOffered
    <2> QED
      BY <2>1, <2>2 DEF TurnOK
  <1>5. CASE p.type # "user_text"
    <2>1. Counted'
      BY <1>1, <1>2, <1>5, RestKeepsCounts DEF TurnOK
    <2>2. /\ view'.pendingWeb = view.pendingWeb
          /\ EndsTurn(p) => ~view'.busy
          /\ ~EndsTurn(p) /\ view.busy => view'.busy
          /\ view'.busy => view.busy \/ p.type \in {"tool_use", "content_block_delta"}
      <3>1. \E f \in BOOLEAN : view' = reduce(view, p, f)
        BY <1>3
      <3> QED
        BY <1>2, <1>5, <3>1, ReducedRest
    <2>3. SpinnerHonest'
      BY <1>1, <1>3, <1>5, <2>2 DEF TurnOK, SpinnerHonest
    <2>4. StopOffered'
      BY <1>1, <1>3, <1>5, <2>2 DEF TurnOK, StopOffered
    <2> QED
      BY <2>1, <2>3, <2>4 DEF TurnOK
  <1> QED
    BY <1>4, <1>5

LEMMA ReaderKeepsTurn ==
  ASSUME ConstantsOK, Shown, TurnOK, ReaderNext
  PROVE  TurnOK'
  <1>1. ASSUME NEW text \in Texts, NEW delivered \in BOOLEAN, SendMessage(text, delivered) PROVE TurnOK'
    <2>1. Counted' /\ view'.busy /\ view'.pendingWeb # <<>>
      BY <1>1, SendKeepsCounts DEF TurnOK
    <2> QED
      BY <2>1 DEF TurnOK, SpinnerHonest, StopOffered
  <1>2. ASSUME NEW reach, AnswerPermission(reach) \/ \E tool \in Asking : AnswerCard(tool, reach) PROVE TurnOK'
    <2>1. /\ But(view, view', {"items", "permission"}) /\ Keeps(view.items, view'.items, {"user", "prose"})
          /\ history' = history /\ worker'.turn = worker.turn /\ misled' = misled /\ unarmed' = unarmed
      BY <1>2, AnswersKeep
    <2>2. Keeps(view.items, view'.items, {"user"}) /\ view'.busy = view.busy /\ view'.pendingWeb = view.pendingWeb
      BY <2>1, KeepsLess DEF But
    <2>3. Counted'
      BY <2>1, <2>2, QuietKeepsCounts DEF TurnOK
    <2> QED
      BY <2>1, <2>2, <2>3 DEF TurnOK, SpinnerHonest, StopOffered
  <1>3. ASSUME Stop PROVE TurnOK'
    <2>1. view' = [view EXCEPT !.busy = FALSE, !.running = None] /\ unarmed' /\ history' = history
      BY <1>3 DEF Stop
    <2>2. view'.items = view.items /\ view'.pendingWeb = view.pendingWeb /\ view'.busy = FALSE
      BY <2>1 DEF Shown, ViewOK, View
    <2>3. Counted'
      BY <2>1, <2>2, KeepsSame, QuietKeepsCounts DEF TurnOK
    <2> QED
      BY <2>1, <2>2, <2>3 DEF TurnOK, SpinnerHonest, StopOffered
  <1>4. ASSUME Reopen PROVE TurnOK'
    <2>1. Counted' /\ view'.busy = (~worker.gone /\ turnActiveIn(history))
      BY <1>4, ReopenKeepsCounts DEF TurnOK
    <2>2. misled' = (view'.busy /\ ~digest.turnActive) /\ worker' = worker
      BY <1>4 DEF Reopen
    <2>3. (worker.gone => ~worker.turn) /\ (worker.turn => turnActiveIn(history)) /\ (digest.turnActive => worker.turn)
      BY DEF Shown, WorkOK, DigestOK
    <2> QED
      BY <2>1, <2>2, <2>3 DEF TurnOK, SpinnerHonest, StopOffered
  <1> QED
    BY <1>1, <1>2, <1>3, <1>4 DEF ReaderNext

LEMMA AlwaysTurn == Spec => []TurnOK
  <1>1. Init => TurnOK
    <2> SUFFICES ASSUME Init PROVE TurnOK
      OBVIOUS
    <2>1. view = initialState /\ history = <<>> /\ Replay = initialState /\ ~worker.turn
      BY ReplayNothing DEF Init, Replay, idleWorker
    <2>2. \A t : Drawn(initialState, t) = 0 /\ Marked(initialState, t) = 0 /\ Due(initialState, t) = 0
      <3>1. \A t : Bub(<<>>, t) = {} /\ Que(<<>>, t) = {} /\ Waits(<<>>, t) = {}
        BY DEF Bub, Que, Waits
      <3> QED
        BY <3>1, Initially, FS_EmptySet DEF Drawn, Marked, Due
    <2>3. \A t : Cardinality(Said(<<>>, t)) = 0
      <3>1. \A t : Said(<<>>, t) = {}
        BY DEF Said
      <3> QED
        BY <3>1, FS_EmptySet
    <2>4. Counted
      BY <2>1, <2>2, <2>3, Initially DEF Counted
    <2> QED
      BY <2>1, <2>4, Initially DEF TurnOK, SpinnerHonest, StopOffered
  <1>2. Shown /\ TurnOK /\ [Next]_vars => TurnOK'
    <2> SUFFICES ASSUME Shown, TurnOK, [Next]_vars PROVE TurnOK'
      OBVIOUS
    <2>1. CASE UNCHANGED vars
      BY <2>1 DEF vars, ghosts, TurnOK, Counted, Replay, SpinnerHonest, StopOffered
    <2> QED
      BY <2>1, ConstantsOK, WorkerKeepsTurn, ReaderKeepsTurn DEF Next
  <1> QED
    BY <1>1, <1>2, AlwaysShown, PTL DEF Spec

(* Each message is drawn once, none is marked as waiting longer than it does,  *)
(* and the spinner and the Stop button are there while there is work and no    *)
(* longer (localSend, reduce, settleQueued, turnActiveIn), save for the two    *)
(* exceptions the variables unarmed and misled record.                         *)
THEOREM TurnAlwaysShown == Spec => []TurnShown
  <1>1. TurnOK => TurnShown
    <2> SUFFICES ASSUME TurnOK PROVE TurnShown
      OBVIOUS
    <2>1. BubblesMatchTurns
      BY DEF TurnOK, Counted, BubblesMatchTurns, Count, Drawn, Bub, Said, Due, Waits
    <2>2. QueuedMeansPending
      BY DEF TurnOK, Counted, QueuedMeansPending, Count, Marked, Que, Due, Waits
    <2> QED
      BY <2>1, <2>2 DEF TurnOK, TurnShown
  <1> QED
    BY <1>1, AlwaysTurn, PTL

-----------------------------------------------------------------------------
(* The transcript rebuilt from the store is the one that was seen *)

LEMMA SameSeq ==
  ASSUME NEW S, NEW s \in Seq(S), NEW T, NEW t \in Seq(T), DOMAIN s = DOMAIN t, \A i \in DOMAIN s : s[i] = t[i]
  PROVE  s = t
  <1>1. /\ Len(s) \in Nat /\ Len(t) \in Nat /\ DOMAIN s = 1 .. Len(s) /\ DOMAIN t = 1 .. Len(t)
        /\ s = [i \in 1 .. Len(s) |-> s[i]] /\ t = [i \in 1 .. Len(t) |-> t[i]]
    OBVIOUS
  <1>2. Len(s) = Len(t)
    BY <1>1
  <1>3. [i \in 1 .. Len(s) |-> s[i]] = [i \in 1 .. Len(s) |-> t[i]]
    BY <1>1
  <1> QED
    BY <1>1, <1>2, <1>3

AllFinal(s) == \A i \in DOMAIN s : s[i].kind = "prose" => s[i].state = "final"

\* What the reader sees of both is the same, and neither waits for an echo.
Same(v, r) == v.items = r.items /\ v.permission = r.permission /\ v.pendingWeb = <<>> /\ r.pendingWeb = <<>>

LEMMA SettledSame ==
  ASSUME NEW v \in View, NEW r \in View, v.items = r.items, NEW tool
  PROVE  SettleCard(v, tool).items = SettleCard(r, tool).items
  <1> DEFINE w == SettleCard(v, tool)
             z == SettleCard(r, tool)
  <1>1. w = SettleCard(v, tool) /\ z = SettleCard(r, tool)
    OBVIOUS
  <1> HIDE DEF w, z
  <1>2. /\ w \in View /\ DOMAIN w.items = DOMAIN v.items
        /\ \A i \in DOMAIN v.items : w.items[i] = SettledItem(v.items[i], tool)
    BY ONLY <1>1, v \in View, SettledCard
  <1>3. /\ z \in View /\ DOMAIN z.items = DOMAIN r.items
        /\ \A i \in DOMAIN r.items : z.items[i] = SettledItem(r.items[i], tool)
    BY ONLY <1>1, r \in View, SettledCard
  <1>4. w.items \in Seq(Item) /\ z.items \in Seq(Item)
    BY <1>2, <1>3, ViewFields
  <1>5. \A i \in DOMAIN w.items : w.items[i] = z.items[i]
    BY <1>2, <1>3
  <1> QED
    BY <1>1, <1>2, <1>3, <1>4, <1>5, SameSeq

LEMMA PatchedSame ==
  ASSUME NEW v \in View, NEW r \in View, v.items = r.items, NEW tool, NEW status \in Statuses
  PROVE  patchCall(v, tool, status).items = patchCall(r, tool, status).items
  <1> DEFINE w == patchCall(v, tool, status)
             z == patchCall(r, tool, status)
  <1>1. w = patchCall(v, tool, status) /\ z = patchCall(r, tool, status)
    OBVIOUS
  <1> HIDE DEF w, z
  <1>2. /\ w \in View /\ DOMAIN w.items = DOMAIN v.items
        /\ \A i \in DOMAIN v.items : w.items[i] = PatchedItem(v.items[i], tool, status)
    BY <1>1, PatchedCall
  <1>3. /\ z \in View /\ DOMAIN z.items = DOMAIN r.items
        /\ \A i \in DOMAIN r.items : z.items[i] = PatchedItem(r.items[i], tool, status)
    BY <1>1, PatchedCall
  <1>4. w.items \in Seq(Item) /\ z.items \in Seq(Item)
    BY <1>2, <1>3, ViewFields
  <1>5. \A i \in DOMAIN w.items : w.items[i] = z.items[i]
    BY <1>2, <1>3
  <1> QED
    BY <1>1, <1>2, <1>3, <1>4, <1>5, SameSeq

LEMMA EndedSame ==
  ASSUME NEW v \in View, NEW r \in View, v.items = r.items, NEW failed \in BOOLEAN
  PROVE  endTurn(v, failed).items = endTurn(r, failed).items
  <1> DEFINE w == endTurn(v, failed)
             z == endTurn(r, failed)
  <1>1. w = endTurn(v, failed) /\ z = endTurn(r, failed)
    OBVIOUS
  <1> HIDE DEF w, z
  <1>2. w \in View /\ DOMAIN w.items = DOMAIN v.items /\ Ended(v.items, w.items, failed)
    BY ONLY <1>1, v \in View, failed \in BOOLEAN, EndedTurn
  <1>3. z \in View /\ DOMAIN z.items = DOMAIN r.items /\ Ended(r.items, z.items, failed)
    BY ONLY <1>1, r \in View, failed \in BOOLEAN, EndedTurn
  <1>4. w.items \in Seq(Item) /\ z.items \in Seq(Item)
    BY <1>2, <1>3, ViewFields
  <1>5. \A i \in DOMAIN w.items : w.items[i] = z.items[i]
    BY <1>2, <1>3 DEF Ended
  <1> QED
    BY <1>1, <1>2, <1>3, <1>4, <1>5, SameSeq

\* What the views share: whether a card, a sheet or a tail is there.
LEMMA SameLook ==
  ASSUME NEW v, NEW r, v.items = r.items
  PROVE  /\ \A tool : HasCard(v, tool) <=> HasCard(r, tool)
         /\ \A k : TailIs(v, k) <=> TailIs(r, k)
  BY DEF HasCard, TailIs

LEMMA AgreedCalls ==
  ASSUME Asking \subseteq Tools, NEW v \in View, NEW r \in View, Same(v, r), NEW tool \in Tools, NEW failed \in BOOLEAN
  PROVE  /\ Same(TakeToolResult(v, tool, failed), TakeToolResult(r, tool, failed))
         /\ Same(controlRequest(v, tool), controlRequest(r, tool))
         /\ Same(controlCancel(v, tool), controlCancel(r, tool))
         /\ addToolCall(v, tool).items = addToolCall(r, tool).items
  <1>1. /\ v.items = r.items /\ v.permission = r.permission /\ v.pendingWeb = <<>> /\ r.pendingWeb = <<>>
        /\ HasCard(v, tool) <=> HasCard(r, tool)
        /\ TailIs(v, "tools") <=> TailIs(r, "tools")
    BY SameLook DEF Same
  <1>2. Same(TakeToolResult(v, tool, failed), TakeToolResult(r, tool, failed))
    <2> DEFINE u == closeOpenPermission(v, tool)
               y == closeOpenPermission(r, tool)
               w == TakeToolResult(v, tool, failed)
               z == TakeToolResult(r, tool, failed)
               st == IF failed THEN "error" ELSE "ok"
    <2>1. u = closeOpenPermission(v, tool) /\ y = closeOpenPermission(r, tool) /\ st \in Statuses
          /\ w = TakeToolResult(v, tool, failed) /\ z = TakeToolResult(r, tool, failed)
      BY DEF Statuses
    <2>2. /\ HasCard(v, tool) => w.items = SettleCard(u, tool).items /\ z.items = SettleCard(y, tool).items
          /\ ~HasCard(v, tool) => w.items = patchCall(u, tool, st).items /\ z.items = patchCall(y, tool, st).items
      <3>1. CASE HasCard(v, tool)
        BY <1>1, <3>1, ResultOfCard
      <3>2. CASE ~HasCard(v, tool)
        BY <1>1, <3>2, ResultOfCall
      <3> QED
        BY <3>1, <3>2
    <2> HIDE DEF u, y, w, z, st
    <2>3. u \in View /\ u.items = v.items /\ y \in View /\ y.items = r.items
      BY <2>1, ClosedPermission
    <2>4. w.items = z.items
      BY <1>1, <2>1, <2>2, <2>3, SettledSame, PatchedSame
    <2>5. /\ w.permission = (IF v.permission = tool THEN None ELSE v.permission) /\ w.pendingWeb = v.pendingWeb
          /\ z.permission = (IF r.permission = tool THEN None ELSE r.permission) /\ z.pendingWeb = r.pendingWeb
      <3>1. CASE HasCard(v, tool)
        <4>1. /\ w.permission = (IF v.permission = tool THEN None ELSE v.permission) /\ But(v, w, {"items", "permission"})
          BY ONLY <2>1, <3>1, v \in View, tool \in Tools, failed \in BOOLEAN, ResultOfCard
        <4>2. /\ z.permission = (IF r.permission = tool THEN None ELSE r.permission) /\ But(r, z, {"items", "permission"})
          BY ONLY <1>1, <2>1, <3>1, r \in View, tool \in Tools, failed \in BOOLEAN, ResultOfCard
        <4> QED
          BY <4>1, <4>2 DEF But
      <3>2. CASE ~HasCard(v, tool)
        <4>1. /\ w.permission = (IF v.permission = tool THEN None ELSE v.permission)
              /\ But(v, w, {"items", "running", "permission"})
          BY ONLY <2>1, <3>2, Asking \subseteq Tools, v \in View, tool \in Tools, failed \in BOOLEAN, ResultOfCall
        <4>2. /\ z.permission = (IF r.permission = tool THEN None ELSE r.permission)
              /\ But(r, z, {"items", "running", "permission"})
          BY ONLY <1>1, <2>1, <3>2, Asking \subseteq Tools, r \in View, tool \in Tools, failed \in BOOLEAN, ResultOfCall
        <4> QED
          BY <4>1, <4>2 DEF But
      <3> QED
        BY <3>1, <3>2
    <2> QED
      BY <1>1, <2>1, <2>4, <2>5 DEF Same
  <1>3. Same(controlRequest(v, tool), controlRequest(r, tool))
    <2> DEFINE w == controlRequest(v, tool)
               z == controlRequest(r, tool)
    <2>1. w = controlRequest(v, tool) /\ z = controlRequest(r, tool)
      OBVIOUS
    <2>2. CASE tool \in Asking /\ HasCard(v, tool)
      BY <1>1, <2>2 DEF controlRequest, Same
    <2>3. CASE tool \in Asking /\ ~HasCard(v, tool)
      <3>1. CardOf(tool) \in Item
        BY <2>3, ItemsAre
      <3>2. w = push(v, CardOf(tool)) /\ z = push(r, CardOf(tool))
        BY <1>1, <2>3 DEF controlRequest
      <3> HIDE DEF w, z
      <3>3. /\ w.items = Append(v.items, CardOf(tool)) /\ But(v, w, {"items"})
            /\ z.items = Append(r.items, CardOf(tool)) /\ But(r, z, {"items"})
        BY <3>1, <3>2, Pushed
      <3> QED
        BY <1>1, <2>1, <3>3 DEF But, Same
    <2>4. CASE tool \notin Asking
      <3> HIDE DEF w, z
      <3>1. /\ w.items = patchCall(v, tool, "awaiting").items /\ w.permission = tool /\ But(v, w, {"items", "permission"})
        BY ONLY <2>1, <2>4, v \in View, tool \in Tools, RequestedSheet
      <3>2. /\ z.items = patchCall(r, tool, "awaiting").items /\ z.permission = tool /\ But(r, z, {"items", "permission"})
        BY ONLY <2>1, <2>4, r \in View, tool \in Tools, RequestedSheet
      <3>3. "awaiting" \in Statuses
        BY DEF Statuses, OpenStatus
      <3>4. w.items = z.items
        BY <1>1, <3>1, <3>2, <3>3, PatchedSame
      <3> QED
        BY <1>1, <2>1, <3>1, <3>2, <3>4 DEF But, Same
    <2> QED
      BY <2>2, <2>3, <2>4
  <1>4. Same(controlCancel(v, tool), controlCancel(r, tool))
    <2> DEFINE u == IF v.permission = tool THEN [patchCall(v, tool, "running") EXCEPT !.permission = None] ELSE v
               y == IF r.permission = tool THEN [patchCall(r, tool, "running") EXCEPT !.permission = None] ELSE r
               w == controlCancel(v, tool)
               z == controlCancel(r, tool)
    <2>1. w = SettleCard(u, tool) /\ z = SettleCard(y, tool)
      BY DEF controlCancel
    <2>2. u \in View /\ y \in View /\ u.items = y.items /\ u.permission = y.permission
          /\ u.pendingWeb = <<>> /\ y.pendingWeb = <<>>
      <3>1. CASE v.permission = tool
        <4>1. u = [patchCall(v, tool, "running") EXCEPT !.permission = None]
              /\ y = [patchCall(r, tool, "running") EXCEPT !.permission = None]
          BY <1>1, <3>1
        <4>2. "running" \in Statuses
          BY DEF Statuses, OpenStatus
        <4> HIDE DEF u, y
        <4>3. /\ u \in View /\ But(v, u, {"items", "permission"}) /\ u.permission = None
              /\ u.items = patchCall(v, tool, "running").items
          BY ONLY <4>1, v \in View, Released
        <4>4. /\ y \in View /\ But(r, y, {"items", "permission"}) /\ y.permission = None
              /\ y.items = patchCall(r, tool, "running").items
          BY ONLY <4>1, r \in View, Released
        <4>5. u.items = y.items
          BY <1>1, <4>2, <4>3, <4>4, PatchedSame
        <4> QED
          BY <1>1, <4>3, <4>4, <4>5 DEF But
      <3>2. CASE v.permission # tool
        BY <1>1, <3>2
      <3> QED
        BY <3>1, <3>2
    <2> HIDE DEF u, y
    <2>3. w.items = z.items
      BY <2>1, <2>2, SettledSame
    <2>4. But(u, w, {"items"}) /\ But(y, z, {"items"})
      <3> HIDE DEF w, z
      <3> QED
        BY <2>1, <2>2, SettledCard
    <2> QED
      BY <2>2, <2>3, <2>4 DEF But, Same
  <1>5. addToolCall(v, tool).items = addToolCall(r, tool).items
    <2> DEFINE w == addToolCall(v, tool)
               z == addToolCall(r, tool)
    <2>1. w = addToolCall(v, tool) /\ z = addToolCall(r, tool)
      OBVIOUS
    <2> HIDE DEF w, z
    <2>2. w.items = IF TailIs(v, "tools")
                    THEN [v.items EXCEPT ![Len(v.items)] =
                            [Last(v.items) EXCEPT !.calls = Append(@, [tool |-> tool, status |-> "running"])]]
                    ELSE Append(v.items, [kind |-> "tools", calls |-> <<[tool |-> tool, status |-> "running"]>>])
      BY ONLY <2>1, v \in View, tool \in Tools, AddedToolCall
    <2>3. z.items = IF TailIs(r, "tools")
                    THEN [r.items EXCEPT ![Len(r.items)] =
                            [Last(r.items) EXCEPT !.calls = Append(@, [tool |-> tool, status |-> "running"])]]
                    ELSE Append(r.items, [kind |-> "tools", calls |-> <<[tool |-> tool, status |-> "running"]>>])
      BY ONLY <2>1, r \in View, tool \in Tools, AddedToolCall
    <2> QED
      BY <1>1, <2>1, <2>2, <2>3
  <1> QED
    BY <1>2, <1>3, <1>4, <1>5

LEMMA AgreedPushed ==
  ASSUME NEW v \in View, NEW r \in View, Same(v, r), NEW x \in Item
  PROVE  Same(push(v, x), push(r, x)) /\ push(v, x) \in View /\ push(r, x) \in View
  <1> DEFINE w == push(v, x)
             z == push(r, x)
  <1>1. w \in View /\ w.items = Append(v.items, x) /\ But(v, w, {"items"})
    BY Pushed
  <1>2. z \in View /\ z.items = Append(r.items, x) /\ But(r, z, {"items"})
    BY Pushed
  <1> HIDE DEF w, z
  <1>3. Same(w, z)
    BY <1>1, <1>2 DEF But, Same
  <1> QED
    BY <1>1, <1>2, <1>3 DEF w, z

LEMMA AgreedEnd ==
  ASSUME NEW v \in View, NEW r \in View, Same(v, r), NEW failed \in BOOLEAN
  PROVE  Same(endTurn(v, failed), endTurn(r, failed)) /\ endTurn(v, failed) \in View /\ endTurn(r, failed) \in View
  <1> DEFINE w == endTurn(v, failed)
             z == endTurn(r, failed)
  <1>1. w = endTurn(v, failed) /\ z = endTurn(r, failed) /\ v.items = r.items
    BY DEF Same
  <1>2. w.items = z.items
    BY <1>1, EndedSame
  <1> HIDE DEF w, z
  <1>3. w \in View /\ But(v, w, {"items", "busy", "running", "permission"}) /\ w.permission = None
    BY ONLY <1>1, v \in View, failed \in BOOLEAN, EndedTurn
  <1>4. z \in View /\ But(r, z, {"items", "busy", "running", "permission"}) /\ z.permission = None
    BY ONLY <1>1, r \in View, failed \in BOOLEAN, EndedTurn
  <1>5. Same(w, z)
    BY <1>2, <1>3, <1>4 DEF But, Same
  <1> QED
    BY <1>1, <1>3, <1>4, <1>5

\* A text that no echo is awaited of is drawn.
LEMMA DrawnAtOnce ==
  ASSUME NEW v \in View, v.pendingWeb = <<>>, NEW x \in Texts, NEW f \in BOOLEAN, NEW w, w = TakeUserText(v, x, f)
  PROVE  But(v, w, {"items", "busy", "pendingWeb"}) /\ w.items = Append(v.items, Bubble(x, FALSE)) /\ w.pendingWeb = <<>>
  <1>1. But(v, w, {"items", "busy", "pendingWeb"})
    BY TakenUserText
  <1>2. w.items = Append(v.items, Bubble(x, FALSE))
    BY TakenUserText
  <1>3. w.pendingWeb = v.pendingWeb
    BY TakenUserText
  <1> QED
    BY <1>1, <1>2, <1>3

\* Views that show the same go on showing the same.
LEMMA Agreed ==
  ASSUME Asking \subseteq Tools, NEW v \in View, NEW r \in View, Same(v, r),
         NEW p \in Payload, p.type \notin {"content_block_delta", "message_stop"},
         NEW f \in BOOLEAN, NEW g \in BOOLEAN, NEW w, w = reduce(v, p, f), NEW z, z = reduce(r, p, g)
  PROVE  Same(w, z)
  <1>1. v.items = r.items /\ v.permission = r.permission /\ v.pendingWeb = <<>> /\ r.pendingWeb = <<>>
    BY DEF Same
  <1>2. CASE p.type = "user_text"
    <2>1. w = TakeUserText(v, p.text, f) /\ z = TakeUserText(r, p.text, g) /\ p.text \in Texts
      BY <1>2, PayloadIs DEF reduce
    <2>2. /\ But(v, w, {"items", "busy", "pendingWeb"}) /\ w.items = Append(v.items, Bubble(p.text, FALSE))
          /\ w.pendingWeb = <<>>
      BY ONLY <1>1, <2>1, v \in View, f \in BOOLEAN, DrawnAtOnce
    <2>3. /\ But(r, z, {"items", "busy", "pendingWeb"}) /\ z.items = Append(r.items, Bubble(p.text, FALSE))
          /\ z.pendingWeb = <<>>
      BY ONLY <1>1, <2>1, r \in View, g \in BOOLEAN, DrawnAtOnce
    <2> QED
      BY <1>1, <2>2, <2>3 DEF But, Same
  <1>3. CASE p.type = "tool_result"
    <2>1. w = TakeToolResult(v, p.tool, p.failed) /\ z = TakeToolResult(r, p.tool, p.failed)
          /\ p.tool \in Tools /\ p.failed \in BOOLEAN
      BY <1>3, PayloadIs DEF reduce
    <2> QED
      BY <2>1, AgreedCalls
  <1>4. CASE p.type = "can_use_tool"
    <2>1. w = controlRequest(v, p.tool) /\ z = controlRequest(r, p.tool) /\ p.tool \in Tools
      BY <1>4, PayloadIs DEF reduce
    <2> QED
      BY <2>1, AgreedCalls
  <1>5. CASE p.type = "control_cancel_request"
    <2>1. w = controlCancel(v, p.tool) /\ z = controlCancel(r, p.tool) /\ p.tool \in Tools
      BY <1>5, PayloadIs DEF reduce
    <2> QED
      BY <2>1, AgreedCalls
  <1>6. CASE p.type = "tool_use"
    <2>1. p.tool \in Tools
      BY <1>6, PayloadIs
    <2>2. /\ But(v, w, {"items", "running", "busy"})
          /\ w.items = IF p.tool \in Asking THEN v.items ELSE addToolCall(v, p.tool).items
      BY ONLY <1>6, <2>1, v \in View, f \in BOOLEAN, w = reduce(v, p, f), ReducedUse
    <2>3. /\ But(r, z, {"items", "running", "busy"})
          /\ z.items = IF p.tool \in Asking THEN r.items ELSE addToolCall(r, p.tool).items
      BY ONLY <1>6, <2>1, r \in View, g \in BOOLEAN, z = reduce(r, p, g), ReducedUse
    <2>4. addToolCall(v, p.tool).items = addToolCall(r, p.tool).items
      BY <2>1, AgreedCalls
    <2> QED
      BY <1>1, <2>2, <2>3, <2>4 DEF But, Same
  <1>7. CASE p.type = "interrupt_notice"
    <2>1. w = push(v, [kind |-> "status"]) /\ z = push(r, [kind |-> "status"]) /\ [kind |-> "status"] \in Item
      BY <1>7, ItemsAre DEF reduce
    <2> QED
      BY <2>1, AgreedPushed
  <1>8. CASE p.type = "command_echo"
    <2>1. w = slashCommand(v) /\ z = slashCommand(r)
      BY <1>8 DEF reduce
    <2>2. /\ But(v, w, {"items"})
          /\ w.items = IF TailIs(v, "divider") /\ Last(v.items).label = "reset" THEN v.items
                       ELSE Append(v.items, [kind |-> "status"])
      BY ONLY <2>1, v \in View, Slashed
    <2>3. /\ But(r, z, {"items"})
          /\ z.items = IF TailIs(r, "divider") /\ Last(r.items).label = "reset" THEN r.items
                       ELSE Append(r.items, [kind |-> "status"])
      BY ONLY <2>1, r \in View, Slashed
    <2>4. TailIs(v, "divider") <=> TailIs(r, "divider")
      BY <1>1, SameLook
    <2> QED
      BY <1>1, <2>2, <2>3, <2>4 DEF But, Same
  <1>9. CASE p.type = "assistant_text"
    <2> DEFINE final == [kind |-> "prose", state |-> "final"]
    <2>1. w = settleStreamed(v) /\ z = settleStreamed(r)
      BY <1>9 DEF reduce
    <2>2. /\ But(v, w, {"items"})
          /\ w.items = IF TailIs(v, "prose") /\ Last(v.items).state # "final"
                       THEN [v.items EXCEPT ![Len(v.items)] = final] ELSE Append(v.items, final)
      BY <2>1, SettledStreamed
    <2>3. /\ But(r, z, {"items"})
          /\ z.items = IF TailIs(r, "prose") /\ Last(r.items).state # "final"
                       THEN [r.items EXCEPT ![Len(r.items)] = final] ELSE Append(r.items, final)
      BY <2>1, SettledStreamed
    <2>4. TailIs(v, "prose") <=> TailIs(r, "prose")
      BY <1>1, SameLook
    <2> HIDE DEF final
    <2> QED
      BY <1>1, <2>2, <2>3, <2>4 DEF But, Same
  <1>10. CASE p.type = "result"
    <2> DEFINE yes == TRUE
               no == FALSE
    <2>1. p.failed \in BOOLEAN /\ yes \in BOOLEAN /\ no \in BOOLEAN /\ [kind |-> "error"] \in Item
      BY <1>10, PayloadIs, ItemsAre
    <2>2. /\ p.failed => w = push(endTurn(v, yes), [kind |-> "error"]) /\ z = push(endTurn(r, yes), [kind |-> "error"])
          /\ ~p.failed => w = endTurn(v, no) /\ z = endTurn(r, no)
      BY <1>10 DEF reduce
    <2> HIDE DEF yes, no
    <2>3. /\ Same(endTurn(v, yes), endTurn(r, yes)) /\ endTurn(v, yes) \in View /\ endTurn(r, yes) \in View
          /\ Same(endTurn(v, no), endTurn(r, no))
      BY <2>1, AgreedEnd
    <2> QED
      BY <2>1, <2>2, <2>3, AgreedPushed
  <1>11. CASE p.type = "conversation_reset"
    <2> DEFINE no == FALSE
               x == [kind |-> "divider", label |-> "reset"]
    <2>1. no \in BOOLEAN /\ x \in Item /\ w = push(endTurn(v, no), x) /\ z = push(endTurn(r, no), x)
      BY <1>11, ItemsAre DEF reduce
    <2> HIDE DEF no, x
    <2>2. Same(endTurn(v, no), endTurn(r, no)) /\ endTurn(v, no) \in View /\ endTurn(r, no) \in View
      BY <2>1, AgreedEnd
    <2> QED
      BY <2>1, <2>2, AgreedPushed
  <1>12. CASE p.type \in {"post_turn_summary", "worker_shutting_down"}
    <2>1. PICK x \in Item : w = push(idle(v), x) /\ z = push(idle(r), x)
      <3>1. CASE p.type = "post_turn_summary"
        BY <3>1, ItemsAre DEF reduce
      <3>2. CASE p.type = "worker_shutting_down"
        BY <3>2, ItemsAre DEF reduce
      <3> QED
        BY <1>12, <3>1, <3>2
    <2>2. idle(v) \in View /\ idle(r) \in View /\ Same(idle(v), idle(r))
      BY Idled DEF But, Same
    <2> QED
      BY <2>1, <2>2, AgreedPushed
  <1> QED
    BY <1>2, <1>3, <1>4, <1>5, <1>6, <1>7, <1>8, <1>9, <1>10, <1>11, <1>12, PayloadIs

Prose(state) == [kind |-> "prose", state |-> state]

LEMMA FinalKept ==
  ASSUME NEW s, NEW t, AllFinal(s), Keeps(s, t, {"prose"})
  PROVE  AllFinal(t)
  BY DEF AllFinal, Keeps

LEMMA FinalAppended ==
  ASSUME NEW s \in Seq(Item), AllFinal(s), NEW x \in Item, x.kind = "prose" => x.state = "final"
  PROVE  AllFinal(Append(s, x))
  <1> DEFINE t == Append(s, x)
  <1>1. /\ \A i \in DOMAIN s : t[i] = s[i]
        /\ t[Len(s) + 1] = x
        /\ \A i \in DOMAIN t : i \in DOMAIN s \/ i = Len(s) + 1
    BY Appended
  <1> HIDE DEF t
  <1>2. AllFinal(t)
    BY <1>1 DEF AllFinal
  <1> QED
    BY <1>2 DEF t

\* No draft is left at the tail of prose that is all final, so the message goes after it.
LEMMA FinalSettled ==
  ASSUME NEW r \in View, AllFinal(r.items), NEW w, w = settleStreamed(r)
  PROVE  w.items = Append(r.items, Prose("final")) /\ But(r, w, {"items"})
  <1>1. /\ But(r, w, {"items"})
        /\ w.items = IF TailIs(r, "prose") /\ Last(r.items).state # "final"
                     THEN [r.items EXCEPT ![Len(r.items)] = Prose("final")] ELSE Append(r.items, Prose("final"))
    BY SettledStreamed DEF Prose
  <1>2. ~(TailIs(r, "prose") /\ Last(r.items).state # "final")
    <2>1. r.items \in Seq(Item)
      BY ViewFields
    <2>2. r.items # <<>> => Len(r.items) \in DOMAIN r.items /\ Last(r.items) = r.items[Len(r.items)]
      BY <2>1 DEF Last
    <2> QED
      BY <2>2 DEF TailIs, AllFinal
  <1> QED
    BY <1>1, <1>2

\* The end of a turn leaves what is final as it is.
LEMMA FinalEnded ==
  ASSUME NEW v \in View, AllFinal(v.items), NEW failed \in BOOLEAN
  PROVE  AllFinal(endTurn(v, failed).items) /\ endTurn(v, failed).items \in Seq(Item)
  <1> DEFINE w == endTurn(v, failed)
  <1>1. w = endTurn(v, failed)
    OBVIOUS
  <1> HIDE DEF w
  <1>2. w \in View /\ DOMAIN w.items = DOMAIN v.items /\ Ended(v.items, w.items, failed)
    BY ONLY <1>1, v \in View, failed \in BOOLEAN, EndedTurn
  <1>3. v.items \in Seq(Item) /\ w.items \in Seq(Item)
    BY <1>2, ViewFields
  <1>4. ASSUME NEW i \in DOMAIN w.items, w.items[i].kind = "prose" PROVE w.items[i].state = "final"
    <2>1. v.items[i] \in Item
      BY <1>2, <1>3, <1>4
    <2>2. PICK x : x = ClosedItem(v.items[i], failed)
      OBVIOUS
    <2>3. x \in Item /\ x.kind = v.items[i].kind /\ (v.items[i].kind # "tools" => x = v.items[i])
      BY <2>1, <2>2, ClosedIs
    <2>4. w.items[i] = StilledItem(x) /\ w.items[i].kind = x.kind
      BY <1>2, <1>4, <2>2, <2>3, StilledIs DEF Ended
    <2>5. x = v.items[i] /\ x.kind = "prose" /\ x.state = "final"
      BY <1>2, <1>4, <2>3, <2>4 DEF AllFinal
    <2>6. x # [kind |-> "prose", state |-> "streaming"]
      BY <2>5
    <2> QED
      BY <2>4, <2>5, <2>6 DEF StilledItem
  <1>5. AllFinal(w.items)
    BY <1>4 DEF AllFinal
  <1> QED
    BY <1>1, <1>3, <1>5

\* No draft comes out of the store.
LEMMA FinalReplayed ==
  ASSUME Asking \subseteq Tools, NEW r \in View, AllFinal(r.items), NEW p \in Payload,
         p.type \notin {"content_block_delta", "message_stop"}, NEW t \in BOOLEAN, NEW w, w = reduce(r, p, t)
  PROVE  AllFinal(w.items)
  <1>1. CASE p.type = "user_text"
    <2>1. w = TakeUserText(r, p.text, t) /\ p.text \in Texts
      BY <1>1, PayloadIs DEF reduce
    <2>2. Keeps(r.items, w.items, {"prose", "tools", "question"})
      BY ONLY <2>1, r \in View, t \in BOOLEAN, TakenUserText
    <2>3. Keeps(r.items, w.items, {"prose"})
      BY <2>2, KeepsLess
    <2> QED
      BY <2>3, FinalKept
  <1>2. CASE p.type = "assistant_text"
    <2>1. w = settleStreamed(r)
      BY <1>2 DEF reduce
    <2>2. w.items = Append(r.items, Prose("final"))
      BY <2>1, FinalSettled
    <2>3. Prose("final") \in Item /\ Prose("final").state = "final" /\ r.items \in Seq(Item)
      BY ItemsAre, ViewFields DEF Prose
    <2> QED
      BY <2>2, <2>3, FinalAppended
  <1>3. CASE p.type \in {"result", "conversation_reset"}
    <2>1. p.type = "conversation_reset" \/ (p.type = "result" /\ p.failed \in BOOLEAN)
      BY <1>3, PayloadIs
    <2>2. EndedAs(r, w.items)
      BY ONLY <2>1, r \in View, t \in BOOLEAN, w = reduce(r, p, t), ReducedEnd
    <2>3. PICK failed \in BOOLEAN :
            \/ w.items = endTurn(r, failed).items
            \/ \E x \in Item : x.kind # "prose" /\ w.items = Append(endTurn(r, failed).items, x)
      BY <2>2 DEF EndedAs
    <2>4. AllFinal(endTurn(r, failed).items) /\ endTurn(r, failed).items \in Seq(Item)
      BY FinalEnded
    <2> QED
      BY <2>3, <2>4, FinalAppended
  <1>4. CASE p.type \notin {"user_text", "assistant_text", "result", "conversation_reset"}
    <2>1. Keeps(r.items, w.items, {"prose"})
      BY <1>4, ReducedRest
    <2> QED
      BY <2>1, FinalKept
  <1> QED
    BY <1>1, <1>2, <1>3, <1>4

\* The view v is ahead of r by a draft, which no row of the store holds.
Ahead(v, r, state) ==
  v.items = Append(r.items, Prose(state)) /\ v.permission = r.permission /\ v.pendingWeb = <<>> /\ r.pendingWeb = <<>>

LEMMA AheadIs ==
  ASSUME NEW v \in View, NEW r \in View, NEW state \in {"streaming", "stopped"}, Ahead(v, r, state)
  PROVE  /\ v.items \in Seq(Item) /\ r.items \in Seq(Item) /\ Prose(state) \in Item
         /\ Len(r.items) \in Nat /\ Len(v.items) = Len(r.items) + 1
         /\ DOMAIN v.items = 1 .. Len(r.items) + 1 /\ DOMAIN r.items = 1 .. Len(r.items)
         /\ v.items[Len(v.items)] = Prose(state)
         /\ \A i \in DOMAIN r.items : v.items[i] = r.items[i]
         /\ TailIs(v, "prose") /\ Last(v.items) = Prose(state)
         /\ Prose(state).kind = "prose" /\ Prose(state).state = state
  <1>1. v.items \in Seq(Item) /\ r.items \in Seq(Item)
    BY ViewFields
  <1>2. Prose(state) \in Item /\ Prose(state).kind = "prose" /\ Prose(state).state = state
    BY ItemsAre DEF Prose
  <1>3. v.items = Append(r.items, Prose(state))
    BY DEF Ahead
  <1>4. /\ Len(r.items) \in Nat /\ Len(v.items) = Len(r.items) + 1
        /\ DOMAIN v.items = 1 .. Len(r.items) + 1 /\ DOMAIN r.items = 1 .. Len(r.items)
        /\ v.items[Len(r.items) + 1] = Prose(state)
        /\ \A i \in DOMAIN r.items : v.items[i] = r.items[i]
    BY ONLY <1>1, <1>2, <1>3, Appended
  <1>5. v.items # <<>> /\ Last(v.items) = v.items[Len(v.items)]
    BY <1>1, <1>4 DEF Last
  <1> QED
    BY <1>1, <1>2, <1>4, <1>5 DEF TailIs

WithLast(s, x) == [s EXCEPT ![Len(s)] = x]

LEMMA LastReplaced ==
  ASSUME NEW s \in Seq(Item), NEW x \in Item, NEW y \in Item
  PROVE  WithLast(Append(s, x), y) = Append(s, y)
  <1> DEFINE t == Append(s, x)
             u == [t EXCEPT ![Len(t)] = y]
             n == Len(t)
             w == Append(s, y)
  <1>1. /\ t \in Seq(Item) /\ Len(s) \in Nat /\ n = Len(s) + 1 /\ DOMAIN s = 1 .. Len(s) /\ DOMAIN t = 1 .. Len(s) + 1
        /\ \A i \in DOMAIN s : t[i] = s[i]
    BY Appended
  <1> HIDE DEF t
  <1>2. w \in Seq(Item) /\ DOMAIN w = 1 .. Len(s) + 1 /\ w[Len(s) + 1] = y /\ \A i \in DOMAIN s : w[i] = s[i]
    BY Appended
  <1>3. u \in Seq(Item) /\ DOMAIN u = 1 .. Len(s) + 1 /\ \A i \in DOMAIN t : u[i] = IF i = n THEN y ELSE t[i]
    <2>1. n \in 1 .. Len(t)
      BY <1>1
    <2>2. u \in Seq(Item)
      BY <1>1, <2>1, ExceptSeq
    <2> QED
      BY <1>1, <2>1, <2>2
  <1> HIDE DEF n, w, u
  <1>4. DOMAIN u = DOMAIN w /\ \A i \in DOMAIN u : u[i] = w[i]
    BY <1>1, <1>2, <1>3
  <1>5. u = w
    BY <1>2, <1>3, <1>4, SameSeq
  <1> QED
    BY <1>5 DEF u, w, t, WithLast

\* The first piece of a text puts its draft after what is final.
LEMMA StreamGoesAhead ==
  ASSUME NEW v \in View, NEW r \in View, Same(v, r), AllFinal(r.items), NEW w, w = appendStreamed(v)
  PROVE  Ahead(w, r, "streaming")
  <1>1. /\ But(v, w, {"items"})
        /\ w.items = IF TailIs(v, "prose") /\ Last(v.items).state = "streaming"
                     THEN v.items ELSE Append(v.items, Prose("streaming"))
    BY AppendedStreamed DEF Prose
  <1>2. ~(TailIs(v, "prose") /\ Last(v.items).state = "streaming")
    <2>1. v.items \in Seq(Item) /\ v.items = r.items
      BY ViewFields DEF Same
    <2>2. v.items # <<>> => Len(v.items) \in DOMAIN v.items /\ Last(v.items) = v.items[Len(v.items)]
      BY <2>1 DEF Last
    <2> QED
      BY <2>1, <2>2 DEF TailIs, AllFinal
  <1> QED
    BY <1>1, <1>2 DEF But, Same, Ahead

LEMMA StreamStaysAhead ==
  ASSUME NEW v \in View, NEW r \in View, Ahead(v, r, "streaming"), NEW w, w = appendStreamed(v)
  PROVE  Ahead(w, r, "streaming")
  <1>1. /\ But(v, w, {"items"})
        /\ w.items = IF TailIs(v, "prose") /\ Last(v.items).state = "streaming"
                     THEN v.items ELSE Append(v.items, Prose("streaming"))
    BY AppendedStreamed DEF Prose
  <1>2. TailIs(v, "prose") /\ Last(v.items).state = "streaming"
    BY AheadIs
  <1> QED
    BY <1>1, <1>2 DEF But, Ahead

\* A stop finds the draft, if it is there and streams still.
LEMMA StopFindsDraft ==
  ASSUME NEW v \in View, NEW r \in View, AllFinal(r.items), NEW w, w = stopStreaming(v)
  PROVE  /\ Same(v, r) => Same(w, r)
         /\ Ahead(v, r, "streaming") => Ahead(w, r, "stopped")
         /\ Ahead(v, r, "stopped") => Ahead(w, r, "stopped")
  <1> DEFINE D == {i \in DOMAIN v.items : v.items[i].kind = "prose" /\ v.items[i].state = "streaming"}
  <1>1. /\ But(v, w, {"items"})
        /\ D = {} => w = v
        /\ \A at \in D : (\A i \in D : i <= at) => w.items = [v.items EXCEPT ![at] = Prose("stopped")]
    BY StoppedStreaming DEF Prose
  <1>2. ASSUME Same(v, r) PROVE Same(w, r)
    <2>1. D = {}
      BY <1>2 DEF Same, AllFinal
    <2> HIDE DEF D
    <2> QED
      BY <1>1, <1>2, <2>1
  <1>3. ASSUME Ahead(v, r, "streaming") PROVE Ahead(w, r, "stopped")
    <2>1. /\ v.items \in Seq(Item) /\ r.items \in Seq(Item) /\ Prose("streaming") \in Item
          /\ Len(r.items) \in Nat /\ Len(v.items) = Len(r.items) + 1
          /\ DOMAIN v.items = 1 .. Len(r.items) + 1 /\ DOMAIN r.items = 1 .. Len(r.items)
          /\ v.items[Len(v.items)] = Prose("streaming")
          /\ Prose("streaming").kind = "prose" /\ Prose("streaming").state = "streaming"
      BY <1>3, AheadIs
    <2>2. Len(v.items) \in D /\ \A i \in D : i <= Len(v.items)
      BY <2>1
    <2> HIDE DEF D
    <2>3. w.items = [v.items EXCEPT ![Len(v.items)] = Prose("stopped")]
      BY <1>1, <2>2
    <2>4. w.items = Append(r.items, Prose("stopped"))
      <3>1. v.items = Append(r.items, Prose("streaming"))
        BY <1>3 DEF Ahead
      <3>2. Prose("stopped") \in Item
        BY ItemsAre DEF Prose
      <3>3. w.items = WithLast(v.items, Prose("stopped"))
        BY <2>3 DEF WithLast
      <3>4. WithLast(Append(r.items, Prose("streaming")), Prose("stopped")) = Append(r.items, Prose("stopped"))
        BY <2>1, <3>2, LastReplaced
      <3> QED
        BY <3>1, <3>3, <3>4
    <2> QED
      BY <1>1, <1>3, <2>4 DEF But, Ahead
  <1>4. ASSUME Ahead(v, r, "stopped") PROVE Ahead(w, r, "stopped")
    <2>1. /\ Len(r.items) \in Nat /\ Len(v.items) = Len(r.items) + 1
          /\ DOMAIN v.items = 1 .. Len(r.items) + 1 /\ DOMAIN r.items = 1 .. Len(r.items)
          /\ v.items[Len(v.items)] = Prose("stopped") /\ \A i \in DOMAIN r.items : v.items[i] = r.items[i]
          /\ Prose("stopped").kind = "prose" /\ Prose("stopped").state = "stopped"
      BY <1>4, AheadIs
    <2>2. D = {}
      BY <2>1 DEF AllFinal
    <2> HIDE DEF D
    <2> QED
      BY <1>1, <1>4, <2>2
  <1> QED
    BY <1>2, <1>3, <1>4

\* The message takes the place of its draft.
LEMMA MessageCatchesUp ==
  ASSUME NEW v \in View, NEW r \in View, AllFinal(r.items), NEW state \in {"streaming", "stopped"}, Ahead(v, r, state),
         NEW w, w = settleStreamed(v), NEW z, z = settleStreamed(r)
  PROVE  Same(w, z)
  <1>1. z.items = Append(r.items, Prose("final")) /\ But(r, z, {"items"})
    BY FinalSettled
  <1>2. /\ But(v, w, {"items"})
        /\ w.items = IF TailIs(v, "prose") /\ Last(v.items).state # "final"
                     THEN [v.items EXCEPT ![Len(v.items)] = Prose("final")] ELSE Append(v.items, Prose("final"))
    BY SettledStreamed DEF Prose
  <1>3. /\ v.items \in Seq(Item) /\ r.items \in Seq(Item) /\ Prose(state) \in Item
        /\ Len(r.items) \in Nat /\ Len(v.items) = Len(r.items) + 1
        /\ TailIs(v, "prose") /\ Last(v.items).state = state
    BY AheadIs
  <1>4. w.items = [v.items EXCEPT ![Len(v.items)] = Prose("final")]
    BY <1>2, <1>3
  <1>5. w.items = Append(r.items, Prose("final"))
    <2>1. v.items = Append(r.items, Prose(state))
      BY DEF Ahead
    <2>2. Prose("final") \in Item
      BY ItemsAre DEF Prose
    <2>3. w.items = WithLast(v.items, Prose("final"))
      BY <1>4 DEF WithLast
    <2>4. WithLast(Append(r.items, Prose(state)), Prose("final")) = Append(r.items, Prose("final"))
      BY <1>3, <2>2, LastReplaced
    <2> QED
      BY <2>1, <2>3, <2>4
  <1> QED
    BY <1>1, <1>2, <1>5 DEF But, Ahead, Same

\* A turn that ends stops the draft it leaves.
LEMMA EndStopsDraft ==
  ASSUME NEW v \in View, NEW r \in View, NEW state \in {"streaming", "stopped"}, Ahead(v, r, state),
         NEW failed \in BOOLEAN, NEW w, w = endTurn(v, failed), NEW z, z = endTurn(r, failed)
  PROVE  Ahead(w, z, "stopped")
  <1>1. /\ w \in View /\ But(v, w, {"items", "busy", "running", "permission"}) /\ w.permission = None
        /\ DOMAIN w.items = DOMAIN v.items /\ Ended(v.items, w.items, failed)
    BY ONLY v \in View, failed \in BOOLEAN, w = endTurn(v, failed), EndedTurn
  <1>2. /\ z \in View /\ But(r, z, {"items", "busy", "running", "permission"}) /\ z.permission = None
        /\ DOMAIN z.items = DOMAIN r.items /\ Ended(r.items, z.items, failed)
    BY ONLY r \in View, failed \in BOOLEAN, z = endTurn(r, failed), EndedTurn
  <1>3. /\ v.items \in Seq(Item) /\ r.items \in Seq(Item) /\ Prose(state) \in Item
        /\ Len(r.items) \in Nat /\ Len(v.items) = Len(r.items) + 1
        /\ DOMAIN v.items = 1 .. Len(r.items) + 1 /\ DOMAIN r.items = 1 .. Len(r.items)
        /\ v.items[Len(v.items)] = Prose(state) /\ \A i \in DOMAIN r.items : v.items[i] = r.items[i]
        /\ Prose(state).kind = "prose" /\ Prose(state).state = state
    BY AheadIs
  <1>4. w.items \in Seq(Item) /\ z.items \in Seq(Item) /\ Prose("stopped") \in Item
    BY <1>1, <1>2, ViewFields, ItemsAre DEF Prose
  <1>5. w.items[Len(r.items) + 1] = Prose("stopped")
    <2>1. ClosedItem(Prose(state), failed) = Prose(state)
      BY <1>3 DEF ClosedItem
    <2>2. StilledItem(Prose(state)) = Prose("stopped")
      BY DEF StilledItem, Prose
    <2> QED
      BY <1>1, <1>3, <2>1, <2>2 DEF Ended
  <1>6. \A i \in DOMAIN r.items : w.items[i] = z.items[i]
    BY <1>1, <1>2, <1>3 DEF Ended
  <1> DEFINE t == Append(z.items, Prose("stopped"))
  <1>7. /\ t \in Seq(Item) /\ DOMAIN t = 1 .. Len(z.items) + 1 /\ DOMAIN z.items = 1 .. Len(z.items) /\ Len(z.items) \in Nat
        /\ t[Len(z.items) + 1] = Prose("stopped") /\ \A i \in DOMAIN z.items : t[i] = z.items[i]
    BY ONLY <1>4, Appended
  <1> HIDE DEF t
  <1>8. Len(z.items) = Len(r.items)
    BY <1>2, <1>3, <1>7
  <1>9. DOMAIN w.items = DOMAIN t /\ \A i \in DOMAIN w.items : w.items[i] = t[i]
    BY <1>1, <1>2, <1>3, <1>5, <1>6, <1>7, <1>8
  <1>10. w.items = t
    BY <1>4, <1>7, <1>9, SameSeq
  <1> QED
    BY <1>1, <1>2, <1>10 DEF But, Ahead, t

FailedLast(h) == h # <<>> /\ Last(h) = [type |-> "result", failed |-> TRUE]

\* What the reader sees is what the store would show, or that and the draft in hand.
Seen ==
  \/ Same(view, Replay)
  \/ worker.draft # "none" /\ worker.gone
  \/ \E state \in {"streaming", "stopped"} :
       /\ Ahead(view, Replay, state) /\ worker.draft # "none"
       /\ state = "stopped" => worker.draft = "stopped" \/ ~worker.turn

ReplayOK ==
  /\ AllFinal(Replay.items)
  /\ FailedLast(history) => ~worker.turn /\ worker.draft = "none"
  /\ ~local => Seen

\* What an event does to the draft.
DraftStep(p) ==
  /\ \/ p.type = "content_block_delta" /\ worker.turn /\ worker'.turn /\ worker.draft # "stopped" /\ worker'.draft = "streaming"
     \/ p.type = "message_stop" /\ worker.draft = "streaming" /\ worker'.draft = "stopped"
     \/ p.type = "assistant_text" /\ worker'.draft = "none"
     \/ p.type = "result" /\ ~p.failed /\ worker'.draft = worker.draft /\ ~worker'.turn
     \/ p.type = "worker_shutting_down" /\ worker'.draft = worker.draft /\ worker'.gone
     \/ p.type \notin {"content_block_delta", "message_stop"} /\ worker.draft = "none" /\ worker'.draft = "none"
  /\ p = [type |-> "result", failed |-> TRUE] => ~worker'.turn /\ worker'.draft = "none"

LEMMA Drafts ==
  ASSUME ConstantsOK, Shown, ReplayOK, WorkerNext
  PROVE  \E p \in Payload : Post(p) /\ ~worker.gone /\ DraftStep(p)
  <1> DEFINE Told(p) == Post(p) /\ ~worker.gone /\ DraftStep(p)
  <1>1. /\ worker \in Worker
        /\ worker.draft # "none" => worker.open = {}
        /\ worker.draft # "none" /\ ~worker.gone /\ ~worker.turn => worker.late
        /\ worker.waiting # None => worker.waiting \in worker.open
        /\ FailedLast(history) => ~worker.turn /\ worker.draft = "none"
    BY DEF Shown, WorkOK, ReplayOK
  <1>2. ASSUME NEW t \in Texts, TakeTurn(t) PROVE \E p \in Payload : Told(p)
    <2>1. [type |-> "user_text", text |-> t] \in Payload
      BY DEF Payload
    <2> QED
      BY <1>1, <1>2, <2>1 DEF TakeTurn, Free, DraftStep, Worker
  <1>3. ASSUME StreamText PROVE \E p \in Payload : Told(p)
    <2>1. [type |-> "content_block_delta"] \in Payload
      BY DEF Payload
    <2> QED
      BY <1>1, <1>3, <2>1 DEF StreamText, Thinking, Free, DraftStep, Worker
  <1>4. ASSUME StopStreaming PROVE \E p \in Payload : Told(p)
    <2>1. [type |-> "message_stop"] \in Payload
      BY DEF Payload
    <2> QED
      BY <1>1, <1>4, <2>1 DEF StopStreaming, Free, DraftStep, Worker
  <1>5. ASSUME SayText PROVE \E p \in Payload : Told(p)
    <2>1. [type |-> "assistant_text"] \in Payload
      BY DEF Payload
    <2> QED
      BY <1>1, <1>5, <2>1 DEF SayText, Free, DraftStep, Worker
  <1>6. ASSUME NEW t \in Tools, UseTool(t) PROVE \E p \in Payload : Told(p)
    <2>1. [type |-> "tool_use", tool |-> t] \in Payload
      BY DEF Payload
    <2> QED
      BY <1>1, <1>6, <2>1 DEF UseTool, Thinking, Free, DraftStep, Worker
  <1>7. ASSUME NEW t \in Tools, Ask(t) PROVE \E p \in Payload : Told(p)
    <2>1. [type |-> "can_use_tool", tool |-> t] \in Payload
      BY DEF Payload
    <2>2. worker.draft = "none"
      BY <1>1, <1>7 DEF Ask
    <2> QED
      BY <1>1, <1>7, <2>1, <2>2 DEF Ask, Thinking, Free, DraftStep, Worker
  <1>8. ASSUME NEW t \in Tools, NEW failed \in BOOLEAN, FinishTool(t, failed) PROVE \E p \in Payload : Told(p)
    <2>1. [type |-> "tool_result", tool |-> t, failed |-> failed] \in Payload
      BY DEF Payload
    <2>2. worker.draft = "none"
      BY <1>1, <1>8 DEF FinishTool
    <2> QED
      BY <1>1, <1>8, <2>1, <2>2 DEF FinishTool, DraftStep, Worker
  <1>9. ASSUME Withdraw PROVE \E p \in Payload : Told(p)
    <2>1. [type |-> "control_cancel_request", tool |-> worker.waiting] \in Payload
      BY <1>1, <1>9 DEF Payload, Withdraw, Worker
    <2>2. worker.draft = "none"
      BY <1>1, <1>9 DEF Withdraw
    <2> QED
      BY <1>1, <1>9, <2>1, <2>2 DEF Withdraw, DraftStep, Worker
  <1>10. ASSUME NEW failed \in BOOLEAN, NEW late \in BOOLEAN, EndTurn(failed, late) PROVE \E p \in Payload : Told(p)
    <2>1. [type |-> "result", failed |-> failed] \in Payload
      BY DEF Payload
    <2>2. worker' = [worker EXCEPT !.turn = FALSE, !.open = {}, !.granted = {}, !.late = late]
          /\ (failed => worker.draft = "none") /\ ~worker.gone /\ Post([type |-> "result", failed |-> failed])
      BY <1>10 DEF EndTurn, Thinking, Free
    <2>3. ~worker'.turn /\ worker'.draft = worker.draft
      BY <1>1, <2>2 DEF Worker
    <2>4. DraftStep([type |-> "result", failed |-> failed])
      BY <2>2, <2>3 DEF DraftStep
    <2> QED
      BY <2>1, <2>2, <2>4
  <1>11. ASSUME Summarise PROVE \E p \in Payload : Told(p)
    <2>1. [type |-> "post_turn_summary"] \in Payload
      BY DEF Payload
    <2> QED
      BY <1>1, <1>11, <2>1 DEF Summarise, Free, DraftStep, Worker
  <1>12. ASSUME InterruptNotice PROVE \E p \in Payload : Told(p)
    <2>1. [type |-> "interrupt_notice"] \in Payload
      BY DEF Payload
    <2>2. worker.draft = "none"
      BY <1>1, <1>12 DEF InterruptNotice, FailedLast
    <2> QED
      BY <1>1, <1>12, <2>1, <2>2 DEF InterruptNotice, Free, DraftStep, Worker
  <1>13. ASSUME CommandEcho PROVE \E p \in Payload : Told(p)
    <2>1. [type |-> "command_echo"] \in Payload
      BY DEF Payload
    <2>2. worker.draft = "none"
      BY <1>1, <1>13 DEF CommandEcho, Free
    <2> QED
      BY <1>1, <1>13, <2>1, <2>2 DEF CommandEcho, Free, DraftStep, Worker
  <1>14. ASSUME Reset PROVE \E p \in Payload : Told(p)
    <2>1. [type |-> "conversation_reset"] \in Payload
      BY DEF Payload
    <2> QED
      BY <1>1, <1>14, <2>1 DEF Reset, Free, DraftStep, Worker
  <1>15. ASSUME ShutDown PROVE \E p \in Payload : Told(p)
    <2>1. [type |-> "worker_shutting_down"] \in Payload
      BY DEF Payload
    <2> QED
      BY <1>1, <1>15, <2>1 DEF ShutDown, DraftStep, idleWorker
  <1> QED
    BY <1>2, <1>3, <1>4, <1>5, <1>6, <1>7, <1>8, <1>9, <1>10, <1>11, <1>12, <1>13, <1>14, <1>15 DEF WorkerNext

\* What a stored event draws, it draws in both, when they show the same.
LEMMA StoredAgrees ==
  ASSUME ConstantsOK, Shown, NEW p \in Payload, Post(p), p.type \notin {"content_block_delta", "message_stop"},
         Same(view, Replay)
  PROVE  Same(view', Replay')
  <1>1. \E f, t \in BOOLEAN : ~f /\ t /\ view' = reduce(view, p, f) /\ Replay' = reduce(Replay, p, t)
    BY Stored
  <1>2. PICK f, t \in BOOLEAN : ~f /\ t /\ view' = reduce(view, p, f) /\ Replay' = reduce(Replay, p, t)
    BY <1>1
  <1>3. view \in View /\ Replay \in View /\ Asking \subseteq Tools
    BY DEF Shown, ViewOK, ConstantsOK
  <1> QED
    BY ONLY <1>2, <1>3, Same(view, Replay), p \in Payload, f \in BOOLEAN, t \in BOOLEAN,
            p.type \notin {"content_block_delta", "message_stop"}, Agreed

LEMMA DeltaSeen ==
  ASSUME Shown, AllFinal(Replay.items), Seen, ~worker.gone, NEW p, Post(p), p.type = "content_block_delta", DraftStep(p)
  PROVE  Seen'
  <1>1. /\ \E f \in BOOLEAN : ~f /\ view' = reduce(view, p, f)
        /\ Replay' = Replay
    BY Streamed
  <1>2. PICK f \in BOOLEAN : view' = reduce(view, p, f)
    BY <1>1
  <1>3. view \in View /\ Replay \in View
    BY DEF Shown, ViewOK
  <1>4. worker.turn /\ worker'.turn /\ worker.draft # "stopped" /\ worker'.draft = "streaming"
    BY DEF DraftStep
  <1> DEFINE u == appendStreamed(view)
  <1>5. u \in View /\ u = appendStreamed(view) /\ (view' = u \/ view' = [u EXCEPT !.busy = TRUE])
    BY <1>2, <1>3, AppendedStreamed DEF reduce
  <1> HIDE DEF u
  <1>6. view'.items = u.items /\ view'.permission = u.permission /\ view'.pendingWeb = u.pendingWeb
    BY <1>5 DEF View
  <1>7. Ahead(u, Replay, "streaming")
    <2>1. CASE Same(view, Replay)
      BY <1>3, <1>5, <2>1, StreamGoesAhead
    <2>2. CASE Ahead(view, Replay, "streaming")
      BY <1>3, <1>5, <2>2, StreamStaysAhead
    <2> QED
      BY <1>4, <2>1, <2>2 DEF Seen
  <1> QED
    BY <1>1, <1>4, <1>6, <1>7 DEF Ahead, Seen

LEMMA StopSeen ==
  ASSUME Shown, AllFinal(Replay.items), Seen, ~worker.gone, NEW p, Post(p), p.type = "message_stop", DraftStep(p)
  PROVE  Seen'
  <1>1. /\ \E f \in BOOLEAN : ~f /\ view' = reduce(view, p, f)
        /\ Replay' = Replay
    BY Streamed
  <1>2. view' = stopStreaming(view)
    BY <1>1 DEF reduce
  <1>3. view \in View /\ Replay \in View
    BY DEF Shown, ViewOK
  <1>4. worker'.draft = "stopped"
    BY DEF DraftStep
  <1>5. /\ Same(view, Replay) => Same(view', Replay)
        /\ Ahead(view, Replay, "streaming") => Ahead(view', Replay, "stopped")
        /\ Ahead(view, Replay, "stopped") => Ahead(view', Replay, "stopped")
    BY <1>2, <1>3, StopFindsDraft
  <1>6. Same(view', Replay) \/ Ahead(view', Replay, "stopped")
    BY <1>5 DEF Seen
  <1> QED
    BY <1>1, <1>4, <1>6 DEF Seen

LEMMA TextSeen ==
  ASSUME ConstantsOK, Shown, AllFinal(Replay.items), Seen, ~worker.gone, NEW p \in Payload, Post(p), p.type = "assistant_text"
  PROVE  Same(view', Replay')
  <1>1. \E f, t \in BOOLEAN : ~f /\ t /\ view' = reduce(view, p, f) /\ Replay' = reduce(Replay, p, t)
    BY Stored
  <1>2. view' = settleStreamed(view) /\ Replay' = settleStreamed(Replay)
    BY <1>1 DEF reduce
  <1>3. view \in View /\ Replay \in View
    BY DEF Shown, ViewOK
  <1>4. CASE Same(view, Replay)
    BY <1>4, StoredAgrees
  <1>5. ASSUME NEW state \in {"streaming", "stopped"}, Ahead(view, Replay, state) PROVE Same(view', Replay')
    BY <1>2, <1>3, <1>5, MessageCatchesUp
  <1> QED
    BY <1>4, <1>5 DEF Seen

LEMMA ResultSeen ==
  ASSUME ConstantsOK, Shown, Seen, ~worker.gone, NEW p \in Payload, Post(p), p.type = "result", ~p.failed, DraftStep(p)
  PROVE  Seen'
  <1> DEFINE no == FALSE
  <1>1. \E f, t \in BOOLEAN : ~f /\ t /\ view' = reduce(view, p, f) /\ Replay' = reduce(Replay, p, t)
    BY Stored
  <1>2. view' = endTurn(view, no) /\ Replay' = endTurn(Replay, no) /\ no \in BOOLEAN
    BY <1>1 DEF reduce
  <1> HIDE DEF no
  <1>3. view \in View /\ Replay \in View
    BY DEF Shown, ViewOK
  <1>4. (worker'.draft = worker.draft /\ ~worker'.turn) \/ worker.draft = "none"
    BY DEF DraftStep
  <1>5. CASE Same(view, Replay)
    <2>1. Same(view', Replay')
      BY <1>5, StoredAgrees
    <2> QED
      BY <2>1 DEF Seen
  <1>6. ASSUME NEW state \in {"streaming", "stopped"}, Ahead(view, Replay, state), worker.draft # "none" PROVE Seen'
    <2>1. Ahead(view', Replay', "stopped")
      BY <1>2, <1>3, <1>6, EndStopsDraft
    <2> QED
      BY <1>4, <1>6, <2>1 DEF Seen
  <1> QED
    BY <1>5, <1>6 DEF Seen

LEMMA WorkerReplays ==
  ASSUME ConstantsOK, Shown, ReplayOK, WorkerNext
  PROVE  ReplayOK'
  <1>1. PICK p \in Payload : Post(p) /\ ~worker.gone /\ DraftStep(p)
    BY Drafts
  <1>2. CASE p.type \in {"content_block_delta", "message_stop"}
    <2>1. history' = history /\ Replay' = Replay /\ local' = local
      BY <1>1, <1>2, Streamed
    <2>2. ~local => Seen'
      BY <1>1, <1>2, DeltaSeen, StopSeen DEF ReplayOK
    <2>3. ~FailedLast(history)
      BY <1>1, <1>2 DEF ReplayOK, DraftStep
    <2> QED
      BY <2>1, <2>2, <2>3 DEF ReplayOK, FailedLast
  <1>3. CASE p.type \notin {"content_block_delta", "message_stop"}
    <2>1. /\ \E f, t \in BOOLEAN : ~f /\ t /\ view' = reduce(view, p, f) /\ Replay' = reduce(Replay, p, t)
          /\ history \in Seq(Payload) /\ history' = Append(history, p) /\ local' = local
      BY <1>1, <1>3, Stored
    <2>2. AllFinal(Replay'.items)
      <3>1. PICK t \in BOOLEAN : Replay' = reduce(Replay, p, t)
        BY <2>1
      <3>2. Replay \in View /\ Asking \subseteq Tools /\ AllFinal(Replay.items)
        BY DEF Shown, ViewOK, ConstantsOK, ReplayOK
      <3> QED
        BY ONLY <1>3, <3>1, <3>2, p \in Payload, FinalReplayed
    <2>3. FailedLast(history') => ~worker'.turn /\ worker'.draft = "none"
      <3>1. Last(history') = p
        BY <2>1 DEF Last
      <3> QED
        BY <1>1, <3>1 DEF FailedLast, DraftStep
    <2>4. ~local => Seen'
      <3> SUFFICES ASSUME ~local PROVE Seen'
        OBVIOUS
      <3>1. Seen /\ AllFinal(Replay.items)
        BY DEF ReplayOK
      <3>2. CASE Same(view, Replay)
        <4>1. Same(view', Replay')
          BY <1>1, <1>3, <3>2, StoredAgrees
        <4> QED
          BY <4>1 DEF Seen
      <3>3. CASE ~Same(view, Replay)
        <4>1. worker.draft # "none"
          BY <1>1, <3>1, <3>3 DEF Seen
        <4>2. CASE p.type = "assistant_text"
          BY <1>1, <3>1, <4>2, TextSeen DEF Seen
        <4>3. CASE p.type = "result" /\ ~p.failed
          BY <1>1, <3>1, <4>3, ResultSeen
        <4>4. CASE p.type = "worker_shutting_down" /\ worker'.draft = worker.draft /\ worker'.gone
          BY <4>1, <4>4 DEF Seen
        <4> QED
          BY <1>1, <1>3, <4>1, <4>2, <4>3, <4>4 DEF DraftStep
      <3> QED
        BY <3>2, <3>3
    <2> QED
      BY <2>1, <2>2, <2>3, <2>4 DEF ReplayOK
  <1> QED
    BY <1>2, <1>3

LEMMA ReaderReplays ==
  ASSUME ConstantsOK, Shown, Counted, ReplayOK, ReaderNext
  PROVE  ReplayOK'
  <1>1. ASSUME history' = history, worker'.turn = worker.turn, worker'.draft = worker.draft, ~local' => Seen'
        PROVE  ReplayOK'
    BY <1>1 DEF ReplayOK, FailedLast, Replay
  <1>2. ASSUME NEW text \in Texts, NEW delivered \in BOOLEAN, SendMessage(text, delivered) PROVE ReplayOK'
    BY <1>1, <1>2 DEF SendMessage
  <1>3. ASSUME NEW tool, NEW reach, Answer(tool, reach) PROVE ReplayOK'
    <2>1. worker'.turn = worker.turn /\ worker'.draft = worker.draft /\ history' = history /\ local'
      BY <1>3 DEF Answer, Shown, WorkOK, Worker
    <2> QED
      BY <1>1, <2>1
  <1>4. ASSUME Stop PROVE ReplayOK'
    <2>1. view' = [view EXCEPT !.busy = FALSE, !.running = None] /\ worker' = worker /\ history' = history /\ local' = local
      BY <1>4 DEF Stop
    <2>2. view'.items = view.items /\ view'.permission = view.permission /\ view'.pendingWeb = view.pendingWeb
      BY <2>1 DEF Shown, ViewOK, View
    <2>3. Replay' = Replay
      BY <2>1 DEF Replay
    <2>4. Seen => Seen'
      BY <2>1, <2>2, <2>3 DEF Seen, Same, Ahead
    <2> QED
      BY <1>1, <2>1, <2>4 DEF ReplayOK
  <1>5. ASSUME Reopen PROVE ReplayOK'
    <2> DEFINE q == ~worker.gone /\ turnActiveIn(history)
    <2>1. view' = [Replay EXCEPT !.busy = q] /\ history' = history /\ worker' = worker
      BY <1>5 DEF Reopen, Replay
    <2> HIDE DEF q
    <2>2. view'.items = Replay.items /\ view'.permission = Replay.permission /\ view'.pendingWeb = Replay.pendingWeb
      BY <2>1 DEF Shown, ViewOK, View
    <2>3. Replay' = Replay /\ Replay.pendingWeb = <<>>
      BY <2>1 DEF Replay, Counted
    <2>4. Seen'
      BY <2>2, <2>3 DEF Seen, Same
    <2> QED
      BY <1>1, <2>1, <2>4
  <1> QED
    BY <1>2, <1>3, <1>4, <1>5 DEF ReaderNext, AnswerPermission, AnswerCard

LEMMA AlwaysReplay == Spec => []ReplayOK
  <1>1. Init => ReplayOK
    <2> SUFFICES ASSUME Init PROVE ReplayOK
      OBVIOUS
    <2>1. view = initialState /\ history = <<>> /\ Replay = initialState
      BY ReplayNothing DEF Init, Replay
    <2> QED
      BY <2>1, Initially DEF ReplayOK, AllFinal, FailedLast, Seen, Same, initialState
  <1>2. Shown /\ TurnOK /\ ReplayOK /\ [Next]_vars => ReplayOK'
    <2> SUFFICES ASSUME Shown, TurnOK, ReplayOK, [Next]_vars PROVE ReplayOK'
      OBVIOUS
    <2>1. CASE UNCHANGED vars
      BY <2>1 DEF vars, ghosts, ReplayOK, Seen, FailedLast, Replay
    <2> QED
      BY <2>1, ConstantsOK, WorkerReplays, ReaderReplays DEF Next, TurnOK
  <1> QED
    BY <1>1, <1>2, AlwaysShown, AlwaysTurn, PTL DEF Spec

(* Reopening a session shows it as it was seen, as long as only the worker     *)
(* acted: the events the store keeps rebuild what they drew, and the ones it   *)
(* drops are made up for by the message that follows (reduce, reduceAll).      *)
THEOREM ReplayAlwaysMatches == Spec => []ReplayMatches
  <1>1. ReplayOK => ReplayMatches
    BY DEF ReplayOK, Seen, Same, ReplayMatches, Replay
  <1> QED
    BY <1>1, AlwaysReplay, PTL
=============================================================================
