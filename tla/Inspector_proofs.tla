--------------------------- MODULE Inspector_proofs ---------------------------
(***************************************************************************)
(* Proofs about Inspector, for every number of gates, names, pauses and    *)
(* faults: type correctness, that each gate is assigned at when it must be *)
(* and let alone afterwards, and that no pause and no worker is forgotten. *)
(***************************************************************************)
EXTENDS Inspector, SequenceTheorems, WellFoundedInduction, TLAPS

-----------------------------------------------------------------------------
(* Queues and the script *)

\* Sending: the queue grows by one at its end.
LEMMA AppendIs ==
  ASSUME NEW T, NEW q \in Seq(T), NEW e \in T
  PROVE  /\ Append(q, e) \in Seq(T) /\ Len(Append(q, e)) = Len(q) + 1
         /\ DOMAIN Append(q, e) = DOMAIN q \cup {Len(q) + 1} /\ DOMAIN q = 1 .. Len(q)
         /\ Append(q, e)[Len(q) + 1] = e
         /\ \A i \in DOMAIN q : Append(q, e)[i] = q[i] /\ i <= Len(q) /\ i \in Nat
  OBVIOUS

\* Receiving: the queue loses its first element, and each other moves up.
LEMMA TailIs ==
  ASSUME NEW T, NEW q \in Seq(T), q # <<>>
  PROVE  /\ Tail(q) \in Seq(T) /\ Head(q) = q[1] /\ q[1] \in T
         /\ Len(q) \in Nat \ {0} /\ Len(Tail(q)) = Len(q) - 1 /\ 1 \in DOMAIN q /\ DOMAIN q = 1 .. Len(q)
         /\ DOMAIN Tail(q) = 1 .. (Len(q) - 1)
         /\ \A i \in DOMAIN Tail(q) : Tail(q)[i] = q[i + 1] /\ i + 1 \in DOMAIN q /\ i \in Nat \ {0}
         /\ \A i \in DOMAIN q : i = 1 \/ (i - 1 \in DOMAIN Tail(q) /\ Tail(q)[i - 1] = q[i])
  OBVIOUS

Call == [what : Request, gate : Gates \cup {None}]

HandlerCalls == {"rebind", "remove", "resume"}

Pos(g) == (IF Headless THEN 4 ELSE 5) + g

\* What the launch calls, in which order: the breakpoints one after the other, then the release.
LEMMA ScriptIs ==
  /\ Script \in Seq(Call) /\ Len(Script) = Pos(NumGates) + 1 /\ Len(Script) \in Nat
  /\ \A g \in Gates : Pos(g) \in 1 .. Len(Script) /\ Script[Pos(g)] = [what |-> "setBreakpoint", gate |-> g]
  /\ \A j \in 1 .. Len(Script) :
       /\ Script[j] \in Call /\ Script[j].what \notin HandlerCalls
       /\ Script[j].what = "setBreakpoint" => Script[j].gate \in Gates /\ j = Pos(Script[j].gate)
       /\ Script[j].what = "initialized" <=> j = Len(Script)
       /\ Script[j].what \in Tolerated => j < Len(Script)
       /\ \A g \in Gates : j = Pos(g) => Script[j].what = "setBreakpoint"
  <1> DEFINE K == IF Headless THEN 4 ELSE 5
             pre == IF Headless THEN <<S("enable")>> \o RunLocator \o <<S("strip")>>
                    ELSE <<S("enable")>> \o RunLocator \o <<S("strip"), S("qr")>>
  <1>1. pre \in Seq(Call) /\ Len(pre) = K /\ \A i \in 1 .. K : pre[i].what \notin HandlerCalls \cup {"setBreakpoint", "initialized"}
    <2>1. S("enable") \in Call /\ S("locate") \in Call /\ S("poll") \in Call /\ S("strip") \in Call /\ S("qr") \in Call
      BY DEF S, Call, Request
    <2>2. /\ <<S("enable")>> \in Seq(Call) /\ Len(<<S("enable")>>) = 1 /\ <<S("enable")>>[1] = S("enable")
          /\ RunLocator \in Seq(Call) /\ Len(RunLocator) = 2
          /\ RunLocator[1] = S("locate") /\ RunLocator[2] = S("poll")
      BY <2>1 DEF RunLocator
    <2>3. PICK two : two = <<S("enable")>> \o RunLocator
      OBVIOUS
    <2>4. /\ two \in Seq(Call) /\ Len(two) = 3
          /\ two[1] = S("enable") /\ two[2] = S("locate") /\ two[3] = S("poll")
      <3> DEFINE one == <<S("enable")>>
      <3>1. /\ one \o RunLocator \in Seq(Call) /\ Len(one \o RunLocator) = Len(one) + Len(RunLocator)
            /\ \A i \in 1 .. Len(one) + Len(RunLocator) :
                 (one \o RunLocator)[i] = IF i <= Len(one) THEN one[i] ELSE RunLocator[i - Len(one)]
        BY <2>2, ConcatProperties
      <3>2. Len(one) = 1 /\ one[1] = S("enable") /\ two = one \o RunLocator
        BY <2>2, <2>3
      <3> HIDE DEF one
      <3> QED
        BY <2>2, <3>1, <3>2
    <2>5. ASSUME NEW three \in Seq(Call), Len(three) \in {1, 2}, \A i \in 1 .. Len(three) : three[i] \in {S("strip"), S("qr")}
          PROVE  /\ two \o three \in Seq(Call) /\ Len(two \o three) = 3 + Len(three)
                 /\ \A i \in 1 .. 3 + Len(three) :
                      (two \o three)[i].what \notin HandlerCalls \cup {"setBreakpoint", "initialized"}
      <3>1. /\ two \o three \in Seq(Call) /\ Len(two \o three) = Len(two) + Len(three)
            /\ \A i \in 1 .. Len(two) + Len(three) :
                 (two \o three)[i] = IF i <= Len(two) THEN two[i] ELSE three[i - Len(two)]
        BY <2>4, ConcatProperties
      <3>2. \A i \in 1 .. 3 + Len(three) : i \in {1, 2, 3} \/ i - 3 \in 1 .. Len(three)
        BY <2>5
      <3> QED
        BY <2>4, <2>5, <3>1, <3>2 DEF S, HandlerCalls
    <2>6. CASE Headless
      <3>1. <<S("strip")>> \in Seq(Call) /\ Len(<<S("strip")>>) = 1 /\ <<S("strip")>>[1] = S("strip")
        BY <2>1
      <3>2. pre = two \o <<S("strip")>> /\ K = 4
        BY <2>3, <2>6
      <3>3. PICK three : three = <<S("strip")>>
        OBVIOUS
      <3>5. three \in Seq(Call) /\ Len(three) = 1 /\ \A i \in 1 .. Len(three) : three[i] \in {S("strip"), S("qr")}
        BY <3>1, <3>3
      <3>4. /\ two \o three \in Seq(Call) /\ Len(two \o three) = 3 + Len(three)
            /\ \A i \in 1 .. 3 + Len(three) :
                 (two \o three)[i].what \notin HandlerCalls \cup {"setBreakpoint", "initialized"}
        BY <2>5, <3>5
      <3> HIDE DEF pre, K
      <3> QED
        BY <3>2, <3>3, <3>4, <3>5
    <2>7. CASE ~Headless
      <3>1. /\ <<S("strip"), S("qr")>> \in Seq(Call) /\ Len(<<S("strip"), S("qr")>>) = 2
            /\ \A i \in 1 .. 2 : <<S("strip"), S("qr")>>[i] \in {S("strip"), S("qr")}
        BY <2>1
      <3>2. pre = two \o <<S("strip"), S("qr")>> /\ K = 5
        BY <2>3, <2>7
      <3>3. PICK three : three = <<S("strip"), S("qr")>>
        OBVIOUS
      <3>4. /\ two \o three \in Seq(Call) /\ Len(two \o three) = 3 + Len(three)
            /\ \A i \in 1 .. 3 + Len(three) :
                 (two \o three)[i].what \notin HandlerCalls \cup {"setBreakpoint", "initialized"}
        BY <2>5, <3>1, <3>3
      <3> HIDE DEF pre, K
      <3> QED
        BY <3>1, <3>2, <3>3, <3>4
    <2> QED
      BY <2>6, <2>7
  <1>2. K \in Nat /\ NumGates \in Nat /\ K + NumGates = Pos(NumGates) /\ \A g \in Gates : Pos(g) = K + g
    BY ConstantsOK DEF Pos
  <1>3. SetBreakpoints \in Seq(Call) /\ Len(SetBreakpoints) = NumGates
    BY <1>2 DEF SetBreakpoints, Gates, Call, Request
  <1>4. Script = (pre \o SetBreakpoints) \o <<S("initialized")>>
    BY DEF Script, InteractiveCalls, HeadlessCalls
  <1>5. <<S("initialized")>> \in Seq(Call) /\ Len(<<S("initialized")>>) = 1 /\ <<S("initialized")>>[1] = S("initialized")
    BY DEF S, Call, Request
  <1> DEFINE mid == pre \o SetBreakpoints
             last == <<S("initialized")>>
  <1> HIDE DEF pre, K
  <1>6. /\ mid \in Seq(Call) /\ Len(mid) = K + NumGates
        /\ \A i \in 1 .. (K + NumGates) : mid[i] = IF i <= K THEN pre[i] ELSE SetBreakpoints[i - K]
    BY <1>1, <1>2, <1>3, ConcatProperties
  <1> HIDE DEF mid, last
  <1>7. /\ Script \in Seq(Call) /\ Len(Script) = K + NumGates + 1
        /\ \A i \in 1 .. (K + NumGates + 1) : Script[i] = IF i <= K + NumGates THEN mid[i] ELSE S("initialized")
    <2>1. /\ mid \o last \in Seq(Call) /\ Len(mid \o last) = Len(mid) + Len(last)
          /\ \A i \in 1 .. (Len(mid) + Len(last)) : (mid \o last)[i] = IF i <= Len(mid) THEN mid[i] ELSE last[i - Len(mid)]
      BY <1>5, <1>6, ConcatProperties DEF last
    <2>2. Script = mid \o last /\ Len(last) = 1 /\ last[1] = S("initialized")
      BY <1>4, <1>5 DEF mid, last
    <2>3. \A i \in 1 .. (K + NumGates + 1) : i > K + NumGates => i - (K + NumGates) = 1
      BY <1>2
    <2> QED
      BY <1>2, <1>6, <2>1, <2>2, <2>3
  <1>8. \A j \in 1 .. Len(Script) :
          /\ j <= K => Script[j] = pre[j]
          /\ K < j /\ j <= K + NumGates =>
               j - K \in Gates /\ j = Pos(j - K) /\ Script[j] = [what |-> "setBreakpoint", gate |-> j - K]
          /\ j > K + NumGates => j = Len(Script) /\ Script[j] = S("initialized")
    <2> SUFFICES ASSUME NEW j \in 1 .. (K + NumGates + 1)
                 PROVE  /\ j <= K => Script[j] = pre[j]
                        /\ K < j /\ j <= K + NumGates =>
                             j - K \in Gates /\ j = Pos(j - K) /\ Script[j] = [what |-> "setBreakpoint", gate |-> j - K]
                        /\ j > K + NumGates => j = Len(Script) /\ Script[j] = S("initialized")
      BY <1>7
    <2>1. CASE j <= K
      BY <1>2, <1>6, <1>7, <2>1
    <2>2. CASE K < j /\ j <= K + NumGates
      <3>1. j - K \in Gates /\ j = Pos(j - K)
        BY <1>2, <2>2 DEF Gates
      <3>2. Script[j] = SetBreakpoints[j - K]
        BY <1>2, <1>6, <1>7, <2>2
      <3> QED
        BY <1>2, <2>2, <3>1, <3>2 DEF SetBreakpoints
    <2>3. CASE j > K + NumGates
      BY <1>2, <1>7, <2>3
    <2> QED
      BY <1>2, <2>1, <2>2, <2>3
  <1>9. \A g \in Gates : Pos(g) \in 1 .. Len(Script) /\ Pos(g) > K /\ Pos(g) <= K + NumGates /\ Pos(g) - K = g
    BY <1>2, <1>7 DEF Gates
  <1>10. \A g \in Gates : Script[Pos(g)] = [what |-> "setBreakpoint", gate |-> g]
    BY <1>8, <1>9
  <1>11. ASSUME NEW j \in 1 .. Len(Script)
         PROVE  /\ Script[j] \in Call /\ Script[j].what \notin HandlerCalls
                /\ Script[j].what = "setBreakpoint" => Script[j].gate \in Gates /\ j = Pos(Script[j].gate)
                /\ Script[j].what = "initialized" <=> j = Len(Script)
                /\ Script[j].what \in Tolerated => j < Len(Script)
                /\ \A g \in Gates : j = Pos(g) => Script[j].what = "setBreakpoint"
    <2>0. Script[j] \in Call
      BY <1>7
    <2>1. CASE j <= K
      BY <1>1, <1>2, <1>7, <1>8, <1>9, <2>0, <2>1 DEF HandlerCalls
    <2>2. CASE K < j /\ j <= K + NumGates
      BY <1>2, <1>7, <1>8, <1>9, <2>0, <2>2 DEF HandlerCalls
    <2>3. CASE j > K + NumGates
      BY <1>2, <1>7, <1>8, <1>9, <2>0, <2>3 DEF HandlerCalls, S, Tolerated
    <2> QED
      BY <1>2, <2>1, <2>2, <2>3
  <1> QED
    BY <1>2, <1>7, <1>9, <1>10, <1>11

-----------------------------------------------------------------------------
(* Shapes *)

Client == [sock : {"none", "connecting", "open", "ended", "closed"}, closed : BOOLEAN, nextId : Nat]

\* A call as it is sent: only the launch sets breakpoints, and only handlers reassign, remove and resume.
Sent ==
  {c \in Pending : /\ c.what = "setBreakpoint" => c.gate \in Gates
                   /\ c.owner = None <=> c.what \notin HandlerCalls}

Event == [kind : {"paused"}, frame : 1 .. MaxPauses, col : Nat]
Answer == [kind : {"answer"}, id : Nat, ok : BOOLEAN]
Down == Event \cup Answer \cup [kind : {"close"}]

Launch == [style : {"interactive", "headless"}, step : Nat, waiting : BOOLEAN,
           outcome : {"going", "ready", "threw"}]

Handler == [frame : 1 .. MaxPauses, gate : Gates \cup {None}, call : HandlerCalls, name : 1 .. Names,
            waiting : BOOLEAN]

Worker == [mode : {"none", "wait", "running", "paused", "done", "dead"}, listens : BOOLEAN, armed : BOOLEAN,
           rebound : BOOLEAN]

Process == [mode : {"wait", "running", "paused", "dead"}, at : Gates \cup {None}, frame : 0 .. MaxPauses,
            armed : SUBSET Gates, done : [Gates -> Nat], stripped : BOOLEAN, worker : Worker]

\* TypeOK, with the types of what it leaves out, and with the assignments at a gate not yet bounded.
Shapes ==
  /\ client \in Client /\ (client.closed <=> client.sock \in {"ended", "closed"})
  /\ pending \subseteq Sent /\ up \in Seq(Sent) /\ down \in Seq(Down)
  /\ launch \in Launch /\ launch.step <= Len(Script)
  /\ placed \subseteq Gates /\ hit \subseteq Gates
  /\ handlers \subseteq Handler
  /\ attach \in [step : 0 .. Len(AttachScript), outcome : {"going", "ready", "threw"}]
  /\ target \in Process
  /\ failed \subseteq Gates \cup {None} /\ missed \subseteq Gates /\ pauses \in [Gates -> Nat]

\* The constants, and no gate among them.
LEMMA Known ==
  /\ NumGates \in Nat /\ Gates \subseteq Nat \ {0} /\ None = 0 /\ None \notin Gates /\ SpawnGate \in Gates
  /\ Names \in Nat \ {0} /\ MaxPauses \in Nat
  /\ \A g \in Gates \cup {None} : NamesAt(g) \in 1 .. Names
  /\ Len(AttachScript) = 7
  BY ConstantsOK DEF Gates, None, NamesAt, AttachScript

\* A set of numbers up to n has a largest one.
LEMMA MaxExists ==
  ASSUME NEW n \in Nat, NEW T, T \subseteq 0 .. n, T # {}
  PROVE  \E m \in T : \A k \in T : k <= m
  <1> DEFINE R == OpToRel(<, Nat)
             D == {n - k : k \in T}
  <1>1. IsWellFoundedOn(R, Nat)
    BY NatLessThanWellFounded
  <1>2. D \subseteq Nat
    <2>1. \A k \in T : k \in 0 .. n
      OBVIOUS
    <2> QED
      BY <2>1
  <1>3. D # {}
    OBVIOUS
  <1>4. PICK d \in D : \A e \in D : ~(<<e, d>> \in R)
    <2> HIDE DEF R, D
    <2> QED
      BY <1>1, <1>2, <1>3, WFMin
  <1>5. \A x, y \in Nat : x < y => <<x, y>> \in R
    BY DEF OpToRel
  <1> HIDE DEF R
  <1>6. PICK m \in T : d = n - m
    OBVIOUS
  <1>7. \A k \in T : n - k \in D
    OBVIOUS
  <1>8. \A k \in T : ~(n - k < n - m)
    BY <1>2, <1>4, <1>5, <1>6, <1>7
  <1> QED
    BY <1>6, <1>8

\* The gate a pause at gate a is taken for: that gate, if its breakpoint is one that may be hit, and
\* otherwise, in an interactive launch, one further to the left or none.
LEMMA MatchIs ==
  ASSUME Shapes, NEW a \in Gates, NEW col \in {Col(a), Col(a) + 3}
  PROVE  /\ Match(col) \in Gates \cup {None} /\ Match(col) <= a
         /\ Headless \/ (a \in placed /\ (a \in Sticky \/ a \notin hit)) => Match(col) = a
         /\ ~Headless /\ Match(col) # None => Match(col) \in Sticky \/ Match(col) \notin hit
  <1> DEFINE fit == Candidates(col)
  <1>1. a \in Nat \ {0} /\ Gates \subseteq Nat \ {0}
    BY Known
  <1>2. /\ fit \subseteq Gates /\ \A g \in fit : g <= a
        /\ \A g \in fit : ~Headless => g \in Sticky \/ g \notin hit
        /\ Headless \/ (a \in placed /\ (a \in Sticky \/ a \notin hit)) => a \in fit
    <2>1. ASSUME NEW g \in Gates, col + 4 >= Col(g)
          PROVE  g <= a
      <3>1. g \in Nat /\ a \in Nat /\ 10 * g <= 10 * a + 7
        BY <1>1, <2>1 DEF Col
      <3> QED
        BY <3>1
    <2>2. col + 4 >= Col(a)
      BY <1>1 DEF Col
    <2> QED
      BY <2>1, <2>2 DEF Candidates
  <1>3. Match(col) = IF fit = {} THEN None ELSE CHOOSE g \in fit : \A k \in fit : Fits(col, g, k)
    BY DEF Match
  <1> HIDE DEF fit
  <1>4. \A g, k \in fit : Fits(col, g, k) <=> k <= g
    <2> SUFFICES ASSUME NEW g \in fit, NEW k \in fit
                 PROVE  Fits(col, g, k) <=> k <= g
      OBVIOUS
    <2>1. g \in Nat /\ k \in Nat /\ g <= a /\ k <= a /\ col \in Nat
      BY <1>1, <1>2 DEF Col
    <2>2. CASE col = Col(a)
      <3>1. Distance(col, g) = 10 * a - 10 * g /\ Distance(col, k) = 10 * a - 10 * k
        BY <1>1, <2>1, <2>2 DEF Distance, Col
      <3> QED
        BY <1>1, <2>1, <3>1 DEF Fits
    <2>3. CASE col = Col(a) + 3
      <3>1. Distance(col, g) = 10 * a + 3 - 10 * g /\ Distance(col, k) = 10 * a + 3 - 10 * k
        BY <1>1, <2>1, <2>3 DEF Distance, Col
      <3> QED
        BY <1>1, <2>1, <3>1 DEF Fits
    <2> QED
      BY <2>2, <2>3
  <1>5. CASE fit = {}
    BY <1>1, <1>2, <1>3, <1>5, Known
  <1>6. CASE fit # {}
    <2>1. fit \subseteq 0 .. a
      BY <1>1, <1>2
    <2>2. PICK m \in fit : \A k \in fit : k <= m
      BY <1>1, <1>6, <2>1, MaxExists
    <2>3. \A k \in fit : Fits(col, m, k)
      BY <1>4, <2>2
    <2>4. Match(col) \in fit /\ \A k \in fit : Fits(col, Match(col), k)
      BY <1>3, <1>6, <2>3
    <2>5. \A k \in fit : k <= Match(col)
      BY <1>4, <2>4
    <2>6. a \in fit => Match(col) = a
      <3>1. Match(col) <= a /\ Match(col) \in Nat
        BY <1>1, <1>2, <2>4
      <3> QED
        BY <1>1, <2>5, <3>1
    <2> QED
      BY <1>2, <2>4, <2>6
  <1> QED
    BY <1>5, <1>6

-----------------------------------------------------------------------------
(* What the helpers do *)

\* The process goes on.
LEMMA ResumedIs ==
  ASSUME NEW p \in Process
  PROVE  /\ Resumed(p) \in Process /\ Resumed(p).mode = "running" /\ Resumed(p).at = None
         /\ Resumed(p).frame = p.frame /\ Resumed(p).armed = p.armed /\ Resumed(p).stripped = p.stripped
         /\ \A g \in Gates : Resumed(p).done[g] = IF Stays(g) THEN 0 ELSE p.done[g]
         /\ ~(Headless /\ p.at = SpawnGate) => Resumed(p).worker = p.worker
         /\ Headless /\ p.at = SpawnGate =>
              Resumed(p).worker = [mode |-> IF p.done[SpawnGate] > 0 \/ ~p.stripped THEN "wait" ELSE "running",
                                   listens |-> p.done[SpawnGate] > 0, armed |-> FALSE, rebound |-> FALSE]
  <1> DEFINE d == [g \in Gates |-> IF Stays(g) THEN 0 ELSE p.done[g]]
             w == IF Headless /\ p.at = SpawnGate
                  THEN [mode |-> IF p.done[SpawnGate] > 0 \/ ~p.stripped THEN "wait" ELSE "running",
                        listens |-> p.done[SpawnGate] > 0, armed |-> FALSE, rebound |-> FALSE]
                  ELSE p.worker
  <1>1. d \in [Gates -> Nat] /\ w \in Worker
    BY DEF Process, Worker
  <1>2. Resumed(p) = [p EXCEPT !.mode = "running", !.at = None, !.done = d, !.worker = w]
    BY DEF Resumed
  <1>3. \A g \in Gates : d[g] = IF Stays(g) THEN 0 ELSE p.done[g]
    OBVIOUS
  <1>4. /\ ~(Headless /\ p.at = SpawnGate) => w = p.worker
        /\ Headless /\ p.at = SpawnGate =>
              w = [mode |-> IF p.done[SpawnGate] > 0 \/ ~p.stripped THEN "wait" ELSE "running",
                   listens |-> p.done[SpawnGate] > 0, armed |-> FALSE, rebound |-> FALSE]
    OBVIOUS
  <1> HIDE DEF d, w
  <1>5. /\ Resumed(p) \in Process /\ Resumed(p).mode = "running" /\ Resumed(p).at = None
        /\ Resumed(p).frame = p.frame /\ Resumed(p).armed = p.armed /\ Resumed(p).stripped = p.stripped
        /\ Resumed(p).done = d /\ Resumed(p).worker = w
    BY <1>1, <1>2 DEF Process
  <1> QED
    BY <1>3, <1>4, <1>5

\* A launch that throws takes the process with it, and nothing else of it changes.
LEMMA IfThrownIs ==
  ASSUME NEW p \in Process
  PROVE  /\ IfThrown(p) \in Process
         /\ launch'.outcome # "threw" => IfThrown(p) = p
         /\ launch'.outcome = "threw" => IfThrown(p).mode = "dead"
         /\ IfThrown(p).at = p.at /\ IfThrown(p).frame = p.frame /\ IfThrown(p).armed = p.armed
         /\ IfThrown(p).done = p.done /\ IfThrown(p).stripped = p.stripped
         /\ IfThrown(p).worker.mode = p.worker.mode
              \/ (p.worker.mode # "none" /\ IfThrown(p).worker.mode = "dead")
         /\ IfThrown(p).worker.listens = p.worker.listens /\ IfThrown(p).worker.armed = p.worker.armed
         /\ IfThrown(p).worker.rebound = p.worker.rebound
  <1>1. CASE launch'.outcome # "threw"
    BY <1>1 DEF IfThrown
  <1>2. CASE launch'.outcome = "threw"
    <2>1. PICK m : m = IF Headless /\ p.worker.mode # "none" THEN "dead" ELSE p.worker.mode
      OBVIOUS
    <2>2. IfThrown(p) = [p EXCEPT !.mode = "dead", !.worker.mode = m]
      BY <1>2, <2>1 DEF IfThrown
    <2>3. p.worker \in Worker
      BY DEF Process
    <2>4. m = p.worker.mode \/ (p.worker.mode # "none" /\ m = "dead")
      BY <2>1
    <2>5. PICK w \in Worker : w = [p.worker EXCEPT !.mode = m]
      BY <2>3, <2>4 DEF Worker
    <2>6. w.mode = m /\ w.listens = p.worker.listens /\ w.armed = p.worker.armed /\ w.rebound = p.worker.rebound
      BY <2>3, <2>5 DEF Worker
    <2>7. IfThrown(p) = [p EXCEPT !.mode = "dead", !.worker = w]
      BY <2>2, <2>5
    <2>8. /\ IfThrown(p) \in Process /\ IfThrown(p).mode = "dead" /\ IfThrown(p).worker = w
          /\ IfThrown(p).at = p.at /\ IfThrown(p).frame = p.frame /\ IfThrown(p).armed = p.armed
          /\ IfThrown(p).done = p.done /\ IfThrown(p).stripped = p.stripped
      BY <2>7 DEF Process
    <2> QED
      BY <1>2, <2>4, <2>6, <2>8
  <1> QED
    BY <1>1, <1>2

\* How the launch goes on.
LEMMA LaunchAfterIs ==
  ASSUME Shapes, NEW ok \in BOOLEAN, launch.step \in 1 .. Len(Script)
  PROVE  /\ LaunchAfter(ok) \in Launch /\ LaunchAfter(ok).step <= Len(Script)
         /\ LaunchAfter(ok).style = launch.style /\ ~LaunchAfter(ok).waiting
         /\ ~ok /\ Script[launch.step].what \notin Tolerated =>
              LaunchAfter(ok).outcome = "threw" /\ LaunchAfter(ok).step = launch.step
         /\ ok \/ Script[launch.step].what \in Tolerated =>
              IF launch.step = Len(Script)
              THEN LaunchAfter(ok).outcome = "ready" /\ LaunchAfter(ok).step = launch.step
              ELSE LaunchAfter(ok).outcome = launch.outcome /\ LaunchAfter(ok).step = launch.step + 1
  <1>1. launch \in Launch /\ Len(Script) \in Nat
    BY ScriptIs DEF Shapes
  <1>2. CASE ~ok /\ Script[launch.step].what \notin Tolerated
    <2>1. LaunchAfter(ok) = [launch EXCEPT !.waiting = FALSE, !.outcome = "threw"]
      BY <1>2 DEF LaunchAfter
    <2> QED
      BY <1>1, <1>2, <2>1 DEF Launch, Shapes
  <1>3. CASE ~(~ok /\ Script[launch.step].what \notin Tolerated) /\ launch.step = Len(Script)
    <2>1. LaunchAfter(ok) = [launch EXCEPT !.waiting = FALSE, !.outcome = "ready"]
      BY <1>3 DEF LaunchAfter
    <2> QED
      BY <1>1, <1>3, <2>1 DEF Launch, Shapes
  <1>4. CASE ~(~ok /\ Script[launch.step].what \notin Tolerated) /\ launch.step # Len(Script)
    <2>1. LaunchAfter(ok) = [launch EXCEPT !.waiting = FALSE, !.step = launch.step + 1]
      BY <1>4 DEF LaunchAfter
    <2>2. launch.step + 1 \in Nat /\ launch.step + 1 <= Len(Script)
      BY <1>1, <1>4
    <2> QED
      BY <1>1, <1>4, <2>1, <2>2 DEF Launch
  <1> QED
    BY <1>2, <1>3, <1>4

\* How a handler goes on: it is done, or makes its next call.
LEMMA HandlerAfterIs ==
  ASSUME NEW h \in Handler, h.call = "rebind" => h.name <= NamesAt(h.gate)
  PROVE  /\ HandlerAfter(h) \subseteq Handler
         /\ h.call = "resume" => HandlerAfter(h) = {}
         /\ h.call # "resume" => \E k \in Handler :
              /\ HandlerAfter(h) = {k} /\ k.frame = h.frame /\ k.gate = h.gate /\ ~k.waiting
              /\ k.call = "rebind" => h.call = "rebind" /\ k.name = h.name + 1 /\ k.name <= NamesAt(k.gate)
              /\ k.call = "remove" => h.call = "rebind" /\ ~Stays(h.gate)
              /\ k.call # "rebind" /\ h.call = "rebind" => h.name = NamesAt(h.gate)
              /\ k.call = "resume" => h.call = "remove" \/ Stays(h.gate)
  <1>1. h.name \in Nat /\ NamesAt(h.gate) \in 1 .. Names /\ h.gate \in Gates \cup {None} /\ Names \in Nat
    <2>1. h.gate \in Gates \cup {None} /\ h.name \in 1 .. Names
      BY DEF Handler
    <2>2. Names \in Nat /\ \A g \in Gates \cup {None} : NamesAt(g) \in 1 .. Names
      BY Known
    <2>3. NamesAt(h.gate) \in 1 .. Names
      BY <2>1, <2>2
    <2>4. h.name \in Nat
      BY <2>1, <2>2
    <2> QED
      BY <2>1, <2>2, <2>3, <2>4
  <1>2. CASE h.call = "resume"
    BY <1>2 DEF HandlerAfter
  <1>3. CASE h.call # "resume"
    <2>1. PICK c : c = NextCall(h)
      OBVIOUS
    <2>2. PICK n : n = IF c = "rebind" THEN h.name + 1 ELSE h.name
      OBVIOUS
    <2>3. c = (CASE h.call = "rebind" /\ h.name < NamesAt(h.gate) -> "rebind"
                 [] h.call = "rebind" /\ h.name = NamesAt(h.gate) /\ ~Stays(h.gate) -> "remove"
                 [] OTHER -> "resume")
      BY <2>1 DEF NextCall
    <2>4. /\ c = "rebind" => h.call = "rebind" /\ h.name < NamesAt(h.gate)
          /\ c = "remove" => h.call = "rebind" /\ h.name = NamesAt(h.gate) /\ ~Stays(h.gate)
          /\ c = "resume" => (h.call = "rebind" => h.name = NamesAt(h.gate) /\ Stays(h.gate))
          /\ c \in HandlerCalls
      <3>1. CASE h.call = "rebind" /\ h.name < NamesAt(h.gate)
        BY <1>1, <2>3, <3>1 DEF HandlerCalls
      <3>2. CASE h.call = "rebind" /\ h.name = NamesAt(h.gate) /\ ~Stays(h.gate)
        BY <1>1, <2>3, <3>2 DEF HandlerCalls
      <3>3. CASE ~(h.call = "rebind" /\ h.name < NamesAt(h.gate)) /\ ~(h.call = "rebind" /\ h.name = NamesAt(h.gate) /\ ~Stays(h.gate))
        BY <1>1, <2>3, <3>3 DEF HandlerCalls
      <3> QED
        BY <3>1, <3>2, <3>3
    <2>5. HandlerAfter(h) = {[h EXCEPT !.call = c, !.waiting = FALSE, !.name = n]}
      BY <1>3, <2>1, <2>2 DEF HandlerAfter
    <2>6. n \in 1 .. Names
      BY <1>1, <2>2, <2>4 DEF Handler
    <2>7. PICK k \in Handler : k = [h EXCEPT !.call = c, !.waiting = FALSE, !.name = n]
      BY <2>4, <2>6 DEF Handler
    <2>8. k.frame = h.frame /\ k.gate = h.gate /\ ~k.waiting /\ k.call = c /\ k.name = n
      BY <2>7 DEF Handler
    <2>9. h.call \in HandlerCalls
      BY DEF Handler
    <2>10. HandlerAfter(h) = {k}
      BY <2>5, <2>7
    <2>11. /\ k.call = "rebind" => h.call = "rebind" /\ k.name = h.name + 1 /\ k.name <= NamesAt(k.gate)
           /\ k.call = "remove" => h.call = "rebind" /\ ~Stays(h.gate)
           /\ k.call # "rebind" /\ h.call = "rebind" => h.name = NamesAt(h.gate)
      BY <1>1, <2>2, <2>4, <2>8 DEF HandlerCalls
    <2>12. k.call = "resume" => h.call = "remove" \/ Stays(h.gate)
      BY <1>3, <2>4, <2>8, <2>9 DEF HandlerCalls
    <2> QED
      BY <1>3, <2>8, <2>10, <2>11, <2>12
  <1> QED
    BY <1>2, <1>3

\* What a call does to the process.
LEMMA EffectIs ==
  ASSUME Shapes, NEW call \in Sent
  PROVE  /\ Effect(call) \in Process
         /\ call.what \notin {"setBreakpoint", "remove"} => Effect(call).armed = target.armed
         /\ call.what = "setBreakpoint" => Effect(call).armed = target.armed \cup {call.gate}
         /\ call.what = "remove" => Effect(call).armed = target.armed \ {call.gate}
         /\ call.what = "resume" => Effect(call) = Resumed(target)
         /\ call.what = "initialized" => Effect(call).mode = "running"
         /\ call.what \notin {"resume", "initialized"} => Effect(call).mode = target.mode
         /\ call.what # "resume" =>
              /\ Effect(call).at = target.at /\ Effect(call).frame = target.frame
              /\ Effect(call).worker = target.worker
              /\ \A g \in Gates :
                   Effect(call).done[g] = IF call.what = "rebind" /\ target.at = g /\ call.gate = g
                                          THEN target.done[g] + 1 ELSE target.done[g]
  <1>0. target \in Process /\ call.what \in Request
    BY DEF Shapes, Sent, Pending
  <1>1. CASE call.what = "setBreakpoint"
    <2>1. Effect(call) = [target EXCEPT !.armed = target.armed \cup {call.gate}] /\ call.gate \in Gates
      BY <1>1 DEF Effect, Sent
    <2> QED
      BY <1>0, <1>1, <2>1 DEF Process
  <1>2. CASE call.what = "strip"
    <2>1. Effect(call) = [target EXCEPT !.stripped = TRUE]
      BY <1>2 DEF Effect
    <2> QED
      BY <1>0, <1>2, <2>1 DEF Process
  <1>3. CASE call.what = "initialized"
    <2>1. Effect(call) = [target EXCEPT !.mode = "running"]
      BY <1>3 DEF Effect
    <2> QED
      BY <1>0, <1>3, <2>1 DEF Process
  <1>4. CASE call.what = "rebind" /\ target.at = call.gate
    <2>1. target.done \in [Gates -> Nat]
      BY <1>0 DEF Process
    <2>2. PICK d : d = [target.done EXCEPT ![call.gate] = target.done[call.gate] + 1]
      OBVIOUS
    <2>3. d \in [Gates -> Nat] /\ \A g \in Gates : d[g] = IF g = call.gate THEN target.done[g] + 1 ELSE target.done[g]
      <3>1. ASSUME NEW f \in [Gates -> Nat], NEW a
            PROVE  LET e == [f EXCEPT ![a] = f[a] + 1]
                   IN e \in [Gates -> Nat] /\ \A g \in Gates : e[g] = IF g = a THEN f[g] + 1 ELSE f[g]
        <4>1. CASE a \in Gates
          BY <4>1
        <4>2. CASE a \notin Gates
          <5>1. [f EXCEPT ![a] = f[a] + 1] = f
            BY <4>2
          <5> QED
            BY <4>2, <5>1
        <4> QED
          BY <4>1, <4>2
      <3> QED
        BY <2>1, <2>2, <3>1
    <2>6. Effect(call) = [target EXCEPT !.done[call.gate] = @ + 1]
      BY <1>4 DEF Effect
    <2>7. Effect(call) = [target EXCEPT !.done = d]
      BY <2>2, <2>6
    <2>4. /\ Effect(call) \in Process /\ Effect(call).armed = target.armed /\ Effect(call).mode = target.mode
          /\ Effect(call).at = target.at /\ Effect(call).frame = target.frame /\ Effect(call).worker = target.worker
          /\ Effect(call).done = d
      BY <1>0, <1>4, <2>3, <2>7 DEF Process
    <2>5. \A g \in Gates : d[g] = IF target.at = g /\ call.gate = g THEN target.done[g] + 1 ELSE target.done[g]
      BY <1>4, <2>3
    <2> QED
      BY <1>4, <2>4, <2>5
  <1>5. CASE call.what = "remove"
    <2>1. Effect(call) = [target EXCEPT !.armed = target.armed \ {call.gate}]
      BY <1>5 DEF Effect
    <2> QED
      BY <1>0, <1>5, <2>1 DEF Process
  <1>6. CASE call.what = "resume"
    <2>1. Effect(call) = Resumed(target)
      BY <1>6 DEF Effect
    <2> QED
      BY <1>0, <1>6, <2>1, ResumedIs
  <1>7. CASE /\ call.what \notin {"setBreakpoint", "strip", "initialized", "remove", "resume"}
             /\ ~(call.what = "rebind" /\ target.at = call.gate)
    <2>1. Effect(call) = target
      BY <1>7 DEF Effect
    <2> QED
      BY <1>0, <1>7, <2>1
  <1> QED
    BY <1>1, <1>2, <1>3, <1>4, <1>5, <1>6, <1>7

\* A call is sent: it is pending, and the last on its way.
LEMMA SendIs ==
  ASSUME Shapes, NEW c \in Sent, c.id = client.nextId, Send(c.owner, c.what, c.gate)
  PROVE  /\ pending' = pending \cup {c} /\ pending' \subseteq Sent
         /\ up' \in Seq(Sent) /\ Len(up) \in Nat /\ Len(up') = Len(up) + 1 /\ DOMAIN up = 1 .. Len(up)
         /\ DOMAIN up' = DOMAIN up \cup {Len(up) + 1}
         /\ up'[Len(up) + 1] = c /\ \A i \in DOMAIN up : up'[i] = up[i]
         /\ client' \in Client /\ client'.nextId = client.nextId + 1 /\ client.nextId \in Nat
         /\ client'.sock = client.sock /\ client'.closed = client.closed
  <1>1. client \in Client /\ client.nextId \in Nat /\ up \in Seq(Sent) /\ pending \subseteq Sent
    BY DEF Shapes, Client
  <1>2. c = [id |-> client.nextId, owner |-> c.owner, what |-> c.what, gate |-> c.gate]
    BY DEF Sent, Pending
  <1>3. pending' = pending \cup {c} /\ up' = Append(up, c) /\ client' = [client EXCEPT !.nextId = client.nextId + 1]
    BY <1>2 DEF Send
  <1>4. /\ client' \in Client /\ client'.nextId = client.nextId + 1
        /\ client'.sock = client.sock /\ client'.closed = client.closed
    BY <1>1, <1>3 DEF Client
  <1>5. /\ up' \in Seq(Sent) /\ Len(up) \in Nat /\ Len(up') = Len(up) + 1 /\ DOMAIN up = 1 .. Len(up)
        /\ DOMAIN up' = DOMAIN up \cup {Len(up) + 1}
        /\ up'[Len(up) + 1] = c /\ \A i \in DOMAIN up : up'[i] = up[i]
    BY <1>1, <1>3, AppendIs
  <1> QED
    BY <1>1, <1>3, <1>4, <1>5

\* Names are within the gate's.
NamesTrue == \A h \in handlers : h.call = "rebind" => h.name <= NamesAt(h.gate)

\* A call of the launch is settled.
LEMMA SettleLaunch ==
  ASSUME Shapes, NEW c, NEW ok \in BOOLEAN, c.owner = None, Settle({c}, ok)
  PROVE  /\ launch' = LaunchAfter(ok) /\ handlers' = handlers /\ attach' = attach
         /\ placed' = placed \cup (IF ok /\ c.what = "setBreakpoint" THEN {c.gate} ELSE {})
  <1>1. {d.owner : d \in {c}} = {None}
    OBVIOUS
  <1>2. \A h \in handlers : h.frame # None
    BY Known DEF Shapes, Handler
  <1>3. launch' = LaunchAfter(ok)
    BY <1>1 DEF Settle
  <1>4. handlers' = UNION {IF h.frame \in {None} THEN HandlerAfter(h) ELSE {h} : h \in handlers}
    BY <1>1 DEF Settle
  <1>5. handlers' = UNION {{h} : h \in handlers}
    BY <1>2, <1>4
  <1>6. {h \in handlers : h.frame \in {None}} = {}
    BY <1>2
  <1>7. attach' = AttachAfter({})
    BY <1>1, <1>6 DEF Settle
  <1>8. placed' = placed \cup (IF ok THEN {e.gate : e \in {d \in {c} : d.what = "setBreakpoint"}} ELSE {})
    BY DEF Settle
  <1> QED
    BY <1>3, <1>5, <1>7, <1>8 DEF AttachAfter

\* A call of a handler is settled.
LEMMA SettleHandler ==
  ASSUME Shapes, NEW c, NEW ok \in BOOLEAN, NEW h \in handlers, c.owner = h.frame, c.what # "setBreakpoint",
         \A k \in handlers : k.frame = h.frame => k = h, Settle({c}, ok)
  PROVE  /\ launch' = launch /\ placed' = placed
         /\ handlers' = (handlers \ {h}) \cup HandlerAfter(h)
         /\ attach' = IF Headless /\ h.gate = SpawnGate /\ h.call = "rebind" THEN [attach EXCEPT !.step = 1] ELSE attach
  <1>1. {d.owner : d \in {c}} = {h.frame}
    OBVIOUS
  <1>2. h.frame # None
    BY Known DEF Shapes, Handler
  <1>3. launch' = launch
    BY <1>1, <1>2 DEF Settle
  <1>4. handlers' = UNION {IF k.frame \in {h.frame} THEN HandlerAfter(k) ELSE {k} : k \in handlers}
    BY <1>1 DEF Settle
  <1>5. handlers' = UNION {IF k = h THEN HandlerAfter(k) ELSE {k} : k \in handlers}
    BY <1>4
  <1>6. handlers' = (handlers \ {h}) \cup HandlerAfter(h)
    BY <1>5
  <1>7. {k \in handlers : k.frame \in {h.frame}} = {h}
    OBVIOUS
  <1>8. attach' = AttachAfter({h})
    BY <1>1, <1>7 DEF Settle
  <1>9. placed' = placed \cup (IF ok THEN {e.gate : e \in {d \in {c} : d.what = "setBreakpoint"}} ELSE {})
    BY DEF Settle
  <1> QED
    BY <1>3, <1>6, <1>8, <1>9 DEF AttachAfter

\* Any calls are settled.
LEMMA SettleIs ==
  ASSUME Shapes, NamesTrue, NEW calls, NEW ok \in BOOLEAN, Settle(calls, ok),
         \A c \in calls : c.what = "setBreakpoint" => c.gate \in Gates,
         \A c \in calls : c.owner = None => launch.step \in 1 .. Len(Script)
  PROVE  /\ launch' \in Launch /\ launch'.step <= Len(Script) /\ launch'.style = launch.style
         /\ launch' = launch \/ (launch' = LaunchAfter(ok) /\ \E c \in calls : c.owner = None)
         /\ placed' \subseteq Gates
         /\ \A k \in handlers' :
              \/ k \in handlers /\ \A c \in calls : c.owner # k.frame
              \/ \E h \in handlers : (\E c \in calls : c.owner = h.frame) /\ k \in HandlerAfter(h)
         /\ handlers' \subseteq Handler
         /\ attach' \in [step : 0 .. Len(AttachScript), outcome : {"going", "ready", "threw"}]
         /\ attach' = attach \/ Headless
  <1> DEFINE owners == {c.owner : c \in calls}
  <1>1. /\ launch' = IF None \in owners THEN LaunchAfter(ok) ELSE launch
        /\ handlers' = UNION {IF h.frame \in owners THEN HandlerAfter(h) ELSE {h} : h \in handlers}
        /\ attach' = AttachAfter({h \in handlers : h.frame \in owners})
    BY DEF Settle
  <1>2. launch' = launch \/ (launch' = LaunchAfter(ok) /\ \E c \in calls : c.owner = None)
    BY <1>1
  <1>3. launch' \in Launch /\ launch'.step <= Len(Script) /\ launch'.style = launch.style
    BY <1>2, LaunchAfterIs DEF Shapes
  <1>4. placed' = placed \cup (IF ok THEN {c.gate : c \in {d \in calls : d.what = "setBreakpoint"}} ELSE {})
    BY DEF Settle
  <1>5. placed' \subseteq Gates
    BY <1>4 DEF Shapes
  <1>6. \A k \in handlers' :
              \/ k \in handlers /\ \A c \in calls : c.owner # k.frame
              \/ \E h \in handlers : (\E c \in calls : c.owner = h.frame) /\ k \in HandlerAfter(h)
    BY <1>1
  <1>7. \A h \in handlers : h \in Handler /\ HandlerAfter(h) \subseteq Handler
    BY HandlerAfterIs DEF Shapes, NamesTrue
  <1>8. handlers' \subseteq Handler
    BY <1>6, <1>7
  <1>9. attach' = attach \/ (Headless /\ attach' = [attach EXCEPT !.step = 1])
    BY <1>1 DEF AttachAfter
  <1>10. attach' \in [step : 0 .. Len(AttachScript), outcome : {"going", "ready", "threw"}]
    <2>1. 1 \in 0 .. Len(AttachScript)
      BY Known
    <2> QED
      BY <1>9, <2>1 DEF Shapes
  <1> QED
    BY <1>2, <1>3, <1>5, <1>6, <1>8, <1>9, <1>10

-----------------------------------------------------------------------------
(* The inductive invariant *)

\* Ids tell calls apart: of what is pending, on its way and answered.  A call on its way has not been
\* answered, and if it is no longer awaited its deadline has passed.
Ids ==
  /\ \A c, d \in pending : c.owner = d.owner \/ c.id = d.id => c = d
  /\ \A c \in pending : c.id < client.nextId
  /\ \A i \in DOMAIN up :
       /\ up[i].id < client.nextId
       /\ \A c \in pending : c.id = up[i].id => c = up[i]
       /\ up[i] \in pending \/ up[i].gate \in failed
       /\ \A j \in DOMAIN up : i < j => up[i].id < up[j].id
  /\ \A k \in DOMAIN down : down[k].kind = "answer" =>
       /\ down[k].id < client.nextId
       /\ \A i \in DOMAIN up : down[k].id < up[i].id

\* What the launch awaits is the call it is at.  The release is the last of its calls, and the process does
\* not run before it is made.
LaunchTrue ==
  /\ \A c \in pending : c.owner = None =>
       /\ launch.waiting /\ launch.outcome = "going" /\ launch.step > 0
       /\ c.what = Script[launch.step].what /\ c.gate = Script[launch.step].gate
  /\ launch.step = 0 => ~launch.waiting
  /\ client.sock \in {"none", "connecting"} => launch.step = 0
  /\ launch.outcome = "threw" => ~Alive
  /\ Alive =>
       /\ \A i \in DOMAIN up : up[i].what = "initialized" => i = Len(up) /\ up[i] \in pending
       /\ target.mode # "wait" => launch.step = Len(Script) /\ (launch.outcome = "going" => launch.waiting)

\* An answer tells the truth about its call.
AnswersTrue ==
  \A k \in DOMAIN down : \A c \in pending : down[k].kind = "answer" /\ down[k].id = c.id =>
    IF down[k].ok THEN c.what = "setBreakpoint" /\ Alive /\ ~client.closed => c.gate \in target.armed
    ELSE c.what = "rebind" \/ c.gate \in failed

\* A breakpoint the launch is past is reported, or the call failed.
PlacedTrue ==
  Alive /\ ~client.closed =>
    /\ \A g \in Gates : launch.step > Pos(g) => g \in placed \cup failed
    /\ target.mode = "wait" => placed \subseteq target.armed

\* There is one handler per pause; it awaits what is pending in its name, and once the process has gone
\* on it awaits the answer to its resume.
HandlersTrue ==
  /\ NamesTrue
  /\ \A h, k \in handlers : h.frame = k.frame => h = k
  /\ \A h \in handlers :
       /\ h.frame <= target.frame
       /\ h.call # "resume" => h.gate \in hit
       /\ h.call = "remove" => ~Stays(h.gate)
       /\ Alive /\ ~client.closed /\ (target.mode # "paused" \/ h.frame # target.frame) =>
            h.call = "resume" /\ h.waiting
  /\ \A c \in pending : c.owner # None =>
       \E h \in handlers : h.frame = c.owner /\ h.waiting /\ h.call = c.what /\ h.gate = c.gate

Announced == \E k \in DOMAIN down : down[k].kind = "paused"

\* Word of a pause that is on its way is of the last one, and nothing has been done about it.
EventsTrue ==
  \A k \in DOMAIN down : down[k].kind = "paused" =>
    /\ target.at \in Gates /\ down[k].col \in {Col(target.at), Col(target.at) + 3}
    /\ down[k].frame = target.frame
    /\ \A h \in handlers : h.frame # target.frame
    /\ \A j \in DOMAIN down : down[j].kind = "paused" => j = k
    /\ Alive => target.mode = "paused" /\ up = <<>> /\ (~client.closed => target.at \in target.armed)

\* While the process waits only the launch has made calls, and while it runs none is on its way; while it
\* is paused they are of that pause, in the order in which its handler makes them.
StopTrue ==
  Alive =>
    /\ target.mode = "wait" =>
         /\ \A i \in DOMAIN up : up[i].owner = None
         /\ handlers = {} /\ hit = {} /\ target.frame = 0
         /\ \A g \in Gates : pauses[g] = 0
    /\ target.mode = "running" => up = <<>>
    /\ target.mode = "paused" <=> target.at # None
    /\ target.mode = "paused" => target.frame # None /\ \A i \in DOMAIN up : up[i].owner = target.frame
    /\ \A i \in DOMAIN up : up[i].what = "resume" => i = Len(up)
    /\ target.mode = "paused" /\ ~client.closed =>
         \A h \in handlers : h.frame = target.frame =>
           \A i \in DOMAIN up :
             /\ up[i].gate = h.gate
             /\ h.call = "rebind" => up[i].what = "rebind"
             /\ h.call = "remove" \/ ~h.waiting => up[i].what # "resume"

\* Gate a may go on with a name not reassigned: a call about it, or about one that is taken for it, failed.
Excused(a) == \E h \in failed : IF Headless THEN a = h ELSE a <= h

Cleared(g) == target.done[g] >= NamesAt(g) \/ Excused(g)

\* Assignments: no more than there are names, counting those on their way; none before the handler makes
\* them, nor after the pause where the breakpoint stays; all of them before the gate is let go.
DoneTrue ==
  /\ \A g \in Gates : target.done[g] <= NamesAt(g)
  /\ Alive =>
       /\ \A g \in Gates : target.done[g] # 0 =>
            IF Stays(g) THEN target.at = g /\ ~Announced ELSE g \in hit
       /\ \A i \in DOMAIN up, g \in Gates \cup {None} : up[i].gate = g =>
            /\ up[i].what = "rebind" => g \in hit /\ target.done[g] + i <= NamesAt(g)
            /\ up[i].what = "remove" => g \in Gates /\ ~Stays(g) /\ Cleared(g)
       /\ \A i \in DOMAIN up, a \in Gates : target.at = a /\ up[i].what \in {"remove", "resume"} => Cleared(a)

\* The pause: its handler took it for the gate it is at, unless that is excused, and has come as far as
\* the calls it has made.
FrameTrue ==
  Alive /\ target.mode = "paused" /\ ~client.closed =>
    \A h \in handlers, a \in Gates : h.frame = target.frame /\ target.at = a =>
      /\ h.gate = a \/ (Excused(a) /\ h.gate < a)
      /\ h.call = "rebind" =>
           /\ target.done[h.gate] + Len(up) <= IF h.waiting THEN h.name ELSE h.name - 1
           /\ h.gate = a /\ a \notin failed =>
                target.done[a] + Len(up) = IF h.waiting THEN h.name ELSE h.name - 1
      /\ h.call # "rebind" => Cleared(a)

\* The breakpoint at g is about to be removed.
Leaving(g) ==
  \/ target.at = g /\ g \notin hit /\ Announced
  \/ \E h \in handlers : /\ h.frame = target.frame /\ h.gate = g
                         /\ h.call = "rebind" \/ (h.call = "remove" /\ ~h.waiting)
  \/ \E i \in DOMAIN up : up[i].what = "remove" /\ up[i].gate = g

\* A breakpoint reported set is still set, unless its gate has been let go; one that does not stay and
\* has stopped the process is removed, or about to be, unless a call about it failed.
BreakpointsTrue ==
  Alive /\ ~client.closed =>
    /\ \A g \in placed \ target.armed : ~Stays(g) /\ Cleared(g)
    /\ \A g \in target.armed : ~Stays(g) /\ (g \in hit \/ pauses[g] > 0) =>
         g \in failed \/ (target.mode = "paused" /\ Leaving(g))

Forgiven == mishap \/ SpawnGate \in failed \/ client.closed

\* Unless something about it went wrong: the worker waits until it is attached to, runs only with its
\* breakpoint set, and is not attached to twice.
WorkerTrue ==
  /\ ~Headless \/ target.at = SpawnGate => target.worker.mode = "none"
  /\ Forgiven \/
       /\ target.worker.mode = "none" => attach.step <= 1 /\ attach.outcome = "going"
       /\ target.worker.mode # "none" => \A h \in handlers : h.gate = SpawnGate => h.call # "rebind"
       /\ target.worker.mode = "wait" =>
            /\ target.worker.listens /\ attach.step > 0 /\ attach.outcome = "going"
            /\ attach.step = Len(AttachScript) => target.worker.armed
       /\ target.worker.mode \in {"running", "paused"} => target.worker.armed
       /\ target.worker.mode = "done" => target.worker.rebound
       /\ Alive /\ Headless /\ target.at = SpawnGate =>
            /\ \A i \in DOMAIN up : up[i].what = "resume" => attach.step > 0
            /\ \A h \in handlers : h.frame = target.frame /\ h.call # "rebind" => attach.step > 0

Core ==
  /\ Ids /\ LaunchTrue /\ AnswersTrue /\ PlacedTrue /\ HandlersTrue /\ EventsTrue /\ StopTrue
  /\ DoneTrue /\ FrameTrue /\ BreakpointsTrue /\ GatesHonest /\ PausedIsHandled

IInv == Shapes /\ Core /\ WorkerTrue

-----------------------------------------------------------------------------
(* What keeps each part *)

\* What only depends on the style of the launch.
LEMMA StyleKept ==
  ASSUME launch'.style = launch.style
  PROVE  /\ Headless' <=> Headless
         /\ Script' = Script
         /\ \A g : NamesAt(g)' = NamesAt(g)
         /\ \A g : Stays(g)' <=> Stays(g)
         /\ \A g : Pos(g)' = Pos(g)
  <1>1. Headless' <=> Headless
    BY DEF Headless
  <1> QED
    BY <1>1 DEF Script, NamesAt, Stays, Pos, HeadlessCalls, InteractiveCalls, RunLocator, SetBreakpoints, S

\* Nothing has been put on its way but word that the other side closes.
DownLess ==
  \E s \in {0, 1} : \A k \in DOMAIN down' : down'[k].kind # "close" =>
    k \in Nat /\ k + s \in DOMAIN down /\ down'[k] = down[k + s]

\* The process and the session live on only if they lived.
StillAlive == Alive' => Alive
StillOpen == client.closed => client'.closed

LEMMA IdsKept ==
  ASSUME Ids, client'.nextId = client.nextId, pending' \subseteq pending, failed \subseteq failed', up' = up,
         \A i \in DOMAIN up : up[i] \in pending => up[i] \in pending' \/ up[i].gate \in failed', DownLess
  PROVE  Ids'
  <1>1. \A k \in DOMAIN down' : down'[k].kind = "answer" => \E j \in DOMAIN down : down[j] = down'[k]
    BY DEF DownLess
  <1> QED
    BY <1>1 DEF Ids

LEMMA LaunchKept ==
  ASSUME LaunchTrue, launch' = launch, pending' \subseteq pending, StillAlive,
         client'.sock \in {"none", "connecting"} => client.sock \in {"none", "connecting"},
         Alive' => up' = up /\ (\A c \in pending : c.what = "initialized" => c \in pending')
                   /\ (target.mode = "wait" => target'.mode = "wait")
  PROVE  LaunchTrue'
  <1>1. Script' = Script
    BY StyleKept
  <1> QED
    BY <1>1 DEF LaunchTrue, StillAlive, Alive

LEMMA AnswersKept ==
  ASSUME AnswersTrue, pending' \subseteq pending, failed \subseteq failed', DownLess, StillAlive, StillOpen,
         Alive' /\ ~client'.closed => target.armed \subseteq target'.armed
  PROVE  AnswersTrue'
  <1>1. \A k \in DOMAIN down' : down'[k].kind = "answer" => \E j \in DOMAIN down : down[j] = down'[k]
    BY DEF DownLess
  <1>2. SUFFICES ASSUME NEW k \in DOMAIN down', NEW c \in pending', down'[k].kind = "answer", down'[k].id = c.id
                 PROVE  IF down'[k].ok THEN c.what = "setBreakpoint" /\ Alive' /\ ~client'.closed => c.gate \in target'.armed
                        ELSE c.what = "rebind" \/ c.gate \in failed'
    BY DEF AnswersTrue
  <1>3. PICK j \in DOMAIN down : down[j] = down'[k]
    BY <1>1, <1>2
  <1>4. IF down[j].ok THEN c.what = "setBreakpoint" /\ Alive /\ ~client.closed => c.gate \in target.armed
        ELSE c.what = "rebind" \/ c.gate \in failed
    BY <1>2, <1>3 DEF AnswersTrue
  <1> QED
    BY <1>3, <1>4 DEF StillAlive, StillOpen

LEMMA PlacedKept ==
  ASSUME PlacedTrue, launch'.style = launch.style, placed' = placed, failed \subseteq failed', StillAlive, StillOpen,
         Alive' /\ ~client'.closed =>
           launch'.step = launch.step /\ target.armed \subseteq target'.armed
           /\ (target'.mode = "wait" => target.mode = "wait")
  PROVE  PlacedTrue'
  <1>1. \A g : Pos(g)' = Pos(g)
    BY StyleKept
  <1> QED
    BY <1>1 DEF PlacedTrue, StillAlive, StillOpen

LEMMA HandlersKept ==
  ASSUME HandlersTrue, launch'.style = launch.style, handlers' = handlers, hit \subseteq hit', StillAlive, StillOpen,
         \A c \in pending' : c \in pending \/ c.owner = None,
         target'.frame = target.frame, Alive' => target'.mode = target.mode \/ target.mode # "paused"
  PROVE  HandlersTrue'
  <1>1. (\A g : NamesAt(g)' = NamesAt(g)) /\ (\A g : Stays(g)' <=> Stays(g))
    BY StyleKept
  <1> QED
    BY <1>1 DEF HandlersTrue, NamesTrue, StillAlive, StillOpen

LEMMA EventsKept ==
  ASSUME EventsTrue, DownLess, target'.at = target.at, target'.frame = target.frame,
         \A h \in handlers' : \E k \in handlers : h.frame = k.frame, StillAlive, StillOpen,
         Alive' => target'.mode = target.mode /\ up' = up
                   /\ (~client'.closed /\ target.at \in target.armed => target.at \in target'.armed)
  PROVE  EventsTrue'
  <1>1. PICK s \in {0, 1} : \A k \in DOMAIN down' : down'[k].kind # "close" =>
                             k \in Nat /\ k + s \in DOMAIN down /\ down'[k] = down[k + s]
    BY DEF DownLess
  <1>2. SUFFICES ASSUME NEW k \in DOMAIN down', down'[k].kind = "paused"
                 PROVE  /\ target'.at \in Gates /\ down'[k].col \in {Col(target'.at), Col(target'.at) + 3}
                        /\ down'[k].frame = target'.frame
                        /\ \A h \in handlers' : h.frame # target'.frame
                        /\ \A j \in DOMAIN down' : down'[j].kind = "paused" => j = k
                        /\ Alive' => target'.mode = "paused" /\ up' = <<>>
                                     /\ (~client'.closed => target'.at \in target'.armed)
    BY DEF EventsTrue, Col
  <1>3. k \in Nat /\ k + s \in DOMAIN down /\ down'[k] = down[k + s]
    BY <1>1, <1>2
  <1>4. /\ target.at \in Gates /\ down[k + s].col \in {Col(target.at), Col(target.at) + 3}
        /\ down[k + s].frame = target.frame
        /\ \A h \in handlers : h.frame # target.frame
        /\ \A j \in DOMAIN down : down[j].kind = "paused" => j = k + s
        /\ Alive => target.mode = "paused" /\ up = <<>> /\ (~client.closed => target.at \in target.armed)
    BY <1>2, <1>3 DEF EventsTrue
  <1>5. \A j \in DOMAIN down' : down'[j].kind = "paused" => j = k
    <2> SUFFICES ASSUME NEW j \in DOMAIN down', down'[j].kind = "paused" PROVE j = k
      OBVIOUS
    <2>1. j \in Nat /\ j + s \in DOMAIN down /\ down[j + s].kind = "paused"
      BY <1>1
    <2>2. j + s = k + s
      BY <1>4, <2>1
    <2> QED
      BY <1>3, <2>1, <2>2
  <1>6. Alive' => target'.mode = "paused" /\ up' = <<>> /\ (~client'.closed => target'.at \in target'.armed)
    BY <1>4 DEF StillAlive, StillOpen
  <1> QED
    BY <1>3, <1>4, <1>5, <1>6

LEMMA StopKept ==
  ASSUME StopTrue, StillAlive, StillOpen,
         Alive' => /\ target'.mode = target.mode /\ target'.at = target.at /\ target'.frame = target.frame
                   /\ up' = up /\ hit' = hit /\ pauses' = pauses /\ handlers' = handlers
  PROVE  StopTrue'
  BY DEF StopTrue, StillAlive, StillOpen

\* An excuse stays one.
LEMMA ExcusedKept ==
  ASSUME launch'.style = launch.style, failed \subseteq failed'
  PROVE  \A g : Excused(g) => Excused(g)'
  BY StyleKept DEF Excused

LEMMA ClearedKept ==
  ASSUME launch'.style = launch.style, failed \subseteq failed'
  PROVE  \A g : Cleared(g) /\ target'.done[g] = target.done[g] => Cleared(g)'
  <1>1. (\A g : Excused(g) => Excused(g)') /\ (\A g : NamesAt(g)' = NamesAt(g))
    BY ExcusedKept, StyleKept
  <1> QED
    BY <1>1 DEF Cleared

LEMMA DoneKept ==
  ASSUME DoneTrue, launch'.style = launch.style, target'.done = target.done, StillAlive,
         Alive' => /\ target'.at = target.at /\ up' = up /\ hit \subseteq hit' /\ (Announced' => Announced)
                   /\ failed \subseteq failed'
  PROVE  DoneTrue'
  <1>1. (\A g : NamesAt(g)' = NamesAt(g)) /\ (\A g : Stays(g)' <=> Stays(g))
    BY StyleKept
  <1>2. Alive' => \A g : Cleared(g) => Cleared(g)'
    BY ClearedKept
  <1>3. \A g \in Gates : target'.done[g] <= NamesAt(g)'
    BY <1>1 DEF DoneTrue
  <1>4. ASSUME Alive'
        PROVE  /\ \A g \in Gates : target'.done[g] # 0 =>
                    IF Stays(g)' THEN target'.at = g /\ ~Announced' ELSE g \in hit'
               /\ \A i \in DOMAIN up', g \in Gates \cup {None} : up'[i].gate = g =>
                    /\ up'[i].what = "rebind" => g \in hit' /\ target'.done[g] + i <= NamesAt(g)'
                    /\ up'[i].what = "remove" => g \in Gates /\ ~Stays(g)' /\ Cleared(g)'
               /\ \A i \in DOMAIN up', a \in Gates : target'.at = a /\ up'[i].what \in {"remove", "resume"} => Cleared(a)'
    <2>1. Alive
      BY <1>4 DEF StillAlive
    <2>2. \A g \in Gates : target'.done[g] # 0 => IF Stays(g)' THEN target'.at = g /\ ~Announced' ELSE g \in hit'
      BY <1>1, <1>4, <2>1 DEF DoneTrue
    <2>3. \A i \in DOMAIN up', g \in Gates \cup {None} : up'[i].gate = g =>
                    /\ up'[i].what = "rebind" => g \in hit' /\ target'.done[g] + i <= NamesAt(g)'
                    /\ up'[i].what = "remove" => g \in Gates /\ ~Stays(g)' /\ Cleared(g)'
      BY <1>1, <1>2, <1>4, <2>1 DEF DoneTrue
    <2>4. \A i \in DOMAIN up', a \in Gates : target'.at = a /\ up'[i].what \in {"remove", "resume"} => Cleared(a)'
      BY <1>2, <1>4, <2>1 DEF DoneTrue
    <2> QED
      BY <2>2, <2>3, <2>4
  <1> QED
    BY <1>3, <1>4 DEF DoneTrue

LEMMA FrameKept ==
  ASSUME FrameTrue, launch'.style = launch.style, StillAlive, StillOpen,
         Alive' /\ ~client'.closed =>
           /\ target'.mode = target.mode /\ target'.at = target.at /\ target'.frame = target.frame
           /\ target'.done = target.done /\ up' = up /\ handlers' \subseteq handlers /\ failed \subseteq failed'
  PROVE  FrameTrue'
  <1>1. SUFFICES ASSUME Alive', target'.mode = "paused", ~client'.closed, NEW h \in handlers', NEW a \in Gates,
                        h.frame = target'.frame, target'.at = a
                 PROVE  /\ h.gate = a \/ (Excused(a)' /\ h.gate < a)
                        /\ h.call = "rebind" =>
                             /\ target'.done[h.gate] + Len(up') <= IF h.waiting THEN h.name ELSE h.name - 1
                             /\ h.gate = a /\ a \notin failed' =>
                                  target'.done[a] + Len(up') = IF h.waiting THEN h.name ELSE h.name - 1
                        /\ h.call # "rebind" => Cleared(a)'
    BY DEF FrameTrue
  <1>2. (Excused(a) => Excused(a)') /\ (Cleared(a) => Cleared(a)')
    <2>1. \A g : (Excused(g) => Excused(g)') /\ (Cleared(g) => Cleared(g)')
      BY <1>1, ExcusedKept, ClearedKept
    <2> QED
      BY <2>1
  <1>3. /\ h.gate = a \/ (Excused(a) /\ h.gate < a)
        /\ h.call = "rebind" =>
             /\ target.done[h.gate] + Len(up) <= IF h.waiting THEN h.name ELSE h.name - 1
             /\ h.gate = a /\ a \notin failed =>
                  target.done[a] + Len(up) = IF h.waiting THEN h.name ELSE h.name - 1
        /\ h.call # "rebind" => Cleared(a)
    BY <1>1 DEF FrameTrue, StillAlive, StillOpen
  <1> QED
    BY <1>1, <1>2, <1>3

LEMMA BreakpointsKept ==
  ASSUME BreakpointsTrue, launch'.style = launch.style, StillAlive, StillOpen,
         Alive' /\ ~client'.closed =>
           /\ target'.mode = target.mode \/ target.mode # "paused"
           /\ target'.at = target.at /\ target'.frame = target.frame
           /\ target'.done = target.done /\ target'.armed = target.armed
           /\ placed' \subseteq placed \cup target.armed
           /\ up' = up /\ handlers' = handlers /\ failed \subseteq failed' /\ hit' = hit /\ pauses' = pauses
           /\ (Announced => Announced')
  PROVE  BreakpointsTrue'
  <1>1. \A g : Stays(g)' <=> Stays(g)
    BY StyleKept
  <1>2. SUFFICES ASSUME Alive', ~client'.closed
                 PROVE  /\ \A g \in placed' \ target'.armed : ~Stays(g)' /\ Cleared(g)'
                        /\ \A g \in target'.armed : ~Stays(g)' /\ (g \in hit' \/ pauses'[g] > 0) =>
                             g \in failed' \/ (target'.mode = "paused" /\ Leaving(g)')
    BY DEF BreakpointsTrue
  <1>3. Alive /\ ~client.closed
    BY <1>2 DEF StillAlive, StillOpen
  <1>4. \A g : Leaving(g) => Leaving(g)'
    BY <1>2 DEF Leaving
  <1>5. \A g : Cleared(g) => Cleared(g)'
    BY <1>2, ClearedKept
  <1> QED
    BY <1>1, <1>2, <1>3, <1>4, <1>5 DEF BreakpointsTrue

LEMMA GatesKept ==
  ASSUME GatesHonest, launch'.style = launch.style, missed' = missed, pauses' = pauses, failed \subseteq failed'
  PROVE  GatesHonest'
  <1>1. (Headless' <=> Headless) /\ \A g : Stays(g)' <=> Stays(g)
    BY StyleKept
  <1> QED
    BY <1>1 DEF GatesHonest, GatesRebound, HotPathLeftAlone

LEMMA PausedKept ==
  ASSUME PausedIsHandled, StillOpen,
         target'.mode = "paused" /\ ~client'.closed =>
           /\ target.mode = "paused" /\ target'.frame = target.frame /\ up' = up /\ handlers' = handlers
           /\ \A j \in DOMAIN down : down[j].kind = "paused" => \E k \in DOMAIN down' : down'[k] = down[j]
  PROVE  PausedIsHandled'
  BY DEF PausedIsHandled, StillOpen

\* The worker is as it was, or has been killed.
WorkerSame ==
  /\ \/ target'.worker.mode = target.worker.mode
     \/ target.worker.mode # "none" /\ target'.worker.mode = "dead"
  /\ target'.worker.listens = target.worker.listens
  /\ target'.worker.armed = target.worker.armed
  /\ target'.worker.rebound = target.worker.rebound

LEMMA WorkerKept ==
  ASSUME WorkerTrue, launch'.style = launch.style, WorkerSame, target'.at = target.at, attach' = attach,
         StillAlive, StillOpen, failed \subseteq failed', mishap => mishap',
         \A h \in handlers' : h.call = "rebind" /\ h.gate = SpawnGate =>
           \/ \E k \in handlers : k.call = "rebind" /\ k.gate = SpawnGate
           \/ target.worker.mode = "none",
         Alive' /\ ~client'.closed =>
           /\ target'.frame = target.frame
           /\ \A i \in DOMAIN up' : up'[i].what = "resume" =>
                \/ \E j \in DOMAIN up : up[j].what = "resume"
                \/ \E h \in handlers : h.frame = target.frame /\ h.call # "rebind"
           /\ \A h \in handlers' : h.frame = target'.frame /\ h.call # "rebind" =>
                \/ \E k \in handlers : k.frame = target.frame /\ k.call # "rebind"
                \/ ~(Headless /\ target.at = SpawnGate)
  PROVE  WorkerTrue'
  <1>1. Headless' <=> Headless
    BY StyleKept
  <1>2. (~Headless \/ target.at = SpawnGate) => target.worker.mode = "none"
    BY DEF WorkerTrue
  <1>3. (~Headless' \/ target'.at = SpawnGate) => target'.worker.mode = "none"
    BY <1>1, <1>2 DEF WorkerSame
  <1>4. Forgiven => Forgiven'
    BY DEF Forgiven, StillOpen
  <1>5. CASE Forgiven'
    BY <1>3, <1>5 DEF WorkerTrue
  <1>6. CASE ~Forgiven'
    <2>0. ~client'.closed
      BY <1>6 DEF Forgiven
    <2>1. /\ target.worker.mode = "none" => attach.step <= 1 /\ attach.outcome = "going"
          /\ target.worker.mode # "none" => \A h \in handlers : h.gate = SpawnGate => h.call # "rebind"
          /\ target.worker.mode = "wait" =>
               /\ target.worker.listens /\ attach.step > 0 /\ attach.outcome = "going"
               /\ attach.step = Len(AttachScript) => target.worker.armed
          /\ target.worker.mode \in {"running", "paused"} => target.worker.armed
          /\ target.worker.mode = "done" => target.worker.rebound
          /\ Alive /\ Headless /\ target.at = SpawnGate =>
               /\ \A i \in DOMAIN up : up[i].what = "resume" => attach.step > 0
               /\ \A h \in handlers : h.frame = target.frame /\ h.call # "rebind" => attach.step > 0
      BY <1>4, <1>6 DEF WorkerTrue
    <2>2. target'.worker.mode = "none" => attach'.step <= 1 /\ attach'.outcome = "going"
      BY <2>1 DEF WorkerSame
    <2>3. target'.worker.mode # "none" => \A h \in handlers' : h.gate = SpawnGate => h.call # "rebind"
      BY <2>1 DEF WorkerSame
    <2>4. /\ target'.worker.mode = "wait" =>
               /\ target'.worker.listens /\ attach'.step > 0 /\ attach'.outcome = "going"
               /\ attach'.step = Len(AttachScript) => target'.worker.armed
          /\ target'.worker.mode \in {"running", "paused"} => target'.worker.armed
          /\ target'.worker.mode = "done" => target'.worker.rebound
      BY <2>1 DEF WorkerSame
    <2>5. Alive' /\ Headless' /\ target'.at = SpawnGate =>
               /\ \A i \in DOMAIN up' : up'[i].what = "resume" => attach'.step > 0
               /\ \A h \in handlers' : h.frame = target'.frame /\ h.call # "rebind" => attach'.step > 0
      BY <1>1, <2>0, <2>1 DEF StillAlive
    <2> QED
      BY <1>3, <2>2, <2>3, <2>4, <2>5 DEF WorkerTrue, AttachScript
  <1> QED
    BY <1>5, <1>6

\* The process is as it was, or has been killed.
TargetSame ==
  /\ target'.mode = target.mode \/ target'.mode = "dead"
  /\ target'.at = target.at /\ target'.frame = target.frame /\ target'.armed = target.armed
  /\ target'.done = target.done

\* Steps that only the launch takes part in, or that only take away from the connection.
LEMMA LaunchMoves ==
  ASSUME Core, launch'.style = launch.style, pending' \subseteq pending,
         \A c \in pending : c.owner = None \/ c \in pending',
         up' = up, handlers' = handlers, hit' = hit, missed' = missed \/ GatesHonest', pauses' = pauses, failed \subseteq failed',
         DownLess, TargetSame, StillOpen, client'.nextId = client.nextId,
         \A i \in DOMAIN up : up[i] \in pending => up[i] \in pending' \/ up[i].gate \in failed',
         \A j \in DOMAIN down : down[j].kind = "paused" => \E k \in DOMAIN down' : down'[k] = down[j],
         Alive' /\ ~client'.closed => placed' \subseteq placed \cup target.armed,
         LaunchTrue', PlacedTrue'
  PROVE  Core'
  <1>0. StillAlive
    BY DEF StillAlive, TargetSame, Alive
  <1>1. Ids'
    BY IdsKept DEF Core
  <1>2. AnswersTrue'
    BY <1>0, AnswersKept DEF Core, TargetSame
  <1>3. HandlersTrue'
    <2>1. Alive' => target'.mode = target.mode \/ target.mode # "paused"
      BY DEF TargetSame, Alive
    <2> QED
      BY <1>0, <2>1, HandlersKept DEF Core, TargetSame
  <1>4. EventsTrue'
    <2>1. Alive' => target'.mode = target.mode
      BY DEF TargetSame, Alive
    <2> QED
      BY <1>0, <2>1, EventsKept DEF Core, TargetSame
  <1>5. StopTrue'
    <2>1. Alive' => target'.mode = target.mode
      BY DEF TargetSame, Alive
    <2> QED
      BY <1>0, <2>1, StopKept DEF Core, TargetSame
  <1>6. DoneTrue'
    <2>1. Announced' => Announced
      BY DEF Announced, DownLess
    <2> QED
      BY <1>0, <2>1, DoneKept DEF Core, TargetSame
  <1>7. FrameTrue'
    <2>1. Alive' => target'.mode = target.mode
      BY DEF TargetSame, Alive
    <2> QED
      BY <1>0, <2>1, FrameKept DEF Core, TargetSame
  <1>8. BreakpointsTrue'
    <2>1. Alive' => target'.mode = target.mode
      BY DEF TargetSame, Alive
    <2>2. Announced => Announced'
      BY DEF Announced
    <2> QED
      BY <1>0, <2>1, <2>2, BreakpointsKept DEF Core, TargetSame
  <1>9. GatesHonest'
    BY GatesKept DEF Core
  <1>10. PausedIsHandled'
    <2>1. target'.mode = "paused" => target.mode = "paused"
      BY DEF TargetSame
    <2> QED
      BY <2>1, PausedKept DEF Core, TargetSame
  <1> QED
    BY <1>1, <1>2, <1>3, <1>4, <1>5, <1>6, <1>7, <1>8, <1>9, <1>10 DEF Core

\* The launch is where it was.
LEMMA QuietMoves ==
  ASSUME Core, launch' = launch, pending' = pending, placed' = placed,
         up' = up, handlers' = handlers, hit' = hit, missed' = missed \/ GatesHonest', pauses' = pauses, failed' = failed,
         DownLess, TargetSame, StillOpen, client'.nextId = client.nextId,
         client'.sock \in {"none", "connecting"} => client.sock \in {"none", "connecting"},
         \A j \in DOMAIN down : down[j].kind = "paused" => \E k \in DOMAIN down' : down'[k] = down[j]
  PROVE  Core'
  <1>0. StillAlive
    BY DEF StillAlive, TargetSame, Alive
  <1>1. Alive' => target'.mode = target.mode
    BY DEF TargetSame, Alive
  <1>2. LaunchTrue'
    BY <1>0, <1>1, LaunchKept DEF Core
  <1>3. PlacedTrue'
    BY <1>0, <1>1, PlacedKept DEF Core, TargetSame
  <1> QED
    BY <1>2, <1>3, LaunchMoves

-----------------------------------------------------------------------------
(* The launch *)

\* A call of the launch is settled, and the launch goes on.
LEMMA LaunchSettled ==
  ASSUME IInv, NEW c, NEW ok \in BOOLEAN, c.owner = None, Settle({c}, ok), target' = IfThrown(target),
         launch.outcome = "going", launch.step \in 1 .. Len(Script),
         c.what = Script[launch.step].what, c.gate = Script[launch.step].gate,
         UNCHANGED <<up, hit, missed, pauses, mishap>>, down' \in Seq(Down), failed' \subseteq Gates \cup {None}, pending' \subseteq pending,
         \A d \in pending' : d.owner # None, \A d \in pending : d.owner = None \/ d \in pending',
         \A i \in DOMAIN up : up[i] \in pending => up[i] \in pending' \/ (~ok /\ up[i].gate \in failed'),
         failed \subseteq failed', DownLess, UNCHANGED client,
         \A j \in DOMAIN down : down[j].kind = "paused" => \E k \in DOMAIN down' : down'[k] = down[j],
         c.what = "setBreakpoint" /\ Alive /\ ~client.closed =>
           IF ok THEN c.gate \in target.armed ELSE c.gate \in failed'
  PROVE  IInv'
  <1>. Shapes /\ Core /\ WorkerTrue
    BY DEF IInv
  <1>0. target \in Process /\ launch \in Launch /\ launch.step \in Nat /\ Len(Script) \in Nat
    BY ScriptIs DEF Shapes, Launch
  <1>1. /\ launch' = LaunchAfter(ok) /\ handlers' = handlers /\ attach' = attach
        /\ placed' = placed \cup (IF ok /\ c.what = "setBreakpoint" THEN {c.gate} ELSE {})
    BY SettleLaunch
  <1>2. /\ launch' \in Launch /\ launch'.step <= Len(Script) /\ launch'.style = launch.style /\ ~launch'.waiting
        /\ ~ok /\ Script[launch.step].what \notin Tolerated =>
             launch'.outcome = "threw" /\ launch'.step = launch.step
        /\ ok \/ Script[launch.step].what \in Tolerated =>
             IF launch.step = Len(Script)
             THEN launch'.outcome = "ready" /\ launch'.step = launch.step
             ELSE launch'.outcome = launch.outcome /\ launch'.step = launch.step + 1
    BY <1>1, LaunchAfterIs
  <1>3. /\ TargetSame
        /\ launch'.outcome = "threw" => ~Alive'
        /\ launch'.outcome # "threw" => target' = target
    BY <1>0, IfThrownIs DEF TargetSame, Alive
  <1>4. Script' = Script /\ \A g : Pos(g)' = Pos(g)
    BY <1>2, StyleKept
  <1>5. \A j \in 1 .. Len(Script) :
          /\ Script[j].what = "initialized" <=> j = Len(Script)
          /\ Script[j].what \in Tolerated => j < Len(Script)
    BY ScriptIs
  <1>6. LaunchTrue'
    <2>0. LaunchTrue
      BY DEF Core
    <2>1. launch'.step # 0
      BY <1>0, <1>2
    <2>2. launch'.step > 0 /\ client'.sock \notin {"none", "connecting"}
      BY <1>0, <1>2, <2>0 DEF LaunchTrue
    <2>3. ASSUME Alive'
          PROVE  /\ \A i \in DOMAIN up' : up'[i].what = "initialized" => i = Len(up') /\ up'[i] \in pending'
                 /\ target'.mode # "wait" =>
                      launch'.step = Len(Script) /\ (launch'.outcome = "going" => launch'.waiting)
      <3>1. Alive /\ target' = target
        BY <1>3, <2>3 DEF Alive
      <3>2. ASSUME NEW i \in DOMAIN up, up[i].what = "initialized"
            PROVE  FALSE
        <4>1. up[i] \in pending /\ up[i] \in Sent
          BY <2>0, <3>1, <3>2 DEF LaunchTrue, Shapes
        <4>2. up[i].owner = None
          BY <3>2, <4>1 DEF Sent, HandlerCalls
        <4>3. up[i].what = Script[launch.step].what
          BY <2>0, <4>1, <4>2 DEF LaunchTrue
        <4>4. ~ok
          BY <4>1, <4>2
        <4>5. launch.step = Len(Script) /\ Script[launch.step].what \notin Tolerated
          BY <1>5, <3>2, <4>3
        <4> QED
          BY <1>2, <1>3, <2>3, <4>4, <4>5
      <3>3. ASSUME target'.mode # "wait"
            PROVE  launch'.step = Len(Script) /\ launch'.outcome # "going"
        <4>1. launch.step = Len(Script)
          BY <2>0, <3>1, <3>3 DEF LaunchTrue
        <4> QED
          BY <1>2, <4>1
      <3> QED
        BY <3>2, <3>3
    <2> QED
      BY <1>2, <1>3, <1>4, <2>1, <2>2, <2>3 DEF LaunchTrue
  <1>7. Alive' /\ ~client'.closed => placed' \subseteq placed \cup target.armed
    BY <1>1, <1>3 DEF Alive
  <1>8. PlacedTrue'
    <2>1. SUFFICES ASSUME Alive', ~client'.closed
                   PROVE  /\ \A g \in Gates : launch'.step > Pos(g) => g \in placed' \cup failed'
                          /\ target'.mode = "wait" => placed' \subseteq target'.armed
      BY <1>4 DEF PlacedTrue
    <2>2. Alive /\ target' = target /\ ~client.closed /\ launch'.outcome # "threw"
      BY <1>3, <2>1 DEF Alive
    <2>3. /\ \A g \in Gates : launch.step > Pos(g) => g \in placed \cup failed
          /\ target.mode = "wait" => placed \subseteq target.armed
      BY <2>2 DEF Core, PlacedTrue
    <2>4. ASSUME NEW g \in Gates, launch'.step > Pos(g)
          PROVE  g \in placed' \cup failed'
      <3>1. Pos(g) \in 1 .. Len(Script) /\ Script[Pos(g)] = [what |-> "setBreakpoint", gate |-> g]
        BY ScriptIs
      <3>2. launch.step > Pos(g) \/ launch.step = Pos(g)
        BY <1>0, <1>2, <2>4, <3>1
      <3>3. CASE launch.step > Pos(g)
        BY <1>1, <2>3, <3>3
      <3>4. CASE launch.step = Pos(g)
        <4>1. c.what = "setBreakpoint" /\ c.gate = g
          BY <3>1, <3>4
        <4> QED
          BY <1>1, <2>2, <4>1
      <3> QED
        BY <3>2, <3>3, <3>4
    <2>5. target'.mode = "wait" => placed' \subseteq target'.armed
      BY <1>1, <2>2, <2>3
    <2> QED
      BY <2>4, <2>5
  <1>9. StillOpen
    BY DEF StillOpen
  <1>10. Core'
    BY <1>1, <1>2, <1>3, <1>6, <1>7, <1>8, <1>9, LaunchMoves
  <1>11. target' \in Process /\ WorkerSame /\ StillAlive
    BY <1>0, <1>3, IfThrownIs DEF WorkerSame, StillAlive, Alive, TargetSame
  <1>12. Shapes'
    <2>1. c.what = "setBreakpoint" => c.gate \in Gates
      BY ScriptIs
    <2>2. placed' \subseteq Gates
      BY <1>1, <2>1 DEF Shapes
    <2> QED
      BY <1>1, <1>2, <1>4, <1>11, <2>2 DEF Shapes
  <1>13. WorkerTrue'
    BY <1>1, <1>2, <1>3, <1>9, <1>11, WorkerKept DEF TargetSame
  <1> QED
    BY <1>10, <1>12, <1>13 DEF IInv

\* Nothing happens on the connection.
LEMMA DownSame ==
  ASSUME Shapes, down' = down
  PROVE  DownLess
  <1>1. DOMAIN down \subseteq Nat /\ \A k \in Nat : k + 0 = k
    BY DEF Shapes
  <1> QED
    BY <1>1 DEF DownLess

\* The next of what is on its way is received.
LEMMA DownTail ==
  ASSUME Shapes, down # <<>>, down' = Tail(down)
  PROVE  /\ DownLess /\ down' \in Seq(Down) /\ 1 \in DOMAIN down /\ Head(down) = down[1] /\ down[1] \in Down
         /\ \A j \in DOMAIN down : j = 1 \/ \E k \in DOMAIN down' : down'[k] = down[j]
         /\ \A k \in DOMAIN down' : \E j \in DOMAIN down : j # 1 /\ down[j] = down'[k]
  <1>1. /\ Tail(down) \in Seq(Down) /\ Head(down) = down[1] /\ down[1] \in Down
        /\ 1 \in DOMAIN down
        /\ \A i \in DOMAIN Tail(down) : Tail(down)[i] = down[i + 1] /\ i + 1 \in DOMAIN down /\ i \in Nat \ {0}
        /\ \A i \in DOMAIN down : i = 1 \/ (i - 1 \in DOMAIN Tail(down) /\ Tail(down)[i - 1] = down[i])
    BY TailIs DEF Shapes
  <1>2. \A i \in DOMAIN down' : i + 1 # 1
    BY <1>1
  <1> QED
    BY <1>1, <1>2 DEF DownLess

\* The launch only waits for the process to be there, or for the upgrade.
LEMMA BeforeCalls ==
  ASSUME IInv, client.sock \in {"none", "connecting"}
  PROVE  /\ launch.step = 0 /\ ~launch.waiting /\ ~client.closed /\ \A c \in pending : c.owner # None
         /\ Alive => target.mode = "wait" /\ \A i \in DOMAIN up : up[i].what # "initialized"
         /\ Len(Script) \in Nat /\ Len(Script) > 1
  <1>1. LaunchTrue
    BY DEF IInv, Core
  <1>2. Len(Script) \in Nat /\ Len(Script) > 1
    BY ScriptIs, Known DEF Pos
  <1>3. launch.step = 0 /\ ~launch.waiting /\ \A c \in pending : c.owner # None
    BY <1>1 DEF LaunchTrue
  <1>4. ~client.closed
    BY DEF IInv, Shapes
  <1>5. ASSUME Alive
        PROVE  target.mode = "wait" /\ \A i \in DOMAIN up : up[i].what # "initialized"
    <2>1. target.mode = "wait"
      BY <1>1, <1>2, <1>3, <1>5 DEF LaunchTrue
    <2>2. ASSUME NEW i \in DOMAIN up, up[i].what = "initialized" PROVE FALSE
      <3>1. up[i] \in pending
        BY <1>1, <1>5, <2>2 DEF LaunchTrue
      <3>2. up[i].owner = None
        BY <2>2, <3>1 DEF IInv, Shapes, Sent, HandlerCalls
      <3> QED
        BY <1>3, <3>1, <3>2
    <2> QED
      BY <2>1, <2>2
  <1> QED
    BY <1>2, <1>3, <1>4, <1>5

\* The launch ends before its first call, and the process with it.
LEMMA EarlyEnd ==
  ASSUME IInv, client.sock \in {"none", "connecting"}, launch' = [launch EXCEPT !.outcome = "threw"],
         target' = IfThrown(target), client' \in Client, client'.closed <=> client'.sock \in {"ended", "closed"},
         client'.nextId = client.nextId,
         UNCHANGED <<pending, up, down, placed, hit, handlers, attach, ghosts>>
  PROVE  IInv'
  <1>1. /\ launch' \in Launch /\ launch'.outcome = "threw" /\ launch'.style = launch.style
        /\ launch'.step = launch.step /\ launch'.waiting = launch.waiting /\ target \in Process
    BY DEF IInv, Shapes, Launch
  <1>2. Script' = Script
    BY <1>1, StyleKept
  <1>3. target' \in Process /\ ~Alive' /\ TargetSame /\ WorkerSame
    BY <1>1, IfThrownIs DEF TargetSame, WorkerSame, Alive
  <1>4. Shapes'
    BY <1>1, <1>2, <1>3 DEF IInv, Shapes, ghosts
  <1>5. StillOpen /\ StillAlive
    BY <1>3, BeforeCalls DEF StillOpen, StillAlive
  <1>6. DownLess
    BY DownSame DEF IInv, ghosts
  <1>7. LaunchTrue'
    BY <1>1, <1>2, <1>3, BeforeCalls DEF LaunchTrue
  <1>8. PlacedTrue'
    BY <1>3 DEF PlacedTrue
  <1>9. Core'
    BY <1>1, <1>3, <1>5, <1>6, <1>7, <1>8, LaunchMoves DEF IInv, ghosts
  <1>10. WorkerTrue'
    BY <1>1, <1>3, <1>5, WorkerKept DEF IInv, ghosts, TargetSame
  <1> QED
    BY <1>4, <1>9, <1>10 DEF IInv

LEMMA StartKeeps ==
  ASSUME IInv, Start
  PROVE  IInv'
  <1>0. client \in Client /\ client.sock = "none"
    BY DEF Start, IInv, Shapes
  <1>1. CASE launch' = [launch EXCEPT !.outcome = "threw"] /\ UNCHANGED client
    BY <1>0, <1>1, EarlyEnd DEF Start, IInv, Shapes
  <1>2. CASE client' = [client EXCEPT !.sock = "connecting"] /\ UNCHANGED launch
    <2>1. /\ client' \in Client /\ client'.sock = "connecting" /\ client'.nextId = client.nextId
          /\ client'.closed = client.closed
      BY <1>0, <1>2 DEF Client
    <2>2. launch.outcome = "going"
      BY DEF Start
    <2>3. target' = target
      BY <1>2, <2>2 DEF Start, IfThrown
    <2>4. UNCHANGED <<pending, up, down, placed, hit, handlers, attach, ghosts>>
      BY DEF Start
    <2>5. ~client.closed
      BY <1>0, BeforeCalls
    <2>6. Script' = Script
      BY <1>2, StyleKept
    <2>7. Shapes'
      BY <1>2, <2>1, <2>3, <2>4, <2>5, <2>6 DEF IInv, Shapes, ghosts
    <2>8. DownLess
      BY <2>4, DownSame DEF IInv, ghosts
    <2>9. StillOpen /\ StillAlive /\ TargetSame /\ WorkerSame
      BY <2>3, <2>5 DEF StillOpen, StillAlive, TargetSame, WorkerSame, Alive
    <2>10. Core'
      BY <1>0, <1>2, <2>1, <2>4, <2>8, <2>9, QuietMoves DEF IInv, ghosts
    <2>11. WorkerTrue'
      BY <1>2, <2>3, <2>4, <2>9, WorkerKept DEF IInv, ghosts
    <2> QED
      BY <2>7, <2>10, <2>11 DEF IInv
  <1> QED
    BY <1>1, <1>2 DEF Start

LEMMA HandshakeDoneKeeps ==
  ASSUME IInv, HandshakeDone
  PROVE  IInv'
  <1>1. /\ client \in Client /\ client.sock = "connecting" /\ Alive
        /\ client' = [client EXCEPT !.sock = "open"] /\ launch' = [launch EXCEPT !.step = 1]
        /\ UNCHANGED <<pending, up, down, placed, hit, handlers, attach, target, ghosts>>
    BY DEF HandshakeDone, IInv, Shapes, Alive
  <1>2. /\ client' \in Client /\ client'.sock = "open" /\ client'.nextId = client.nextId
        /\ client'.closed = client.closed
    BY <1>1 DEF Client
  <1>3. /\ launch' \in Launch /\ launch'.outcome = launch.outcome /\ launch'.style = launch.style
        /\ launch'.step = 1 /\ launch'.waiting = launch.waiting
    BY <1>1 DEF IInv, Shapes, Launch
  <1>4. Script' = Script /\ (\A g : Pos(g)' = Pos(g))
    BY <1>3, StyleKept
  <1>5. Shapes'
    BY <1>1, <1>2, <1>3, <1>4, BeforeCalls DEF IInv, Shapes, ghosts
  <1>6. DownLess
    BY <1>1, DownSame DEF IInv, ghosts
  <1>7. StillOpen /\ StillAlive /\ TargetSame /\ WorkerSame
    BY <1>1, <1>2, BeforeCalls DEF StillOpen, StillAlive, TargetSame, WorkerSame, Alive
  <1>8. LaunchTrue'
    <2>1. launch.outcome = "threw" => ~Alive
      BY DEF IInv, Core, LaunchTrue
    <2> QED
      BY <1>1, <1>2, <1>3, <1>4, <2>1, BeforeCalls DEF LaunchTrue, Alive
  <1>9. PlacedTrue'
    <2>1. \A g \in Gates : ~(1 > Pos(g))
      BY Known DEF Pos
    <2> QED
      BY <1>1, <1>2, <1>3, <1>4, <2>1 DEF IInv, Core, PlacedTrue, Alive
  <1>10. Core'
    BY <1>1, <1>2, <1>3, <1>6, <1>7, <1>8, <1>9, LaunchMoves DEF IInv, ghosts
  <1>11. WorkerTrue'
    BY <1>1, <1>3, <1>7, WorkerKept DEF IInv, ghosts
  <1> QED
    BY <1>5, <1>10, <1>11 DEF IInv

LEMMA HandshakeFailsKeeps ==
  ASSUME IInv, HandshakeFails
  PROVE  IInv'
  <1>1. client \in Client /\ client.sock = "connecting" /\ client' = [client EXCEPT !.sock = "closed", !.closed = TRUE]
    BY DEF HandshakeFails, IInv, Shapes
  <1>2. client' \in Client /\ client'.sock = "closed" /\ client'.closed /\ client'.nextId = client.nextId
    BY <1>1 DEF Client
  <1> QED
    BY <1>1, <1>2, EarlyEnd DEF HandshakeFails, Rejected

LEMMA HandshakeDroppedKeeps ==
  ASSUME IInv, HandshakeDropped
  PROVE  IInv'
  <1>1. client \in Client /\ client.sock = "connecting" /\ client' = [client EXCEPT !.sock = "closed", !.closed = TRUE]
    BY DEF HandshakeDropped, IInv, Shapes
  <1>2. client' \in Client /\ client'.sock = "closed" /\ client'.closed /\ client'.nextId = client.nextId
    BY <1>1 DEF Client
  <1>3. UNCHANGED <<pending, up, down, launch, placed, hit, handlers, attach, target, failed, missed, pauses, mishap>>
    BY DEF HandshakeDropped
  <1>4. Script' = Script
    BY <1>3, StyleKept
  <1>5. Shapes'
    BY <1>2, <1>3, <1>4 DEF IInv, Shapes
  <1>6. DownLess
    BY <1>3, DownSame DEF IInv, ghosts
  <1>7. StillOpen /\ StillAlive /\ TargetSame /\ WorkerSame
    BY <1>2, <1>3 DEF StillOpen, StillAlive, TargetSame, WorkerSame, Alive
  <1>8. Core'
    BY <1>2, <1>3, <1>6, <1>7, QuietMoves DEF IInv
  <1>9. WorkerTrue'
    BY <1>3, <1>7, WorkerKept DEF IInv
  <1> QED
    BY <1>5, <1>8, <1>9 DEF IInv

\* A call is made.
LEMMA SendIds ==
  ASSUME Shapes, Ids, NEW c \in Sent, c.id = client.nextId, \A d \in pending : d.owner # c.owner,
         pending' = pending \cup {c}, client'.nextId = client.nextId + 1, client.nextId \in Nat,
         DOMAIN up = 1 .. Len(up), Len(up) \in Nat, DOMAIN up' = DOMAIN up \cup {Len(up) + 1},
         up'[Len(up) + 1] = c, \A i \in DOMAIN up : up'[i] = up[i],
         down' = down, failed' = failed
  PROVE  Ids'
  <1>0. pending \subseteq Sent /\ \A d \in Sent : d.id \in Nat
    BY DEF Shapes, Sent, Pending
  <1>1. \A d \in pending : d.id < c.id
    BY DEF Ids
  <1>2. \A d, e \in pending' : d.owner = e.owner \/ d.id = e.id => d = e
    BY <1>0, <1>1 DEF Ids
  <1>3. \A d \in pending' : d.id < client'.nextId
    BY <1>0, <1>1
  <1>4. \A i \in DOMAIN up : up[i].id < c.id /\ up[i].id \in Nat /\ i < Len(up) + 1 /\ up'[i] = up[i]
    <2>1. \A i \in DOMAIN up : up[i] \in Sent
      BY DEF Shapes
    <2> QED
      BY <1>0, <2>1 DEF Ids
  <1>5. ASSUME NEW i \in DOMAIN up'
        PROVE  /\ up'[i].id < client'.nextId
               /\ \A d \in pending' : d.id = up'[i].id => d = up'[i]
               /\ up'[i] \in pending' \/ up'[i].gate \in failed'
               /\ \A j \in DOMAIN up' : i < j => up'[i].id < up'[j].id
    <2>1. CASE i = Len(up) + 1
      BY <1>0, <1>1, <1>4, <2>1
    <2>2. CASE i \in DOMAIN up
      <3>1. up'[i].id < client'.nextId
        BY <1>4, <2>2
      <3>2. \A d \in pending' : d.id = up'[i].id => d = up'[i]
        BY <1>4, <2>2 DEF Ids
      <3>3. up'[i] \in pending' \/ up'[i].gate \in failed'
        BY <2>2 DEF Ids
      <3>4. \A j \in DOMAIN up' : i < j => up'[i].id < up'[j].id
        BY <1>4, <2>2 DEF Ids
      <3> QED
        BY <3>1, <3>2, <3>3, <3>4
    <2> QED
      BY <2>1, <2>2
  <1>6. ASSUME NEW k \in DOMAIN down', down'[k].kind = "answer"
        PROVE  down'[k].id < client'.nextId /\ \A i \in DOMAIN up' : down'[k].id < up'[i].id
    <2>1. /\ down[k].id < client.nextId /\ down[k].id \in Nat
          /\ \A i \in DOMAIN up : down[k].id < up[i].id
      <3>1. down[k] \in Down
        BY <1>6 DEF Shapes
      <3>2. down[k].id \in Nat
        BY <1>6, <3>1 DEF Down, Event, Answer
      <3> QED
        BY <1>6, <3>2 DEF Ids
    <2> QED
      BY <2>1
  <1> QED
    BY <1>2, <1>3, <1>5, <1>6 DEF Ids

\* The launch waits in its debugger, or is over, when the process goes on: while the launch has calls to
\* make, the process is in its wait state.
LEMMA LaunchFirst ==
  ASSUME IInv, launch.outcome = "going", ~launch.waiting
  PROVE  /\ \A c \in pending : c.owner # None
         /\ Alive => /\ target.mode = "wait" /\ handlers = {} /\ hit = {} /\ target.frame = 0 /\ target.at = None
                     /\ \A g \in Gates : pauses[g] = 0
                     /\ \A i \in DOMAIN up : up[i].owner = None /\ up[i].what # "initialized"
                     /\ ~Announced
  <1>1. \A c \in pending : c.owner # None
    BY DEF IInv, Core, LaunchTrue
  <1>2. ASSUME Alive
        PROVE  /\ target.mode = "wait" /\ handlers = {} /\ hit = {} /\ target.frame = 0 /\ target.at = None
               /\ \A g \in Gates : pauses[g] = 0
               /\ \A i \in DOMAIN up : up[i].owner = None
    <2>1. target.mode = "wait"
      BY <1>2 DEF IInv, Core, LaunchTrue
    <2> QED
      BY <1>2, <2>1 DEF IInv, Core, StopTrue
  <1>3. ASSUME Alive, NEW i \in DOMAIN up, up[i].what = "initialized" PROVE FALSE
    <2>1. up[i] \in pending
      BY <1>3 DEF IInv, Core, LaunchTrue
    <2> QED
      BY <1>1, <1>2, <1>3, <2>1
  <1>4. Alive => ~Announced
    BY <1>2 DEF Announced, IInv, Core, EventsTrue
  <1> QED
    BY <1>1, <1>2, <1>3, <1>4

LEMMA LaunchSendOpen ==
  ASSUME IInv, LaunchSend, ~client.closed
  PROVE  IInv'
  <1>0. Shapes /\ Core /\ WorkerTrue
    BY DEF IInv
  <1>1. /\ launch.step > 0 /\ launch.outcome = "going" /\ ~launch.waiting
        /\ Send(None, Script[launch.step].what, Script[launch.step].gate)
        /\ launch' = [launch EXCEPT !.waiting = TRUE]
        /\ UNCHANGED <<placed, handlers, attach, down, hit, ghosts>>
        /\ target' = IfThrown(target)
    BY DEF LaunchSend
  <1>2. PICK s : s = Script[launch.step]
    OBVIOUS
  <1>3. launch \in Launch /\ launch.step \in 1 .. Len(Script) /\ target \in Process
    BY <1>0, <1>1, ScriptIs DEF Shapes, Launch
  <1>4. s \in Call /\ s.what \notin HandlerCalls /\ (s.what = "setBreakpoint" => s.gate \in Gates)
    BY <1>2, <1>3, ScriptIs
  <1>5. PICK c \in Sent : c.id = client.nextId /\ c.owner = None /\ c.what = s.what /\ c.gate = s.gate
    <2>1. None \in 0 .. MaxPauses /\ client.nextId \in Nat
      BY <1>0, Known DEF Shapes, Client
    <2>2. [id |-> client.nextId, owner |-> None, what |-> s.what, gate |-> s.gate] \in Sent
      BY <1>4, <2>1 DEF Sent, Pending, Call
    <2> QED
      BY <2>2
  <1>6. /\ pending' = pending \cup {c} /\ pending' \subseteq Sent
        /\ up' \in Seq(Sent) /\ Len(up) \in Nat /\ Len(up') = Len(up) + 1 /\ DOMAIN up = 1 .. Len(up)
        /\ DOMAIN up' = DOMAIN up \cup {Len(up) + 1}
        /\ up'[Len(up) + 1] = c /\ \A i \in DOMAIN up : up'[i] = up[i]
        /\ client' \in Client /\ client'.nextId = client.nextId + 1 /\ client.nextId \in Nat
        /\ client'.sock = client.sock /\ client'.closed = client.closed
    <2>1. Send(c.owner, c.what, c.gate)
      BY <1>1, <1>2, <1>5 DEF Send
    <2> QED
      BY <1>0, <1>5, <2>1, SendIs
  <1>7. c.id = client.nextId /\ c.owner = None /\ c.what = s.what /\ c.gate = s.gate
    BY <1>5
  <1>8. /\ launch' \in Launch /\ launch'.step = launch.step /\ launch'.outcome = "going" /\ launch'.waiting
        /\ launch'.style = launch.style
    BY <1>1, <1>3 DEF Launch
  <1>9. target' = target
    BY <1>1, <1>8 DEF IfThrown
  <1>10. Script' = Script
    BY <1>8, StyleKept
  <1>11. Shapes'
    BY <1>0, <1>1, <1>6, <1>8, <1>9, <1>10 DEF Shapes, ghosts
  <1>12. /\ \A d \in pending : d.owner # None
         /\ Alive => /\ target.mode = "wait" /\ handlers = {} /\ hit = {} /\ target.frame = 0 /\ target.at = None
                     /\ \A g \in Gates : pauses[g] = 0
                     /\ \A i \in DOMAIN up : up[i].owner = None /\ up[i].what # "initialized"
                     /\ ~Announced
    BY <1>1, LaunchFirst
  <1>13. DownLess /\ StillOpen /\ StillAlive /\ WorkerSame
    BY <1>0, <1>1, <1>6, <1>9, DownSame DEF StillOpen, StillAlive, WorkerSame, Alive, ghosts
  <1>14. Ids'
    BY <1>0, <1>1, <1>6, <1>7, <1>12, SendIds DEF Core, ghosts
  <1>15. LaunchTrue'
    <2>1. \A d \in pending' : d.owner = None => d.what = Script[launch.step].what /\ d.gate = Script[launch.step].gate
      BY <1>2, <1>6, <1>7, <1>12
    <2>2. client'.sock \notin {"none", "connecting"}
      BY <1>0, <1>1, <1>3, <1>6 DEF Core, LaunchTrue
    <2>3. Alive' => \A i \in DOMAIN up' : up'[i].what = "initialized" => i = Len(up') /\ up'[i] \in pending'
      BY <1>6, <1>9, <1>12 DEF Alive
    <2>4. Alive' => target'.mode = "wait"
      BY <1>9, <1>12 DEF Alive
    <2> QED
      BY <1>1, <1>8, <1>10, <2>1, <2>2, <2>3, <2>4 DEF LaunchTrue
  <1>16. AnswersTrue'
    <2>1. \A k \in DOMAIN down : down[k].kind = "answer" => down[k].id # c.id
      <3>1. \A k \in DOMAIN down : down[k].kind = "answer" => down[k].id < client.nextId
        BY <1>0 DEF Core, Ids
      <3> QED
        BY <1>6, <1>7, <3>1
    <2> QED
      BY <1>0, <1>1, <1>6, <1>9, <2>1 DEF Core, AnswersTrue, Alive, ghosts
  <1>17. PlacedTrue'
    BY <1>0, <1>1, <1>8, <1>9, <1>13, PlacedKept DEF Core, ghosts
  <1>18. HandlersTrue'
    BY <1>0, <1>1, <1>6, <1>7, <1>8, <1>9, <1>13, HandlersKept DEF Core
  <1>19. EventsTrue'
    <2>1. \A k \in DOMAIN down : down[k].kind = "paused" => ~Alive
      BY <1>12 DEF Announced
    <2> QED
      BY <1>0, <1>1, <1>9, <2>1 DEF Core, EventsTrue, Alive, Col
  <1>20. StopTrue'
    <2>1. SUFFICES ASSUME Alive PROVE StopTrue'
      BY <1>9 DEF StopTrue, Alive
    <2>2. \A i \in DOMAIN up' : up'[i].owner = None /\ up'[i].what # "resume"
      <3>1. \A i \in DOMAIN up : up[i].what # "resume"
        BY <1>0, <1>12, <2>1 DEF Shapes, Sent, HandlerCalls
      <3> QED
        BY <1>4, <1>6, <1>7, <1>12, <2>1, <3>1 DEF HandlerCalls
    <2>3. target'.mode = "wait" /\ handlers' = {} /\ hit' = {} /\ target'.frame = 0 /\ target'.at = None
          /\ \A g \in Gates : pauses'[g] = 0
      BY <1>1, <1>9, <1>12, <2>1 DEF ghosts
    <2> QED
      BY <2>2, <2>3 DEF StopTrue
  <1>21. DoneTrue'
    <2>1. \A g : NamesAt(g)' = NamesAt(g) /\ (Stays(g)' <=> Stays(g))
      BY <1>8, StyleKept
    <2>2. Alive' => \A i \in DOMAIN up' : up'[i].what \notin HandlerCalls
      <3>1. Alive => \A i \in DOMAIN up : up[i].what \notin HandlerCalls
        BY <1>0, <1>12 DEF Shapes, Sent
      <3> QED
        BY <1>4, <1>6, <1>7, <1>9, <3>1 DEF Alive
    <2>3. \A g \in Gates : target'.done[g] <= NamesAt(g)'
      BY <1>0, <1>9, <2>1 DEF Core, DoneTrue
    <2>4. Alive' => \A g \in Gates : target'.done[g] # 0 =>
            IF Stays(g)' THEN target'.at = g /\ ~Announced' ELSE g \in hit'
      <3>1. Announced' => Announced
        BY <1>1 DEF Announced
      <3> QED
        BY <1>0, <1>1, <1>9, <2>1, <3>1 DEF Core, DoneTrue, Alive
    <2> QED
      BY <2>2, <2>3, <2>4 DEF DoneTrue, HandlerCalls
  <1>22. FrameTrue'
    BY <1>9, <1>12 DEF FrameTrue, Alive
  <1>23. BreakpointsTrue'
    <2>1. (\A g : Stays(g)' <=> Stays(g)) /\ \A g : Cleared(g) => Cleared(g)'
      BY <1>1, <1>8, <1>9, StyleKept, ClearedKept DEF ghosts
    <2>2. target.armed \subseteq Gates
      BY <1>3 DEF Process
    <2> QED
      BY <1>0, <1>1, <1>6, <1>9, <1>12, <2>1, <2>2 DEF Core, BreakpointsTrue, Alive, ghosts
  <1>24. GatesHonest'
    BY <1>0, <1>1, <1>8, GatesKept DEF Core, ghosts
  <1>25. PausedIsHandled'
    BY <1>9, <1>12 DEF PausedIsHandled, Alive
  <1>26. WorkerTrue'
    <2>1. Alive' /\ ~client'.closed => \A i \in DOMAIN up' : up'[i].what = "resume" => \E j \in DOMAIN up : up[j].what = "resume"
      BY <1>4, <1>6, <1>7 DEF HandlerCalls
    <2> QED
      BY <1>0, <1>1, <1>8, <1>9, <1>13, <2>1, WorkerKept DEF ghosts
  <1> QED
    BY <1>11, <1>14, <1>15, <1>16, <1>17, <1>18, <1>19, <1>20, <1>21, <1>22, <1>23, <1>24, <1>25, <1>26
    DEF IInv, Core

LEMMA LaunchSendClosed ==
  ASSUME IInv, LaunchSend, client.closed
  PROVE  IInv'
  <1>1. PICK c : c = [id |-> 0, owner |-> None, what |-> Script[launch.step].what, gate |-> Script[launch.step].gate]
    OBVIOUS
  <1>2. /\ launch.step > 0 /\ launch.outcome = "going" /\ ~launch.waiting /\ Settle({c}, FALSE)
        /\ UNCHANGED <<client, pending, up, down, hit, ghosts>> /\ target' = IfThrown(target)
    BY <1>1 DEF LaunchSend
  <1>3. c.owner = None /\ c.what = Script[launch.step].what /\ c.gate = Script[launch.step].gate
    BY <1>1
  <1>4. launch.step \in 1 .. Len(Script)
    BY <1>2, ScriptIs DEF IInv, Shapes, Launch
  <1>5. \A d \in pending : d.owner # None
    BY <1>2, LaunchFirst
  <1>6. DownLess /\ down' \in Seq(Down) /\ failed' \subseteq Gates \cup {None}
    BY <1>2, DownSame DEF IInv, Shapes, ghosts
  <1> QED
    BY <1>2, <1>3, <1>4, <1>5, <1>6, LaunchSettled DEF ghosts

-----------------------------------------------------------------------------
(* The handlers *)

\* A call of a handler is settled, and the handler goes on.
LEMMA HandlerSettled ==
  ASSUME IInv, NEW h \in handlers, NEW c, NEW ok \in BOOLEAN, c.owner = h.frame, c.what # "setBreakpoint",
         Settle({c}, ok), TargetSame, WorkerSame, target' \in Process,
         UNCHANGED <<up, hit, missed, pauses, mishap>>, down' \in Seq(Down), failed' \subseteq Gates \cup {None},
         pending' \subseteq pending,
         \A d \in pending' : d.owner # h.frame, \A d \in pending : d.owner = h.frame \/ d \in pending',
         \A i \in DOMAIN up : up[i] \in pending => up[i] \in pending' \/ up[i].gate \in failed',
         failed \subseteq failed', DownLess, UNCHANGED client,
         \A j \in DOMAIN down : down[j].kind = "paused" => \E k \in DOMAIN down' : down'[k] = down[j],
         ~client.closed => h.waiting
  PROVE  IInv'
  <1>. Shapes /\ Core /\ WorkerTrue
    BY DEF IInv
  <1> DEFINE K == HandlerAfter(h)
  <1>0. h \in Handler /\ h.frame # None /\ target \in Process
    BY Known DEF Shapes, Handler
  <1>1. \A k \in handlers : k.frame = h.frame => k = h
    BY DEF Core, HandlersTrue
  <1>2. /\ launch' = launch /\ placed' = placed /\ handlers' = (handlers \ {h}) \cup K
        /\ attach' = IF Headless /\ h.gate = SpawnGate /\ h.call = "rebind" THEN [attach EXCEPT !.step = 1] ELSE attach
    BY <1>1, SettleHandler
  <1>23. handlers' = (handlers \ {h}) \cup K
    BY <1>2
  <1>3. h.call = "rebind" => h.name <= NamesAt(h.gate)
    BY DEF Core, HandlersTrue, NamesTrue
  <1>4. /\ K \subseteq Handler /\ (h.call # "resume" => K # {})
        /\ \A k, l \in K : k = l
        /\ \A k \in K : /\ h.call # "resume" /\ k.frame = h.frame /\ k.gate = h.gate /\ ~k.waiting
                        /\ k.call = "rebind" => h.call = "rebind" /\ k.name = h.name + 1 /\ k.name <= NamesAt(k.gate)
                        /\ k.call = "remove" => h.call = "rebind" /\ ~Stays(h.gate)
                        /\ k.call # "rebind" /\ h.call = "rebind" => h.name = NamesAt(h.gate)
                        /\ k.call = "resume" => h.call = "remove" \/ Stays(h.gate)
    BY <1>0, <1>3, HandlerAfterIs
  <1> HIDE DEF K
  <1>5. /\ (Headless' <=> Headless) /\ Script' = Script
        /\ \A g : NamesAt(g)' = NamesAt(g) /\ (Stays(g)' <=> Stays(g)) /\ Pos(g)' = Pos(g)
    BY <1>2, StyleKept
  <1>6. StillAlive /\ StillOpen /\ (Alive' => target'.mode = target.mode)
    BY DEF StillAlive, StillOpen, TargetSame, Alive
  <1>7. Shapes'
    <2>1. handlers' \subseteq Handler
      BY <1>2, <1>4 DEF Shapes
    <2>2. 1 \in 0 .. Len(AttachScript)
      BY Known
    <2>3. attach' \in [step : 0 .. Len(AttachScript), outcome : {"going", "ready", "threw"}]
      BY <1>2, <2>2 DEF Shapes
    <2>4. /\ client' \in Client /\ (client'.closed <=> client'.sock \in {"ended", "closed"})
          /\ pending' \subseteq Sent /\ up' \in Seq(Sent)
          /\ launch' \in Launch /\ launch'.step <= Len(Script)'
          /\ placed' \subseteq Gates /\ hit' \subseteq Gates
          /\ missed' \subseteq Gates /\ pauses' \in [Gates -> Nat]
      BY <1>2, <1>5 DEF Shapes
    <2> QED
      BY <2>1, <2>3, <2>4 DEF Shapes
  <1>8. Ids'
    BY IdsKept DEF Core
  <1>9. LaunchTrue'
    <2>1. \A d \in pending : d.what = "initialized" => d \in pending'
      BY <1>0 DEF Shapes, Sent, HandlerCalls
    <2> QED
      BY <1>2, <1>6, <2>1, LaunchKept DEF Core
  <1>10. AnswersTrue'
    BY <1>6, AnswersKept DEF Core, TargetSame
  <1>11. PlacedTrue'
    BY <1>2, <1>6, PlacedKept DEF Core, TargetSame
  <1>12. HandlersTrue'
    <2>0. HandlersTrue
      BY DEF Core
    <2>1. NamesTrue'
      BY <1>2, <1>4, <1>5, <2>0 DEF HandlersTrue, NamesTrue
    <2>2. \A k, l \in handlers' : k.frame = l.frame => k = l
      BY <1>1, <1>2, <1>4, <2>0 DEF HandlersTrue
    <2>3. ASSUME NEW k \in handlers'
          PROVE  /\ k.frame <= target'.frame
                 /\ k.call # "resume" => k.gate \in hit'
                 /\ k.call = "remove" => ~Stays(k.gate)'
                 /\ Alive' /\ ~client'.closed /\ (target'.mode # "paused" \/ k.frame # target'.frame) =>
                      k.call = "resume" /\ k.waiting
      <3>1. CASE k \in handlers
        BY <1>5, <1>6, <2>0, <3>1 DEF HandlersTrue, TargetSame, StillAlive
      <3>2. CASE k \in K
        <4>1. k.frame <= target'.frame /\ (k.call # "resume" => k.gate \in hit') /\ (k.call = "remove" => ~Stays(k.gate)')
          BY <1>4, <1>5, <2>0, <3>2 DEF HandlersTrue, TargetSame
        <4>2. ~(Alive' /\ ~client'.closed /\ (target'.mode # "paused" \/ k.frame # target'.frame))
          BY <1>4, <1>6, <2>0, <3>2 DEF HandlersTrue, TargetSame, StillAlive
        <4> QED
          BY <4>1, <4>2
      <3> QED
        BY <1>2, <3>1, <3>2
    <2>4. \A d \in pending' : d.owner # None =>
            \E k \in handlers' : k.frame = d.owner /\ k.waiting /\ k.call = d.what /\ k.gate = d.gate
      BY <1>2, <2>0 DEF HandlersTrue
    <2> QED
      BY <2>1, <2>2, <2>3, <2>4 DEF HandlersTrue
  <1>13. \A k \in handlers' : \E l \in handlers : k.frame = l.frame
    BY <1>2, <1>4
  <1>14. EventsTrue'
    BY <1>6, <1>13, EventsKept DEF Core, TargetSame
  <1>15. StopTrue'
    <2>1. SUFFICES ASSUME Alive' PROVE StopTrue'
      BY DEF StopTrue
    <2>2. Alive /\ target'.mode = target.mode /\ target'.at = target.at /\ target'.frame = target.frame /\ StopTrue
      BY <1>6, <2>1 DEF StillAlive, TargetSame, Core
    <2>3. /\ target'.mode = "wait" =>
               /\ \A i \in DOMAIN up' : up'[i].owner = None
               /\ handlers' = {} /\ hit' = {} /\ target'.frame = 0
               /\ \A g \in Gates : pauses'[g] = 0
          /\ target'.mode = "running" => up' = <<>>
          /\ target'.mode = "paused" <=> target'.at # None
          /\ target'.mode = "paused" => target'.frame # None /\ \A i \in DOMAIN up' : up'[i].owner = target'.frame
          /\ \A i \in DOMAIN up' : up'[i].what = "resume" => i = Len(up')
      BY <2>2 DEF StopTrue
    <2>4. ASSUME target'.mode = "paused", ~client'.closed, NEW k \in handlers', k.frame = target'.frame, NEW i \in DOMAIN up'
          PROVE  /\ up'[i].gate = k.gate
                 /\ k.call = "rebind" => up'[i].what = "rebind"
                 /\ k.call = "remove" \/ ~k.waiting => up'[i].what # "resume"
      <3>1. CASE k \in handlers
        BY <2>2, <2>4, <3>1 DEF StopTrue
      <3>2. CASE k \in K
        <4>1. /\ up[i].gate = h.gate
              /\ h.call = "rebind" => up[i].what = "rebind"
              /\ h.call = "remove" => up[i].what # "resume"
          BY <1>4, <2>2, <2>4, <3>2 DEF StopTrue
        <4> QED
          BY <1>0, <1>4, <3>2, <4>1 DEF Handler, HandlerCalls
      <3> QED
        BY <1>2, <2>4, <3>1, <3>2
    <2> QED
      BY <2>3, <2>4 DEF StopTrue
  <1>16. DoneTrue'
    <2>1. Announced' => Announced
      BY DEF Announced, DownLess
    <2> QED
      BY <1>2, <1>6, <2>1, DoneKept DEF Core, TargetSame
  <1>17. \A g : (Excused(g) => Excused(g)') /\ (Cleared(g) => Cleared(g)')
    BY <1>2, ExcusedKept, ClearedKept DEF TargetSame
  <1>18. FrameTrue'
    <2>1. SUFFICES ASSUME Alive', target'.mode = "paused", ~client'.closed, NEW k \in handlers', NEW a \in Gates,
                          k.frame = target'.frame, target'.at = a
                   PROVE  /\ k.gate = a \/ (Excused(a)' /\ k.gate < a)
                          /\ k.call = "rebind" =>
                               /\ target'.done[k.gate] + Len(up') <= IF k.waiting THEN k.name ELSE k.name - 1
                               /\ k.gate = a /\ a \notin failed' =>
                                    target'.done[a] + Len(up') = IF k.waiting THEN k.name ELSE k.name - 1
                          /\ k.call # "rebind" => Cleared(a)'
      BY DEF FrameTrue
    <2>2. /\ Alive /\ target.mode = "paused" /\ ~client.closed /\ k.frame = target.frame /\ target.at = a
          /\ target'.done = target.done
      BY <1>6, <2>1 DEF StillAlive, TargetSame
    <2>3. ASSUME NEW l \in handlers, l.frame = target.frame
          PROVE  /\ l.gate = a \/ (Excused(a) /\ l.gate < a)
                 /\ l.call = "rebind" =>
                      /\ target.done[l.gate] + Len(up) <= IF l.waiting THEN l.name ELSE l.name - 1
                      /\ l.gate = a /\ a \notin failed =>
                           target.done[a] + Len(up) = IF l.waiting THEN l.name ELSE l.name - 1
                 /\ l.call # "rebind" => Cleared(a)
      BY <2>2, <2>3 DEF Core, FrameTrue
    <2>4. CASE k \in handlers
      BY <1>17, <2>2, <2>3, <2>4
    <2>5. CASE k \in K
      <3>1. /\ h.frame = target.frame /\ h.waiting /\ k.gate = h.gate /\ ~k.waiting /\ h.call # "resume"
            /\ h.gate = a \/ (Excused(a) /\ h.gate < a)
            /\ h.call = "rebind" =>
                 /\ target.done[h.gate] + Len(up) <= h.name
                 /\ h.gate = a /\ a \notin failed => target.done[a] + Len(up) = h.name
            /\ h.call # "rebind" => Cleared(a)
        BY <1>4, <2>2, <2>3, <2>5
      <3>2. k.gate = a \/ (Excused(a)' /\ k.gate < a)
        BY <1>17, <3>1
      <3>3. k.call = "rebind" => h.call = "rebind" /\ k.name - 1 = h.name
        <4>1. h.name \in Nat
          BY <1>0, Known DEF Handler
        <4> QED
          BY <1>4, <2>5, <4>1
      <3>4. ASSUME k.call # "rebind" PROVE Cleared(a)'
        <4>1. CASE h.call # "rebind"
          BY <1>17, <3>1, <4>1
        <4>2. CASE h.call = "rebind"
          <5>1. h.name = NamesAt(h.gate)
            BY <1>4, <2>5, <3>4, <4>2
          <5>2. CASE h.gate # a
            BY <1>17, <3>1, <5>2 DEF Cleared
          <5>3. CASE h.gate = a
            <6>1. CASE a \in failed'
              BY <1>0, <5>3, <6>1 DEF Cleared, Excused, Gates
            <6>2. CASE a \notin failed'
              <7>1. target.done[a] + Len(up) = NamesAt(a)
                BY <3>1, <4>2, <5>1, <5>3, <6>2
              <7>2. \A i \in DOMAIN up : FALSE
                <8> SUFFICES ASSUME NEW i \in DOMAIN up PROVE FALSE
                  OBVIOUS
                <8>1. up[i].owner = target.frame /\ up[i].gate = a
                  BY <2>2, <3>1, <5>3 DEF Core, StopTrue
                <8>2. up[i] \in pending
                  BY <6>2, <8>1 DEF Core, Ids
                <8>3. up[i] \in pending'
                  BY <6>2, <8>1, <8>2
                <8> QED
                  BY <3>1, <8>1, <8>3
              <7>3. Len(up) = 0
                <8>1. up \in Seq(Sent)
                  BY DEF Shapes
                <8>2. DOMAIN up = 1 .. Len(up) /\ Len(up) \in Nat
                  BY <8>1
                <8>3. 1 \in DOMAIN up \/ Len(up) = 0
                  BY <8>2
                <8> QED
                  BY <7>2, <8>3
              <7>4. target'.done[a] = NamesAt(a)' /\ target'.done[a] \in Nat
                BY <1>0, <1>5, <2>2, <7>1, <7>3 DEF Process
              <7> QED
                BY <7>4 DEF Cleared
            <6> QED
              BY <6>1, <6>2
          <5> QED
            BY <5>2, <5>3
        <4> QED
          BY <4>1, <4>2
      <3> QED
        BY <2>2, <3>1, <3>2, <3>3, <3>4
    <2> QED
      BY <1>2, <2>4, <2>5
  <1>19. BreakpointsTrue'
    <2>1. SUFFICES ASSUME Alive', ~client'.closed
                   PROVE  /\ \A g \in placed' \ target'.armed : ~Stays(g)' /\ Cleared(g)'
                          /\ \A g \in target'.armed : ~Stays(g)' /\ (g \in hit' \/ pauses'[g] > 0) =>
                               g \in failed' \/ (target'.mode = "paused" /\ Leaving(g)')
      BY DEF BreakpointsTrue
    <2>2. Alive /\ target'.mode = target.mode /\ ~client.closed /\ h.waiting
      BY <1>6, <2>1 DEF StillAlive
    <2>3. /\ \A g \in placed \ target.armed : ~Stays(g) /\ Cleared(g)
          /\ \A g \in target.armed : ~Stays(g) /\ (g \in hit \/ pauses[g] > 0) =>
               g \in failed \/ (target.mode = "paused" /\ Leaving(g))
      BY <2>2 DEF Core, BreakpointsTrue
    <2>4. ASSUME NEW g, ~Stays(g), Leaving(g) PROVE Leaving(g)'
      <3>1. CASE target.at = g /\ g \notin hit /\ Announced
        <4>1. Announced'
          BY <3>1 DEF Announced
        <4> QED
          BY <3>1, <4>1 DEF Leaving, TargetSame
      <3>2. CASE \E l \in handlers : /\ l.frame = target.frame /\ l.gate = g
                                     /\ l.call = "rebind" \/ (l.call = "remove" /\ ~l.waiting)
        <4>1. PICK l \in handlers : /\ l.frame = target.frame /\ l.gate = g
                                    /\ l.call = "rebind" \/ (l.call = "remove" /\ ~l.waiting)
          BY <3>2
        <4>2. CASE l # h
          <5>1. l \in handlers' /\ l.frame = target'.frame
            <6>1. l \in handlers'
              BY <1>23, <4>2
            <6>2. target'.frame = target.frame
              BY DEF TargetSame
            <6> QED
              BY <4>1, <6>1, <6>2
          <5> QED
            BY <4>1, <5>1 DEF Leaving
        <4>3. CASE l = h
          <5>1. h.call = "rebind"
            BY <2>2, <4>1, <4>3
          <5>2. PICK k \in K : TRUE
            BY <1>4, <5>1
          <5>3. k \in handlers' /\ k.frame = target'.frame /\ k.gate = g /\ ~k.waiting
            <6>1. k \in handlers' /\ k.frame = h.frame /\ k.gate = h.gate /\ ~k.waiting
              BY <1>23, <1>4
            <6>2. target'.frame = target.frame
              BY DEF TargetSame
            <6> QED
              BY <4>1, <4>3, <6>1, <6>2
          <5>4. k.call \in HandlerCalls /\ k.call # "resume"
            <6>1. k \in Handler
              BY <1>4
            <6> QED
              BY <1>4, <2>4, <4>1, <4>3, <5>1, <6>1 DEF Handler
          <5>5. k.call = "rebind" \/ k.call = "remove"
            BY <5>4 DEF HandlerCalls
          <5> QED
            BY <5>3, <5>5 DEF Leaving
        <4> QED
          BY <4>2, <4>3
      <3>3. CASE \E i \in DOMAIN up : up[i].what = "remove" /\ up[i].gate = g
        BY <3>3 DEF Leaving
      <3> QED
        BY <2>4, <3>1, <3>2, <3>3 DEF Leaving
    <2> QED
      BY <1>2, <1>5, <1>17, <2>2, <2>3, <2>4 DEF TargetSame
  <1>20. GatesHonest'
    BY <1>2, GatesKept DEF Core
  <1>21. PausedIsHandled'
    <2>1. SUFFICES ASSUME target'.mode = "paused", ~client'.closed
                   PROVE  \/ \E i \in DOMAIN down' : down'[i].kind = "paused" /\ down'[i].frame = target'.frame
                          \/ \E l \in handlers' : l.frame = target'.frame /\ (l.call # "resume" \/ ~l.waiting)
                          \/ \E i \in DOMAIN up' : up'[i].what = "resume" /\ up'[i].owner = target'.frame
      BY DEF PausedIsHandled
    <2>2. target.mode = "paused" /\ ~client.closed /\ target'.frame = target.frame /\ h.waiting
      BY <2>1 DEF TargetSame
    <2>3. CASE \E i \in DOMAIN down : down[i].kind = "paused" /\ down[i].frame = target.frame
      BY <2>2, <2>3
    <2>4. CASE \E l \in handlers : l.frame = target.frame /\ (l.call # "resume" \/ ~l.waiting)
      <3>1. PICK l \in handlers : l.frame = target.frame /\ (l.call # "resume" \/ ~l.waiting)
        BY <2>4
      <3>2. CASE l # h
        BY <1>2, <2>2, <3>1, <3>2
      <3>3. CASE l = h
        <4>1. PICK k \in K : TRUE
          BY <1>4, <2>2, <3>1, <3>3
        <4> QED
          BY <1>2, <1>4, <2>2, <3>1, <3>3, <4>1
      <3> QED
        BY <3>2, <3>3
    <2>5. CASE \E i \in DOMAIN up : up[i].what = "resume" /\ up[i].owner = target.frame
      BY <2>2, <2>5
    <2> QED
      BY <2>2, <2>3, <2>4, <2>5 DEF Core, PausedIsHandled
  <1>22. WorkerTrue'
    <2>1. ~Headless' \/ target'.at = SpawnGate => target'.worker.mode = "none"
      <3>1. ~Headless \/ target.at = SpawnGate => target.worker.mode = "none"
        BY DEF WorkerTrue
      <3>2. target'.at = target.at /\ (target.worker.mode = "none" => target'.worker.mode = "none")
        BY DEF WorkerSame, TargetSame
      <3> QED
        BY <1>5, <3>1, <3>2
    <2>2. CASE Forgiven'
      BY <2>1, <2>2 DEF WorkerTrue
    <2>3. CASE ~Forgiven'
      <3>0. ~Forgiven /\ SpawnGate \notin failed /\ ~client.closed
        BY <2>3 DEF Forgiven
      <3>1. /\ target.worker.mode = "none" => attach.step <= 1 /\ attach.outcome = "going"
            /\ target.worker.mode # "none" => \A l \in handlers : l.gate = SpawnGate => l.call # "rebind"
            /\ target.worker.mode = "wait" =>
                 /\ target.worker.listens /\ attach.step > 0 /\ attach.outcome = "going"
                 /\ attach.step = Len(AttachScript) => target.worker.armed
            /\ target.worker.mode \in {"running", "paused"} => target.worker.armed
            /\ target.worker.mode = "done" => target.worker.rebound
            /\ Alive /\ Headless /\ target.at = SpawnGate =>
                 /\ \A i \in DOMAIN up : up[i].what = "resume" => attach.step > 0
                 /\ \A l \in handlers : l.frame = target.frame /\ l.call # "rebind" => attach.step > 0
        BY <3>0 DEF WorkerTrue
      <3>2. target'.worker.mode # "none" => \A l \in handlers' : l.gate = SpawnGate => l.call # "rebind"
        BY <1>2, <1>4, <3>1 DEF WorkerSame
      <3>3. CASE Headless /\ h.gate = SpawnGate /\ h.call = "rebind"
        <4>1. attach'.step = 1 /\ attach'.outcome = attach.outcome
          BY <1>2, <3>3 DEF Shapes
        <4>2. target.worker.mode = "none" /\ target'.worker.mode = "none"
          BY <3>1, <3>3 DEF WorkerSame
        <4> QED
          BY <2>1, <3>1, <3>2, <4>1, <4>2 DEF WorkerTrue
      <3>4. CASE ~(Headless /\ h.gate = SpawnGate /\ h.call = "rebind")
        <4>1. attach' = attach
          BY <1>2, <3>4
        <4>2. ASSUME Alive', Headless, target'.at = SpawnGate, NEW l \in handlers', l.frame = target'.frame, l.call # "rebind"
              PROVE  attach.step > 0
          <5>1. Alive /\ target.at = SpawnGate /\ target.frame = target'.frame
            BY <1>6, <4>2 DEF StillAlive, TargetSame
          <5>2. CASE l \in handlers
            BY <3>1, <4>2, <5>1, <5>2
          <5>3. CASE l \in K
            <6>1. h.frame = target.frame /\ h.call # "resume"
              BY <1>4, <4>2, <5>1, <5>3
            <6>2. CASE h.call # "rebind"
              BY <3>1, <4>2, <5>1, <6>1, <6>2
            <6>3. CASE h.call = "rebind"
              <7>1. target.mode = "paused"
                BY <5>1, Known DEF Core, StopTrue
              <7>2. h.gate = SpawnGate \/ Excused(SpawnGate)
                BY <3>0, <5>1, <6>1, <7>1, Known DEF Core, FrameTrue
              <7> QED
                BY <3>0, <3>4, <4>2, <6>3, <7>2 DEF Excused
            <6> QED
              BY <6>2, <6>3
          <5> QED
            BY <1>2, <4>2, <5>2, <5>3
        <4>3. Alive' /\ Headless' /\ target'.at = SpawnGate =>
                 /\ \A i \in DOMAIN up' : up'[i].what = "resume" => attach'.step > 0
                 /\ \A l \in handlers' : l.frame = target'.frame /\ l.call # "rebind" => attach'.step > 0
          BY <1>5, <1>6, <3>1, <4>1, <4>2 DEF StillAlive, TargetSame
        <4>4. /\ target'.worker.mode = "none" => attach'.step <= 1 /\ attach'.outcome = "going"
              /\ target'.worker.mode = "wait" =>
                   /\ target'.worker.listens /\ attach'.step > 0 /\ attach'.outcome = "going"
                   /\ attach'.step = Len(AttachScript) => target'.worker.armed
              /\ target'.worker.mode \in {"running", "paused"} => target'.worker.armed
              /\ target'.worker.mode = "done" => target'.worker.rebound
          BY <3>1, <4>1 DEF WorkerSame
        <4> QED
          BY <2>1, <3>2, <4>3, <4>4 DEF WorkerTrue, AttachScript
      <3> QED
        BY <3>3, <3>4
    <2> QED
      BY <2>2, <2>3
  <1> QED
    BY <1>7, <1>8, <1>9, <1>10, <1>11, <1>12, <1>14, <1>15, <1>16, <1>18, <1>19, <1>20, <1>21, <1>22 DEF IInv, Core

LEMMA HandlerSendClosed ==
  ASSUME IInv, NEW h \in handlers, HandlerSend(h), client.closed
  PROVE  IInv'
  <1>1. PICK c : c = [id |-> 0, owner |-> h.frame, what |-> h.call, gate |-> h.gate]
    OBVIOUS
  <1>2. /\ ~h.waiting /\ Settle({c}, FALSE)
        /\ UNCHANGED <<client, pending, up, down, hit, target, ghosts>>
    BY <1>1 DEF HandlerSend
  <1>3. c.owner = h.frame /\ c.what # "setBreakpoint"
    <2>1. h.call \in HandlerCalls
      BY DEF IInv, Shapes, Handler
    <2> QED
      BY <1>1, <2>1 DEF HandlerCalls
  <1>4. \A d \in pending : d.owner # h.frame
    <2>1. h.frame # None
      BY Known DEF IInv, Shapes, Handler
    <2> QED
      BY <1>2, <2>1 DEF IInv, Core, HandlersTrue
  <1>5. DownLess /\ down' \in Seq(Down) /\ failed' \subseteq Gates \cup {None} /\ target' \in Process
    BY <1>2, DownSame DEF IInv, Shapes, ghosts
  <1>6. TargetSame /\ WorkerSame
    BY <1>2 DEF TargetSame, WorkerSame
  <1> QED
    BY <1>2, <1>3, <1>4, <1>5, <1>6, HandlerSettled DEF ghosts

\* Whose a pending call is.
LEMMA PendingIs ==
  ASSUME IInv, NEW c \in pending
  PROVE  /\ c \in Sent /\ \A d \in pending : c.owner = d.owner \/ c.id = d.id => d = c
         /\ c.owner = None =>
              /\ launch.outcome = "going" /\ launch.step \in 1 .. Len(Script)
              /\ c.what = Script[launch.step].what /\ c.gate = Script[launch.step].gate
         /\ c.owner # None => c.what # "setBreakpoint" /\ \E h \in handlers : h.frame = c.owner /\ h.waiting
  <1>1. c \in Sent
    BY DEF IInv, Shapes
  <1>2. \A d \in pending : c.owner = d.owner \/ c.id = d.id => d = c
    BY DEF IInv, Core, Ids
  <1>3. ASSUME c.owner = None
        PROVE  /\ launch.outcome = "going" /\ launch.step \in 1 .. Len(Script)
               /\ c.what = Script[launch.step].what /\ c.gate = Script[launch.step].gate
    <2>1. launch.step \in Nat /\ launch.step <= Len(Script) /\ Len(Script) \in Nat
      BY ScriptIs DEF IInv, Shapes, Launch
    <2> QED
      BY <1>3, <2>1 DEF IInv, Core, LaunchTrue
  <1>4. ASSUME c.owner # None
        PROVE  c.what # "setBreakpoint" /\ \E h \in handlers : h.frame = c.owner /\ h.waiting
    BY <1>1, <1>4 DEF IInv, Core, HandlersTrue, Sent, HandlerCalls
  <1> QED
    BY <1>1, <1>2, <1>3, <1>4

LEMMA TimeoutKeeps ==
  ASSUME IInv, Timeout
  PROVE  IInv'
  <1>1. PICK c \in pending :
          /\ Settle({c}, FALSE) /\ pending' = pending \ {c} /\ failed' = failed \cup {c.gate}
          /\ target' = IfThrown(target)
          /\ UNCHANGED <<client, up, down, hit, missed, pauses, mishap>>
    BY DEF Timeout, Unpend
  <1>2. /\ c \in Sent /\ \A d \in pending : c.owner = d.owner \/ c.id = d.id => d = c
        /\ c.owner = None =>
             /\ launch.outcome = "going" /\ launch.step \in 1 .. Len(Script)
             /\ c.what = Script[launch.step].what /\ c.gate = Script[launch.step].gate
        /\ c.owner # None => c.what # "setBreakpoint" /\ \E h \in handlers : h.frame = c.owner /\ h.waiting
    BY PendingIs
  <1>3. DownLess /\ down' \in Seq(Down) /\ failed' \subseteq Gates \cup {None} /\ target \in Process
    <2>1. c.gate \in Gates \cup {None}
      BY <1>2 DEF Sent, Pending
    <2> QED
      BY <1>1, <2>1, DownSame DEF IInv, Shapes
  <1>4. target' \in Process /\ TargetSame /\ WorkerSame
    BY <1>1, <1>3, IfThrownIs DEF TargetSame, WorkerSame
  <1>5. \A i \in DOMAIN up : up[i] \in pending => up[i] \in pending' \/ up[i].gate \in failed'
    BY <1>1
  <1>6. CASE c.owner = None
    BY <1>1, <1>2, <1>3, <1>5, <1>6, LaunchSettled
  <1>7. CASE c.owner # None
    <2>1. PICK h \in handlers : h.frame = c.owner /\ h.waiting
      BY <1>2, <1>7
    <2> QED
      BY <1>1, <1>2, <1>3, <1>4, <1>5, <1>7, <2>1, HandlerSettled
  <1> QED
    BY <1>6, <1>7

\* Steps that only take away from the connection or the process.
LEMMA QuietKeeps ==
  ASSUME IInv, UNCHANGED <<launch, pending, placed, up, handlers, hit, attach, missed, pauses, failed, mishap>>,
         DownLess, down' \in Seq(Down), TargetSame, WorkerSame, target' \in Process, StillOpen,
         client' \in Client, client'.closed <=> client'.sock \in {"ended", "closed"},
         client'.nextId = client.nextId,
         client'.sock \in {"none", "connecting"} => client.sock \in {"none", "connecting"},
         \A j \in DOMAIN down : down[j].kind = "paused" => \E k \in DOMAIN down' : down'[k] = down[j]
  PROVE  IInv'
  <1>1. Script' = Script
    BY StyleKept
  <1>2. Shapes'
    BY <1>1 DEF IInv, Shapes
  <1>3. Core'
    BY QuietMoves DEF IInv
  <1>4. StillAlive
    BY DEF StillAlive, TargetSame, Alive
  <1>5. WorkerTrue'
    BY <1>4, WorkerKept DEF IInv, TargetSame
  <1> QED
    BY <1>2, <1>3, <1>5 DEF IInv

LEMMA ReceiveAnswer ==
  ASSUME IInv, Receive, Head(down).kind = "answer"
  PROVE  IInv'
  <1>1. PICK a : a = Head(down)
    OBVIOUS
  <1>2. PICK calls : calls = {c \in pending : c.id = a.id}
    OBVIOUS
  <1>3. /\ down # <<>> /\ down' = Tail(down) /\ pending' = pending \ calls
        /\ IF calls = {} THEN UNCHANGED <<launch, placed, handlers, attach>> ELSE Settle(calls, a.ok)
        /\ target' = IfThrown(target)
        /\ UNCHANGED <<client, hit, up, failed, missed, pauses, mishap>>
    BY <1>1, <1>2 DEF Receive, OnAnswer
  <1>4. /\ DownLess /\ down' \in Seq(Down) /\ 1 \in DOMAIN down /\ a = down[1] /\ down[1] \in Down
        /\ \A j \in DOMAIN down : j = 1 \/ \E k \in DOMAIN down' : down'[k] = down[j]
    BY <1>1, <1>3, DownTail DEF IInv
  <1>5. a.kind = "answer" /\ a.ok \in BOOLEAN
    BY <1>1, <1>4 DEF Down, Event, Answer
  <1>6. \A j \in DOMAIN down : down[j].kind = "paused" => \E k \in DOMAIN down' : down'[k] = down[j]
    BY <1>4, <1>5
  <1>7. target \in Process /\ target' \in Process /\ TargetSame /\ WorkerSame
    <2>1. target \in Process
      BY DEF IInv, Shapes
    <2> QED
      BY <1>3, <2>1, IfThrownIs DEF TargetSame, WorkerSame
  <1>8. failed' \subseteq Gates \cup {None}
    BY <1>3 DEF IInv, Shapes
  <1>9. CASE calls = {}
    <2>1. pending' = pending
      BY <1>3, <1>9
    <2>2. StillOpen
      BY <1>3 DEF StillOpen
    <2> QED
      BY <1>3, <1>4, <1>6, <1>7, <1>9, <2>1, <2>2, QuietKeeps DEF IInv, Shapes
  <1>10. CASE calls # {}
    <2>1. PICK c \in pending : c.id = a.id
      BY <1>2, <1>10
    <2>2. /\ c \in Sent /\ \A d \in pending : c.owner = d.owner \/ c.id = d.id => d = c
          /\ c.owner = None =>
               /\ launch.outcome = "going" /\ launch.step \in 1 .. Len(Script)
               /\ c.what = Script[launch.step].what /\ c.gate = Script[launch.step].gate
          /\ c.owner # None => c.what # "setBreakpoint" /\ \E h \in handlers : h.frame = c.owner /\ h.waiting
      BY PendingIs
    <2>3. calls = {c}
      BY <1>2, <2>1, <2>2
    <2>4. Settle({c}, a.ok) /\ pending' = pending \ {c}
      BY <1>3, <1>10, <2>3
    <2>5. \A i \in DOMAIN up : up[i] # c
      <3>1. \A i \in DOMAIN up : a.id < up[i].id
        BY <1>4, <1>5 DEF IInv, Core, Ids
      <3>2. c.id \in Nat
        BY <2>2 DEF Sent, Pending
      <3> QED
        BY <2>1, <3>1, <3>2
    <2>6. IF a.ok THEN c.what = "setBreakpoint" /\ Alive /\ ~client.closed => c.gate \in target.armed
          ELSE c.what = "rebind" \/ c.gate \in failed
      BY <1>4, <1>5, <2>1 DEF IInv, Core, AnswersTrue
    <2>7. CASE c.owner = None
      <3>1. c.what = "setBreakpoint" /\ Alive /\ ~client.closed => IF a.ok THEN c.gate \in target.armed ELSE c.gate \in failed'
        BY <1>3, <2>6
      <3> QED
        BY <1>3, <1>4, <1>5, <1>6, <1>8, <2>2, <2>4, <2>5, <2>7, <3>1, LaunchSettled
    <2>8. CASE c.owner # None
      <3>1. PICK h \in handlers : h.frame = c.owner /\ h.waiting
        BY <2>2, <2>8
      <3> QED
        BY <1>3, <1>4, <1>5, <1>6, <1>7, <1>8, <2>2, <2>4, <2>5, <2>8, <3>1, HandlerSettled
    <2> QED
      BY <2>7, <2>8
  <1> QED
    BY <1>9, <1>10

LEMMA ReceiveClose ==
  ASSUME IInv, Receive, Head(down).kind = "close"
  PROVE  IInv'
  <1>1. /\ down # <<>> /\ down' = Tail(down) /\ target' = IfThrown(target)
        /\ client' = IF client.closed THEN client ELSE [client EXCEPT !.closed = TRUE, !.sock = "ended"]
        /\ UNCHANGED <<launch, pending, placed, up, handlers, hit, attach, missed, pauses, failed, mishap>>
    BY DEF Receive, OnCloseFrame
  <1>2. /\ DownLess /\ down' \in Seq(Down) /\ Head(down) = down[1]
        /\ \A j \in DOMAIN down : j = 1 \/ \E k \in DOMAIN down' : down'[k] = down[j]
    BY <1>1, DownTail DEF IInv
  <1>3. \A j \in DOMAIN down : down[j].kind = "paused" => \E k \in DOMAIN down' : down'[k] = down[j]
    BY <1>2
  <1>4. target' \in Process /\ TargetSame /\ WorkerSame
    <2>1. target \in Process
      BY DEF IInv, Shapes
    <2> QED
      BY <1>1, <2>1, IfThrownIs DEF TargetSame, WorkerSame
  <1>5. /\ client' \in Client /\ (client'.closed <=> client'.sock \in {"ended", "closed"})
        /\ client'.nextId = client.nextId /\ StillOpen
        /\ client'.sock \in {"none", "connecting"} => client.sock \in {"none", "connecting"}
    <2>1. client \in Client /\ (client.closed <=> client.sock \in {"ended", "closed"})
      BY DEF IInv, Shapes
    <2>2. CASE client.closed
      BY <1>1, <2>1, <2>2 DEF StillOpen
    <2>3. CASE ~client.closed
      <3>1. client' = [client EXCEPT !.closed = TRUE, !.sock = "ended"]
        BY <1>1, <2>3
      <3>2. client' \in Client /\ client'.closed /\ client'.sock = "ended" /\ client'.nextId = client.nextId
        BY <2>1, <3>1 DEF Client
      <3> QED
        BY <3>2 DEF StillOpen
    <2> QED
      BY <2>2, <2>3
  <1> QED
    BY <1>1, <1>2, <1>3, <1>4, <1>5, QuietKeeps

\* A handler that has a call to make is that of the pause.
LEMMA HandlerNow ==
  ASSUME IInv, NEW h \in handlers, ~h.waiting, ~client.closed
  PROVE  /\ h \in Handler /\ h.frame # None /\ \A d \in pending : d.owner # h.frame
         /\ \A k \in handlers : k.frame = h.frame => k = h
         /\ Alive =>
              /\ target.mode = "paused" /\ h.frame = target.frame /\ target.at \in Gates
              /\ \A i \in DOMAIN up : /\ up[i].owner = h.frame /\ up[i].gate = h.gate /\ up[i].what \in HandlerCalls
                                      /\ up[i].what # "resume" /\ (h.call = "rebind" => up[i].what = "rebind")
              /\ ~Announced
  <1>1. h \in Handler /\ h.frame # None
    BY Known DEF IInv, Shapes, Handler
  <1>2. (\A k \in handlers : k.frame = h.frame => k = h) /\ \A d \in pending : d.owner # h.frame
    BY <1>1 DEF IInv, Core, HandlersTrue
  <1>3. ASSUME Alive
        PROVE  /\ target.mode = "paused" /\ h.frame = target.frame /\ target.at \in Gates
               /\ \A i \in DOMAIN up : /\ up[i].owner = h.frame /\ up[i].gate = h.gate /\ up[i].what \in HandlerCalls
                                       /\ up[i].what # "resume" /\ (h.call = "rebind" => up[i].what = "rebind")
               /\ ~Announced
    <2>1. target.mode = "paused" /\ h.frame = target.frame
      BY <1>3 DEF IInv, Core, HandlersTrue
    <2>2. target.at \in Gates
      <3>1. target.at # None
        BY <1>3, <2>1 DEF IInv, Core, StopTrue
      <3> QED
        BY <3>1 DEF IInv, Shapes, Process
    <2>3. \A i \in DOMAIN up : /\ up[i].owner = h.frame /\ up[i].gate = h.gate
                               /\ up[i].what # "resume" /\ (h.call = "rebind" => up[i].what = "rebind")
      BY <1>3, <2>1 DEF IInv, Core, StopTrue
    <2>4. \A i \in DOMAIN up : up[i].what \in HandlerCalls
      BY <1>1, <2>3 DEF IInv, Shapes, Sent
    <2>5. ~Announced
      BY <2>1 DEF IInv, Core, EventsTrue, Announced
    <2> QED
      BY <2>1, <2>2, <2>3, <2>4, <2>5
  <1> QED
    BY <1>1, <1>2, <1>3

LEMMA HandlerSendOpen ==
  ASSUME IInv, NEW h \in handlers, HandlerSend(h), ~client.closed
  PROVE  IInv'
  <1>. Shapes /\ Core /\ WorkerTrue
    BY DEF IInv
  <1>1. /\ ~h.waiting /\ Send(h.frame, h.call, h.gate)
        /\ handlers' = (handlers \ {h}) \cup {[h EXCEPT !.waiting = TRUE]}
        /\ UNCHANGED <<launch, placed, attach, down, hit, target, ghosts>>
    BY DEF HandlerSend
  <1>2. /\ h \in Handler /\ h.frame # None /\ \A d \in pending : d.owner # h.frame
        /\ \A k \in handlers : k.frame = h.frame => k = h
        /\ Alive =>
             /\ target.mode = "paused" /\ h.frame = target.frame /\ target.at \in Gates
             /\ \A i \in DOMAIN up : /\ up[i].owner = h.frame /\ up[i].gate = h.gate /\ up[i].what \in HandlerCalls
                                     /\ up[i].what # "resume" /\ (h.call = "rebind" => up[i].what = "rebind")
             /\ ~Announced
    BY <1>1, HandlerNow
  <1>3. PICK c \in Sent : c.id = client.nextId /\ c.owner = h.frame /\ c.what = h.call /\ c.gate = h.gate
    <2>1. h.frame \in 0 .. MaxPauses /\ client.nextId \in Nat /\ h.call \in HandlerCalls
      BY <1>2, Known DEF Shapes, Client, Handler
    <2>2. [id |-> client.nextId, owner |-> h.frame, what |-> h.call, gate |-> h.gate] \in Sent
      BY <1>2, <2>1 DEF Sent, Pending, Handler, HandlerCalls, Request
    <2> QED
      BY <2>2
  <1>4. /\ pending' = pending \cup {c} /\ pending' \subseteq Sent
        /\ up' \in Seq(Sent) /\ Len(up) \in Nat /\ Len(up') = Len(up) + 1 /\ DOMAIN up = 1 .. Len(up)
        /\ DOMAIN up' = DOMAIN up \cup {Len(up) + 1}
        /\ up'[Len(up) + 1] = c /\ \A i \in DOMAIN up : up'[i] = up[i]
        /\ client' \in Client /\ client'.nextId = client.nextId + 1 /\ client.nextId \in Nat
        /\ client'.sock = client.sock /\ client'.closed = client.closed
    <2>1. Send(c.owner, c.what, c.gate)
      BY <1>1, <1>3 DEF Send
    <2> QED
      BY <1>3, <2>1, SendIs
  <1>5. PICK k \in Handler :
           /\ handlers' = (handlers \ {h}) \cup {k}
           /\ k.frame = h.frame /\ k.gate = h.gate /\ k.call = h.call /\ k.name = h.name /\ k.waiting
    <2>1. PICK k : k = [h EXCEPT !.waiting = TRUE]
      OBVIOUS
    <2>2. k \in Handler /\ k.frame = h.frame /\ k.gate = h.gate /\ k.call = h.call /\ k.name = h.name /\ k.waiting
      BY <1>2, <2>1 DEF Handler
    <2>3. handlers' = (handlers \ {h}) \cup {k}
      BY <1>1, <2>1
    <2> QED
      BY <2>2, <2>3
  <1>6. handlers' = (handlers \ {h}) \cup {k}
    BY <1>5
  <1>7. /\ (Headless' <=> Headless) /\ Script' = Script
        /\ \A g : NamesAt(g)' = NamesAt(g) /\ (Stays(g)' <=> Stays(g)) /\ Pos(g)' = Pos(g)
    BY <1>1, StyleKept
  <1>8. DownLess /\ StillOpen /\ StillAlive /\ WorkerSame
    BY <1>1, <1>4, DownSame DEF StillOpen, StillAlive, WorkerSame, Alive
  <1>9. Shapes'
    <2>1. handlers' \subseteq Handler
      BY <1>5, <1>6 DEF Shapes
    <2> QED
      BY <1>1, <1>4, <1>7, <2>1 DEF Shapes, ghosts
  <1>10. Ids'
    BY <1>1, <1>2, <1>3, <1>4, SendIds DEF Core, ghosts
  <1>11. LaunchTrue'
    <2>0. LaunchTrue
      BY DEF Core
    <2>1. Alive' => \A i \in DOMAIN up' : up'[i].what # "initialized"
      <3>1. Alive => \A i \in DOMAIN up : up[i].what # "initialized"
        BY <1>2 DEF HandlerCalls
      <3>2. c.what # "initialized"
        BY <1>2, <1>3 DEF Handler, HandlerCalls
      <3> QED
        BY <1>1, <1>4, <3>1, <3>2 DEF Alive
    <2>2. \A d \in pending' : d.owner = None => d \in pending
      BY <1>2, <1>3, <1>4
    <2> QED
      BY <1>1, <1>4, <1>7, <2>0, <2>1, <2>2 DEF LaunchTrue, Alive
  <1>12. AnswersTrue'
    <2>1. \A j \in DOMAIN down : down[j].kind = "answer" => down[j].id # c.id
      <3>1. \A j \in DOMAIN down : down[j].kind = "answer" => down[j].id < client.nextId
        BY DEF Core, Ids
      <3> QED
        BY <1>3, <1>4, <3>1
    <2> QED
      BY <1>1, <1>4, <2>1 DEF Core, AnswersTrue, Alive, ghosts
  <1>13. PlacedTrue'
    BY <1>1, <1>8, PlacedKept DEF Core, ghosts
  <1>14. HandlersTrue'
    <2>0. HandlersTrue
      BY DEF Core
    <2>1. NamesTrue'
      BY <1>5, <1>6, <1>7, <2>0 DEF HandlersTrue, NamesTrue
    <2>2. \A l, m \in handlers' : l.frame = m.frame => l = m
      BY <1>2, <1>5, <1>6, <2>0 DEF HandlersTrue
    <2>3. ASSUME NEW l \in handlers'
          PROVE  /\ l.frame <= target'.frame
                 /\ l.call # "resume" => l.gate \in hit'
                 /\ l.call = "remove" => ~Stays(l.gate)'
                 /\ Alive' /\ ~client'.closed /\ (target'.mode # "paused" \/ l.frame # target'.frame) =>
                      l.call = "resume" /\ l.waiting
      <3>1. CASE l \in handlers
        BY <1>1, <1>4, <1>7, <2>0, <3>1 DEF HandlersTrue, Alive
      <3>2. CASE l = k
        <4>1. /\ h.frame <= target.frame /\ (h.call # "resume" => h.gate \in hit)
              /\ h.call = "remove" => ~Stays(h.gate)
          BY <2>0 DEF HandlersTrue
        <4> QED
          BY <1>1, <1>2, <1>5, <1>7, <3>2, <4>1 DEF Alive
      <3> QED
        BY <1>6, <3>1, <3>2
    <2>4. ASSUME NEW d \in pending', d.owner # None
          PROVE  \E l \in handlers' : l.frame = d.owner /\ l.waiting /\ l.call = d.what /\ l.gate = d.gate
      <3>1. CASE d = c
        BY <1>3, <1>5, <1>6, <3>1
      <3>2. CASE d \in pending
        <4>1. PICK l \in handlers : l.frame = d.owner /\ l.waiting /\ l.call = d.what /\ l.gate = d.gate
          BY <2>0, <2>4, <3>2 DEF HandlersTrue
        <4>2. l # h
          BY <1>1, <4>1
        <4> QED
          BY <1>6, <4>1, <4>2
      <3> QED
        BY <1>4, <3>1, <3>2
    <2> QED
      BY <2>1, <2>2, <2>3, <2>4 DEF HandlersTrue
  <1>15. EventsTrue'
    <2>1. \A j \in DOMAIN down : down[j].kind = "paused" => ~Alive
      BY <1>2 DEF Announced
    <2>2. \A l \in handlers' : \E m \in handlers : l.frame = m.frame
      BY <1>5, <1>6
    <2> QED
      BY <1>1, <2>1, <2>2 DEF Core, EventsTrue, Alive, Col
  <1>16. ASSUME Alive
         PROVE  /\ \A i \in DOMAIN up' : /\ up'[i].owner = target.frame /\ up'[i].gate = h.gate
                                         /\ (h.call = "rebind" => up'[i].what = "rebind")
                                         /\ (up'[i].what = "resume" => i = Len(up') /\ h.call = "resume")
                /\ \A l \in handlers' : l.frame = target.frame => l = k
    <2>1. \A i \in DOMAIN up' : i \in DOMAIN up \/ (i = Len(up') /\ up'[i] = c)
      BY <1>4
    <2>2. \A i \in DOMAIN up' : /\ up'[i].owner = target.frame /\ up'[i].gate = h.gate
                                         /\ (h.call = "rebind" => up'[i].what = "rebind")
                                         /\ (up'[i].what = "resume" => i = Len(up') /\ h.call = "resume")
      BY <1>2, <1>3, <1>4, <1>16, <2>1
    <2>3. \A l \in handlers' : l.frame = target.frame => l = k
      BY <1>2, <1>6, <1>16
    <2> QED
      BY <2>2, <2>3
  <1>17. StopTrue'
    <2>1. SUFFICES ASSUME Alive PROVE StopTrue'
      BY <1>1 DEF StopTrue, Alive
    <2>2. target'.mode = "paused" /\ target'.at # None /\ target'.frame = target.frame /\ target'.frame # None
      BY <1>1, <1>2, <2>1, Known
    <2>3. \A l \in handlers' : l.frame = target'.frame =>
           \A i \in DOMAIN up' :
             /\ up'[i].gate = l.gate
             /\ l.call = "rebind" => up'[i].what = "rebind"
             /\ l.call = "remove" \/ ~l.waiting => up'[i].what # "resume"
      BY <1>5, <1>16, <2>1, <2>2
    <2> QED
      BY <1>16, <2>1, <2>2, <2>3 DEF StopTrue
  <1>18. \A g : (Excused(g) => Excused(g)') /\ (Cleared(g) => Cleared(g)')
    BY <1>1, ExcusedKept, ClearedKept DEF ghosts
  <1>19. ASSUME Alive
         PROVE  \A a \in Gates : target.at = a =>
                  /\ h.gate = a \/ (Excused(a) /\ h.gate < a)
                  /\ h.call = "rebind" =>
                       /\ target.done[h.gate] + Len(up) <= h.name - 1
                       /\ h.gate = a /\ a \notin failed => target.done[a] + Len(up) = h.name - 1
                  /\ h.call # "rebind" => Cleared(a)
    BY <1>1, <1>2, <1>19 DEF Core, FrameTrue
  <1>20. DoneTrue'
    <2>1. DoneTrue
      BY DEF Core
    <2>2. \A g \in Gates : target'.done[g] <= NamesAt(g)'
      BY <1>1, <1>7, <2>1 DEF DoneTrue
    <2>3. ASSUME Alive
          PROVE  /\ \A g \in Gates : target'.done[g] # 0 =>
                      IF Stays(g)' THEN target'.at = g /\ ~Announced' ELSE g \in hit'
                 /\ \A i \in DOMAIN up', g \in Gates \cup {None} : up'[i].gate = g =>
                      /\ up'[i].what = "rebind" => g \in hit' /\ target'.done[g] + i <= NamesAt(g)'
                      /\ up'[i].what = "remove" => g \in Gates /\ ~Stays(g)' /\ Cleared(g)'
                 /\ \A i \in DOMAIN up', a \in Gates : target'.at = a /\ up'[i].what \in {"remove", "resume"} => Cleared(a)'
      <3>1. \A g \in Gates : target'.done[g] # 0 => IF Stays(g)' THEN target'.at = g /\ ~Announced' ELSE g \in hit'
        <4>1. Announced' => Announced
          BY <1>1 DEF Announced
        <4> QED
          BY <1>1, <1>7, <2>1, <2>3, <4>1 DEF DoneTrue
      <3>2. ASSUME NEW i \in DOMAIN up', NEW g \in Gates \cup {None}, up'[i].gate = g
            PROVE  /\ up'[i].what = "rebind" => g \in hit' /\ target'.done[g] + i <= NamesAt(g)'
                   /\ up'[i].what = "remove" => g \in Gates /\ ~Stays(g)' /\ Cleared(g)'
        <4>1. CASE i \in DOMAIN up
          BY <1>1, <1>4, <1>7, <1>18, <2>1, <2>3, <3>2, <4>1 DEF DoneTrue
        <4>2. CASE i = Len(up) + 1
          <5>1. up'[i] = c /\ c.what = h.call /\ g = h.gate
            BY <1>3, <1>4, <3>2, <4>2
          <5>2. ASSUME h.call = "rebind" PROVE g \in hit /\ target.done[g] + i <= NamesAt(g)
            <6>1. g \in hit /\ h.name <= NamesAt(g)
              BY <5>1, <5>2 DEF Core, HandlersTrue, NamesTrue
            <6>2. g \in Gates /\ target.done[g] \in Nat /\ NamesAt(g) \in Nat
              BY <6>1, Known DEF Shapes, Process
            <6>3. target.done[g] + Len(up) <= h.name - 1
              BY <1>2, <1>19, <2>3, <5>1, <5>2
            <6>4. h.name \in Nat
              BY <1>2, Known DEF Handler
            <6> QED
              BY <1>4, <4>2, <6>1, <6>2, <6>3, <6>4
          <5>3. ASSUME h.call = "remove" PROVE g \in Gates /\ ~Stays(g) /\ Cleared(g)
            <6>1. g \in hit /\ ~Stays(g)
              BY <5>1, <5>3 DEF Core, HandlersTrue
            <6>2. g \in Gates
              BY <6>1 DEF Shapes
            <6>3. PICK a \in Gates : target.at = a
              BY <1>2, <2>3
            <6>4. Cleared(a) /\ (g = a \/ (Excused(a) /\ g < a))
              BY <1>19, <2>3, <5>1, <5>3, <6>3
            <6>5. Excused(a) /\ g < a => Excused(g)
              <7>1. ~Headless
                BY <6>1 DEF Stays
              <7>2. \A f \in failed : a <= f /\ g < a => g <= f
                <8>1. failed \subseteq Nat /\ g \in Nat /\ a \in Nat
                  BY <6>2, Known DEF Shapes
                <8> QED
                  BY <8>1
              <7> QED
                BY <7>1, <7>2 DEF Excused
            <6> QED
              BY <6>1, <6>2, <6>4, <6>5 DEF Cleared
          <5> QED
            BY <1>1, <1>7, <1>18, <5>1, <5>2, <5>3
        <4> QED
          BY <1>4, <4>1, <4>2
      <3>3. ASSUME NEW i \in DOMAIN up', NEW a \in Gates, target'.at = a, up'[i].what \in {"remove", "resume"}
            PROVE  Cleared(a)'
        <4>1. CASE i \in DOMAIN up
          BY <1>1, <1>4, <1>18, <2>1, <2>3, <3>3, <4>1 DEF DoneTrue
        <4>2. CASE i = Len(up) + 1
          <5>1. h.call # "rebind"
            BY <1>3, <1>4, <3>3, <4>2
          <5> QED
            BY <1>1, <1>18, <1>19, <2>3, <3>3, <5>1
        <4> QED
          BY <1>4, <3>3, <4>1, <4>2
      <3> QED
        BY <3>1, <3>2, <3>3
    <2>4. Alive' <=> Alive
      BY <1>1 DEF Alive
    <2> QED
      BY <2>2, <2>3, <2>4 DEF DoneTrue
  <1>21. FrameTrue'
    <2>1. SUFFICES ASSUME Alive', target'.mode = "paused", ~client'.closed, NEW l \in handlers', NEW a \in Gates,
                          l.frame = target'.frame, target'.at = a
                   PROVE  /\ l.gate = a \/ (Excused(a)' /\ l.gate < a)
                          /\ l.call = "rebind" =>
                               /\ target'.done[l.gate] + Len(up') <= IF l.waiting THEN l.name ELSE l.name - 1
                               /\ l.gate = a /\ a \notin failed' =>
                                    target'.done[a] + Len(up') = IF l.waiting THEN l.name ELSE l.name - 1
                          /\ l.call # "rebind" => Cleared(a)'
      BY DEF FrameTrue
    <2>2. Alive /\ l = k /\ target.at = a
      BY <1>1, <1>16, <2>1 DEF Alive
    <2>3. h.name \in Nat /\ Len(up) \in Nat
      BY <1>2, <1>4, Known DEF Handler
    <2>4. h.call = "rebind" => h.gate \in Gates /\ target.done[h.gate] \in Nat
      <3>1. h.call = "rebind" => h.gate \in hit
        BY DEF Core, HandlersTrue
      <3> QED
        BY <3>1 DEF Shapes, Process
    <2>5. /\ h.gate = a \/ (Excused(a) /\ h.gate < a)
          /\ h.call = "rebind" =>
               /\ target.done[h.gate] + Len(up) <= h.name - 1
               /\ h.gate = a /\ a \notin failed => target.done[a] + Len(up) = h.name - 1
          /\ h.call # "rebind" => Cleared(a)
      BY <1>19, <2>2
    <2>6. h.call = "rebind" => target.done[h.gate] + Len(up') <= h.name
      BY <1>4, <2>3, <2>4, <2>5
    <2>7. h.call = "rebind" /\ h.gate = a /\ a \notin failed => target.done[a] + Len(up') = h.name
      BY <1>4, <2>3, <2>4, <2>5
    <2> QED
      BY <1>1, <1>5, <1>18, <2>2, <2>5, <2>6, <2>7 DEF ghosts
  <1>22. BreakpointsTrue'
    <2>1. SUFFICES ASSUME Alive', ~client'.closed
                   PROVE  /\ \A g \in placed' \ target'.armed : ~Stays(g)' /\ Cleared(g)'
                          /\ \A g \in target'.armed : ~Stays(g)' /\ (g \in hit' \/ pauses'[g] > 0) =>
                               g \in failed' \/ (target'.mode = "paused" /\ Leaving(g)')
      BY DEF BreakpointsTrue
    <2>2. Alive /\ target' = target /\ ~client.closed
      BY <1>1, <2>1 DEF Alive
    <2>3. /\ \A g \in placed \ target.armed : ~Stays(g) /\ Cleared(g)
          /\ \A g \in target.armed : ~Stays(g) /\ (g \in hit \/ pauses[g] > 0) =>
               g \in failed \/ (target.mode = "paused" /\ Leaving(g))
      BY <2>2 DEF Core, BreakpointsTrue
    <2>4. ASSUME NEW g, Leaving(g) PROVE Leaving(g)'
      <3>1. ~(target.at = g /\ g \notin hit /\ Announced)
        BY <1>2, <2>2
      <3>2. CASE \E l \in handlers : /\ l.frame = target.frame /\ l.gate = g
                                     /\ l.call = "rebind" \/ (l.call = "remove" /\ ~l.waiting)
        <4>1. PICK l \in handlers : /\ l.frame = target.frame /\ l.gate = g
                                    /\ l.call = "rebind" \/ (l.call = "remove" /\ ~l.waiting)
          BY <3>2
        <4>2. l = h
          BY <1>2, <2>2, <4>1
        <4>3. CASE h.call = "rebind"
          <5>1. k \in handlers' /\ k.frame = target'.frame /\ k.gate = g /\ k.call = "rebind"
            BY <1>5, <1>6, <2>2, <4>1, <4>2, <4>3
          <5> QED
            BY <5>1 DEF Leaving
        <4>4. CASE h.call = "remove"
          <5>1. Len(up) + 1 \in DOMAIN up' /\ up'[Len(up) + 1].what = "remove" /\ up'[Len(up) + 1].gate = g
            BY <1>3, <1>4, <4>1, <4>2, <4>4
          <5> QED
            BY <5>1 DEF Leaving
        <4> QED
          BY <4>1, <4>2, <4>3, <4>4
      <3>3. CASE \E i \in DOMAIN up : up[i].what = "remove" /\ up[i].gate = g
        BY <1>4, <3>3 DEF Leaving
      <3> QED
        BY <2>4, <3>1, <3>2, <3>3 DEF Leaving
    <2> QED
      BY <1>1, <1>7, <1>18, <2>2, <2>3, <2>4 DEF ghosts
  <1>23. GatesHonest'
    BY <1>1, GatesKept DEF Core, ghosts
  <1>24. PausedIsHandled'
    <2>1. SUFFICES ASSUME target.mode = "paused"
                   PROVE  \/ \E l \in handlers' : l.frame = target'.frame /\ (l.call # "resume" \/ ~l.waiting)
                          \/ \E i \in DOMAIN up' : up'[i].what = "resume" /\ up'[i].owner = target'.frame
      BY <1>1 DEF PausedIsHandled
    <2>2. h.frame = target.frame /\ target'.frame = target.frame
      BY <1>1, <1>2, <2>1 DEF Alive
    <2>3. CASE h.call = "resume"
      <3>1. Len(up) + 1 \in DOMAIN up' /\ up'[Len(up) + 1].what = "resume" /\ up'[Len(up) + 1].owner = target'.frame
        BY <1>3, <1>4, <2>2, <2>3
      <3> QED
        BY <3>1
    <2>4. CASE h.call # "resume"
      <3>1. k \in handlers' /\ k.frame = target'.frame /\ k.call # "resume"
        BY <1>5, <1>6, <2>2, <2>4
      <3> QED
        BY <3>1
    <2> QED
      BY <2>3, <2>4
  <1>25. WorkerTrue'
    <2>1. \A l \in handlers' : l.call = "rebind" /\ l.gate = SpawnGate => \E m \in handlers : m.call = "rebind" /\ m.gate = SpawnGate
      BY <1>5, <1>6
    <2>2. ASSUME Alive'
          PROVE  /\ \A i \in DOMAIN up' : up'[i].what = "resume" =>
                      \E m \in handlers : m.frame = target.frame /\ m.call # "rebind"
                 /\ \A l \in handlers' : l.frame = target'.frame /\ l.call # "rebind" =>
                      \E m \in handlers : m.frame = target.frame /\ m.call # "rebind"
      <3>1. Alive /\ target'.frame = target.frame
        BY <1>1, <2>2 DEF Alive
      <3> QED
        BY <1>2, <1>5, <1>16, <3>1
    <2> QED
      BY <1>1, <1>8, <2>1, <2>2, WorkerKept DEF ghosts
  <1> QED
    BY <1>9, <1>10, <1>11, <1>12, <1>13, <1>14, <1>15, <1>17, <1>20, <1>21, <1>22, <1>23, <1>24, <1>25 DEF IInv, Core

\* Word of a pause arrives, and a handler begins.
LEMMA ReceivePaused ==
  ASSUME IInv, Receive, Head(down).kind = "paused"
  PROVE  IInv'
  <1>. Shapes /\ Core /\ WorkerTrue
    BY DEF IInv
  <1>1. PICK e : e = Head(down)
    OBVIOUS
  <1>2. PICK m : m = Match(e.col)
    OBVIOUS
  <1>3. PICK k : k = [frame |-> e.frame, gate |-> m, call |-> IF m = None THEN "resume" ELSE "rebind",
                      name |-> 1, waiting |-> FALSE]
    OBVIOUS
  <1>4. /\ down # <<>> /\ down' = Tail(down) /\ target' = IfThrown(target)
        /\ IF Listening THEN handlers' = handlers \cup {k} /\ hit' = hit \cup ({m} \ {None})
           ELSE UNCHANGED <<handlers, hit>>
        /\ UNCHANGED <<client, pending, launch, placed, attach, up, failed, missed, pauses, mishap>>
    BY <1>1, <1>2, <1>3 DEF Receive, OnPaused, HandlersFor
  <1>5. /\ DownLess /\ down' \in Seq(Down) /\ 1 \in DOMAIN down /\ e = down[1] /\ e \in Down
        /\ \A j \in DOMAIN down' : \E i \in DOMAIN down : i # 1 /\ down[i] = down'[j]
    BY <1>1, <1>4, DownTail
  <1>6. e.kind = "paused" /\ e \in Event
    BY <1>1, <1>5 DEF Down, Event, Answer
  <1>7. PICK a \in Gates :
          /\ target.at = a /\ e.col \in {Col(a), Col(a) + 3} /\ e.frame = target.frame
          /\ \A h \in handlers : h.frame # target.frame
          /\ \A j \in DOMAIN down : down[j].kind = "paused" => j = 1
          /\ Alive => target.mode = "paused" /\ up = <<>> /\ (~client.closed => a \in target.armed)
    BY <1>5, <1>6 DEF Core, EventsTrue
  <1>8. /\ m \in Gates \cup {None} /\ m <= a
        /\ Headless \/ (a \in placed /\ (a \in Sticky \/ a \notin hit)) => m = a
        /\ ~Headless /\ m # None => m \in Sticky \/ m \notin hit
    BY <1>2, <1>7, MatchIs
  <1>9. /\ k \in Handler /\ k.frame = target.frame /\ k.gate = m /\ k.name = 1 /\ ~k.waiting
        /\ k.call = IF m = None THEN "resume" ELSE "rebind"
    BY <1>3, <1>6, <1>7, <1>8, Known DEF Event, Handler, HandlerCalls
  <1>10. /\ handlers \subseteq handlers' /\ handlers' \subseteq handlers \cup {k} /\ hit \subseteq hit'
         /\ hit' \subseteq hit \cup {m} /\ hit' \subseteq Gates
         /\ k \in handlers' => m \in hit' \/ m = None
    <2>1. hit \subseteq Gates
      BY DEF Shapes
    <2>2. k \notin handlers
      BY <1>7, <1>9
    <2> QED
      BY <1>4, <1>8, <2>1, <2>2
  <1>11. Alive => k \in handlers'
    <2>1. Alive => Listening
      BY <1>7 DEF Core, LaunchTrue, Listening
    <2> QED
      BY <1>4, <2>1
  <1>12. target \in Process /\ target' \in Process /\ TargetSame /\ WorkerSame
    <2>1. target \in Process
      BY DEF Shapes
    <2> QED
      BY <1>4, <2>1, IfThrownIs DEF TargetSame, WorkerSame
  <1>13. StillAlive /\ StillOpen /\ (Alive' => target'.mode = target.mode)
    BY <1>4, <1>12 DEF StillAlive, StillOpen, TargetSame, Alive
  <1>14. ~Announced' /\ Announced
    BY <1>5, <1>6, <1>7 DEF Announced
  <1>15. /\ (Headless' <=> Headless) /\ Script' = Script
         /\ \A g : NamesAt(g)' = NamesAt(g) /\ (Stays(g)' <=> Stays(g)) /\ Pos(g)' = Pos(g)
    BY <1>4, StyleKept
  <1>16. Shapes'
    BY <1>4, <1>5, <1>9, <1>10, <1>12, <1>15 DEF Shapes
  <1>17. Ids' /\ AnswersTrue'
    BY <1>4, <1>5, <1>12, <1>13, IdsKept, AnswersKept DEF Core, TargetSame
  <1>18. LaunchTrue'
    BY <1>4, <1>13, LaunchKept DEF Core
  <1>19. PlacedTrue'
    BY <1>4, <1>12, <1>13, PlacedKept DEF Core, TargetSame
  <1>20. HandlersTrue'
    <2>0. HandlersTrue
      BY DEF Core
    <2>1. NamesTrue'
      <3>1. 1 <= NamesAt(m)
        BY <1>8, Known
      <3> QED
        BY <1>9, <1>10, <1>15, <2>0, <3>1 DEF HandlersTrue, NamesTrue
    <2>2. \A l, n \in handlers' : l.frame = n.frame => l = n
      BY <1>7, <1>9, <1>10, <2>0 DEF HandlersTrue
    <2>3. ASSUME NEW l \in handlers'
          PROVE  /\ l.frame <= target'.frame
                 /\ l.call # "resume" => l.gate \in hit'
                 /\ l.call = "remove" => ~Stays(l.gate)'
                 /\ Alive' /\ ~client'.closed /\ (target'.mode # "paused" \/ l.frame # target'.frame) =>
                      l.call = "resume" /\ l.waiting
      <3>1. CASE l \in handlers
        BY <1>4, <1>10, <1>12, <1>13, <1>15, <2>0, <3>1 DEF HandlersTrue, TargetSame, StillAlive
      <3>2. CASE l = k
        <4>1. l.frame <= target'.frame
          BY <1>9, <1>12, <3>2, Known DEF TargetSame, Process
        <4>2. (l.call # "resume" => l.gate \in hit') /\ l.call # "remove"
          BY <1>9, <1>10, <3>2
        <4>3. l.frame = target'.frame
          BY <1>9, <1>12, <3>2 DEF TargetSame
        <4>4. Alive' => target'.mode = "paused"
          BY <1>7, <1>13 DEF StillAlive
        <4> QED
          BY <4>1, <4>2, <4>3, <4>4
      <3> QED
        BY <1>10, <3>1, <3>2
    <2>4. \A d \in pending' : d.owner # None =>
            \E l \in handlers' : l.frame = d.owner /\ l.waiting /\ l.call = d.what /\ l.gate = d.gate
      BY <1>4, <1>10, <2>0 DEF HandlersTrue
    <2> QED
      BY <2>1, <2>2, <2>3, <2>4 DEF HandlersTrue
  <1>21. EventsTrue'
    BY <1>14 DEF EventsTrue, Announced
  <1>22. StopTrue'
    <2>1. SUFFICES ASSUME Alive' PROVE StopTrue'
      BY DEF StopTrue
    <2>2. target'.mode = "paused" /\ up' = <<>> /\ target'.at # None /\ target'.frame # None
      <3>1. e.frame # None
        BY <1>6, Known DEF Event
      <3> QED
        BY <1>4, <1>7, <1>12, <1>13, <2>1, <3>1, Known DEF StillAlive, TargetSame
    <2>3. DOMAIN up' = {}
      BY <2>2
    <2> QED
      BY <2>2, <2>3 DEF StopTrue
  <1>23. DoneTrue'
    BY <1>4, <1>10, <1>12, <1>13, <1>14, DoneKept DEF Core, TargetSame
  <1>24. \A g : (Excused(g) => Excused(g)') /\ (Cleared(g) => Cleared(g)')
    BY <1>4, <1>12, ExcusedKept, ClearedKept DEF TargetSame
  <1>25. Alive /\ ~client.closed => a \in placed \cup failed
    <2>1. ASSUME Alive PROVE launch.step > Pos(a)
      <3>1. launch.step = Len(Script)
        BY <1>7, <2>1 DEF Core, LaunchTrue
      <3> QED
        BY <3>1, ScriptIs, Known DEF Pos, Gates
    <2> QED
      BY <2>1 DEF Core, PlacedTrue
  <1>26. a \in Nat /\ m \in Nat /\ Gates \subseteq Nat /\ None = 0 /\ a # 0
    BY <1>8, Known
  <1>27. FrameTrue'
    <2>1. SUFFICES ASSUME Alive', target'.mode = "paused", ~client'.closed, NEW l \in handlers', NEW b \in Gates,
                          l.frame = target'.frame, target'.at = b
                   PROVE  /\ l.gate = b \/ (Excused(b)' /\ l.gate < b)
                          /\ l.call = "rebind" =>
                               /\ target'.done[l.gate] + Len(up') <= IF l.waiting THEN l.name ELSE l.name - 1
                               /\ l.gate = b /\ b \notin failed' =>
                                    target'.done[b] + Len(up') = IF l.waiting THEN l.name ELSE l.name - 1
                          /\ l.call # "rebind" => Cleared(b)'
      BY DEF FrameTrue
    <2>2. /\ Alive /\ ~client.closed /\ l = k /\ b = a /\ up' = <<>> /\ target'.done = target.done
          /\ a \in target.armed
      BY <1>4, <1>7, <1>10, <1>12, <1>13, <2>1 DEF StillAlive, TargetSame
    <2>3. m # a => Excused(a)
      <3>1. CASE Headless
        BY <1>8, <3>1
      <3>2. CASE ~Headless
        <4>1. SUFFICES ASSUME m # a PROVE a \in failed
          BY <1>26, <3>2 DEF Excused
        <4>2. a \notin placed \/ (a \notin Sticky /\ a \in hit)
          BY <1>8, <4>1
        <4>3. CASE a \notin placed
          BY <1>25, <2>2, <4>3
        <4>4. CASE a \notin Sticky /\ a \in hit
          <5>1. ~Leaving(a)
            <6>1. ~(\E i \in DOMAIN up : up[i].what = "remove" /\ up[i].gate = a)
              BY <1>7, <2>2
            <6> QED
              BY <1>7, <4>4, <6>1 DEF Leaving
          <5>2. ~Stays(a)
            BY <3>2, <4>4 DEF Stays
          <5> QED
            BY <2>2, <4>4, <5>1, <5>2 DEF Core, BreakpointsTrue
        <4> QED
          BY <4>2, <4>3, <4>4
      <3> QED
        BY <3>1, <3>2
    <2>4. m = a \/ (Excused(a)' /\ m < a)
      BY <1>8, <1>24, <1>26, <2>3
    <2>5. ASSUME m # None PROVE target.done[m] = 0
      <3>1. SUFFICES ASSUME target.done[m] # 0 PROVE FALSE
        OBVIOUS
      <3>2. IF Stays(m) THEN target.at = m /\ ~Announced ELSE m \in hit
        BY <1>8, <2>2, <2>5, <3>1 DEF Core, DoneTrue
      <3>3. m \in hit /\ ~Stays(m)
        BY <1>14, <3>2
      <3> QED
        BY <1>8, <2>5, <3>3 DEF Stays
    <2>6. m = None => Cleared(a)'
      BY <1>24, <1>26, <2>3 DEF Cleared
    <2>7. Len(up') = 0
      BY <2>2
    <2>8. m # None => target'.done[m] + Len(up') = k.name - 1
      BY <1>9, <2>2, <2>5, <2>7
    <2>9. k.name - 1 <= k.name - 1
      BY <1>9
    <2> QED
      BY <1>9, <2>2, <2>4, <2>6, <2>8, <2>9
  <1>28. BreakpointsTrue'
    <2>1. SUFFICES ASSUME Alive', ~client'.closed
                   PROVE  /\ \A g \in placed' \ target'.armed : ~Stays(g)' /\ Cleared(g)'
                          /\ \A g \in target'.armed : ~Stays(g)' /\ (g \in hit' \/ pauses'[g] > 0) =>
                               g \in failed' \/ (target'.mode = "paused" /\ Leaving(g)')
      BY DEF BreakpointsTrue
    <2>2. /\ Alive /\ ~client.closed /\ target'.mode = "paused" /\ target.mode = "paused" /\ k \in handlers'
          /\ up = <<>> /\ target'.armed = target.armed
      BY <1>4, <1>7, <1>11, <1>12, <1>13, <2>1 DEF StillAlive, TargetSame
    <2>3. /\ \A g \in placed \ target.armed : ~Stays(g) /\ Cleared(g)
          /\ \A g \in target.armed : ~Stays(g) /\ (g \in hit \/ pauses[g] > 0) =>
               g \in failed \/ (target.mode = "paused" /\ Leaving(g))
      BY <2>2 DEF Core, BreakpointsTrue
    <2>4. Leaving(m)' \/ m = None
      <3>1. target'.frame = target.frame
        BY <1>12 DEF TargetSame
      <3> QED
        BY <1>9, <2>2, <3>1 DEF Leaving
    <2>5. ASSUME NEW g \in target.armed, ~Stays(g), Leaving(g), g # m PROVE g \in failed
      <3>1. target.at = g /\ g \notin hit
        <4>1. DOMAIN up = {}
          BY <2>2
        <4> QED
          BY <1>7, <2>5, <4>1 DEF Leaving
      <3>2. a \notin placed
        BY <1>7, <1>8, <2>5, <3>1
      <3> QED
        BY <1>7, <1>25, <2>2, <3>1, <3>2
    <2>6. ASSUME NEW g \in target'.armed, ~Stays(g)', g \in hit' \/ pauses'[g] > 0
          PROVE  g \in failed' \/ Leaving(g)'
      <3>0. g \in Gates
        BY <2>2, <2>6, <1>12 DEF Process
      <3>1. CASE g = m
        BY <2>4, <3>0, <3>1, Known
      <3>2. CASE g # m
        <4>1. g \in hit \/ pauses[g] > 0
          BY <1>4, <1>10, <2>6, <3>2
        <4> QED
          BY <1>4, <1>15, <2>2, <2>3, <2>5, <2>6, <3>2, <4>1
      <3> QED
        BY <3>1, <3>2
    <2> QED
      BY <1>4, <1>15, <1>24, <2>2, <2>3, <2>6
  <1>29. GatesHonest'
    BY <1>4, GatesKept DEF Core
  <1>30. PausedIsHandled'
    <2>1. SUFFICES ASSUME target'.mode = "paused"
                   PROVE  \E l \in handlers' : l.frame = target'.frame /\ (l.call # "resume" \/ ~l.waiting)
      BY DEF PausedIsHandled
    <2>2. Alive /\ target'.frame = target.frame
      BY <1>12, <2>1 DEF TargetSame, Alive
    <2> QED
      BY <1>9, <1>11, <2>2
  <1>31. WorkerTrue'
    <2>1. ASSUME NEW l \in handlers', l.call = "rebind", l.gate = SpawnGate
          PROVE  (\E n \in handlers : n.call = "rebind" /\ n.gate = SpawnGate) \/ target.worker.mode = "none"
      <3>1. CASE l = k
        <4>1. ~Headless \/ target.at = SpawnGate
          BY <1>7, <1>8, <1>9, <2>1, <3>1
        <4> QED
          BY <4>1 DEF WorkerTrue
      <3> QED
        BY <1>10, <2>1, <3>1
    <2>2. ASSUME NEW l \in handlers', l.frame = target'.frame, l.call # "rebind"
          PROVE  \/ \E n \in handlers : n.frame = target.frame /\ n.call # "rebind"
                 \/ ~(Headless /\ target.at = SpawnGate)
      <3>1. CASE l = k
        <4>1. m = None
          BY <1>9, <2>2, <3>1
        <4> QED
          BY <1>8, <1>26, <4>1
      <3> QED
        BY <1>10, <1>12, <2>2, <3>1 DEF TargetSame
    <2> QED
      BY <1>4, <1>12, <1>13, <2>1, <2>2, WorkerKept DEF TargetSame
  <1> QED
    BY <1>16, <1>17, <1>18, <1>19, <1>20, <1>21, <1>22, <1>23, <1>27, <1>28, <1>29, <1>30, <1>31 DEF IInv, Core

\* The process goes on with none of its calls on their way: what it has assigned.
LEMMA ResumedDone ==
  ASSUME DoneTrue, launch'.style = launch.style, hit' = hit, up' = <<>>,
         \A g \in Gates : target'.done[g] = IF Stays(g) THEN 0 ELSE target.done[g],
         \A g \in Gates : NamesAt(g) \in Nat, Alive' => Alive
  PROVE  DoneTrue'
  <1>1. \A g : NamesAt(g)' = NamesAt(g) /\ (Stays(g)' <=> Stays(g))
    BY StyleKept
  <1>2. DOMAIN up' = {}
    OBVIOUS
  <1>3. \A g \in Gates : target'.done[g] <= NamesAt(g)'
    BY <1>1 DEF DoneTrue
  <1>4. Alive' => \A g \in Gates : target'.done[g] # 0 =>
          IF Stays(g)' THEN target'.at = g /\ ~Announced' ELSE g \in hit'
    BY <1>1 DEF DoneTrue
  <1> QED
    BY <1>2, <1>3, <1>4 DEF DoneTrue

LEMMA SocketCloseKeeps ==
  ASSUME IInv, SocketClose
  PROVE  IInv'
  <1>. Shapes /\ Core /\ WorkerTrue
    BY DEF IInv
  <1> DEFINE p1 == IF target.mode = "paused" THEN Resumed(target) ELSE target
             p2 == [p1 EXCEPT !.armed = {}]
  <1>1. /\ client' = [client EXCEPT !.sock = "closed", !.closed = TRUE] /\ Settle(pending, FALSE)
        /\ target' = IfThrown(p2) /\ pending' = {} /\ up' = <<>> /\ down' = <<>>
        /\ UNCHANGED <<hit, failed, missed, pauses, mishap>>
        /\ client.sock \in {"ended", "open"}
    BY DEF SocketClose, ghosts
  <1>2. client' \in Client /\ client'.sock = "closed" /\ client'.closed /\ client'.nextId = client.nextId
    BY <1>1 DEF Shapes, Client
  <1>3. NamesTrue
    BY DEF Core, HandlersTrue
  <1>4. \A c \in pending :
          /\ c.what = "setBreakpoint" => c.gate \in Gates
          /\ c.owner = None => launch.step \in 1 .. Len(Script)
    <2>1. \A c \in pending : c.what = "setBreakpoint" => c.gate \in Gates
      BY DEF Shapes, Sent
    <2>2. \A c \in pending : c.owner = None => launch.step \in 1 .. Len(Script)
      BY PendingIs
    <2> QED
      BY <2>1, <2>2
  <1>5. /\ launch' \in Launch /\ launch'.step <= Len(Script) /\ launch'.style = launch.style
        /\ launch' = launch \/ (launch' = LaunchAfter(FALSE) /\ \E c \in pending : c.owner = None)
        /\ placed' \subseteq Gates
        /\ \A k \in handlers' :
             \/ k \in handlers /\ \A c \in pending : c.owner # k.frame
             \/ \E h \in handlers : (\E c \in pending : c.owner = h.frame) /\ k \in HandlerAfter(h)
        /\ handlers' \subseteq Handler
        /\ attach' \in [step : 0 .. Len(AttachScript), outcome : {"going", "ready", "threw"}]
        /\ attach' = attach \/ Headless
    BY <1>1, <1>3, <1>4, SettleIs
  <1>6. /\ (Headless' <=> Headless) /\ Script' = Script
        /\ \A g : NamesAt(g)' = NamesAt(g) /\ (Stays(g)' <=> Stays(g)) /\ Pos(g)' = Pos(g)
    BY <1>5, StyleKept
  <1>7. target \in Process
    BY DEF Shapes
  <1>8. /\ p1 \in Process /\ p1.at = (IF target.mode = "paused" THEN None ELSE target.at) /\ p1.frame = target.frame
        /\ p1.mode = (IF target.mode = "paused" THEN "running" ELSE target.mode)
        /\ \A g \in Gates : p1.done[g] = IF Stays(g) /\ target.mode = "paused" THEN 0 ELSE target.done[g]
        /\ ~Headless => p1.worker = target.worker
        /\ target.mode # "paused" => p1 = target
    <2>1. CASE target.mode = "paused"
      BY <1>7, <2>1, ResumedIs
    <2>2. CASE target.mode # "paused"
      BY <1>7, <2>2
    <2> QED
      BY <2>1, <2>2
  <1> HIDE DEF p1
  <1>9. p2 \in Process /\ p2.at = p1.at /\ p2.frame = p1.frame /\ p2.mode = p1.mode /\ p2.done = p1.done /\ p2.worker = p1.worker
    BY <1>8 DEF Process
  <1> HIDE DEF p2
  <1>10. /\ target' \in Process /\ target'.at = p2.at /\ target'.frame = p2.frame /\ target'.done = p2.done
         /\ launch'.outcome # "threw" => target'.mode = p2.mode
         /\ launch'.outcome = "threw" => target'.mode = "dead"
         /\ p2.worker.mode = "none" => target'.worker.mode = "none"
    BY <1>1, <1>9, IfThrownIs
  <1>11. Alive' => /\ Alive /\ launch'.outcome # "threw"
                   /\ target'.mode = IF target.mode = "paused" THEN "running" ELSE target.mode
    BY <1>8, <1>9, <1>10 DEF Alive
  <1>12. Alive => (target.mode = "paused" <=> target.at # None)
    BY DEF Core, StopTrue
  <1>13. Shapes'
    <2>1. up' \in Seq(Sent) /\ down' \in Seq(Down)
      BY <1>1
    <2> QED
      BY <1>1, <1>2, <1>5, <1>6, <1>10, <2>1 DEF Shapes
  <1>14. DOMAIN up' = {} /\ DOMAIN down' = {}
    BY <1>1
  <1>15. Ids' /\ AnswersTrue' /\ EventsTrue'
    BY <1>1, <1>14 DEF Ids, AnswersTrue, EventsTrue
  <1>16. PlacedTrue' /\ FrameTrue' /\ BreakpointsTrue' /\ PausedIsHandled'
    BY <1>2 DEF PlacedTrue, FrameTrue, BreakpointsTrue, PausedIsHandled
  <1>17. LaunchTrue'
    <2>0. LaunchTrue
      BY DEF Core
    <2>1. CASE launch' = launch
      <3>1. Alive' /\ target'.mode # "wait" => target.mode # "wait"
        BY <1>11
      <3>2. launch'.outcome = "threw" => ~Alive'
        BY <1>10 DEF Alive
      <3> QED
        BY <1>1, <1>2, <1>6, <1>11, <1>14, <2>0, <2>1, <3>1, <3>2 DEF LaunchTrue
    <2>2. CASE launch' = LaunchAfter(FALSE) /\ \E c \in pending : c.owner = None
      <3>1. PICK c \in pending : c.owner = None
        BY <2>2
      <3>2. launch.step \in 1 .. Len(Script) /\ Len(Script) \in Nat
        BY <1>4, <3>1, ScriptIs
      <3>3. /\ ~launch'.waiting
            /\ Script[launch.step].what \notin Tolerated => launch'.outcome = "threw" /\ launch'.step = launch.step
            /\ Script[launch.step].what \in Tolerated /\ launch.step # Len(Script) => launch'.step = launch.step + 1
        BY <2>2, <3>2, LaunchAfterIs
      <3>4. Script[launch.step].what \in Tolerated => launch.step # Len(Script)
        BY <3>2, ScriptIs
      <3>5. launch'.step # 0 /\ launch'.step > 0
        BY <3>2, <3>3, <3>4
      <3>6. launch'.outcome = "threw" => ~Alive'
        BY <1>10 DEF Alive
      <3>7. ASSUME Alive' PROVE target'.mode = "wait"
        <4>1. launch.step # Len(Script) /\ Alive
          BY <1>11, <3>2, <3>3, <3>6, <3>7, ScriptIs
        <4>2. target.mode = "wait"
          BY <2>0, <4>1 DEF LaunchTrue
        <4> QED
          BY <1>11, <3>7, <4>2
      <3> QED
        BY <1>1, <1>2, <1>14, <3>3, <3>5, <3>6, <3>7 DEF LaunchTrue
    <2> QED
      BY <1>5, <2>1, <2>2
  <1>18. \A h \in handlers :
           /\ HandlerAfter(h) \subseteq Handler
           /\ \A k, l \in HandlerAfter(h) : k = l
           /\ \A k \in HandlerAfter(h) :
                /\ h.call # "resume" /\ k.frame = h.frame /\ k.gate = h.gate
                /\ k.call = "rebind" => k.name <= NamesAt(k.gate)
                /\ k.call = "remove" => ~Stays(h.gate)
    BY <1>3, HandlerAfterIs DEF NamesTrue, Shapes
  <1>19. HandlersTrue'
    <2>0. /\ \A h \in handlers : h.frame <= target.frame /\ (h.call # "resume" => h.gate \in hit)
                                 /\ (h.call = "remove" => ~Stays(h.gate))
          /\ \A h, k \in handlers : h.frame = k.frame => h = k
      BY DEF Core, HandlersTrue
    <2>1. NamesTrue'
      <3>1. \A k \in handlers' : k.call = "rebind" => k.name <= NamesAt(k.gate)
        BY <1>3, <1>5, <1>18 DEF NamesTrue
      <3> QED
        BY <1>6, <3>1 DEF NamesTrue
    <2>2. ASSUME NEW k \in handlers', NEW l \in handlers', k.frame = l.frame PROVE k = l
      <3>1. CASE k \in handlers /\ (\A c \in pending : c.owner # k.frame)
        <4>1. l \in handlers
          BY <1>5, <1>18, <2>2, <3>1
        <4> QED
          BY <2>0, <2>2, <3>1, <4>1
      <3>2. CASE \E h \in handlers : (\E c \in pending : c.owner = h.frame) /\ k \in HandlerAfter(h)
        <4>1. PICK h \in handlers : (\E c \in pending : c.owner = h.frame) /\ k \in HandlerAfter(h)
          BY <3>2
        <4>2. h.frame = l.frame
          BY <1>18, <2>2, <4>1
        <4>3. PICK j \in handlers : l \in HandlerAfter(j)
          BY <1>5, <4>1, <4>2
        <4>4. j = h
          BY <1>18, <2>0, <4>2, <4>3
        <4> QED
          BY <1>18, <4>1, <4>3, <4>4
      <3> QED
        BY <1>5, <3>1, <3>2
    <2>3. ASSUME NEW k \in handlers'
          PROVE  /\ k.frame <= target'.frame
                 /\ k.call # "resume" => k.gate \in hit'
                 /\ k.call = "remove" => ~Stays(k.gate)'
      <3>1. target'.frame = target.frame
        BY <1>8, <1>9, <1>10
      <3>2. CASE k \in handlers
        BY <1>1, <1>6, <2>0, <3>1, <3>2
      <3>3. CASE \E h \in handlers : k \in HandlerAfter(h)
        BY <1>1, <1>6, <1>18, <2>0, <3>1, <3>3
      <3> QED
        BY <1>5, <3>2, <3>3
    <2> QED
      BY <1>1, <1>2, <2>1, <2>2, <2>3 DEF HandlersTrue
  <1>20. StopTrue'
    <2>1. SUFFICES ASSUME Alive' PROVE StopTrue'
      BY DEF StopTrue
    <2>2. Alive /\ target'.mode = IF target.mode = "paused" THEN "running" ELSE target.mode
      BY <1>11, <2>1
    <2>3. target'.at = None
      BY <1>8, <1>9, <1>10, <1>12, <2>2
    <2>4. target'.mode # "paused"
      BY <2>2
    <2>5. ASSUME target'.mode = "wait"
          PROVE  handlers' = {} /\ hit' = {} /\ target'.frame = 0 /\ \A g \in Gates : pauses'[g] = 0
      <3>1. target.mode = "wait"
        BY <2>2, <2>5
      <3>2. handlers = {} /\ hit = {} /\ target.frame = 0 /\ \A g \in Gates : pauses[g] = 0
        BY <2>2, <3>1 DEF Core, StopTrue
      <3> QED
        BY <1>1, <1>5, <1>8, <1>9, <1>10, <3>2
    <2> QED
      BY <1>1, <1>14, <2>3, <2>4, <2>5 DEF StopTrue
  <1>21. \A g \in Gates : NamesAt(g) \in Nat
    BY Known
  <1>22. DoneTrue'
    <2>1. \A g \in Gates : target'.done[g] = IF Stays(g) /\ target.mode = "paused" THEN 0 ELSE target.done[g]
      BY <1>8, <1>9, <1>10
    <2>2. \A g \in Gates : target'.done[g] <= NamesAt(g)'
      BY <1>6, <1>21, <2>1 DEF Core, DoneTrue
    <2>3. ASSUME Alive', NEW g \in Gates, target'.done[g] # 0
          PROVE  IF Stays(g)' THEN target'.at = g /\ ~Announced' ELSE g \in hit'
      <3>1. Alive /\ target.done[g] # 0 /\ ~(Stays(g) /\ target.mode = "paused")
        BY <1>11, <2>1, <2>3
      <3>2. IF Stays(g) THEN target.at = g /\ ~Announced ELSE g \in hit
        BY <3>1 DEF Core, DoneTrue
      <3>3. ~Stays(g)
        BY <1>12, <3>1, <3>2, Known
      <3> QED
        BY <1>1, <1>6, <3>2, <3>3
    <2> QED
      BY <1>14, <2>2, <2>3 DEF DoneTrue
  <1>23. GatesHonest'
    BY <1>1, <1>5, GatesKept DEF Core
  <1>24. WorkerTrue'
    <2>1. Forgiven'
      BY <1>2 DEF Forgiven
    <2>2. ASSUME ~Headless' \/ target'.at = SpawnGate PROVE target'.worker.mode = "none"
      <3>1. ~Headless \/ target.at = SpawnGate => target.worker.mode = "none"
        BY DEF WorkerTrue
      <3>2. CASE target.mode = "paused"
        <4>1. ~Headless
          BY <1>6, <1>8, <1>9, <1>10, <2>2, <3>2, Known
        <4> QED
          BY <1>8, <1>9, <1>10, <3>1, <4>1
      <3>3. CASE target.mode # "paused"
        BY <1>6, <1>8, <1>9, <1>10, <2>2, <3>1, <3>3
      <3> QED
        BY <3>2, <3>3
    <2> QED
      BY <2>1, <2>2 DEF WorkerTrue
  <1> QED
    BY <1>13, <1>15, <1>16, <1>17, <1>19, <1>20, <1>22, <1>23, <1>24 DEF IInv, Core

-----------------------------------------------------------------------------
(* The process answers *)

\* The process has done what the first of the calls on its way asks for, or has refused it.
Served(call) ==
  /\ Alive /\ call = up[1] /\ 1 \in DOMAIN up
  /\ Len(up) \in Nat \ {0} /\ DOMAIN up = 1 .. Len(up)
  /\ up' \in Seq(Sent) /\ Len(up') = Len(up) - 1
  /\ \A i \in DOMAIN up' : up'[i] = up[i + 1] /\ i + 1 \in DOMAIN up /\ i \in Nat \ {0}
  /\ \A i \in DOMAIN up : i = 1 \/ (i - 1 \in DOMAIN up' /\ up'[i - 1] = up[i])
  /\ target' = Effect(call) \/ (target' = target /\ call.gate \in failed' /\ call.what # "resume")
  /\ failed \subseteq failed' /\ failed' \subseteq Gates \cup {None}
  /\ down' \in Seq(Down)
  /\ \A k \in DOMAIN down : k \in DOMAIN down' /\ down'[k] = down[k]
  /\ \A k \in DOMAIN down' : k \in DOMAIN down \/
       /\ down'[k].kind = "answer" /\ down'[k].id = call.id
       /\ IF down'[k].ok THEN target' = Effect(call) ELSE call.what = "rebind" \/ call.gate \in failed'
  /\ missed' = IF call.what = "resume" /\ target.at # None /\ target.done[target.at] < NamesAt(target.at)
               THEN missed \cup {target.at} ELSE missed
  /\ UNCHANGED <<client, pending, launch, placed, hit, handlers, attach, pauses, mishap>>

LEMMA ServeIs ==
  ASSUME IInv, Serve
  PROVE  \E call \in Sent : Served(call)
  <1>. Shapes
    BY DEF IInv
  <1>1. PICK call : call = Head(up)
    OBVIOUS
  <1>2. /\ Alive /\ up # <<>> /\ up' = Tail(up)
        /\ missed' = IF call.what = "resume" /\ target.at # None /\ target.done[target.at] < NamesAt(target.at)
                     THEN missed \cup {target.at} ELSE missed
        /\ UNCHANGED <<client, pending, launch, placed, hit, handlers, attach, pauses, mishap>>
    BY <1>1 DEF Serve
  <1>3. /\ Tail(up) \in Seq(Sent) /\ call = up[1] /\ up[1] \in Sent
        /\ Len(up) \in Nat \ {0} /\ Len(Tail(up)) = Len(up) - 1 /\ 1 \in DOMAIN up /\ DOMAIN up = 1 .. Len(up)
        /\ \A i \in DOMAIN Tail(up) : Tail(up)[i] = up[i + 1] /\ i + 1 \in DOMAIN up /\ i \in Nat \ {0}
        /\ \A i \in DOMAIN up : i = 1 \/ (i - 1 \in DOMAIN Tail(up) /\ Tail(up)[i - 1] = up[i])
    BY <1>1, <1>2, TailIs DEF Shapes
  <1>4. call.id \in Nat /\ call.gate \in Gates \cup {None}
    BY <1>3 DEF Sent, Pending
  <1>5. ASSUME NEW ok \in BOOLEAN, down' = Answered(call, ok)
        PROVE  /\ down' \in Seq(Down)
               /\ \A k \in DOMAIN down : k \in DOMAIN down' /\ down'[k] = down[k]
               /\ \A k \in DOMAIN down' : k \in DOMAIN down \/
                    (down'[k].kind = "answer" /\ down'[k].id = call.id /\ down'[k].ok = ok)
    <2>1. PICK a : a = [kind |-> "answer", id |-> call.id, ok |-> ok]
      OBVIOUS
    <2>2. a \in Down /\ a.kind = "answer" /\ a.id = call.id /\ a.ok = ok
      BY <1>4, <2>1 DEF Down, Answer
    <2>3. down' = Append(down, a) /\ down \in Seq(Down)
      BY <1>5, <2>1 DEF Answered, Shapes
    <2>4. /\ Append(down, a) \in Seq(Down)
          /\ DOMAIN Append(down, a) = DOMAIN down \cup {Len(down) + 1}
          /\ Append(down, a)[Len(down) + 1] = a
          /\ \A i \in DOMAIN down : Append(down, a)[i] = down[i]
      BY <2>2, <2>3, AppendIs
    <2> QED
      BY <2>2, <2>3, <2>4
  <1>6. /\ target' = Effect(call) \/ (target' = target /\ call.gate \in failed' /\ call.what # "resume")
        /\ failed \subseteq failed' /\ failed' \subseteq Gates \cup {None}
        /\ down' \in Seq(Down)
        /\ \A k \in DOMAIN down : k \in DOMAIN down' /\ down'[k] = down[k]
        /\ \A k \in DOMAIN down' : k \in DOMAIN down \/
             /\ down'[k].kind = "answer" /\ down'[k].id = call.id
             /\ IF down'[k].ok THEN target' = Effect(call) ELSE call.what = "rebind" \/ call.gate \in failed'
    <2>1. CASE /\ target' = Effect(call)
               /\ down' = Answered(call, ~(call.what = "rebind" /\ target.at # call.gate))
               /\ failed' = failed
      <3>1. PICK ok \in BOOLEAN : ok = ~(call.what = "rebind" /\ target.at # call.gate)
        OBVIOUS
      <3>2. ~ok => call.what = "rebind"
        BY <3>1
      <3>3. down' = Answered(call, ok)
        BY <2>1, <3>1
      <3>4. /\ down' \in Seq(Down)
            /\ \A k \in DOMAIN down : k \in DOMAIN down' /\ down'[k] = down[k]
            /\ \A k \in DOMAIN down' : k \in DOMAIN down \/
                 (down'[k].kind = "answer" /\ down'[k].id = call.id /\ down'[k].ok = ok)
        BY <1>5, <3>3
      <3>5. failed' \subseteq Gates \cup {None} /\ failed \subseteq failed'
        BY <2>1 DEF Shapes
      <3>6. \A k \in DOMAIN down' : k \in DOMAIN down \/
             /\ down'[k].kind = "answer" /\ down'[k].id = call.id
             /\ IF down'[k].ok THEN target' = Effect(call) ELSE call.what = "rebind" \/ call.gate \in failed'
        BY <2>1, <3>2, <3>4, Zenon
      <3> QED
        BY <2>1, <3>4, <3>5, <3>6
    <2>2. CASE /\ call.what # "resume" /\ down' = Answered(call, FALSE)
               /\ failed' = failed \cup {call.gate} /\ target' = target
      <3>1. /\ down' \in Seq(Down)
            /\ \A k \in DOMAIN down : k \in DOMAIN down' /\ down'[k] = down[k]
            /\ \A k \in DOMAIN down' : k \in DOMAIN down \/
                 (down'[k].kind = "answer" /\ down'[k].id = call.id /\ down'[k].ok = FALSE)
        BY <1>5, <2>2
      <3>2. failed' \subseteq Gates \cup {None} /\ failed \subseteq failed' /\ call.gate \in failed'
        BY <1>4, <2>2 DEF Shapes
      <3> QED
        BY <2>2, <3>1, <3>2
    <2>3. CASE target' = Effect(call) /\ down' = down /\ failed' = failed
      BY <2>3 DEF Shapes
    <2> QED
      BY <1>1, <2>1, <2>2, <2>3 DEF Serve
  <1>7. Served(call)
    BY <1>2, <1>3, <1>6 DEF Served
  <1> QED
    BY <1>3, <1>7

\* Who may have made the call that is answered.
LEMMA ServedBy ==
  ASSUME IInv, NEW call \in Sent, Served(call)
  PROVE  /\ target.mode \in {"wait", "paused"} /\ ~Announced /\ ~Announced'
         /\ target.mode = "wait" => call.owner = None /\ call.what \notin HandlerCalls /\ target.at = None
         /\ target.mode = "paused" =>
              /\ call.owner = target.frame /\ call.what \in HandlerCalls /\ target.at \in Gates
              /\ launch.step = Len(Script)
         /\ call.what = "initialized" => call \in pending /\ up' = <<>>
         /\ call.what = "resume" => up' = <<>>
  <1>. Shapes /\ Core
    BY DEF IInv
  <1>1. Alive /\ call = up[1] /\ 1 \in DOMAIN up /\ up # <<>>
    BY DEF Served
  <1>2. /\ target.mode = "wait" => \A i \in DOMAIN up : up[i].owner = None
        /\ target.mode # "running"
        /\ target.mode = "paused" <=> target.at # None
        /\ target.mode = "paused" => target.frame # None /\ \A i \in DOMAIN up : up[i].owner = target.frame
        /\ \A i \in DOMAIN up : up[i].what = "resume" => i = Len(up)
    BY <1>1 DEF Core, StopTrue
  <1>3. target.mode \in {"wait", "paused"}
    BY <1>1, <1>2 DEF Shapes, Process, Alive
  <1>4. ~Announced
    BY <1>1 DEF Core, EventsTrue, Announced
  <1>5. ~Announced'
    BY <1>4 DEF Announced, Served
  <1>6. call.owner = None <=> call.what \notin HandlerCalls
    BY DEF Sent
  <1>7. target.mode = "paused" => target.at \in Gates /\ launch.step = Len(Script)
    BY <1>1, <1>2 DEF Shapes, Process, Core, LaunchTrue
  <1>8. call.what = "initialized" => call \in pending /\ 1 = Len(up)
    BY <1>1 DEF Core, LaunchTrue
  <1>9. call.what = "resume" => 1 = Len(up)
    BY <1>1, <1>2
  <1>10. 1 = Len(up) => up' = <<>>
    <2>1. Len(up) = 1 => Len(up') = 0
      BY DEF Served
    <2>2. up' \in Seq(Sent)
      BY DEF Served
    <2> QED
      BY <2>1, <2>2
  <1> QED
    BY <1>1, <1>2, <1>3, <1>4, <1>5, <1>6, <1>7, <1>8, <1>9, <1>10

\* What an answer does not depend on.
LEMMA ServedAll ==
  ASSUME IInv, NEW call \in Sent, Served(call)
  PROVE  Shapes' /\ Ids' /\ AnswersTrue' /\ EventsTrue' /\ LaunchTrue'
  <1>. Shapes /\ Core
    BY DEF IInv
  <1>1. /\ Effect(call) \in Process
        /\ call.what \notin {"setBreakpoint", "remove"} => Effect(call).armed = target.armed
        /\ call.what = "setBreakpoint" => Effect(call).armed = target.armed \cup {call.gate}
        /\ call.what = "remove" => Effect(call).armed = target.armed \ {call.gate}
        /\ call.what = "resume" => Effect(call) = Resumed(target)
        /\ call.what = "initialized" => Effect(call).mode = "running"
        /\ call.what \notin {"resume", "initialized"} => Effect(call).mode = target.mode
    BY EffectIs
  <1>2. /\ target.mode \in {"wait", "paused"} /\ ~Announced /\ ~Announced'
        /\ target.mode = "wait" => call.owner = None /\ call.what \notin HandlerCalls /\ target.at = None
        /\ target.mode = "paused" =>
             /\ call.owner = target.frame /\ call.what \in HandlerCalls /\ target.at \in Gates
             /\ launch.step = Len(Script)
        /\ call.what = "initialized" => call \in pending /\ up' = <<>>
    BY ServedBy
  <1>3. target \in Process /\ target' \in Process
    BY <1>1 DEF Served, Shapes
  <1>4. Script' = Script
    BY StyleKept DEF Served
  <1>5. missed' \subseteq Gates
    <2>1. target.at # None => target.at \in Gates
      BY <1>3 DEF Process
    <2> QED
      BY <2>1 DEF Served, Shapes
  <1>6. Shapes'
    BY <1>3, <1>4, <1>5 DEF Shapes, Served
  <1>7. Ids'
    <2>1. ASSUME NEW i \in DOMAIN up'
          PROVE  /\ up'[i].id < client'.nextId
                 /\ \A c \in pending' : c.id = up'[i].id => c = up'[i]
                 /\ up'[i] \in pending' \/ up'[i].gate \in failed'
                 /\ \A j \in DOMAIN up' : i < j => up'[i].id < up'[j].id
                 /\ call.id < up'[i].id
      <3>1. up'[i] = up[i + 1] /\ i + 1 \in DOMAIN up /\ 1 < i + 1
        BY <2>1 DEF Served
      <3>2. \A j \in DOMAIN up' : i < j => i + 1 < j + 1 /\ j + 1 \in DOMAIN up /\ up'[j] = up[j + 1]
        BY <2>1 DEF Served
      <3>3. call = up[1] /\ 1 \in DOMAIN up /\ client' = client /\ pending' = pending /\ failed \subseteq failed'
        BY DEF Served
      <3>4. /\ up[i + 1].id < client.nextId
            /\ \A c \in pending : c.id = up[i + 1].id => c = up[i + 1]
            /\ up[i + 1] \in pending \/ up[i + 1].gate \in failed
            /\ \A j \in DOMAIN up : i + 1 < j => up[i + 1].id < up[j].id
            /\ up[1].id < up[i + 1].id
        BY <3>1, <3>3 DEF Core, Ids
      <3> QED
        BY <3>1, <3>2, <3>3, <3>4
    <2>2. ASSUME NEW k \in DOMAIN down', down'[k].kind = "answer"
          PROVE  down'[k].id < client'.nextId /\ \A i \in DOMAIN up' : down'[k].id < up'[i].id
      <3>1. CASE k \in DOMAIN down
        <4>1. down'[k] = down[k] /\ client' = client
          BY <3>1 DEF Served
        <4>2. down[k].id < client.nextId /\ \A i \in DOMAIN up : down[k].id < up[i].id
          BY <2>2, <3>1, <4>1 DEF Core, Ids
        <4> QED
          BY <4>1, <4>2 DEF Served
      <3>2. CASE k \notin DOMAIN down
        <4>1. down'[k].id = call.id /\ client' = client /\ call = up[1] /\ 1 \in DOMAIN up
          BY <3>2 DEF Served
        <4>2. call.id < client.nextId
          BY <4>1 DEF Core, Ids
        <4> QED
          BY <2>1, <4>1, <4>2
      <3> QED
        BY <3>1, <3>2
    <2>3. client' = client /\ pending' = pending
      BY DEF Served
    <2> QED
      BY <2>1, <2>2, <2>3 DEF Core, Ids
  <1>8. AnswersTrue'
    <2>1. SUFFICES ASSUME NEW k \in DOMAIN down', NEW c \in pending, down'[k].kind = "answer", down'[k].id = c.id
                   PROVE  IF down'[k].ok THEN c.what = "setBreakpoint" /\ Alive' /\ ~client'.closed => c.gate \in target'.armed
                          ELSE c.what = "rebind" \/ c.gate \in failed'
      BY DEF AnswersTrue, Served
    <2>2. CASE k \in DOMAIN down
      <3>1. down'[k] = down[k] /\ failed \subseteq failed' /\ client' = client /\ Alive
        BY <2>2 DEF Served
      <3>2. IF down[k].ok THEN c.what = "setBreakpoint" /\ Alive /\ ~client.closed => c.gate \in target.armed
            ELSE c.what = "rebind" \/ c.gate \in failed
        BY <2>1, <2>2, <3>1 DEF Core, AnswersTrue
      <3>3. c.what = "setBreakpoint" => target.armed \subseteq target'.armed
        <4>1. CASE call.what # "remove"
          <5>1. target.armed \subseteq Effect(call).armed
            BY <1>1, <4>1
          <5> QED
            BY <5>1 DEF Served
        <4>2. CASE call.what = "remove"
          <5>1. launch.step = Len(Script)
            BY <1>2, <4>2 DEF HandlerCalls
          <5>2. c.owner # None \/ c.what = "initialized"
            <6>1. c.owner = None => launch.step \in 1 .. Len(Script) /\ c.what = Script[launch.step].what
              BY PendingIs
            <6> QED
              BY <5>1, <6>1, ScriptIs
          <5>3. c.owner # None => c.what # "setBreakpoint"
            BY PendingIs
          <5> QED
            BY <5>2, <5>3
        <4> QED
          BY <4>1, <4>2
      <3> QED
        BY <3>1, <3>2, <3>3
    <2>3. CASE k \notin DOMAIN down
      <3>1. /\ down'[k].id = call.id /\ call = up[1] /\ 1 \in DOMAIN up
            /\ IF down'[k].ok THEN target' = Effect(call) ELSE call.what = "rebind" \/ call.gate \in failed'
        BY <2>3 DEF Served
      <3>2. c = call
        BY <2>1, <3>1 DEF Core, Ids
      <3> QED
        BY <1>1, <3>1, <3>2
    <2> QED
      BY <2>2, <2>3
  <1>9. EventsTrue'
    BY <1>2 DEF EventsTrue, Announced
  <1>10. LaunchTrue'
    <2>0. LaunchTrue /\ Alive /\ UNCHANGED <<launch, pending, client>>
      BY DEF Core, Served
    <2>1. \A i \in DOMAIN up' : up'[i].what = "initialized" => i = Len(up') /\ up'[i] \in pending
      <3>1. ASSUME NEW i \in DOMAIN up', up'[i].what = "initialized" PROVE i = Len(up') /\ up'[i] \in pending
        <4>1. up'[i] = up[i + 1] /\ i + 1 \in DOMAIN up /\ i \in Nat /\ Len(up') = Len(up) - 1 /\ Len(up) \in Nat
          BY DEF Served
        <4>2. i + 1 = Len(up) /\ up'[i] \in pending
          BY <2>0, <3>1, <4>1 DEF LaunchTrue
        <4> QED
          BY <4>1, <4>2
      <3> QED
        BY <3>1
    <2>2. target'.mode # "wait" => launch.step = Len(Script) /\ (launch.outcome = "going" => launch.waiting)
      <3>1. CASE target.mode # "wait"
        BY <2>0, <3>1 DEF LaunchTrue
      <3>2. CASE target.mode = "wait" /\ call.what # "initialized"
        <4>1. call.what # "resume"
          BY <1>2, <3>2 DEF HandlerCalls
        <4>2. target'.mode = "wait"
          BY <1>1, <3>2, <4>1 DEF Served
        <4> QED
          BY <4>2
      <3>3. CASE target.mode = "wait" /\ call.what = "initialized"
        <4>1. call \in pending /\ call.owner = None
          BY <1>2, <3>3
        <4>2. launch.step \in 1 .. Len(Script) /\ call.what = Script[launch.step].what
          BY <4>1, PendingIs
        <4>3. launch.step = Len(Script)
          BY <3>3, <4>2, ScriptIs
        <4> QED
          BY <2>0, <4>1, <4>3 DEF LaunchTrue
      <3> QED
        BY <3>1, <3>2, <3>3
    <2> QED
      BY <1>4, <2>0, <2>1, <2>2 DEF LaunchTrue, Alive
  <1> QED
    BY <1>6, <1>7, <1>8, <1>9, <1>10

\* A call that is not a resume is answered.
LEMMA ServeOther ==
  ASSUME IInv, NEW call \in Sent, Served(call), call.what # "resume"
  PROVE  IInv'
  <1>. Shapes /\ Core /\ WorkerTrue
    BY DEF IInv
  <1>1. Shapes' /\ Ids' /\ AnswersTrue' /\ EventsTrue' /\ LaunchTrue'
    BY ServedAll
  <1>2. /\ target.mode \in {"wait", "paused"} /\ ~Announced /\ ~Announced'
        /\ target.mode = "wait" => call.owner = None /\ call.what \notin HandlerCalls /\ target.at = None
        /\ target.mode = "paused" =>
             /\ call.owner = target.frame /\ call.what \in HandlerCalls /\ target.at \in Gates
             /\ launch.step = Len(Script)
        /\ call.what = "initialized" => call \in pending /\ up' = <<>>
    BY ServedBy
  <1>3. /\ Alive /\ call = up[1] /\ 1 \in DOMAIN up
        /\ Len(up) \in Nat \ {0} /\ DOMAIN up = 1 .. Len(up)
        /\ up' \in Seq(Sent) /\ Len(up') = Len(up) - 1
        /\ \A i \in DOMAIN up' : up'[i] = up[i + 1] /\ i + 1 \in DOMAIN up /\ i \in Nat \ {0}
        /\ \A i \in DOMAIN up : i = 1 \/ (i - 1 \in DOMAIN up' /\ up'[i - 1] = up[i])
        /\ target' = Effect(call) \/ (target' = target /\ call.gate \in failed')
        /\ failed \subseteq failed'
        /\ \A k \in DOMAIN down : k \in DOMAIN down' /\ down'[k] = down[k]
        /\ missed' = missed
        /\ UNCHANGED <<client, pending, launch, placed, hit, handlers, attach, pauses, mishap>>
    BY DEF Served
  <1>4. /\ call.what \notin {"setBreakpoint", "remove"} => target'.armed = target.armed
        /\ call.what = "setBreakpoint" => target'.armed \subseteq target.armed \cup {call.gate} /\ target.armed \subseteq target'.armed
        /\ call.what = "remove" =>
             /\ target'.armed \subseteq target.armed /\ target.armed \ {call.gate} \subseteq target'.armed
             /\ call.gate \notin target'.armed \/ call.gate \in failed'
        /\ call.what = "initialized" => target'.mode \in {"running", "wait"}
        /\ call.what # "initialized" => target'.mode = target.mode
        /\ target'.at = target.at /\ target'.frame = target.frame /\ target'.worker = target.worker
        /\ \A g \in Gates :
             /\ target'.done[g] = target.done[g]
                  \/ (target'.done[g] = target.done[g] + 1 /\ call.what = "rebind" /\ target.at = g /\ call.gate = g)
             /\ call.what = "rebind" /\ target.at = g /\ call.gate = g /\ g \notin failed' => target'.done[g] = target.done[g] + 1
    <2>1. /\ call.what \notin {"setBreakpoint", "remove"} => Effect(call).armed = target.armed
          /\ call.what = "setBreakpoint" => Effect(call).armed = target.armed \cup {call.gate}
          /\ call.what = "remove" => Effect(call).armed = target.armed \ {call.gate}
          /\ call.what = "initialized" => Effect(call).mode = "running"
          /\ call.what \notin {"resume", "initialized"} => Effect(call).mode = target.mode
          /\ call.what # "resume" =>
              /\ Effect(call).at = target.at /\ Effect(call).frame = target.frame
              /\ Effect(call).worker = target.worker
              /\ \A g \in Gates :
                   Effect(call).done[g] = IF call.what = "rebind" /\ target.at = g /\ call.gate = g
                                          THEN target.done[g] + 1 ELSE target.done[g]
      BY EffectIs
    <2>2. call.what = "initialized" => target.mode = "wait"
      BY <1>2 DEF HandlerCalls
    <2>3. CASE target' = Effect(call)
      BY <2>1, <2>3
    <2>4. CASE target' = target /\ call.gate \in failed'
      BY <2>2, <2>4
    <2> QED
      BY <1>3, <2>3, <2>4
  <1>5. /\ StillAlive /\ StillOpen /\ WorkerSame /\ Alive' /\ (target'.mode = "paused" <=> target.mode = "paused")
        /\ target'.mode = "wait" => target.mode = "wait"
    <2>1. call.what = "initialized" => target.mode = "wait"
      BY <1>2 DEF HandlerCalls
    <2> QED
      BY <1>2, <1>3, <1>4, <2>1 DEF StillAlive, StillOpen, WorkerSame, Alive
  <1>6. /\ (Headless' <=> Headless)
        /\ \A g : NamesAt(g)' = NamesAt(g) /\ (Stays(g)' <=> Stays(g)) /\ Pos(g)' = Pos(g)
    BY <1>3, StyleKept
  <1>7. \A g \in Gates : target.done[g] \in Nat /\ NamesAt(g) \in Nat
    BY Known DEF Shapes, Process
  <1>8. (\A g : Excused(g) => Excused(g)') /\ \A g \in Gates : Cleared(g) => Cleared(g)'
    <2>1. \A g : Excused(g) => Excused(g)'
      BY <1>3, ExcusedKept
    <2>2. ASSUME NEW g \in Gates, Cleared(g) PROVE Cleared(g)'
      <3>1. target'.done[g] >= target.done[g]
        BY <1>4, <1>7
      <3>2. NamesAt(g)' = NamesAt(g) /\ target'.done[g] \in Nat
        BY <1>4, <1>6, <1>7
      <3> QED
        BY <1>7, <2>1, <2>2, <3>1, <3>2 DEF Cleared
    <2> QED
      BY <2>1, <2>2
  <1>9. PlacedTrue'
    <2>1. target.mode = "wait" => target.armed \subseteq target'.armed
      BY <1>2, <1>4 DEF HandlerCalls
    <2> QED
      BY <1>3, <1>5, <1>6, <2>1 DEF Core, PlacedTrue
  <1>10. HandlersTrue'
    <2>1. target'.mode = target.mode \/ target.mode # "paused"
      BY <1>2, <1>4 DEF HandlerCalls
    <2> QED
      BY <1>3, <1>4, <1>5, <2>1, HandlersKept DEF Core
  <1>11. StopTrue'
    <2>0. StopTrue
      BY DEF Core
    <2>1. target'.mode = "wait" => \A i \in DOMAIN up' : up'[i].owner = None
      BY <1>3, <1>5, <2>0 DEF StopTrue
    <2>2. target'.mode = "wait" => handlers' = {} /\ hit' = {} /\ target'.frame = 0 /\ \A g \in Gates : pauses'[g] = 0
      BY <1>3, <1>4, <1>5, <2>0 DEF StopTrue
    <2>3. target'.mode = "running" => up' = <<>>
      BY <1>2, <1>4
    <2>4. /\ target'.mode = "paused" <=> target'.at # None
          /\ target'.mode = "paused" => target'.frame # None /\ \A i \in DOMAIN up' : up'[i].owner = target'.frame
      BY <1>3, <1>4, <1>5, <2>0 DEF StopTrue
    <2>5. ASSUME NEW i \in DOMAIN up', up'[i].what = "resume" PROVE i = Len(up')
      <3>1. i + 1 = Len(up)
        BY <1>3, <2>0, <2>5 DEF StopTrue
      <3> QED
        BY <1>3, <2>5, <3>1
    <2>6. target'.mode = "paused" /\ ~client'.closed =>
         \A h \in handlers' : h.frame = target'.frame =>
           \A i \in DOMAIN up' :
             /\ up'[i].gate = h.gate
             /\ h.call = "rebind" => up'[i].what = "rebind"
             /\ h.call = "remove" \/ ~h.waiting => up'[i].what # "resume"
      BY <1>3, <1>4, <1>5, <2>0 DEF StopTrue
    <2> QED
      BY <2>1, <2>2, <2>3, <2>4, <2>5, <2>6 DEF StopTrue
  <1>12. /\ \A g \in Gates : target.done[g] <= NamesAt(g)
         /\ \A g \in Gates : target.done[g] # 0 => IF Stays(g) THEN target.at = g /\ ~Announced ELSE g \in hit
         /\ \A i \in DOMAIN up, g \in Gates \cup {None} : up[i].gate = g =>
            /\ up[i].what = "rebind" => g \in hit /\ target.done[g] + i <= NamesAt(g)
            /\ up[i].what = "remove" => g \in Gates /\ ~Stays(g) /\ Cleared(g)
         /\ \A i \in DOMAIN up, a \in Gates : target.at = a /\ up[i].what \in {"remove", "resume"} => Cleared(a)
    BY <1>3 DEF Core, DoneTrue
  <1>13. DoneTrue'
    <2>1. ASSUME NEW g \in Gates PROVE target'.done[g] <= NamesAt(g)'
      <3>1. target'.done[g] = target.done[g] \/ (target'.done[g] = target.done[g] + 1 /\ target.done[g] + 1 <= NamesAt(g))
        BY <1>3, <1>4, <1>12
      <3> QED
        BY <1>6, <1>12, <3>1
    <2>2. ASSUME NEW g \in Gates, target'.done[g] # 0
          PROVE  IF Stays(g)' THEN target'.at = g /\ ~Announced' ELSE g \in hit'
      <3>1. CASE target'.done[g] = target.done[g]
        BY <1>2, <1>3, <1>4, <1>6, <1>12, <2>2, <3>1
      <3>2. CASE call.what = "rebind" /\ target.at = g /\ call.gate = g
        <4>1. g \in hit
          BY <1>3, <1>12, <3>2
        <4> QED
          BY <1>2, <1>3, <1>4, <1>6, <3>2, <4>1
      <3> QED
        BY <1>4, <3>1, <3>2
    <2>3. ASSUME NEW i \in DOMAIN up', NEW g \in Gates \cup {None}, up'[i].gate = g
          PROVE  /\ up'[i].what = "rebind" => g \in hit' /\ target'.done[g] + i <= NamesAt(g)'
                 /\ up'[i].what = "remove" => g \in Gates /\ ~Stays(g)' /\ Cleared(g)'
      <3>1. up'[i] = up[i + 1] /\ i + 1 \in DOMAIN up /\ i \in Nat
        BY <1>3
      <3>2. ASSUME up'[i].what = "rebind" PROVE g \in hit /\ target'.done[g] + i <= NamesAt(g)
        <4>1. g \in hit /\ target.done[g] + (i + 1) <= NamesAt(g)
          BY <1>12, <2>3, <3>1, <3>2
        <4>2. g \in Gates
          BY <4>1 DEF Shapes
        <4>3. target'.done[g] = target.done[g] \/ target'.done[g] = target.done[g] + 1
          BY <1>4, <4>2
        <4> QED
          BY <1>7, <3>1, <4>1, <4>2, <4>3
      <3>3. up'[i].what = "remove" => g \in Gates /\ ~Stays(g) /\ Cleared(g)
        BY <1>12, <2>3, <3>1
      <3> QED
        BY <1>3, <1>6, <1>8, <3>2, <3>3
    <2>4. \A i \in DOMAIN up', a \in Gates : target'.at = a /\ up'[i].what \in {"remove", "resume"} => Cleared(a)'
      BY <1>3, <1>4, <1>8, <1>12
    <2> QED
      BY <2>1, <2>2, <2>3, <2>4 DEF DoneTrue
  <1>14. FrameTrue'
    <2>1. SUFFICES ASSUME target.mode = "paused", ~client.closed, NEW h \in handlers, NEW a \in Gates,
                          h.frame = target.frame, target.at = a
                   PROVE  /\ h.gate = a \/ (Excused(a)' /\ h.gate < a)
                          /\ h.call = "rebind" =>
                               /\ target'.done[h.gate] + Len(up') <= IF h.waiting THEN h.name ELSE h.name - 1
                               /\ h.gate = a /\ a \notin failed' =>
                                    target'.done[a] + Len(up') = IF h.waiting THEN h.name ELSE h.name - 1
                          /\ h.call # "rebind" => Cleared(a)'
      BY <1>3, <1>4, <1>5 DEF FrameTrue
    <2>2. /\ h.gate = a \/ (Excused(a) /\ h.gate < a)
          /\ h.call = "rebind" =>
               /\ target.done[h.gate] + Len(up) <= IF h.waiting THEN h.name ELSE h.name - 1
               /\ h.gate = a /\ a \notin failed =>
                    target.done[a] + Len(up) = IF h.waiting THEN h.name ELSE h.name - 1
          /\ h.call # "rebind" => Cleared(a)
      BY <1>3, <2>1 DEF Core, FrameTrue
    <2>3. ASSUME h.call = "rebind"
          PROVE  /\ target'.done[h.gate] + Len(up') <= IF h.waiting THEN h.name ELSE h.name - 1
                 /\ h.gate = a /\ a \notin failed' =>
                      target'.done[a] + Len(up') = IF h.waiting THEN h.name ELSE h.name - 1
      <3>1. h.gate \in Gates
        <4>1. h.gate \in hit
          BY <2>3 DEF Core, HandlersTrue
        <4> QED
          BY <4>1 DEF Shapes
      <3>2. h.name \in Nat
        BY <2>1, Known DEF Shapes, Handler
      <3>3. PICK n \in Int : n = IF h.waiting THEN h.name ELSE h.name - 1
        BY <3>2
      <3>4. target'.done[h.gate] = target.done[h.gate] \/ target'.done[h.gate] = target.done[h.gate] + 1
        BY <1>4, <3>1
      <3>5. call.what = "rebind" /\ call.gate = h.gate
        BY <1>3, <2>1, <2>3 DEF Core, StopTrue
      <3>6. target'.done[h.gate] + Len(up') <= n
        <4>1. target.done[h.gate] + Len(up) <= n
          BY <2>2, <2>3, <3>3
        <4> QED
          BY <1>3, <1>7, <3>1, <3>4, <4>1
      <3>7. ASSUME h.gate = a, a \notin failed' PROVE target'.done[a] + Len(up') = n
        <4>1. target.done[a] + Len(up) = n
          BY <1>3, <2>2, <2>3, <3>3, <3>7
        <4>2. target'.done[a] = target.done[a] + 1
          BY <1>4, <2>1, <3>5, <3>7
        <4> QED
          BY <1>3, <1>7, <4>1, <4>2
      <3> QED
        BY <3>3, <3>6, <3>7
    <2> QED
      BY <1>8, <2>2, <2>3
  <1>15. BreakpointsTrue'
    <2>1. SUFFICES ASSUME ~client.closed
                   PROVE  /\ \A g \in placed \ target'.armed : ~Stays(g)' /\ Cleared(g)'
                          /\ \A g \in target'.armed : ~Stays(g)' /\ (g \in hit \/ pauses[g] > 0) =>
                               g \in failed' \/ (target'.mode = "paused" /\ Leaving(g)')
      BY <1>3 DEF BreakpointsTrue
    <2>2. /\ \A g \in placed \ target.armed : ~Stays(g) /\ Cleared(g)
          /\ \A g \in target.armed : ~Stays(g) /\ (g \in hit \/ pauses[g] > 0) =>
               g \in failed \/ (target.mode = "paused" /\ Leaving(g))
      BY <1>3, <2>1 DEF Core, BreakpointsTrue
    <2>3. ASSUME NEW g \in placed \ target'.armed PROVE ~Stays(g)' /\ Cleared(g)'
      <3>0. g \in Gates
        BY DEF Shapes
      <3>1. CASE g \notin target.armed
        BY <1>6, <1>8, <2>2, <2>3, <3>0, <3>1
      <3>2. CASE g \in target.armed
        <4>1. call.what = "remove" /\ call.gate = g
          BY <1>4, <2>3, <3>2
        <4>2. ~Stays(g) /\ Cleared(g)
          BY <1>3, <1>12, <3>0, <4>1
        <4> QED
          BY <1>6, <1>8, <3>0, <4>2
      <3> QED
        BY <3>1, <3>2
    <2>4. ASSUME NEW g \in target'.armed, ~Stays(g)', g \in hit \/ pauses[g] > 0
          PROVE  g \in failed' \/ (target'.mode = "paused" /\ Leaving(g)')
      <3>1. g \in Gates
        BY <1>1, <2>4 DEF Shapes, Process
      <3>2. target.mode = "paused"
        BY <1>2, <1>3, <2>4, <3>1 DEF Core, StopTrue
      <3>3. g \in target.armed
        BY <1>2, <1>4, <2>4, <3>2 DEF HandlerCalls
      <3>4. g \in failed \/ Leaving(g)
        BY <1>6, <2>2, <2>4, <3>3
      <3>5. ASSUME Leaving(g) PROVE g \in failed' \/ Leaving(g)'
        <4>1. ~(target.at = g /\ g \notin hit /\ Announced)
          BY <1>2
        <4>2. CASE \E h \in handlers : /\ h.frame = target.frame /\ h.gate = g
                                       /\ h.call = "rebind" \/ (h.call = "remove" /\ ~h.waiting)
          BY <1>3, <1>4, <4>2 DEF Leaving
        <4>3. CASE \E i \in DOMAIN up : up[i].what = "remove" /\ up[i].gate = g
          <5>1. PICK i \in DOMAIN up : up[i].what = "remove" /\ up[i].gate = g
            BY <4>3
          <5>2. CASE i = 1
            BY <1>3, <1>4, <2>4, <5>1, <5>2
          <5>3. CASE i # 1
            <6>1. i - 1 \in DOMAIN up' /\ up'[i - 1].what = "remove" /\ up'[i - 1].gate = g
              BY <1>3, <5>1, <5>3
            <6> QED
              BY <6>1 DEF Leaving
          <5> QED
            BY <5>2, <5>3
        <4> QED
          BY <3>5, <4>1, <4>2, <4>3 DEF Leaving
      <3> QED
        BY <1>3, <1>5, <3>2, <3>4, <3>5
    <2> QED
      BY <2>3, <2>4
  <1>16. GatesHonest'
    BY <1>3, GatesKept DEF Core
  <1>17. PausedIsHandled'
    <2>1. SUFFICES ASSUME target.mode = "paused", ~client.closed
                   PROVE  \/ \E i \in DOMAIN down' : down'[i].kind = "paused" /\ down'[i].frame = target'.frame
                          \/ \E h \in handlers' : h.frame = target'.frame /\ (h.call # "resume" \/ ~h.waiting)
                          \/ \E i \in DOMAIN up' : up'[i].what = "resume" /\ up'[i].owner = target'.frame
      BY <1>3, <1>5 DEF PausedIsHandled
    <2>2. ASSUME NEW i \in DOMAIN up, up[i].what = "resume", up[i].owner = target.frame
          PROVE  \E j \in DOMAIN up' : up'[j].what = "resume" /\ up'[j].owner = target.frame
      <3>1. i # 1
        BY <1>3, <2>2
      <3> QED
        BY <1>3, <2>2, <3>1
    <2> QED
      BY <1>3, <1>4, <2>1, <2>2 DEF Core, PausedIsHandled
  <1>18. WorkerTrue'
    BY <1>3, <1>4, <1>5, WorkerKept
  <1> QED
    BY <1>1, <1>9, <1>10, <1>11, <1>13, <1>14, <1>15, <1>16, <1>17, <1>18 DEF IInv, Core

\* The process is told to go on: what has not been done about the gate it is at is excused.
LEMMA ServeResume ==
  ASSUME IInv, NEW call \in Sent, Served(call), call.what = "resume"
  PROVE  IInv'
  <1>. Shapes /\ Core /\ WorkerTrue
    BY DEF IInv
  <1>1. Shapes' /\ Ids' /\ AnswersTrue' /\ EventsTrue' /\ LaunchTrue'
    BY ServedAll
  <1>2. /\ target.mode = "paused" /\ target.at \in Gates /\ call.owner = target.frame /\ ~Announced /\ ~Announced'
        /\ up' = <<>>
    BY ServedBy DEF HandlerCalls
  <1>3. /\ Alive /\ call = up[1] /\ 1 \in DOMAIN up /\ Len(up) \in Nat \ {0} /\ DOMAIN up = 1 .. Len(up)
        /\ target' = Effect(call) /\ failed \subseteq failed'
        /\ missed' = IF target.at # None /\ target.done[target.at] < NamesAt(target.at)
                     THEN missed \cup {target.at} ELSE missed
        /\ UNCHANGED <<client, pending, launch, placed, hit, handlers, attach, pauses, mishap>>
    BY DEF Served
  <1>4. PICK a \in Gates : a = target.at
    BY <1>2
  <1>5. target \in Process /\ target' = Resumed(target)
    BY <1>3, EffectIs DEF Shapes
  <1>6. /\ target'.mode = "running" /\ target'.at = None
        /\ target'.frame = target.frame /\ target'.armed = target.armed
        /\ \A g \in Gates : target'.done[g] = IF Stays(g) THEN 0 ELSE target.done[g]
        /\ ~(Headless /\ a = SpawnGate) => target'.worker = target.worker
        /\ Headless /\ a = SpawnGate =>
             target'.worker = [mode |-> IF target.done[SpawnGate] > 0 \/ ~target.stripped THEN "wait" ELSE "running",
                               listens |-> target.done[SpawnGate] > 0, armed |-> FALSE, rebound |-> FALSE]
    BY <1>4, <1>5, ResumedIs
  <1>7. StillAlive /\ StillOpen /\ Alive'
    BY <1>3, <1>6 DEF StillAlive, StillOpen, Alive
  <1>8. /\ (Headless' <=> Headless)
        /\ \A g : NamesAt(g)' = NamesAt(g) /\ (Stays(g)' <=> Stays(g)) /\ Pos(g)' = Pos(g)
    BY <1>3, StyleKept
  <1>9. \A g \in Gates : target.done[g] \in Nat /\ NamesAt(g) \in Nat
    BY <1>5, Known DEF Process
  <1>10. DOMAIN up' = {}
    BY <1>2
  <1>11. Cleared(a)
    BY <1>3, <1>4 DEF Core, DoneTrue
  <1>12. Len(up) = 1
    BY <1>3 DEF Core, StopTrue
  <1>13. \A g : Excused(g) => Excused(g)'
    BY <1>3, ExcusedKept
  <1>14. \A g \in Gates : ~Stays(g) /\ Cleared(g) => Cleared(g)'
    <2>1. \A g : Cleared(g) /\ target'.done[g] = target.done[g] => Cleared(g)'
      BY <1>3, ClearedKept
    <2> QED
      BY <1>6, <2>1
  <1>15. PlacedTrue'
    BY <1>3, <1>6, <1>7, <1>8 DEF Core, PlacedTrue
  <1>16. ~client.closed => \A h \in handlers : h.call = "resume" /\ h.waiting
    <2>1. SUFFICES ASSUME ~client.closed, NEW h \in handlers PROVE h.call = "resume" /\ h.waiting
      OBVIOUS
    <2>2. CASE h.frame # target.frame
      BY <1>3, <2>1, <2>2 DEF Core, HandlersTrue
    <2>3. CASE h.frame = target.frame
      <3>1. /\ h.call = "rebind" => up[1].what = "rebind"
            /\ h.call = "remove" \/ ~h.waiting => up[1].what # "resume"
        BY <1>2, <1>3, <2>1, <2>3 DEF Core, StopTrue
      <3>2. h.call \in HandlerCalls /\ up[1].what = "resume"
        BY <1>3 DEF Shapes, Handler
      <3> QED
        BY <3>1, <3>2 DEF HandlerCalls
    <2> QED
      BY <2>2, <2>3
  <1>17. HandlersTrue'
    <2>1. NamesTrue'
      BY <1>3, <1>8 DEF Core, HandlersTrue, NamesTrue
    <2> QED
      BY <1>3, <1>6, <1>8, <1>16, <2>1 DEF Core, HandlersTrue
  <1>18. StopTrue'
    BY <1>2, <1>6, <1>10 DEF StopTrue
  <1>19. DoneTrue'
    BY <1>2, <1>3, <1>6, <1>7, <1>9, ResumedDone DEF StillAlive, Core
  <1>20. FrameTrue' /\ PausedIsHandled'
    BY <1>6 DEF FrameTrue, PausedIsHandled
  <1>21. BreakpointsTrue'
    <2>1. SUFFICES ASSUME ~client.closed
                   PROVE  /\ \A g \in placed \ target.armed : ~Stays(g)' /\ Cleared(g)'
                          /\ \A g \in target.armed : ~Stays(g)' /\ (g \in hit \/ pauses[g] > 0) => g \in failed'
      BY <1>3, <1>6 DEF BreakpointsTrue
    <2>2. /\ \A g \in placed \ target.armed : ~Stays(g) /\ Cleared(g)
          /\ \A g \in target.armed : ~Stays(g) /\ (g \in hit \/ pauses[g] > 0) =>
               g \in failed \/ (target.mode = "paused" /\ Leaving(g))
      BY <1>3, <2>1 DEF Core, BreakpointsTrue
    <2>3. \A g \in placed \ target.armed : ~Stays(g)' /\ Cleared(g)'
      BY <1>8, <1>14, <2>2 DEF Shapes
    <2>4. \A g : ~Leaving(g)
      <3>1. \A i \in DOMAIN up : i = 1
        BY <1>3, <1>12
      <3> QED
        BY <1>2, <1>3, <1>16, <2>1, <3>1 DEF Leaving
    <2> QED
      BY <1>3, <1>8, <2>2, <2>3, <2>4
  <1>22. GatesHonest'
    <2>1. GatesRebound /\ HotPathLeftAlone
      BY DEF Core, GatesHonest
    <2>2. GatesRebound'
      <3>1. SUFFICES ASSUME NEW g \in missed' PROVE \E h \in failed' : IF Headless THEN g = h ELSE g <= h
        BY <1>8 DEF GatesRebound
      <3>2. CASE g \in missed
        BY <1>3, <2>1, <3>2 DEF GatesRebound
      <3>3. CASE g \notin missed
        <4>1. g = a /\ target.done[a] < NamesAt(a)
          BY <1>3, <1>4, <3>1, <3>3
        <4>2. Excused(a)
          BY <1>9, <1>11, <4>1 DEF Cleared
        <4> QED
          BY <1>3, <4>1, <4>2 DEF Excused
      <3> QED
        BY <3>2, <3>3
    <2>3. HotPathLeftAlone'
      BY <1>3, <1>8, <2>1 DEF HotPathLeftAlone
    <2> QED
      BY <2>2, <2>3 DEF GatesHonest
  <1>23. WorkerTrue'
    <2>1. Forgiven => Forgiven'
      BY <1>3 DEF Forgiven
    <2>2. target'.at # SpawnGate
      BY <1>6, Known
    <2>3. CASE ~(Headless /\ a = SpawnGate)
      <3>1. target'.worker = target.worker
        BY <1>6, <2>3
      <3> QED
        BY <1>3, <1>8, <2>1, <2>2, <3>1 DEF WorkerTrue
    <2>4. CASE Headless /\ a = SpawnGate
      <3>1. Headless'
        BY <1>8, <2>4
      <3>2. CASE Forgiven'
        BY <2>2, <3>1, <3>2 DEF WorkerTrue
      <3>3. CASE ~Forgiven'
        <4>1. ~Forgiven /\ SpawnGate \notin failed /\ ~client.closed
          BY <1>3, <2>1, <3>3 DEF Forgiven
        <4>2. ~Excused(a)
          BY <2>4, <4>1 DEF Excused
        <4>3. target.done[SpawnGate] > 0
          <5>1. NamesAt(SpawnGate) > 0
            BY Known
          <5> QED
            BY <1>9, <1>11, <2>4, <4>2, <5>1 DEF Cleared
        <4>4. target'.worker = [mode |-> "wait", listens |-> TRUE, armed |-> FALSE, rebound |-> FALSE]
          BY <1>6, <2>4, <4>3
        <4>5. target.worker.mode = "none"
          BY <1>4, <2>4 DEF WorkerTrue
        <4>6. attach.step <= 1 /\ attach.outcome = "going" /\ attach.step > 0
          BY <1>3, <1>4, <2>4, <4>1, <4>5 DEF WorkerTrue
        <4>7. attach.step # Len(AttachScript)
          BY <4>6, Known
        <4>8. \A h \in handlers : h.call # "rebind"
          BY <1>16, <4>1
        <4> QED
          BY <1>3, <2>2, <3>1, <4>4, <4>6, <4>7, <4>8 DEF WorkerTrue
      <3> QED
        BY <3>2, <3>3
    <2> QED
      BY <2>3, <2>4
  <1> QED
    BY <1>1, <1>15, <1>17, <1>18, <1>19, <1>20, <1>21, <1>22, <1>23 DEF IInv, Core

LEMMA ServeKeeps ==
  ASSUME IInv, Serve
  PROVE  IInv'
  BY ServeIs, ServeOther, ServeResume

-----------------------------------------------------------------------------
(* The process pauses, passes a gate, or ends *)

\* While the process runs nothing is asked of it, and every handler awaits the answer to its resume.
LEMMA RunningIs ==
  ASSUME IInv, target.mode = "running", client.sock = "open"
  PROVE  /\ Alive /\ ~client.closed /\ up = <<>> /\ target.at = None /\ ~Announced
         /\ launch.step = Len(Script) /\ (launch.outcome = "going" => launch.waiting)
         /\ \A h \in handlers : h.call = "resume" /\ h.waiting /\ h.frame <= target.frame
         /\ target \in Process
  <1>1. Alive /\ ~client.closed /\ target \in Process
    BY DEF Alive, IInv, Shapes
  <1>2. up = <<>> /\ target.at = None
    BY <1>1 DEF IInv, Core, StopTrue
  <1>3. ~Announced
    BY <1>1 DEF IInv, Core, EventsTrue, Announced
  <1>4. launch.step = Len(Script) /\ (launch.outcome = "going" => launch.waiting)
    BY <1>1 DEF IInv, Core, LaunchTrue
  <1>5. \A h \in handlers : h.call = "resume" /\ h.waiting /\ h.frame <= target.frame
    BY <1>1 DEF IInv, Core, HandlersTrue
  <1> QED
    BY <1>1, <1>2, <1>3, <1>4, <1>5

LEMMA PauseKeeps ==
  ASSUME IInv, NEW g \in Gates, Pause(g)
  PROVE  IInv'
  <1>. Shapes /\ Core /\ WorkerTrue
    BY DEF IInv
  <1>1. /\ target.mode = "running" /\ client.sock = "open" /\ g \in target.armed
        /\ target.frame < (IF Headless THEN HeadlessPauses ELSE MaxPauses)
        /\ Headless /\ g = SpawnGate => target.worker.mode = "none"
        /\ target' = [target EXCEPT !.mode = "paused", !.at = g, !.frame = target.frame + 1]
        /\ pauses' = [pauses EXCEPT ![g] = pauses[g] + 1]
        /\ \E shift \in {0, 3} :
             down' = Append(down, [kind |-> "paused", frame |-> target.frame + 1, col |-> Col(g) + shift])
        /\ UNCHANGED <<client, pending, up, launch, placed, hit, handlers, attach, failed, missed, mishap>>
    BY DEF Pause
  <1>2. /\ Alive /\ ~client.closed /\ up = <<>> /\ target.at = None /\ ~Announced
        /\ launch.step = Len(Script) /\ (launch.outcome = "going" => launch.waiting)
        /\ \A h \in handlers : h.call = "resume" /\ h.waiting /\ h.frame <= target.frame
        /\ target \in Process
    BY <1>1, RunningIs
  <1>3. target.frame \in Nat /\ target.frame + 1 \in 1 .. MaxPauses /\ g \in Nat \ {0} /\ g # None /\ MaxPauses \in Nat
    <2>1. MaxPauses \in Nat /\ HeadlessPauses \in 0 .. MaxPauses
      BY ConstantsOK
    <2>2. target.frame \in 0 .. MaxPauses
      BY <1>2 DEF Process
    <2>3. target.frame < MaxPauses
      BY <1>1, <2>1, <2>2
    <2> QED
      BY <2>1, <2>2, <2>3, Known
  <1>4. /\ target' \in Process /\ target'.mode = "paused" /\ target'.at = g /\ target'.frame = target.frame + 1
        /\ target'.armed = target.armed /\ target'.done = target.done /\ target'.worker = target.worker
    <2>1. target.frame + 1 \in 0 .. MaxPauses
      BY <1>3
    <2> QED
      BY <1>1, <1>2, <2>1 DEF Process
  <1>5. PICK e \in Event :
          down' = Append(down, e) /\ e.kind = "paused" /\ e.frame = target.frame + 1 /\ e.col \in {Col(g), Col(g) + 3}
    <2>1. PICK shift \in {0, 3} :
            down' = Append(down, [kind |-> "paused", frame |-> target.frame + 1, col |-> Col(g) + shift])
      BY <1>1
    <2>2. Col(g) + shift \in Nat /\ Col(g) + shift \in {Col(g), Col(g) + 3}
      BY <1>3 DEF Col
    <2>3. PICK e : e = [kind |-> "paused", frame |-> target.frame + 1, col |-> Col(g) + shift]
      OBVIOUS
    <2>4. e \in Event /\ e.kind = "paused" /\ e.frame = target.frame + 1 /\ e.col = Col(g) + shift
      BY <1>3, <2>2, <2>3 DEF Event
    <2> QED
      BY <2>1, <2>2, <2>3, <2>4
  <1>6. PICK n : /\ n \in DOMAIN down' /\ down'[n] = e /\ down' \in Seq(Down)
                 /\ \A k \in DOMAIN down : k \in DOMAIN down' /\ down'[k] = down[k]
                 /\ \A k \in DOMAIN down' : k = n \/ k \in DOMAIN down
    <2>1. e \in Down /\ down \in Seq(Down)
      BY DEF Down, Shapes
    <2>2. /\ Append(down, e) \in Seq(Down)
          /\ DOMAIN Append(down, e) = DOMAIN down \cup {Len(down) + 1}
          /\ Append(down, e)[Len(down) + 1] = e
          /\ \A i \in DOMAIN down : Append(down, e)[i] = down[i]
      BY <2>1, AppendIs
    <2> QED
      BY <1>5, <2>2
  <1>7. \A k \in DOMAIN down : down[k].kind # "paused"
    BY <1>2 DEF Announced
  <1>8. /\ pauses' \in [Gates -> Nat] /\ pauses'[g] = pauses[g] + 1 /\ \A x \in Gates : x # g => pauses'[x] = pauses[x]
        /\ \A x \in Gates : pauses[x] \in Nat
    BY <1>1 DEF Shapes
  <1>9. StillAlive /\ StillOpen /\ Alive' /\ WorkerSame
    BY <1>1, <1>2, <1>4 DEF StillAlive, StillOpen, Alive, WorkerSame
  <1>10. /\ (Headless' <=> Headless) /\ Script' = Script
         /\ \A x : NamesAt(x)' = NamesAt(x) /\ (Stays(x)' <=> Stays(x)) /\ Pos(x)' = Pos(x)
    BY <1>1, StyleKept
  <1>11. DOMAIN up' = {} /\ DOMAIN up = {} /\ up' = <<>>
    BY <1>1, <1>2
  <1>12. \A x : Cleared(x) => Cleared(x)'
    BY <1>1, <1>4, ClearedKept
  <1>13. Shapes'
    BY <1>1, <1>4, <1>6, <1>8, <1>10 DEF Shapes
  <1>14. \A k \in DOMAIN down' : down'[k].kind = "answer" => k \in DOMAIN down /\ down'[k] = down[k]
    BY <1>5, <1>6
  <1>15. Ids'
    BY <1>1, <1>11, <1>14 DEF Core, Ids
  <1>16. LaunchTrue'
    BY <1>1, <1>2, <1>4, <1>9, <1>10, <1>11 DEF Core, LaunchTrue
  <1>17. AnswersTrue'
    BY <1>1, <1>2, <1>4, <1>14 DEF Core, AnswersTrue
  <1>18. PlacedTrue'
    BY <1>1, <1>2, <1>4, <1>10 DEF Core, PlacedTrue
  <1>19. \A h \in handlers : h.frame \in Nat /\ h.frame <= target'.frame /\ h.frame # target'.frame
    BY <1>2, <1>3, <1>4 DEF Shapes, Handler
  <1>20. HandlersTrue'
    <2>1. NamesTrue'
      BY <1>1, <1>10 DEF Core, HandlersTrue, NamesTrue
    <2> QED
      BY <1>1, <1>2, <1>10, <1>19, <2>1 DEF Core, HandlersTrue
  <1>21. EventsTrue'
    <2>1. SUFFICES ASSUME NEW k \in DOMAIN down', down'[k].kind = "paused"
                   PROVE  /\ g \in Gates /\ down'[k].col \in {Col(g), Col(g) + 3}
                          /\ down'[k].frame = target'.frame
                          /\ \A h \in handlers' : h.frame # target'.frame
                          /\ \A j \in DOMAIN down' : down'[j].kind = "paused" => j = k
                          /\ Alive' => target'.mode = "paused" /\ up' = <<>> /\ (~client'.closed => g \in target'.armed)
      BY <1>4 DEF EventsTrue, Col
    <2>2. k = n /\ \A j \in DOMAIN down' : down'[j].kind = "paused" => j = n
      BY <1>6, <1>7, <2>1
    <2> QED
      BY <1>1, <1>4, <1>5, <1>6, <1>11, <1>19, <2>2
  <1>22. StopTrue'
    <2>1. target'.frame # None
      BY <1>3, <1>4, Known
    <2> QED
      BY <1>3, <1>4, <1>11, <2>1 DEF StopTrue
  <1>23. DoneTrue'
    <2>1. \A x \in Gates : target'.done[x] <= NamesAt(x)'
      BY <1>4, <1>10 DEF Core, DoneTrue
    <2>2. ASSUME NEW x \in Gates, target'.done[x] # 0
          PROVE  IF Stays(x)' THEN target'.at = x /\ ~Announced' ELSE x \in hit'
      <3>1. IF Stays(x) THEN target.at = x /\ ~Announced ELSE x \in hit
        BY <1>2, <1>4, <2>2 DEF Core, DoneTrue
      <3>2. target.at # x
        BY <1>2, Known
      <3> QED
        BY <1>1, <1>10, <3>1, <3>2
    <2> QED
      BY <1>11, <2>1, <2>2 DEF DoneTrue
  <1>24. FrameTrue'
    BY <1>1, <1>19 DEF FrameTrue
  <1>25. \A x \in target.armed : ~Stays(x) /\ (x \in hit \/ pauses[x] > 0) => x \in failed
    BY <1>1, <1>2 DEF Core, BreakpointsTrue
  <1>26. BreakpointsTrue'
    <2>1. \A x \in placed' \ target'.armed : ~Stays(x)' /\ Cleared(x)'
      BY <1>1, <1>2, <1>4, <1>10, <1>12 DEF Core, BreakpointsTrue
    <2>2. ASSUME NEW x \in target'.armed, ~Stays(x)', x \in hit' \/ pauses'[x] > 0
          PROVE  x \in failed' \/ Leaving(x)'
      <3>0. x \in Gates
        BY <1>4, <2>2 DEF Process
      <3>1. CASE x = g /\ g \notin hit
        <4>1. Announced'
          BY <1>5, <1>6 DEF Announced
        <4> QED
          BY <1>1, <1>4, <3>1, <4>1 DEF Leaving
      <3>2. CASE x # g \/ g \in hit
        BY <1>1, <1>4, <1>8, <1>10, <1>25, <2>2, <3>0, <3>2
      <3> QED
        BY <3>1, <3>2
    <2> QED
      BY <1>4, <2>1, <2>2 DEF BreakpointsTrue
  <1>27. GatesHonest'
    <2>1. GatesRebound /\ HotPathLeftAlone
      BY DEF Core, GatesHonest
    <2>2. GatesRebound'
      BY <1>1, <1>10, <2>1 DEF GatesRebound
    <2>3. ASSUME NEW x \in Gates, ~Stays(x)', pauses'[x] > 1 PROVE x \in failed'
      <3>1. CASE x = g
        <4>1. pauses[g] > 0 /\ ~Stays(g)
          BY <1>8, <1>10, <2>3, <3>1
        <4> QED
          BY <1>1, <1>25, <3>1, <4>1
      <3>2. CASE x # g
        BY <1>1, <1>8, <1>10, <2>1, <2>3, <3>2 DEF HotPathLeftAlone
      <3> QED
        BY <3>1, <3>2
    <2> QED
      BY <2>2, <2>3 DEF GatesHonest, HotPathLeftAlone
  <1>28. PausedIsHandled'
    BY <1>4, <1>5, <1>6 DEF PausedIsHandled
  <1>29. WorkerTrue'
    <2>1. ~Headless' \/ target'.at = SpawnGate => target'.worker.mode = "none"
      BY <1>1, <1>4, <1>10 DEF WorkerTrue
    <2>2. Forgiven' <=> Forgiven
      BY <1>1 DEF Forgiven
    <2> QED
      BY <1>1, <1>4, <1>11, <1>19, <2>1, <2>2 DEF WorkerTrue
  <1> QED
    BY <1>13, <1>15, <1>16, <1>17, <1>18, <1>20, <1>21, <1>22, <1>23, <1>24, <1>26, <1>27, <1>28, <1>29 DEF IInv, Core

LEMMA PassKeeps ==
  ASSUME IInv, NEW g \in Gates, Pass(g)
  PROVE  IInv'
  <1>. Shapes /\ Core /\ WorkerTrue
    BY DEF IInv
  <1>1. /\ target.mode = "running" /\ client.sock = "open" /\ g \notin target.armed /\ target.done[g] < Names
        /\ target' = IF Headless /\ g = SpawnGate THEN Resumed([target EXCEPT !.at = g]) ELSE target
        /\ missed' = missed \cup {g}
        /\ UNCHANGED <<client, pending, up, down, launch, placed, hit, handlers, attach, failed, pauses, mishap>>
    BY DEF Pass
  <1>2. /\ Alive /\ ~client.closed /\ up = <<>> /\ target.at = None /\ ~Announced
        /\ launch.step = Len(Script) /\ target \in Process
    BY <1>1, RunningIs
  <1>3. Excused(g)
    <2>1. launch.step > Pos(g)
      BY <1>2, ScriptIs, Known DEF Pos, Gates
    <2>2. g \in placed \/ g \in failed
      BY <1>2, <2>1 DEF Core, PlacedTrue
    <2>3. CASE g \in failed
      BY <2>3, Known DEF Excused
    <2>4. CASE g \in placed
      <3>1. ~Stays(g) /\ Cleared(g)
        BY <1>1, <1>2, <2>4 DEF Core, BreakpointsTrue
      <3>2. NamesAt(g) = Names
        BY <3>1 DEF Stays, NamesAt
      <3>3. target.done[g] \in Nat /\ Names \in Nat
        BY <1>2, Known DEF Process
      <3> QED
        BY <1>1, <3>1, <3>2, <3>3 DEF Cleared
    <2> QED
      BY <2>2, <2>3, <2>4
  <1>4. (Headless' <=> Headless) /\ Script' = Script /\ \A x : Stays(x)' <=> Stays(x)
    BY <1>1, StyleKept
  <1>5. /\ target' \in Process /\ TargetSame
        /\ ~(Headless /\ g = SpawnGate) => target' = target
    <2>1. CASE ~(Headless /\ g = SpawnGate)
      BY <1>1, <1>2, <2>1 DEF TargetSame
    <2>2. CASE Headless /\ g = SpawnGate
      <3>1. PICK p : p = [target EXCEPT !.at = g]
        OBVIOUS
      <3>2. /\ p \in Process /\ p.mode = target.mode /\ p.frame = target.frame /\ p.armed = target.armed
            /\ p.done = target.done
        BY <1>2, <3>1 DEF Process
      <3>3. target' = Resumed(p)
        BY <1>1, <2>2, <3>1
      <3>4. /\ target' \in Process /\ target'.mode = "running" /\ target'.at = None
            /\ target'.frame = p.frame /\ target'.armed = p.armed
            /\ \A x \in Gates : target'.done[x] = IF Stays(x) THEN 0 ELSE p.done[x]
        BY <3>2, <3>3, ResumedIs
      <3>5. \A x \in Gates : target.done[x] = 0
        <4>1. \A x \in Gates : Stays(x) /\ target.at # x
          BY <1>2, <2>2, Known DEF Stays
        <4> QED
          BY <1>2, <4>1 DEF Core, DoneTrue
      <3>6. target'.done = target.done
        <4>1. target'.done \in [Gates -> Nat] /\ target.done \in [Gates -> Nat]
          BY <1>2, <3>4 DEF Process
        <4>2. \A x \in Gates : target'.done[x] = target.done[x]
          BY <3>2, <3>4, <3>5
        <4> QED
          BY <4>1, <4>2
      <3> QED
        BY <1>1, <1>2, <2>2, <3>2, <3>4, <3>6 DEF TargetSame
    <2> QED
      BY <2>1, <2>2
  <1>6. Shapes'
    <2>1. missed' \subseteq Gates
      BY <1>1 DEF Shapes
    <2> QED
      BY <1>1, <1>4, <1>5, <2>1 DEF Shapes
  <1>7. GatesHonest'
    <2>1. GatesRebound /\ HotPathLeftAlone
      BY DEF Core, GatesHonest
    <2>2. GatesRebound'
      BY <1>1, <1>3, <1>4, <2>1 DEF GatesRebound, Excused
    <2>3. HotPathLeftAlone'
      BY <1>1, <1>4, <2>1 DEF HotPathLeftAlone
    <2> QED
      BY <2>2, <2>3 DEF GatesHonest
  <1>8. DownLess /\ StillOpen
    BY <1>1, DownSame DEF StillOpen
  <1>9. Core'
    BY <1>1, <1>5, <1>7, <1>8, QuietMoves
  <1>10. WorkerTrue'
    <2>1. CASE ~(Headless /\ g = SpawnGate)
      <3>1. StillAlive /\ WorkerSame
        BY <1>5, <2>1 DEF StillAlive, WorkerSame, Alive
      <3> QED
        BY <1>1, <1>5, <1>8, <2>1, <3>1, WorkerKept
    <2>2. CASE Headless /\ g = SpawnGate
      <3>1. Forgiven'
        BY <1>1, <1>3, <2>2 DEF Excused, Forgiven
      <3>2. target'.at # SpawnGate
        BY <1>2, <1>5, Known DEF TargetSame
      <3> QED
        BY <1>4, <2>2, <3>1, <3>2 DEF WorkerTrue
    <2> QED
      BY <2>1, <2>2
  <1> QED
    BY <1>6, <1>9, <1>10 DEF IInv

LEMMA ExitKeeps ==
  ASSUME IInv, Exit
  PROVE  IInv'
  <1>1. /\ target' = [target EXCEPT !.mode = "dead"]
        /\ UNCHANGED <<client, pending, up, down, launch, placed, hit, handlers, attach, failed, missed, pauses, mishap>>
    BY DEF Exit, ghosts
  <1>2. /\ target \in Process /\ client \in Client /\ (client.closed <=> client.sock \in {"ended", "closed"})
        /\ down \in Seq(Down)
    BY DEF IInv, Shapes
  <1>3. /\ target' \in Process /\ target'.mode = "dead" /\ target'.at = target.at /\ target'.frame = target.frame
        /\ target'.armed = target.armed /\ target'.done = target.done /\ target'.worker = target.worker
    BY <1>1, <1>2 DEF Process
  <1>4. TargetSame /\ WorkerSame /\ StillOpen
    BY <1>1, <1>3 DEF TargetSame, WorkerSame, StillOpen
  <1>5. DownLess
    BY <1>1, DownSame DEF IInv
  <1> QED
    BY <1>1, <1>2, <1>3, <1>4, <1>5, QuietKeeps

LEMMA SayCloseKeeps ==
  ASSUME IInv, SayClose
  PROVE  IInv'
  <1>1. /\ down' = Append(down, [kind |-> "close"])
        /\ UNCHANGED <<client, pending, up, launch, placed, hit, handlers, attach, target, failed, missed, pauses, mishap>>
    BY DEF SayClose, ghosts
  <1>2. /\ target \in Process /\ client \in Client /\ (client.closed <=> client.sock \in {"ended", "closed"})
        /\ down \in Seq(Down)
    BY DEF IInv, Shapes
  <1>3. PICK e \in Down : down' = Append(down, e) /\ e.kind = "close"
    <2>1. PICK e : e = [kind |-> "close"]
      OBVIOUS
    <2>2. e \in Down /\ e.kind = "close"
      BY <2>1 DEF Down
    <2> QED
      BY <1>1, <2>1, <2>2
  <1>4. /\ Append(down, e) \in Seq(Down)
        /\ DOMAIN Append(down, e) = DOMAIN down \cup {Len(down) + 1}
        /\ Append(down, e)[Len(down) + 1] = e
        /\ \A i \in DOMAIN down : Append(down, e)[i] = down[i] /\ i \in Nat
    BY <1>2, AppendIs
  <1>5. DownLess
    <2>1. \A k \in DOMAIN down' : down'[k].kind # "close" => k \in Nat /\ k + 0 \in DOMAIN down /\ down'[k] = down[k + 0]
      BY <1>3, <1>4
    <2> QED
      BY <2>1 DEF DownLess
  <1>6. \A j \in DOMAIN down : down[j].kind = "paused" => \E k \in DOMAIN down' : down'[k] = down[j]
    BY <1>3, <1>4
  <1>7. TargetSame /\ WorkerSame /\ StillOpen
    BY <1>1 DEF TargetSame, WorkerSame, StillOpen
  <1> QED
    BY <1>1, <1>2, <1>3, <1>4, <1>5, <1>6, <1>7, QuietKeeps

-----------------------------------------------------------------------------
(* The worker *)

\* All of the process but its worker.
OnlyWorker(process, worker) ==
  /\ process \in Process /\ process.worker = worker
  /\ process.mode = target.mode /\ process.at = target.at /\ process.frame = target.frame
  /\ process.armed = target.armed /\ process.done = target.done

LEMMA WorkerIs ==
  ASSUME Shapes
  PROVE  /\ target.worker \in Worker /\ OnlyWorker(target, target.worker)
         /\ \A w \in Worker : OnlyWorker([target EXCEPT !.worker = w], w)
  BY DEF Shapes, Process, OnlyWorker

\* What a call to the worker does.
LEMMA WorkerEffectIs ==
  ASSUME Shapes, NEW call
  PROVE  \E w \in Worker :
           /\ OnlyWorker(WorkerEffect(call), w)
           /\ w.listens = target.worker.listens /\ w.rebound = target.worker.rebound
           /\ target.worker.armed \/ call = "setBreakpoint" => w.armed
           /\ w.mode = IF call = "initialized" /\ target.worker.mode = "wait" THEN "running" ELSE target.worker.mode
  <1>1. target.worker \in Worker /\ OnlyWorker(target, target.worker)
        /\ \A w \in Worker : OnlyWorker([target EXCEPT !.worker = w], w)
    BY WorkerIs
  <1>2. CASE call = "setBreakpoint"
    <2>1. PICK w : w = [target.worker EXCEPT !.armed = TRUE]
      OBVIOUS
    <2>2. /\ w \in Worker /\ w.armed /\ w.mode = target.worker.mode
          /\ w.listens = target.worker.listens /\ w.rebound = target.worker.rebound
      BY <1>1, <2>1 DEF Worker
    <2>3. WorkerEffect(call) = [target EXCEPT !.worker = w]
      BY <1>2, <2>1 DEF WorkerEffect
    <2> QED
      BY <1>1, <1>2, <2>2, <2>3
  <1>3. CASE call = "initialized" /\ target.worker.mode = "wait"
    <2>1. PICK w : w = [target.worker EXCEPT !.mode = "running"]
      OBVIOUS
    <2>2. /\ w \in Worker /\ w.mode = "running" /\ w.armed = target.worker.armed
          /\ w.listens = target.worker.listens /\ w.rebound = target.worker.rebound
      BY <1>1, <2>1 DEF Worker
    <2>3. WorkerEffect(call) = [target EXCEPT !.worker = w]
      BY <1>3, <2>1 DEF WorkerEffect
    <2>4. OnlyWorker(WorkerEffect(call), w)
      BY <1>1, <2>2, <2>3
    <2>5. target.worker.armed \/ call = "setBreakpoint" => w.armed
      BY <1>3, <2>2
    <2> QED
      BY <1>3, <2>2, <2>4, <2>5
  <1>4. CASE call # "setBreakpoint" /\ ~(call = "initialized" /\ target.worker.mode = "wait")
    <2>1. WorkerEffect(call) = target
      BY <1>4 DEF WorkerEffect
    <2> QED
      BY <1>1, <1>4, <2>1
  <1> QED
    BY <1>2, <1>3, <1>4

\* How the attempt to attach goes on.
LEMMA AttachStepIs ==
  ASSUME Shapes, NEW ok \in BOOLEAN, Attaching, AttachStep(ok)
  PROVE  /\ attach' \in [step : 0 .. Len(AttachScript), outcome : {"going", "ready", "threw"}]
         /\ ok => IF attach.step = 7 THEN attach'.outcome = "ready" /\ attach'.step = 7
                  ELSE attach'.outcome = attach.outcome /\ attach'.step = attach.step + 1
         /\ attach.step \in 1 .. 7
         /\ AttachScript[attach.step] = "setBreakpoint" <=> attach.step = 6
         /\ AttachScript[attach.step] = "initialized" <=> attach.step = 7
  <1>1. attach \in [step : 0 .. 7, outcome : {"going", "ready", "threw"}] /\ Len(AttachScript) = 7 /\ attach.step \in 1 .. 7
    BY Known DEF Shapes, Attaching
  <1>2. /\ AttachScript[attach.step] = "setBreakpoint" <=> attach.step = 6
        /\ AttachScript[attach.step] = "initialized" <=> attach.step = 7
    BY <1>1 DEF AttachScript
  <1>3. CASE ~ok /\ AttachScript[attach.step] # "strip"
    <2>1. attach' = [attach EXCEPT !.outcome = "threw"]
      BY <1>3 DEF AttachStep
    <2> QED
      BY <1>1, <1>2, <1>3, <2>1
  <1>4. CASE ~(~ok /\ AttachScript[attach.step] # "strip") /\ attach.step = 7
    <2>1. attach' = [attach EXCEPT !.outcome = "ready"]
      BY <1>1, <1>4 DEF AttachStep, ChildHandled
    <2> QED
      BY <1>1, <1>2, <1>4, <2>1
  <1>5. CASE ~(~ok /\ AttachScript[attach.step] # "strip") /\ attach.step # 7
    <2>1. attach' = [attach EXCEPT !.step = attach.step + 1]
      BY <1>1, <1>5 DEF AttachStep, ChildHandled
    <2>2. attach.step + 1 \in 0 .. 7
      BY <1>1, <1>5
    <2> QED
      BY <1>1, <1>2, <1>5, <2>1, <2>2
  <1> QED
    BY <1>3, <1>4, <1>5

\* A step of the worker or of the client that attaches to it concerns nothing else.
LEMMA WorkerMoves ==
  ASSUME IInv, WorkerUnchanged, NEW w \in Worker, OnlyWorker(target', w),
         attach' \in [step : 0 .. Len(AttachScript), outcome : {"going", "ready", "threw"}],
         target.worker.mode = "none" => w.mode = "none", mishap => mishap',
         ~Forgiven' =>
           /\ target.worker.mode # "none"
           /\ w.mode = "wait" =>
                /\ w.listens /\ attach'.step > 0 /\ attach'.outcome = "going"
                /\ attach'.step = Len(AttachScript) => w.armed
           /\ w.mode \in {"running", "paused"} => w.armed
           /\ w.mode = "done" => w.rebound
           /\ w.mode # "none"
  PROVE  IInv'
  <1>. Shapes /\ Core /\ WorkerTrue
    BY DEF IInv
  <1>1. UNCHANGED <<client, pending, up, down, launch, placed, hit, handlers, failed, missed, pauses>>
    BY DEF WorkerUnchanged
  <1>2. /\ target' \in Process /\ target'.worker = w
        /\ target'.mode = target.mode /\ target'.at = target.at /\ target'.frame = target.frame
        /\ target'.armed = target.armed /\ target'.done = target.done
    BY DEF OnlyWorker
  <1>3. (Headless' <=> Headless) /\ Script' = Script
    BY <1>1, StyleKept
  <1>4. Shapes'
    BY <1>1, <1>2, <1>3 DEF Shapes, AttachScript
  <1>5. DownLess /\ StillOpen /\ TargetSame
    BY <1>1, <1>2, DownSame DEF StillOpen, TargetSame
  <1>6. Core'
    BY <1>1, <1>5, QuietMoves
  <1>7. ~Headless' \/ target'.at = SpawnGate => target'.worker.mode = "none"
    BY <1>2, <1>3 DEF WorkerTrue
  <1>8. CASE Forgiven'
    BY <1>4, <1>6, <1>7, <1>8 DEF WorkerTrue, IInv
  <1>9. CASE ~Forgiven'
    <2>1. ~Forgiven
      BY <1>1, <1>9 DEF Forgiven
    <2>2. \A h \in handlers' : h.gate = SpawnGate => h.call # "rebind"
      BY <1>1, <1>9, <2>1 DEF WorkerTrue
    <2>3. target'.at # SpawnGate
      BY <1>7, <1>9, <1>2
    <2>4. /\ target'.worker.mode = "wait" =>
               /\ target'.worker.listens /\ attach'.step > 0 /\ attach'.outcome = "going"
               /\ attach'.step = Len(AttachScript) => target'.worker.armed
          /\ target'.worker.mode \in {"running", "paused"} => target'.worker.armed
          /\ target'.worker.mode = "done" => target'.worker.rebound
          /\ target'.worker.mode # "none"
      BY <1>2, <1>9
    <2>5. AttachScript' = AttachScript
      BY DEF AttachScript
    <2> QED
      BY <1>4, <1>6, <1>7, <2>2, <2>3, <2>4, <2>5 DEF WorkerTrue, IInv
  <1> QED
    BY <1>8, <1>9

\* What holds of the worker while nothing about it has gone wrong.
LEMMA WorkerSound ==
  ASSUME IInv, ~Forgiven, target.worker.mode # "none"
  PROVE  /\ target.worker.mode = "wait" =>
              /\ target.worker.listens /\ attach.step > 0 /\ attach.outcome = "going"
              /\ attach.step = Len(AttachScript) => target.worker.armed
         /\ target.worker.mode \in {"running", "paused"} => target.worker.armed
         /\ target.worker.mode = "done" => target.worker.rebound
  BY DEF IInv, WorkerTrue

LEMMA AttachCallKeeps ==
  ASSUME IInv, AttachCall
  PROVE  IInv'
  <1>1. /\ Attaching /\ WorkerLives /\ AttachStep(TRUE) /\ target' = WorkerEffect(AttachScript[attach.step])
        /\ mishap' = mishap /\ WorkerUnchanged /\ Shapes
    BY DEF AttachCall, IInv
  <1>2. PICK call : call = AttachScript[attach.step]
    OBVIOUS
  <1>3. /\ attach' \in [step : 0 .. Len(AttachScript), outcome : {"going", "ready", "threw"}]
        /\ IF attach.step = 7 THEN attach'.outcome = "ready" /\ attach'.step = 7
           ELSE attach'.outcome = attach.outcome /\ attach'.step = attach.step + 1
        /\ attach.step \in 1 .. 7
        /\ call = "setBreakpoint" <=> attach.step = 6
        /\ call = "initialized" <=> attach.step = 7
    BY <1>1, <1>2, AttachStepIs
  <1>4. PICK w \in Worker :
          /\ OnlyWorker(target', w)
          /\ w.listens = target.worker.listens /\ w.rebound = target.worker.rebound
          /\ target.worker.armed \/ call = "setBreakpoint" => w.armed
          /\ w.mode = IF call = "initialized" /\ target.worker.mode = "wait" THEN "running" ELSE target.worker.mode
    <2>1. target' = WorkerEffect(call)
      BY <1>1, <1>2
    <2> QED
      BY <1>1, <2>1, WorkerEffectIs
  <1>5. target.worker.mode # "none" /\ target.worker.mode # "dead"
    BY <1>1 DEF WorkerLives
  <1>6. ASSUME ~Forgiven'
        PROVE  /\ w.mode = "wait" =>
                    /\ w.listens /\ attach'.step > 0 /\ attach'.outcome = "going"
                    /\ attach'.step = Len(AttachScript) => w.armed
               /\ w.mode \in {"running", "paused"} => w.armed
               /\ w.mode = "done" => w.rebound
               /\ w.mode # "none"
    <2>1. ~Forgiven
      BY <1>1, <1>6 DEF Forgiven, WorkerUnchanged
    <2>2. /\ target.worker.mode = "wait" =>
               /\ target.worker.listens /\ attach.step > 0 /\ attach.outcome = "going"
               /\ attach.step = 7 => target.worker.armed
          /\ target.worker.mode \in {"running", "paused"} => target.worker.armed
          /\ target.worker.mode = "done" => target.worker.rebound
      BY <1>5, <2>1, WorkerSound, Known
    <2>3. w.mode = "wait" => target.worker.mode = "wait" /\ attach.step # 7
      BY <1>3, <1>4
    <2>4. w.mode = "wait" => w.listens /\ attach'.step > 0 /\ attach'.outcome = "going"
      BY <1>3, <1>4, <2>2, <2>3
    <2>5. w.mode = "wait" /\ attach'.step = Len(AttachScript) => w.armed
      <3>1. w.mode = "wait" /\ attach'.step = 7 => attach.step = 6
        BY <1>3, <2>3
      <3> QED
        BY <1>3, <1>4, <3>1, Known
    <2>6. w.mode \in {"running", "paused"} => w.armed
      BY <1>3, <1>4, <2>2
    <2>7. (w.mode = "done" => w.rebound) /\ w.mode # "none"
      BY <1>4, <1>5, <2>2
    <2> QED
      BY <2>4, <2>5, <2>6, <2>7
  <1> QED
    BY <1>1, <1>3, <1>4, <1>5, <1>6, WorkerMoves

LEMMA AttachFailsKeeps ==
  ASSUME IInv, AttachFails
  PROVE  IInv'
  <1>1. /\ Attaching /\ AttachStep(FALSE) /\ mishap' /\ WorkerUnchanged /\ Shapes
        /\ target' = target \/ (WorkerLives /\ target' = WorkerEffect(AttachScript[attach.step]))
    BY DEF AttachFails, IInv
  <1>2. attach' \in [step : 0 .. Len(AttachScript), outcome : {"going", "ready", "threw"}]
    BY <1>1, AttachStepIs
  <1>3. \E w \in Worker : OnlyWorker(target', w) /\ (target.worker.mode = "none" => w.mode = "none")
    <2>1. CASE target' = target
      BY <1>1, <2>1, WorkerIs
    <2>2. CASE WorkerLives /\ target' = WorkerEffect(AttachScript[attach.step])
      <3>1. \E w \in Worker : OnlyWorker(target', w)
        BY <1>1, <2>2, WorkerEffectIs
      <3> QED
        BY <2>2, <3>1 DEF WorkerLives
    <2> QED
      BY <1>1, <2>1, <2>2
  <1>4. Forgiven'
    BY <1>1 DEF Forgiven
  <1> QED
    BY <1>1, <1>2, <1>3, <1>4, WorkerMoves

LEMMA ReleaseAnywayKeeps ==
  ASSUME IInv, ReleaseAnyway
  PROVE  IInv'
  <1>1. /\ attach' = [attach EXCEPT !.step = Len(AttachScript)] /\ mishap' /\ WorkerUnchanged /\ Shapes /\ target' = target
    BY DEF ReleaseAnyway, IInv
  <1>2. attach' \in [step : 0 .. Len(AttachScript), outcome : {"going", "ready", "threw"}]
    <2>1. Len(AttachScript) \in 0 .. Len(AttachScript)
      BY Known
    <2> QED
      BY <1>1, <2>1 DEF Shapes
  <1>3. Forgiven' /\ target.worker \in Worker /\ OnlyWorker(target', target.worker)
    BY <1>1, WorkerIs DEF Forgiven
  <1> QED
    BY <1>1, <1>2, <1>3, WorkerMoves

LEMMA AttachLostKeeps ==
  ASSUME IInv, AttachLost
  PROVE  IInv'
  <1>1. /\ attach' = [attach EXCEPT !.outcome = "threw"] /\ mishap' /\ WorkerUnchanged /\ Shapes /\ WorkerLives
        /\ target' = [target EXCEPT !.worker.armed = FALSE,
                                    !.worker.mode = IF target.worker.mode = "paused" THEN "running" ELSE target.worker.mode]
    BY DEF AttachLost, IInv
  <1>2. attach' \in [step : 0 .. Len(AttachScript), outcome : {"going", "ready", "threw"}]
    BY <1>1 DEF Shapes
  <1>3. PICK m : m = IF target.worker.mode = "paused" THEN "running" ELSE target.worker.mode
    OBVIOUS
  <1>4. PICK w : w = [target.worker EXCEPT !.armed = FALSE, !.mode = m]
    OBVIOUS
  <1>5. w \in Worker
    BY <1>1, <1>3, <1>4, WorkerIs DEF Worker
  <1>6. target' = [target EXCEPT !.worker = w]
    BY <1>1, <1>3, <1>4
  <1>7. Forgiven' /\ target.worker.mode # "none" /\ OnlyWorker(target', w)
    BY <1>1, <1>5, <1>6, WorkerIs DEF Forgiven, WorkerLives
  <1> QED
    BY <1>1, <1>2, <1>5, <1>7, WorkerMoves

LEMMA WorkerRunsKeeps ==
  ASSUME IInv, WorkerRuns
  PROVE  IInv'
  <1>1. /\ attach' = attach /\ mishap' = mishap /\ WorkerUnchanged /\ Shapes /\ target.worker.mode = "running"
        /\ target' = [target EXCEPT !.worker.mode = IF target.worker.armed THEN "paused" ELSE "done"]
    BY DEF WorkerRuns, IInv
  <1>2. PICK m : m = IF target.worker.armed THEN "paused" ELSE "done"
    OBVIOUS
  <1>3. PICK w : w = [target.worker EXCEPT !.mode = m]
    OBVIOUS
  <1>4. w \in Worker /\ w.mode = m /\ w.armed = target.worker.armed
    BY <1>1, <1>2, <1>3, WorkerIs DEF Worker
  <1>5. OnlyWorker(target', w)
    <2>1. target' = [target EXCEPT !.worker = w]
      BY <1>1, <1>2, <1>3
    <2> QED
      BY <1>1, <1>4, <2>1, WorkerIs
  <1>6. attach' \in [step : 0 .. Len(AttachScript), outcome : {"going", "ready", "threw"}]
    BY <1>1 DEF Shapes
  <1>7. ~Forgiven' => m = "paused" /\ w.armed
    <2>1. ~Forgiven' => ~Forgiven
      BY <1>1 DEF Forgiven, WorkerUnchanged
    <2>2. ~Forgiven => target.worker.armed
      BY <1>1, WorkerSound
    <2> QED
      BY <1>2, <1>4, <2>1, <2>2
  <1> QED
    BY <1>1, <1>4, <1>5, <1>6, <1>7, WorkerMoves

LEMMA ChildPausedKeeps ==
  ASSUME IInv, ChildPaused
  PROVE  IInv'
  <1>1. /\ attach' = attach /\ WorkerUnchanged /\ Shapes /\ target.worker.mode = "paused"
        /\ \/ target' = [target EXCEPT !.worker.mode = "done", !.worker.rebound = TRUE] /\ mishap' = mishap
           \/ target' = [target EXCEPT !.worker.mode = "done"] /\ mishap'
    BY DEF ChildPaused, IInv
  <1>2. attach' \in [step : 0 .. Len(AttachScript), outcome : {"going", "ready", "threw"}]
    BY <1>1 DEF Shapes
  <1>3. CASE target' = [target EXCEPT !.worker.mode = "done", !.worker.rebound = TRUE] /\ mishap' = mishap
    <2>1. PICK w : w = [target.worker EXCEPT !.mode = "done", !.rebound = TRUE]
      OBVIOUS
    <2>2. w \in Worker /\ w.mode = "done" /\ w.rebound
      BY <1>1, <2>1, WorkerIs DEF Worker
    <2>3. target' = [target EXCEPT !.worker = w]
      BY <1>3, <2>1
    <2>4. OnlyWorker(target', w)
      BY <1>1, <2>2, <2>3, WorkerIs
    <2> QED
      BY <1>1, <1>2, <1>3, <2>2, <2>4, WorkerMoves
  <1>4. CASE target' = [target EXCEPT !.worker.mode = "done"] /\ mishap'
    <2>1. PICK w : w = [target.worker EXCEPT !.mode = "done"]
      OBVIOUS
    <2>2. w \in Worker /\ w.mode = "done"
      BY <1>1, <2>1, WorkerIs DEF Worker
    <2>3. target' = [target EXCEPT !.worker = w]
      BY <1>4, <2>1
    <2>4. OnlyWorker(target', w) /\ Forgiven'
      BY <1>1, <1>4, <2>2, <2>3, WorkerIs DEF Forgiven
    <2> QED
      BY <1>1, <1>2, <1>4, <2>2, <2>4, WorkerMoves
  <1> QED
    BY <1>1, <1>3, <1>4

LEMMA WorkerExitKeeps ==
  ASSUME IInv, WorkerExit
  PROVE  IInv'
  <1>1. /\ attach' = attach /\ mishap' = mishap /\ WorkerUnchanged /\ Shapes /\ WorkerLives
        /\ target' = [target EXCEPT !.worker.mode = "dead"]
    BY DEF WorkerExit, IInv
  <1>2. PICK w : w = [target.worker EXCEPT !.mode = "dead"]
    OBVIOUS
  <1>3. w \in Worker /\ w.mode = "dead"
    BY <1>1, <1>2, WorkerIs DEF Worker
  <1>4. target' = [target EXCEPT !.worker = w]
    BY <1>1, <1>2
  <1>5. target.worker.mode # "none" /\ OnlyWorker(target', w)
    BY <1>1, <1>3, <1>4, WorkerIs DEF WorkerLives
  <1>6. attach' \in [step : 0 .. Len(AttachScript), outcome : {"going", "ready", "threw"}]
    BY <1>1 DEF Shapes
  <1> QED
    BY <1>1, <1>3, <1>5, <1>6, WorkerMoves

-----------------------------------------------------------------------------
(* The invariant *)

LEMMA InitHolds ==
  ASSUME Init
  PROVE  IInv
  <1>1. /\ client = [sock |-> "none", closed |-> FALSE, nextId |-> 1]
        /\ pending = {} /\ up = <<>> /\ down = <<>> /\ placed = {} /\ hit = {} /\ handlers = {}
        /\ attach = [step |-> 0, outcome |-> "going"]
        /\ failed = {} /\ missed = {} /\ pauses = [g \in Gates |-> 0]
    BY DEF Init
  <1>2. PICK style \in {"interactive", "headless"} :
          launch = [style |-> style, step |-> 0, waiting |-> FALSE, outcome |-> "going"]
    BY DEF Init
  <1>3. /\ target.mode = "wait" /\ target.at = None /\ target.frame = 0 /\ target.armed = {}
        /\ target.done = [g \in Gates |-> 0] /\ target.worker.mode = "none"
    BY DEF Init, NoWorker
  <1>4. DOMAIN up = {} /\ DOMAIN down = {} /\ up \in Seq(Sent) /\ down \in Seq(Down)
    BY <1>1
  <1>5. 0 \in 0 .. Len(AttachScript) /\ 0 \in 0 .. MaxPauses /\ 0 <= Len(Script) /\ None \notin Gates
    BY Known, ScriptIs
  <1>6. target \in Process
    <2>1. PICK w \in Worker : w = NoWorker
      BY DEF NoWorker, Worker
    <2>2. PICK d \in [Gates -> Nat] : d = [g \in Gates |-> 0]
      OBVIOUS
    <2>3. target = [mode |-> "wait", at |-> None, frame |-> 0, armed |-> {}, done |-> d, stripped |-> FALSE, worker |-> w]
      BY <2>1, <2>2 DEF Init
    <2> QED
      BY <1>5, <2>3 DEF Process
  <1>7. Shapes
    <2>1. client \in Client /\ (client.closed <=> client.sock \in {"ended", "closed"})
      BY <1>1 DEF Client
    <2>2. launch \in Launch /\ launch.step <= Len(Script)
      BY <1>2, <1>5 DEF Launch
    <2>3. attach \in [step : 0 .. Len(AttachScript), outcome : {"going", "ready", "threw"}]
      BY <1>1, <1>5
    <2>4. pauses \in [Gates -> Nat]
      BY <1>1
    <2> QED
      BY <1>1, <1>4, <1>6, <2>1, <2>2, <2>3, <2>4 DEF Shapes
  <1>8. \A g \in Gates : target.done[g] = 0 /\ pauses[g] = 0 /\ 0 <= NamesAt(g) /\ Pos(g) \in Nat /\ ~(0 > Pos(g))
    BY <1>1, <1>3, Known DEF Pos
  <1>9. Ids /\ LaunchTrue /\ AnswersTrue
    BY <1>1, <1>2, <1>3, <1>4 DEF Ids, LaunchTrue, AnswersTrue
  <1>10. PlacedTrue /\ HandlersTrue /\ EventsTrue
    BY <1>1, <1>2, <1>3, <1>4, <1>8 DEF PlacedTrue, HandlersTrue, NamesTrue, EventsTrue
  <1>11. StopTrue
    BY <1>1, <1>3, <1>4, <1>8 DEF StopTrue
  <1>12. DoneTrue /\ FrameTrue
    BY <1>1, <1>3, <1>4, <1>8 DEF DoneTrue, FrameTrue
  <1>13. BreakpointsTrue /\ GatesHonest /\ PausedIsHandled
    BY <1>1, <1>3, <1>8 DEF BreakpointsTrue, GatesHonest, GatesRebound, HotPathLeftAlone, PausedIsHandled
  <1>14. WorkerTrue
    BY <1>1, <1>3, <1>5 DEF WorkerTrue
  <1> QED
    BY <1>7, <1>9, <1>10, <1>11, <1>12, <1>13, <1>14 DEF IInv, Core

LEMMA StepHolds ==
  ASSUME IInv, [Next]_vars
  PROVE  IInv'
  <1>1. CASE ClientNext
    <2>1. CASE Start \/ HandshakeDone \/ HandshakeFails \/ HandshakeDropped
      BY <2>1, StartKeeps, HandshakeDoneKeeps, HandshakeFailsKeeps, HandshakeDroppedKeeps
    <2>2. CASE LaunchSend
      <3>1. CASE client.closed
        BY <2>2, <3>1, LaunchSendClosed
      <3>2. CASE ~client.closed
        BY <2>2, <3>2, LaunchSendOpen
      <3> QED
        BY <3>1, <3>2
    <2>3. CASE \E h \in handlers : HandlerSend(h)
      <3>0. PICK h \in handlers : HandlerSend(h)
        BY <2>3
      <3>1. CASE client.closed
        BY <3>0, <3>1, HandlerSendClosed
      <3>2. CASE ~client.closed
        BY <3>0, <3>2, HandlerSendOpen
      <3> QED
        BY <3>1, <3>2
    <2>4. CASE Receive
      <3>1. Head(down) \in Down
        BY <2>4, DownTail DEF Receive, IInv
      <3>2. Head(down).kind \in {"paused", "answer", "close"}
        BY <3>1 DEF Down, Event, Answer
      <3> QED
        BY <2>4, <3>2, ReceivePaused, ReceiveAnswer, ReceiveClose
    <2>5. CASE Timeout \/ SocketClose
      BY <2>5, TimeoutKeeps, SocketCloseKeeps
    <2> QED
      BY <1>1, <2>1, <2>2, <2>3, <2>4, <2>5 DEF ClientNext
  <1>2. CASE TargetNext
    <2>1. CASE Serve \/ Exit \/ SayClose
      BY <2>1, ServeKeeps, ExitKeeps, SayCloseKeeps
    <2>2. CASE \E g \in Gates : Pause(g) \/ Pass(g)
      BY <2>2, PauseKeeps, PassKeeps
    <2> QED
      BY <1>2, <2>1, <2>2 DEF TargetNext
  <1>3. CASE WorkerNext
    BY <1>3, AttachCallKeeps, AttachFailsKeeps, ReleaseAnywayKeeps, AttachLostKeeps, WorkerRunsKeeps,
       ChildPausedKeeps, WorkerExitKeeps DEF WorkerNext
  <1>4. CASE UNCHANGED vars
    <2>1. UNCHANGED <<client, pending, up, down, launch, placed, hit, handlers, attach, target, failed, missed, pauses, mishap>>
      BY <1>4 DEF vars, ghosts
    <2>2. DownLess /\ down \in Seq(Down) /\ TargetSame /\ WorkerSame /\ target \in Process /\ StillOpen
      BY <2>1, DownSame DEF IInv, Shapes, TargetSame, WorkerSame, StillOpen
    <2> QED
      BY <2>1, <2>2, QuietKeeps DEF IInv, Shapes
  <1> QED
    BY <1>1, <1>2, <1>3, <1>4 DEF Next

LEMMA Invariance == Spec => []IInv
  <1>1. Init => IInv
    BY InitHolds
  <1>2. IInv /\ [Next]_vars => IInv'
    BY StepHolds
  <1> QED
    BY <1>1, <1>2, PTL DEF Spec

-----------------------------------------------------------------------------
(* Theorems *)

\* The client, the launch, the handlers, the attempt to attach and the process only take on the shapes the
\* code gives them (ws-client.ts, gate-rebind.ts); no name is assigned more often than the gate has names.
THEOREM TypesCorrect == Spec => []TypeOK
  <1>1. ASSUME IInv PROVE TypeOK
    <2>1. Shapes /\ DoneTrue
      BY <1>1 DEF IInv, Core
    <2>2. Sent \subseteq Pending
      BY DEF Sent
    <2>3. pending \subseteq Pending /\ up \in Seq(Pending)
      BY <2>1, <2>2 DEF Shapes
    <2>4. client \in [sock : {"none", "connecting", "open", "ended", "closed"}, closed : BOOLEAN, nextId : Nat]
      BY <2>1 DEF Shapes, Client
    <2>5. launch \in [style : {"interactive", "headless"}, step : 0 .. Len(Script), waiting : BOOLEAN,
                      outcome : {"going", "ready", "threw"}]
      <3>1. launch.step \in 0 .. Len(Script)
        BY <2>1, ScriptIs DEF Shapes, Launch
      <3> QED
        BY <2>1, <3>1 DEF Shapes, Launch
    <2>6. handlers \subseteq [frame : 1 .. MaxPauses, gate : Gates \cup {None}, call : {"rebind", "remove", "resume"},
                              name : 1 .. Names, waiting : BOOLEAN]
      BY <2>1 DEF Shapes, Handler, HandlerCalls
    <2>7. target.done \in [Gates -> 0 .. Names]
      <3>1. target.done \in [Gates -> Nat]
        BY <2>1 DEF Shapes, Process
      <3>2. \A g \in Gates : target.done[g] <= NamesAt(g) /\ NamesAt(g) \in 1 .. Names
        BY <2>1, Known DEF DoneTrue
      <3>3. \A g \in Gates : target.done[g] \in 0 .. Names
        BY <3>1, <3>2, Known
      <3> QED
        BY <3>1, <3>3
    <2>8. target \in [mode : {"wait", "running", "paused", "dead"}, at : Gates \cup {None}, frame : 0 .. MaxPauses,
                      armed : SUBSET Gates, done : [Gates -> 0 .. Names], stripped : BOOLEAN,
                      worker : [mode : {"none", "wait", "running", "paused", "done", "dead"}, listens : BOOLEAN,
                                armed : BOOLEAN, rebound : BOOLEAN]]
      BY <2>1, <2>7 DEF Shapes, Process, Worker
    <2>9. placed \subseteq Gates /\ hit \subseteq Gates
          /\ attach \in [step : 0 .. Len(AttachScript), outcome : {"going", "ready", "threw"}]
      BY <2>1 DEF Shapes
    <2> QED
      BY <2>3, <2>4, <2>5, <2>6, <2>8, <2>9 DEF TypeOK
  <1> QED
    BY <1>1, Invariance, PTL

\* A gate runs with a name not reassigned only if a call about it failed, or, in an interactive launch, one
\* about a gate whose pauses are then taken for this one's; and a breakpoint that does not stay stops the
\* process once, unless a call about it failed: however many gates and names there are, and whatever is
\* refused, lost or late (gate-rebind.ts, the handlers of Debugger.paused).
THEOREM GatesAlwaysHonest == Spec => []GatesHonest
  <1>1. IInv => GatesHonest
    BY DEF IInv, Core
  <1> QED
    BY <1>1, Invariance, PTL

\* While the session lasts a paused process is never forgotten: word of the pause, the handler that will
\* resume it or the resume itself is on its way.  And the worker never gets past its gate before the client
\* that attaches to it has set the breakpoint, unless something about it went wrong (attachChildAndRebind).
THEOREM StopsAlwaysHandled == Spec => []StopsHandled
  <1>1. IInv => WorkerRebound
    BY DEF IInv, WorkerTrue, WorkerRebound, Forgiven
  <1>2. IInv => StopsHandled
    BY <1>1 DEF IInv, Core, StopsHandled
  <1> QED
    BY <1>2, Invariance, PTL

=============================================================================
