------------------------------ MODULE Inspector ------------------------------
(***************************************************************************)
(* A debugger session with a process under launch: the RPC client          *)
(* (src/injector/ws-client.ts) and, on top of it, the two launches of      *)
(* src/injector/gate-rebind.ts: launchInteractiveWithGatesRebound, and     *)
(* launchWithGatesRebound with attachChildAndRebind.                       *)
(*                                                                         *)
(* The process starts in a wait state.  The launch sets a breakpoint at    *)
(* each gate, registers its handler for pauses and releases the process;   *)
(* at each pause the handler reassigns the gate's names in the paused      *)
(* frame, removes the breakpoint unless it is sticky, and resumes.  Every  *)
(* one of these is a call that may fail or be answered late or never, and  *)
(* the launch and the handlers interleave.                                 *)
(*                                                                         *)
(* The process is external, modelled by what the calls ask of it.  Gates   *)
(* are on one line, in the order in which they are located.  The enabling  *)
(* calls are one call here, and so are the polls of the locator; one that  *)
(* finds nothing is one that is refused.                                   *)
(*                                                                         *)
(* A headless launch keeps its breakpoints.  At one of its gates the       *)
(* process is about to spawn a worker: the handler has it wait for a       *)
(* debugger of its own, and a second client attaches to that one, whose    *)
(* calls are single steps here.  Framing is in Framing; the answer to the  *)
(* first-run prompt and a second worker are left out.                      *)
(***************************************************************************)
EXTENDS Naturals, Sequences, FiniteSets

CONSTANTS
  NumGates,    \* gates the locator finds
  Sticky,      \* those whose breakpoint stays
  Names,       \* names a gate reassigns
  SpawnGate,   \* the gate of a headless launch at which the process spawns its worker
  MaxPauses,   \* bound: pauses of the process
  MaxFaults,   \* bound: calls refused, swallowed or answered after their deadline
  HeadlessPauses, HeadlessFaults   \* the same bounds for a headless launch

Gates == 1 .. NumGates

ASSUME ConstantsOK ==
  /\ NumGates \in Nat
  /\ Sticky \subseteq Gates
  /\ Names \in Nat \ {0}
  /\ SpawnGate \in Gates
  /\ MaxPauses \in Nat
  /\ MaxFaults \in Nat
  /\ HeadlessPauses \in 0 .. MaxPauses
  /\ HeadlessFaults \in 0 .. MaxFaults

VARIABLES
  client,      \* InspectorClient: its socket, _closed, _nextId
  pending,     \* _pending: calls not settled
  up,          \* requests on the way to the process
  down,        \* answers and events on the way back
  launch,      \* the launch: which of the two, which call it is at, whether it waits, how it ended
  placed,      \* reports with a breakpointId
  hit,         \* reports marked hit
  handlers,    \* Debugger.paused handlers that have not finished
  attach,      \* attachChildAndRebind: which call it is at, how it ended
  target,      \* the process and its worker
  swallowed,   \* history: calls that will never be answered
  failed,      \* history: gates a call about which was refused or expired
  missed,      \* history: gates run with a name not reassigned
  pauses,      \* history: how often each gate paused the process
  stranded,    \* history: did the socket close, without an error, in mid-handshake?
  mishap,      \* history: did a call to the worker go wrong?
  faults       \* faults so far

ghosts == <<swallowed, failed, missed, pauses, stranded, mishap, faults>>
vars == <<client, pending, up, down, launch, placed, hit, handlers, attach, target, ghosts>>

None == 0     \* no gate; as the owner of a call, the launch

S(what) == [what |-> what, gate |-> None]

Headless == launch.style = "headless"

(* The expression is sent off, then what it leaves behind is asked for.     *)
RunLocator == <<S("locate"), S("poll")>>

SetBreakpoints == [g \in Gates |-> [what |-> "setBreakpoint", gate |-> g]]

InteractiveCalls ==
  <<S("enable")>> \o RunLocator \o <<S("strip"), S("qr")>> \o SetBreakpoints \o <<S("initialized")>>

HeadlessCalls ==
  <<S("enable")>> \o RunLocator \o <<S("strip")>> \o SetBreakpoints \o <<S("initialized")>>

(* The launch's calls, in order.                                            *)
Script == IF Headless THEN HeadlessCalls ELSE InteractiveCalls

(* Those whose failure the launch catches.                                  *)
Tolerated == {"strip", "qr", "setBreakpoint"}

Col(g) == 10 * g

(* What a handler assigns at gate g: at the spawn gate, one variable of the *)
(* worker's environment.                                                    *)
NamesAt(g) == IF Headless /\ g = SpawnGate THEN 1 ELSE Names

(* Gates whose breakpoint stays, because they assign locals.                *)
Stays(g) == Headless \/ g \in Sticky

CanFail == faults < (IF Headless THEN HeadlessFaults ELSE MaxFaults)

NoWorker == [mode |-> "none", listens |-> FALSE, armed |-> FALSE, rebound |-> FALSE]

Init ==
  /\ client = [sock |-> "none", closed |-> FALSE, nextId |-> 1]
  /\ pending = {} /\ up = <<>> /\ down = <<>>
  /\ \E style \in {"interactive", "headless"} :
       launch = [style |-> style, step |-> 0, waiting |-> FALSE, outcome |-> "going"]
  /\ placed = {} /\ hit = {} /\ handlers = {}
  /\ attach = [step |-> 0, outcome |-> "going"]
  /\ target = [mode |-> "wait", at |-> None, frame |-> 0, armed |-> {}, done |-> [g \in Gates |-> 0],
               stripped |-> FALSE, worker |-> NoWorker]
  /\ swallowed = {} /\ failed = {} /\ missed = {}
  /\ pauses = [g \in Gates |-> 0]
  /\ stranded = FALSE /\ mishap = FALSE /\ faults = 0

-----------------------------------------------------------------------------
(* What follows when a call is settled. *)

(* Mutant of LaunchAfter: the end of the script is missed.                  *)
LaunchAfter_RunsOn(ok) ==
  IF ok \/ Script[launch.step].what \in Tolerated
  THEN [launch EXCEPT !.waiting = FALSE, !.step = @ + 1]
  ELSE [launch EXCEPT !.waiting = FALSE, !.outcome = "threw"]

LaunchAfter(ok) ==
  IF ~ok /\ Script[launch.step].what \notin Tolerated
  THEN [launch EXCEPT !.waiting = FALSE, !.outcome = "threw"]
  ELSE IF launch.step = Len(Script)
  THEN [launch EXCEPT !.waiting = FALSE, !.outcome = "ready"]
  ELSE [launch EXCEPT !.waiting = FALSE, !.step = @ + 1]

NextCall(h) ==
  CASE h.call = "rebind" /\ h.name < NamesAt(h.gate) -> "rebind"
    [] h.call = "rebind" /\ h.name = NamesAt(h.gate) /\ ~Stays(h.gate) -> "remove"
    [] OTHER -> "resume"

(* A handler goes on whether or not its call succeeded, and is done when    *)
(* its resume is settled.                                                   *)
HandlerAfter(h) ==
  IF h.call = "resume" THEN {}
  ELSE {[h EXCEPT !.call = NextCall(h), !.waiting = FALSE,
                  !.name = IF NextCall(h) = "rebind" THEN @ + 1 ELSE @]}

(* A launch that throws kills the process, a headless one also its worker.  *)
IfThrown(process) ==
  IF launch'.outcome # "threw" THEN process
  ELSE [process EXCEPT !.mode = "dead",
                       !.worker.mode = IF Headless /\ @ # "none" THEN "dead" ELSE @]

(* Once the spawn gate has assigned, well or not, the worker is attached to.*)
AttachAfter(settled) ==
  IF \E h \in settled : Headless /\ h.gate = SpawnGate /\ h.call = "rebind"
  THEN [attach EXCEPT !.step = 1] ELSE attach

(* Settle these calls, and let the functions that await them go on.         *)
Settle(calls, ok) ==
  LET owners == {c.owner : c \in calls}
  IN /\ launch' = IF None \in owners THEN LaunchAfter(ok) ELSE launch
     /\ placed' = placed \cup
          (IF ok THEN {c.gate : c \in {d \in calls : d.what = "setBreakpoint"}} ELSE {})
     /\ handlers' = UNION {IF h.frame \in owners THEN HandlerAfter(h) ELSE {h} : h \in handlers}
     /\ attach' = AttachAfter({h \in handlers : h.frame \in owners})

-----------------------------------------------------------------------------
(* The process: how it goes on. *)

Alive == target.mode # "dead"

(* The process goes on from a pause.  What a gate whose breakpoint stays    *)
(* reassigned is local to the invocation.  From the spawn gate a worker     *)
(* comes, which waits for a debugger if it is told to or inherits that.     *)
Resumed(process) ==
  LET told == process.done[SpawnGate] > 0
  IN [process EXCEPT !.mode = "running", !.at = None,
        !.done = [g \in Gates |-> IF Stays(g) THEN 0 ELSE @[g]],
        !.worker = IF Headless /\ process.at = SpawnGate
                   THEN [mode |-> IF told \/ ~process.stripped THEN "wait" ELSE "running",
                         listens |-> told, armed |-> FALSE, rebound |-> FALSE]
                   ELSE @]

-----------------------------------------------------------------------------
(* The client. *)

(* waitForPort: the port of the process opens, unless it dies or is late.   *)
PortOpens == target.mode # "dead"

Start ==
  /\ launch.step = 0 /\ launch.outcome = "going" /\ client.sock = "none"
  /\ \/ /\ PortOpens
        /\ client' = [client EXCEPT !.sock = "connecting"]
        /\ UNCHANGED launch
     \/ /\ launch' = [launch EXCEPT !.outcome = "threw"]
        /\ UNCHANGED client
  /\ target' = IfThrown(target)
  /\ UNCHANGED <<pending, up, down, placed, hit, handlers, attach, ghosts>>

HandshakeDone ==
  /\ client.sock = "connecting" /\ target.mode # "dead"
  /\ client' = [client EXCEPT !.sock = "open"]
  /\ launch' = [launch EXCEPT !.step = 1]
  /\ UNCHANGED <<pending, up, down, placed, hit, handlers, attach, target, ghosts>>

Rejected == [launch EXCEPT !.outcome = "threw"]

(* An error, a refusal to upgrade, a wrong key or the timeout.              *)
HandshakeFails ==
  /\ client.sock = "connecting"
  /\ client' = [client EXCEPT !.sock = "closed", !.closed = TRUE]
  /\ launch' = Rejected
  /\ target' = IfThrown(target)
  /\ UNCHANGED <<pending, up, down, placed, hit, handlers, attach, ghosts>>

(* The other side closes without an answer: the timeout is cleared and      *)
(* nothing settles connect().                                               *)
HandshakeDropped ==
  /\ client.sock = "connecting"
  /\ client' = [client EXCEPT !.sock = "closed", !.closed = TRUE]
  /\ stranded' = TRUE
  /\ UNCHANGED <<pending, up, down, launch, placed, hit, handlers, attach, target, swallowed, failed, missed, pauses, mishap, faults>>

(* send(): refused at once on a closed client.                              *)
Send(owner, what, gate) ==
  LET call == [id |-> client.nextId, owner |-> owner, what |-> what, gate |-> gate]
  IN /\ pending' = pending \cup {call}
     /\ up' = Append(up, call)
     /\ client' = [client EXCEPT !.nextId = @ + 1]

LaunchSend ==
  /\ launch.step > 0 /\ launch.outcome = "going" /\ ~launch.waiting
  /\ LET call == Script[launch.step]
     IN IF client.closed
        THEN /\ Settle({[id |-> 0, owner |-> None, what |-> call.what, gate |-> call.gate]}, FALSE)
             /\ UNCHANGED <<client, pending, up>>
        ELSE /\ Send(None, call.what, call.gate)
             /\ launch' = [launch EXCEPT !.waiting = TRUE]
             /\ UNCHANGED <<placed, handlers, attach>>
  /\ target' = IfThrown(target)
  /\ UNCHANGED <<down, hit, ghosts>>

HandlerSend(h) ==
  /\ ~h.waiting
  /\ IF client.closed
     THEN /\ Settle({[id |-> 0, owner |-> h.frame, what |-> h.call, gate |-> h.gate]}, FALSE)
          /\ UNCHANGED <<client, pending, up>>
     ELSE /\ Send(h.frame, h.call, h.gate)
          /\ handlers' = (handlers \ {h}) \cup {[h EXCEPT !.waiting = TRUE]}
          /\ UNCHANGED <<launch, placed, attach>>
  /\ UNCHANGED <<down, hit, target, ghosts>>

Candidates(col) ==
  {g \in Gates : /\ col + 4 >= Col(g)
                 /\ Headless \/ (g \in placed /\ (g \in Sticky \/ g \notin hit))}

Distance(col, g) == IF col >= Col(g) THEN col - Col(g) ELSE Col(g) - col

(* Which of two gates a pause is taken for: the nearer, or in a headless    *)
(* launch the one further along the line.                                   *)
Fits(col, g, k) == IF Headless THEN g >= k ELSE Distance(col, g) <= Distance(col, k)

(* Mutant of Match: the first that may be hit.                              *)
Match_First(col) ==
  LET fit == Candidates(col)
  IN IF fit = {} THEN None ELSE CHOOSE g \in fit : \A k \in fit : g <= k

Match(col) ==
  LET fit == Candidates(col)
  IN IF fit = {} THEN None ELSE CHOOSE g \in fit : \A k \in fit : Fits(col, g, k)

(* Mutant of HandlersFor: a pause that matches no gate is ignored.          *)
HandlersFor_Matched(frame, gate) ==
  IF gate = None THEN {} ELSE {[frame |-> frame, gate |-> gate, call |-> "rebind", name |-> 1, waiting |-> FALSE]}

(* A pause that matches no gate is resumed. *)
HandlersFor(frame, gate) ==
  {[frame |-> frame, gate |-> gate, call |-> IF gate = None THEN "resume" ELSE "rebind",
    name |-> 1, waiting |-> FALSE]}

Listening == launch.step = Len(Script)

OnPaused(event) ==
  /\ IF Listening
     THEN /\ handlers' = handlers \cup HandlersFor(event.frame, Match(event.col))
          /\ hit' = hit \cup ({Match(event.col)} \ {None})
     ELSE UNCHANGED <<handlers, hit>>
  /\ UNCHANGED <<client, pending, launch, placed, attach>>

(* An answer to a call that is no longer pending is dropped.                *)
OnAnswer(answer) ==
  LET calls == {c \in pending : c.id = answer.id}
  IN /\ pending' = pending \ calls
     /\ IF calls = {} THEN UNCHANGED <<launch, placed, handlers, attach>>
        ELSE Settle(calls, answer.ok)
     /\ UNCHANGED <<client, hit>>

(* close(): _closed is set before the close frame is handed to _send, which *)
(* drops it.                                                                *)
OnCloseFrame ==
  /\ client' = IF client.closed THEN client ELSE [client EXCEPT !.closed = TRUE, !.sock = "ended"]
  /\ UNCHANGED <<pending, launch, placed, hit, handlers, attach>>

Receive ==
  /\ client.sock \in {"open", "ended"} /\ down # <<>>
  /\ down' = Tail(down)
  /\ CASE Head(down).kind = "paused" -> OnPaused(Head(down))
       [] Head(down).kind = "answer" -> OnAnswer(Head(down))
       [] Head(down).kind = "close" -> OnCloseFrame
  /\ target' = IfThrown(target)
  /\ UNCHANGED <<up, swallowed, failed, missed, pauses, stranded, mishap, faults>>

(* Calls that only their deadline can settle.                               *)
Expired == {c \in pending : c.id \in swallowed}

Unpend(c) == pending \ {c}

(* The deadline of a call passes, because the answer is lost or is late.    *)
Timeout ==
  /\ \E c \in pending :
       /\ \/ c \in Expired /\ UNCHANGED faults
          \/ c.id \notin swallowed /\ CanFail /\ faults' = faults + 1
       /\ Settle({c}, FALSE)
       /\ pending' = Unpend(c)
       /\ failed' = failed \cup {c.gate}
  /\ target' = IfThrown(target)
  /\ UNCHANGED <<client, up, down, hit, swallowed, missed, pauses, stranded, mishap>>

(* The socket's close event rejects what is pending.  The process, if it is *)
(* alive, is left without a debugger.                                       *)
SocketClose ==
  /\ client.sock = "ended" \/ (client.sock = "open" /\ target.mode = "dead")
  /\ client' = [client EXCEPT !.sock = "closed", !.closed = TRUE]
  /\ Settle(pending, FALSE)
  /\ target' = IfThrown([(IF target.mode = "paused" THEN Resumed(target) ELSE target) EXCEPT !.armed = {}])
  /\ pending' = {}
  /\ up' = <<>> /\ down' = <<>>
  /\ UNCHANGED <<hit, ghosts>>

ClientNext ==
  \/ Start \/ HandshakeDone \/ HandshakeFails \/ HandshakeDropped
  \/ LaunchSend \/ \E h \in handlers : HandlerSend(h)
  \/ Receive \/ Timeout \/ SocketClose

-----------------------------------------------------------------------------
(* The process. *)

(* A name is reassigned in the frame of its own gate, or not at all.        *)
Effect(call) ==
  CASE call.what = "setBreakpoint" -> [target EXCEPT !.armed = @ \cup {call.gate}]
    [] call.what = "strip" -> [target EXCEPT !.stripped = TRUE]
    [] call.what = "initialized" -> [target EXCEPT !.mode = "running"]
    [] call.what = "rebind" /\ target.at = call.gate -> [target EXCEPT !.done[call.gate] = @ + 1]
    [] call.what = "remove" -> [target EXCEPT !.armed = @ \ {call.gate}]
    [] call.what = "resume" -> Resumed(target)
    [] OTHER -> target

Answered(call, ok) == Append(down, [kind |-> "answer", id |-> call.id, ok |-> ok])

Serve ==
  /\ Alive /\ up # <<>>
  /\ LET call == Head(up)
     IN \/ /\ target' = Effect(call)
           /\ down' = Answered(call, ~(call.what = "rebind" /\ target.at # call.gate))
           /\ UNCHANGED <<swallowed, failed, faults>>
        \/ /\ CanFail /\ faults' = faults + 1        \* refused
           /\ call.what # "resume"
           /\ down' = Answered(call, FALSE)
           /\ failed' = failed \cup {call.gate}
           /\ UNCHANGED <<target, swallowed>>
        \/ /\ CanFail /\ faults' = faults + 1        \* never answered
           /\ target' = Effect(call)
           /\ swallowed' = swallowed \cup {call.id}
           /\ UNCHANGED <<down, failed>>
     /\ missed' = IF call.what = "resume" /\ target.at # None /\ target.done[target.at] < NamesAt(target.at)
                  THEN missed \cup {target.at} ELSE missed
  /\ up' = Tail(up)
  /\ UNCHANGED <<client, pending, launch, placed, hit, handlers, attach, pauses, stranded, mishap>>

(* A breakpoint may take hold a few columns on.                             *)
Pause(g) ==
  /\ target.mode = "running" /\ client.sock = "open"
  /\ g \in target.armed
  /\ target.frame < (IF Headless THEN HeadlessPauses ELSE MaxPauses)
  /\ Headless /\ g = SpawnGate => target.worker.mode = "none"
  /\ target' = [target EXCEPT !.mode = "paused", !.at = g, !.frame = @ + 1]
  /\ pauses' = [pauses EXCEPT ![g] = @ + 1]
  /\ \E shift \in {0, 3} :
       down' = Append(down, [kind |-> "paused", frame |-> target.frame + 1, col |-> Col(g) + shift])
  /\ UNCHANGED <<client, pending, up, launch, placed, hit, handlers, attach, swallowed, failed, missed, stranded, mishap, faults>>

Pass(g) ==
  /\ target.mode = "running" /\ client.sock = "open"
  /\ g \notin target.armed
  /\ target.done[g] < Names
  /\ ~(Headless /\ g = SpawnGate) \/ target.worker.mode = "none"
  /\ target' = IF Headless /\ g = SpawnGate THEN Resumed([target EXCEPT !.at = g]) ELSE target
  /\ missed' = missed \cup {g}
  /\ UNCHANGED <<client, pending, up, down, launch, placed, hit, handlers, attach, swallowed, failed, pauses, stranded, mishap, faults>>

Exit ==
  /\ Alive
  /\ target' = [target EXCEPT !.mode = "dead"]
  /\ UNCHANGED <<client, pending, up, down, launch, placed, hit, handlers, attach, ghosts>>

SayClose ==
  /\ Alive /\ client.sock = "open"
  /\ \A i \in DOMAIN down : down[i].kind # "close"
  /\ down' = Append(down, [kind |-> "close"])
  /\ UNCHANGED <<client, pending, up, launch, placed, hit, handlers, attach, target, ghosts>>

TargetNext == Serve \/ (\E g \in Gates : Pause(g) \/ Pass(g)) \/ Exit \/ SayClose

-----------------------------------------------------------------------------
(* The worker of a headless launch, and the client that attaches to it. *)

AttachScript == <<"port", "connect", "enable", "strip", "locate", "setBreakpoint", "initialized">>

(* Its last two calls bracket the registration of its handler.              *)
ChildHandled == attach.step = Len(AttachScript)

(* A call that fails ends the attempt, and nothing releases the worker.     *)
AttachStep(ok) ==
  attach' = IF ~ok /\ AttachScript[attach.step] # "strip" THEN [attach EXCEPT !.outcome = "threw"]
            ELSE IF ChildHandled THEN [attach EXCEPT !.outcome = "ready"]
            ELSE [attach EXCEPT !.step = @ + 1]

WorkerLives == target.worker.mode \notin {"none", "dead"}

(* Mutant of WorkerEffect: the release is forgotten.                        *)
WorkerEffect_NoRelease(call) ==
  IF call = "setBreakpoint" THEN [target EXCEPT !.worker.armed = TRUE] ELSE target

WorkerEffect(call) ==
  CASE call = "setBreakpoint" -> [target EXCEPT !.worker.armed = TRUE]
    [] call = "initialized" /\ target.worker.mode = "wait" -> [target EXCEPT !.worker.mode = "running"]
    [] OTHER -> target

Attaching == attach.step > 0 /\ attach.outcome = "going"

WorkerUnchanged == UNCHANGED <<client, pending, up, down, launch, placed, hit, handlers, swallowed, failed, missed, pauses, stranded>>

AttachCall ==
  /\ Attaching /\ WorkerLives /\ target.worker.listens
  /\ AttachStep(TRUE)
  /\ target' = WorkerEffect(AttachScript[attach.step])
  /\ UNCHANGED <<mishap, faults>> /\ WorkerUnchanged

(* Refused, lost or late, before or after it took effect.  The port is      *)
(* asked for until its deadline, whether or not the worker lives.           *)
AttachFails ==
  /\ Attaching
  /\ AttachStep(FALSE)
  /\ \/ (target.worker.mode = "dead" \/ (WorkerLives /\ ~target.worker.listens)) /\ UNCHANGED faults
     \/ CanFail /\ faults' = faults + 1
  /\ target' \in {target, IF WorkerLives THEN WorkerEffect(AttachScript[attach.step]) ELSE target}
  /\ mishap' = TRUE
  /\ WorkerUnchanged

(* The locator finds nothing: the worker is released all the same.          *)
ReleaseAnyway ==
  /\ Attaching /\ AttachScript[attach.step] = "locate" /\ WorkerLives
  /\ CanFail /\ faults' = faults + 1
  /\ attach' = [attach EXCEPT !.step = Len(AttachScript)]
  /\ mishap' = TRUE
  /\ UNCHANGED target /\ WorkerUnchanged

(* The second socket closes: the worker is left without a debugger.         *)
AttachLost ==
  /\ attach.step > 2 /\ WorkerLives
  /\ CanFail /\ faults' = faults + 1
  /\ attach' = [attach EXCEPT !.outcome = "threw"]
  /\ target' = [target EXCEPT !.worker.armed = FALSE,
                              !.worker.mode = IF @ = "paused" THEN "running" ELSE @]
  /\ mishap' = TRUE
  /\ WorkerUnchanged

(* The worker runs up to its gate. *)
WorkerRuns ==
  /\ target.worker.mode = "running"
  /\ target' = [target EXCEPT !.worker.mode = IF target.worker.armed THEN "paused" ELSE "done"]
  /\ UNCHANGED <<attach, mishap, faults>> /\ WorkerUnchanged

(* The handler reassigns, and resumes whether or not that worked.           *)
ChildPaused ==
  /\ target.worker.mode = "paused" /\ ChildHandled
  /\ \/ /\ target' = [target EXCEPT !.worker.mode = "done", !.worker.rebound = TRUE]
        /\ UNCHANGED <<mishap, faults>>
     \/ /\ CanFail /\ faults' = faults + 1
        /\ target' = [target EXCEPT !.worker.mode = "done"]
        /\ mishap' = TRUE
  /\ UNCHANGED attach /\ WorkerUnchanged

WorkerExit ==
  /\ WorkerLives
  /\ target' = [target EXCEPT !.worker.mode = "dead"]
  /\ UNCHANGED <<attach, mishap, faults>> /\ WorkerUnchanged

WorkerNext ==
  AttachCall \/ AttachFails \/ ReleaseAnyway \/ AttachLost \/ WorkerRuns \/ ChildPaused \/ WorkerExit

Next == ClientNext \/ TargetNext \/ WorkerNext

(* Promises that are settled are acted on, TCP delivers, timers fire, and   *)
(* the process answers while it lives.                                      *)
Fairness ==
  /\ WF_vars(Start) /\ WF_vars(HandshakeDone \/ HandshakeFails \/ HandshakeDropped)
  /\ WF_vars(LaunchSend) /\ WF_vars(\E h \in handlers : HandlerSend(h))
  /\ WF_vars(Receive) /\ WF_vars(Expired # {} /\ Timeout) /\ WF_vars(SocketClose)
  /\ WF_vars(Serve)
  /\ WF_vars(AttachCall) /\ WF_vars(AttachFails) /\ WF_vars(WorkerRuns) /\ WF_vars(ChildPaused)

Spec == Init /\ [][Next]_vars /\ Fairness

-----------------------------------------------------------------------------
(* Properties. *)

Request == {"enable", "locate", "poll", "strip", "qr", "setBreakpoint", "initialized", "rebind", "remove", "resume"}

Pending == [id : Nat, owner : 0 .. MaxPauses, what : Request, gate : Gates \cup {None}]

(* The variables have the shapes the code gives them.                       *)
TypeOK ==
  /\ client \in [sock : {"none", "connecting", "open", "ended", "closed"}, closed : BOOLEAN, nextId : Nat]
  /\ pending \subseteq Pending /\ up \in Seq(Pending)
  /\ launch \in [style : {"interactive", "headless"}, step : 0 .. Len(Script), waiting : BOOLEAN,
                 outcome : {"going", "ready", "threw"}]
  /\ placed \subseteq Gates /\ hit \subseteq Gates
  /\ handlers \subseteq [frame : 1 .. MaxPauses, gate : Gates \cup {None}, call : {"rebind", "remove", "resume"},
                        name : 1 .. Names, waiting : BOOLEAN]
  /\ attach \in [step : 0 .. Len(AttachScript), outcome : {"going", "ready", "threw"}]
  /\ target \in [mode : {"wait", "running", "paused", "dead"}, at : Gates \cup {None}, frame : 0 .. MaxPauses,
                 armed : SUBSET Gates, done : [Gates -> 0 .. Names], stripped : BOOLEAN,
                 worker : [mode : {"none", "wait", "running", "paused", "done", "dead"}, listens : BOOLEAN,
                           armed : BOOLEAN, rebound : BOOLEAN]]

(* No gate runs with a name that has not been reassigned, one whose         *)
(* breakpoint stays at no invocation, unless a call about that gate failed  *)
(* or, in an interactive launch, one about a gate further along the line,   *)
(* whose pauses are then taken for this one's.                              *)
GatesRebound ==
  \A g \in missed : \E h \in failed : IF Headless THEN g = h ELSE g <= h

(* A breakpoint on a hot path stops the process once, unless a call about   *)
(* it failed.                                                               *)
HotPathLeftAlone == \A g \in Gates : ~Stays(g) /\ pauses[g] > 1 => g \in failed

(* Each gate is assigned at when it must be, and let alone afterwards.      *)
GatesHonest == GatesRebound /\ HotPathLeftAlone

(* While the process is paused, word of it is on its way, or a handler has  *)
(* still to resume it, or the resume is on its way: it is never forgotten.  *)
PausedIsHandled ==
  target.mode = "paused" /\ ~client.closed =>
    \/ \E i \in DOMAIN down : down[i].kind = "paused" /\ down[i].frame = target.frame
    \/ \E h \in handlers : h.frame = target.frame /\ (h.call # "resume" \/ ~h.waiting)
    \/ \E i \in DOMAIN up : up[i].what = "resume" /\ up[i].owner = target.frame

(* A worker gets past its gate with the check in place only if a call to it *)
(* or about the spawn gate went wrong, or the session was lost before it    *)
(* was spawned: it never outruns the client that is to attach to it.        *)
WorkerRebound ==
  target.worker.mode = "done" /\ ~target.worker.rebound =>
    mishap \/ SpawnGate \in failed \/ client.closed

(* No pause and no worker is forgotten.                                     *)
StopsHandled == PausedIsHandled /\ WorkerRebound

(* A paused process runs again, whatever goes wrong.                        *)
EventuallyResumed == target.mode = "paused" ~> target.mode # "paused"

(* Every call is settled: no request outlives its deadline and the socket.  *)
CallsSettle == []<>(pending = {})

(* The launch ends, well or by an error, except when the socket is closed   *)
(* in mid-handshake.                                                        *)
LaunchEnds == <>(launch.outcome # "going" \/ stranded)

(* A worker that waits is released, and one that is paused goes on, unless  *)
(* a call to it goes wrong, or a call of the launch did before: the worker  *)
(* then waits for ever (gate-rebind.ts:109).                                *)
WorkerReleased ==
  target.worker.mode \in {"wait", "paused"}
    ~> (target.worker.mode \notin {"wait", "paused"} \/ mishap \/ None \in failed)

(* Nothing is left waiting: neither processes nor calls nor the launch.     *)
NothingHangs == EventuallyResumed /\ CallsSettle /\ LaunchEnds /\ WorkerReleased
=============================================================================
