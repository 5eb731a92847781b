-------------------------------- MODULE Turns --------------------------------
(***************************************************************************)
(* One session in use: the worker takes turns, calls tools and asks for    *)
(* permission; the server folds its events into the digest and stores      *)
(* them; a browser shows the transcript, sends messages, answers asks and  *)
(* may reopen the session, which rebuilds the transcript from the store.   *)
(*                                                                         *)
(* An event is relayed, folded and stored in one step here; that they come *)
(* in order and none is missed is the business of module WebChannel.  The  *)
(* worker is external: it does what docs/EVENTS.md says of the order of    *)
(* its events, and takes back an ask before it ends the turn.              *)
(***************************************************************************)
EXTENDS TranscriptModel

CONSTANTS
  Tools,         \* tool calls a worker may make, Asking among them
  Texts,         \* what a person may say
  MaxEvents,     \* bound: stored events
  MaxSends       \* bound: messages sent from the browser

ASSUME ConstantsOK ==
  /\ Asking \subseteq Tools
  /\ None \notin Tools \cup {"running", "ok", "error"}
  /\ MaxEvents \in Nat
  /\ MaxSends \in Nat

VARIABLES
  worker,      \* the child: its turn, open calls, the ask it waits on, ...
  inbox,       \* messages written to the child and not yet taken
  history,     \* the session's rows of table events
  digest,      \* SessionRecord.digest, with pendingTools and currentToolUseId
  view,        \* TranscriptState
  sends,       \* messages sent so far
  lapsed,      \* history: calls the worker dropped without a result
  cleared,     \* history: asks the server has had answers for
  answered,    \* history: asks answered in the view since it was last rebuilt
  local,       \* history: has the reader acted since the view was last rebuilt?
  unarmed,     \* history: is the view idle because of Stop, or an echo already drawn?
  misled       \* history: was the view last rebuilt busy against the digest?

ghosts == <<lapsed, cleared, answered, local, unarmed, misled>>
vars == <<worker, inbox, history, digest, view, sends, ghosts>>

idleWorker ==
  [turn |-> FALSE, open |-> {}, waiting |-> None, granted |-> {},
   draft |-> "none", late |-> FALSE, gone |-> FALSE]

Init ==
  /\ worker = idleWorker
  /\ inbox = <<>>
  /\ history = <<>>
  /\ digest = emptyDigest
  /\ view = initialState
  /\ sends = 0
  /\ lapsed = {} /\ cleared = {} /\ answered = {}
  /\ local = FALSE /\ unarmed = FALSE /\ misled = FALSE

-----------------------------------------------------------------------------
(* The worker's events. *)

(* POST /worker/events: relay to the browser, fold, store; stream events    *)
(* are not stored.                                                          *)
Post(p) ==
  /\ view' = reduce(view, p, FALSE)
  /\ IF p.type \in {"content_block_delta", "message_stop"}
     THEN UNCHANGED <<history, digest>>
     ELSE /\ Len(history) < MaxEvents
          /\ history' = Append(history, p)
          /\ digest' = foldDigest(digest, p)
  /\ unarmed' = (~view'.busy /\ (unarmed \/ p.type = "user_text"))
  /\ misled' = (misled /\ view'.busy)
  /\ UNCHANGED <<sends, cleared, answered, local>>

Free == ~worker.gone /\ worker.waiting = None

(* The model may speak or call a tool. *)
Thinking == Free /\ worker.turn

TakeTurn(text) ==
  /\ Free /\ ~worker.late
  /\ \/ /\ inbox # <<>> /\ text = Head(inbox)
        /\ inbox' = Tail(inbox)
     \/ UNCHANGED inbox              \* typed in the terminal
  /\ worker.draft = "none"
  /\ worker' = [worker EXCEPT !.turn = TRUE]
  /\ Post([type |-> "user_text", text |-> text])
  /\ UNCHANGED lapsed

StreamText ==
  /\ Thinking /\ worker.open = {} /\ worker.draft # "stopped"
  /\ worker' = [worker EXCEPT !.draft = "streaming"]
  /\ Post([type |-> "content_block_delta"])
  /\ UNCHANGED <<inbox, lapsed>>

StopStreaming ==
  /\ Free /\ worker.draft = "streaming"
  /\ worker' = [worker EXCEPT !.draft = "stopped"]
  /\ Post([type |-> "message_stop"])
  /\ UNCHANGED <<inbox, lapsed>>

(* The last text of a turn may come after its result. *)
SayText ==
  /\ Free /\ worker.open = {}
  /\ worker.turn \/ worker.late
  /\ worker' = [worker EXCEPT !.draft = "none", !.late = FALSE]
  /\ Post([type |-> "assistant_text"])
  /\ UNCHANGED <<inbox, lapsed>>

UseTool(tool) ==
  /\ Thinking /\ worker.draft = "none"
  /\ tool \notin lapsed
  /\ \A i \in DOMAIN history : history[i].type = "tool_use" => history[i].tool # tool
  /\ worker' = [worker EXCEPT !.open = @ \cup {tool}]
  /\ Post([type |-> "tool_use", tool |-> tool])
  /\ UNCHANGED <<inbox, lapsed>>

Asked(tool) == \E i \in DOMAIN history : history[i] = [type |-> "can_use_tool", tool |-> tool]

Ask(tool) ==
  /\ Thinking /\ tool \in worker.open /\ ~Asked(tool)
  /\ worker' = [worker EXCEPT !.waiting = tool]
  /\ Post([type |-> "can_use_tool", tool |-> tool])
  /\ UNCHANGED <<inbox, lapsed>>

(* Answered in the terminal, or called off. *)
Withdraw ==
  /\ ~worker.gone /\ worker.waiting # None
  /\ worker' = [worker EXCEPT !.waiting = None]
  /\ Post([type |-> "control_cancel_request", tool |-> worker.waiting])
  /\ UNCHANGED <<inbox, lapsed>>

FinishTool(tool, failed) ==
  /\ ~worker.gone
  /\ tool \in worker.open /\ worker.waiting # tool
  /\ tool \in Asking => Asked(tool)
  /\ worker' = [worker EXCEPT !.open = @ \ {tool}, !.granted = @ \ {tool}]
  /\ Post([type |-> "tool_result", tool |-> tool, failed |-> failed])
  /\ UNCHANGED <<inbox, lapsed>>

(* An interrupted turn fails with its calls open; otherwise every call has   *)
(* had its result, and only text may be outstanding.                         *)
EndTurn(failed, late) ==
  /\ Thinking
  /\ IF failed THEN worker.draft = "none" /\ ~late ELSE worker.open = {} /\ (worker.draft # "none" => late)
  /\ worker.open \cap Asking = {}
  /\ worker' = [worker EXCEPT !.turn = FALSE, !.open = {}, !.granted = {}, !.late = late]
  /\ lapsed' = {}
  /\ Post([type |-> "result", failed |-> failed])
  /\ UNCHANGED inbox

(* Emitted after a turn, and the only sign of its end when no result comes. *)
Summarise ==
  /\ Free /\ worker.draft = "none" /\ ~worker.late /\ worker.open \cap Asking = {}
  /\ worker' = [worker EXCEPT !.turn = FALSE, !.open = {}, !.granted = {}]
  /\ lapsed' = lapsed \cup worker.open
  /\ Post([type |-> "post_turn_summary"])
  /\ UNCHANGED inbox

(* The marker of a pressed Escape follows the result.                       *)
InterruptNotice ==
  /\ Free /\ history # <<>> /\ Last(history) = [type |-> "result", failed |-> TRUE]
  /\ Post([type |-> "interrupt_notice"])
  /\ UNCHANGED <<worker, inbox, lapsed>>

CommandEcho ==
  /\ Free /\ ~worker.turn /\ ~worker.late
  /\ Post([type |-> "command_echo"])
  /\ UNCHANGED <<worker, inbox, lapsed>>

Reset ==
  /\ Free /\ worker.draft = "none" /\ worker.open \cap Asking = {}
  /\ worker' = [worker EXCEPT !.turn = FALSE, !.open = {}, !.granted = {}, !.late = FALSE]
  /\ lapsed' = {}
  /\ Post([type |-> "conversation_reset"])
  /\ UNCHANGED inbox

ShutDown ==
  /\ ~worker.gone
  /\ worker' = [idleWorker EXCEPT !.gone = TRUE, !.draft = worker.draft]
  /\ lapsed' = lapsed \cup worker.open
  /\ Post([type |-> "worker_shutting_down"])
  /\ UNCHANGED inbox

WorkerNext ==
  \/ \E t \in Texts : TakeTurn(t)
  \/ StreamText \/ StopStreaming \/ SayText
  \/ \E t \in Tools : UseTool(t) \/ Ask(t) \/ \E failed \in BOOLEAN : FinishTool(t, failed)
  \/ Withdraw
  \/ \E failed, late \in BOOLEAN : EndTurn(failed, late)
  \/ Summarise \/ InterruptNotice \/ CommandEcho \/ Reset \/ ShutDown

-----------------------------------------------------------------------------
(* The reader. *)

SendMessage(text, delivered) ==
  /\ sends < MaxSends
  /\ sends' = sends + 1
  /\ view' = localSend(view, text, view.busy)
  /\ inbox' = IF delivered /\ ~worker.gone THEN Append(inbox, text) ELSE inbox
  /\ local' = TRUE /\ unarmed' = FALSE
  /\ UNCHANGED <<worker, history, digest, lapsed, cleared, answered, misled>>

(* An answer is dropped by a closed socket, or reaches the server and finds *)
(* no stream to the child, or arrives.                                      *)
Answer(tool, reach) ==
  /\ digest' = IF reach = "socket" THEN digest ELSE clearPendingApproval(digest)
  /\ cleared' = IF reach = "socket" THEN cleared ELSE cleared \cup ({worker.waiting} \ {None})
  /\ worker' = IF reach = "child" /\ worker.waiting = tool
               THEN [worker EXCEPT !.waiting = None, !.granted = @ \cup {tool}] ELSE worker
  /\ answered' = answered \cup {tool}
  /\ local' = TRUE
  /\ UNCHANGED <<inbox, history, sends, lapsed, unarmed, misled>>

AnswerPermission(reach) ==
  /\ view.permission # None
  /\ view' = clearPermission(view)
  /\ Answer(view.permission, reach)

AnswerCard(tool, reach) ==
  /\ \E i \in DOMAIN view.items : view.items[i] = CardOf(tool)
  /\ view' = SettleCard(view, tool)
  /\ Answer(tool, reach)

Stop ==
  /\ view.busy
  /\ view' = [view EXCEPT !.busy = FALSE, !.running = None]
  /\ unarmed' = TRUE /\ misled' = FALSE
  /\ UNCHANGED <<worker, inbox, history, digest, sends, lapsed, cleared, answered, local>>

(* Subscribe again: the backfill replaces the whole state, and `busy` comes *)
(* from the events themselves.                                              *)
Reopen ==
  /\ view' = [reduceAll(history) EXCEPT !.busy = ~worker.gone /\ turnActiveIn(history)]
  /\ answered' = {} /\ local' = FALSE /\ unarmed' = FALSE
  /\ misled' = (view'.busy /\ ~digest.turnActive)
  /\ UNCHANGED <<worker, inbox, history, digest, sends, lapsed, cleared>>

Reach == {"socket", "server", "child"}

ReaderNext ==
  \/ \E t \in Texts, delivered \in BOOLEAN : SendMessage(t, delivered)
  \/ \E reach \in Reach : AnswerPermission(reach) \/ \E t \in Asking : AnswerCard(t, reach)
  \/ Stop \/ Reopen

Next == WorkerNext \/ ReaderNext

Spec == Init /\ [][Next]_vars
-----------------------------------------------------------------------------
(* Properties. *)

Call == [tool : Tools, status : OpenStatus \cup {"ok", "error"}]

Item ==
  [kind : {"user"}, text : Texts, queued : BOOLEAN]
    \cup [kind : {"prose"}, state : {"streaming", "stopped", "final"}]
    \cup [kind : {"tools"}, calls : Seq(Call)]
    \cup [kind : {"question"}, tool : Asking, answered : BOOLEAN]
    \cup [kind : {"divider"}, label : {"reset", "disconnected"}]
    \cup [kind : {"status", "error"}]

(* The variables have the shapes the code gives them. *)
TypeOK ==
  /\ worker \in [turn : BOOLEAN, open : SUBSET Tools, waiting : Tools \cup {None},
                 granted : SUBSET Tools, draft : {"none", "streaming", "stopped"}, late : BOOLEAN, gone : BOOLEAN]
  /\ view \in [items : Seq(Item), busy : BOOLEAN, running : Tools \cup {None},
               permission : Tools \cup {None}, pendingWeb : Seq(Texts)]
  /\ digest \in [turnActive : BOOLEAN, toolStatus : {None, "running", "ok", "error"},
                 currentToolUseId : Tools \cup {None}, pendingTools : SUBSET Tools,
                 pendingApproval : BOOLEAN]
  /\ inbox \in Seq(Texts)
  /\ lapsed \subseteq Tools /\ cleared \subseteq Tools /\ answered \subseteq Tools

Count(s, Test(_)) == Cardinality({i \in DOMAIN s : Test(s[i])})

(* Every message is drawn once: a bubble for each turn stored and for each  *)
(* text sent from here whose echo is still to come.                         *)
BubblesMatchTurns ==
  \A t \in Texts :
    Count(view.items, LAMBDA it : it.kind = "user" /\ it.text = t)
      = Count(history, LAMBDA p : p = [type |-> "user_text", text |-> t])
        + Count(view.pendingWeb, LAMBDA x : x = t)

(* A bubble marked queued is one the worker has not taken.                  *)
QueuedMeansPending ==
  \A t \in Texts : Count(view.items, LAMBDA it : it = Bubble(t, TRUE)) <= Count(view.pendingWeb, LAMBDA x : x = t)

(* The transcript says work is in flight only when the worker holds the     *)
(* turn or owes one for a message sent, whatever came after the result.     *)
SpinnerHonest == view.busy => worker.turn \/ view.pendingWeb # <<>> \/ misled

(* While the worker holds the turn the reader can stop it, a reopened       *)
(* session included.                                                        *)
StopOffered == worker.turn /\ ~unarmed => view.busy

ShownOpen == {c.tool : c \in {d \in Calls(view) : d.status \in OpenStatus}}

(* The tool cards shown as running are those of the calls that are: a call  *)
(* that is over is never revived, and none is settled before its time.      *)
ToolsExact == ShownOpen = (worker.open \cup lapsed) \ Asking

ShownAsks == ({view.permission} \ {None}) \cup {t \in Asking : \E i \in DOMAIN view.items : view.items[i] = CardOf(t)}

(* An ask the worker waits on can be answered from the transcript, unless   *)
(* the reader has answered it there.                                        *)
AskShown == worker.waiting \notin answered \cup {None} => worker.waiting \in ShownAsks

(* And nothing else can: an ask withdrawn or answered in the terminal is    *)
(* gone.  One that was answered here may come back when the session is      *)
(* reopened, until its call is over; one the worker left behind stays.      *)
SheetHonest == ShownAsks \subseteq {worker.waiting} \cup worker.granted \cup lapsed

(* The badge in the session list is lit exactly while the worker waits for  *)
(* an answer the server has not been given.                                 *)
BadgeExact == digest.pendingApproval <=> worker.waiting \notin cleared \cup {None}

(* The activity line names a call that is open.                             *)
RunningLineHonest == view.running # None => view.running \in ShownOpen

(* The row in the session list is not stuck: it says a turn or a tool is    *)
(* running only when one is.                                                *)
RowHonest ==
  /\ digest.turnActive => worker.turn
  /\ digest.toolStatus = "running" => digest.currentToolUseId \in worker.open

(* What you see after reopening a session is what you saw while it          *)
(* happened, as long as only the worker acted.                              *)
ReplayMatches == local \/ worker.draft # "none" \/ view.items = reduceAll(history).items

(* The reader sees the turn as it is: each message once, waiting or taken,  *)
(* the spinner and the Stop button while there is work and no longer.       *)
TurnShown == BubblesMatchTurns /\ QueuedMeansPending /\ SpinnerHonest /\ StopOffered

(* The reader sees the calls as they are.                                   *)
CallsShown == ToolsExact /\ RunningLineHonest

(* The reader sees what is asked, in the transcript and in the list.        *)
AsksShown == AskShown /\ SheetHonest /\ BadgeExact /\ RowHonest
=============================================================================
