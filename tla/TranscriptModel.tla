--------------------------- MODULE TranscriptModel ---------------------------
(***************************************************************************)
(* What a worker's events mean.  Two folds of the same stream of payloads: *)
(* the browser's transcript (reduce, web/src/model.ts) and the digest      *)
(* behind a row of the session list (foldDigest, src/server/store.ts);     *)
(* and turnActiveIn, which reads a stored history.                         *)
(*                                                                         *)
(* A payload is a record with a `type`: the wire's type, refined by what   *)
(* the code branches on (a `user` payload is a user_text, a tool_result,   *)
(* an interrupt_notice or a command_echo; a message of several blocks is   *)
(* several payloads, since the code takes its blocks one at a time).  The  *)
(* text of prose is left out; so are reasoning, images, task cards, the    *)
(* todo list and every payload that changes none of the state below.  A    *)
(* permission request is named by its tool call, which it has one-to-one.  *)
(***************************************************************************)
EXTENDS Naturals, Sequences, SequencesExt

CONSTANTS
  None,        \* JavaScript's undefined
  Asking       \* the calls of AskUserQuestion and ExitPlanMode, drawn as cards

OpenStatus == {"running", "awaiting"}

-----------------------------------------------------------------------------
(* The transcript: a view is [items, busy, running, permission, pendingWeb]. *)

initialState == [items |-> <<>>, busy |-> FALSE, running |-> None, permission |-> None, pendingWeb |-> <<>>]

push(v, item) == [v EXCEPT !.items = Append(@, item)]

TailIs(v, kind) == v.items # <<>> /\ Last(v.items).kind = kind

SetTail(v, item) == [v EXCEPT !.items[Len(v.items)] = item]

MapItems(v, F(_)) == [v EXCEPT !.items = [i \in DOMAIN v.items |-> F(v.items[i])]]

MapCalls(v, F(_)) ==
  MapItems(v, LAMBDA it : IF it.kind = "tools"
                          THEN [it EXCEPT !.calls = [j \in DOMAIN it.calls |-> F(it.calls[j])]]
                          ELSE it)

patchCall(v, tool, status) ==
  MapCalls(v, LAMBDA c : IF c.tool = tool THEN [c EXCEPT !.status = status] ELSE c)

Calls(v) ==
  UNION {Range(v.items[i].calls) : i \in {k \in DOMAIN v.items : v.items[k].kind = "tools"}}

CardOf(tool) == [kind |-> "question", tool |-> tool, answered |-> FALSE]

SettleCard(v, tool) == MapItems(v, LAMBDA it : IF it = CardOf(tool) THEN [it EXCEPT !.answered = TRUE] ELSE it)

HasCard(v, tool) == \E i \in DOMAIN v.items : v.items[i].kind = "question" /\ v.items[i].tool = tool

\* Mutant of settleStreamed: a draft that has stopped is kept beside the message.
settleStreamed_Streaming(v) ==
  IF TailIs(v, "prose") /\ Last(v.items).state = "streaming"
  THEN SetTail(v, [kind |-> "prose", state |-> "final"])
  ELSE push(v, [kind |-> "prose", state |-> "final"])

(* The final message takes the place of the draft at the tail, if there is one. *)
settleStreamed(v) ==
  IF TailIs(v, "prose") /\ Last(v.items).state # "final"
  THEN SetTail(v, [kind |-> "prose", state |-> "final"])
  ELSE push(v, [kind |-> "prose", state |-> "final"])

appendStreamed(v) ==
  IF TailIs(v, "prose") /\ Last(v.items).state = "streaming"
  THEN v
  ELSE push(v, [kind |-> "prose", state |-> "streaming"])

(* message_stop: the newest draft still streaming stops. *)
stopStreaming(v) ==
  LET at == SelectLastInSeq(v.items, LAMBDA it : it.kind = "prose" /\ it.state = "streaming")
  IN IF at = 0 THEN v ELSE [v EXCEPT !.items[at].state = "stopped"]

(* Neighbouring calls share a card. *)
addToolCall(v, tool) ==
  LET call == [tool |-> tool, status |-> "running"]
  IN [ IF TailIs(v, "tools")
       THEN SetTail(v, [Last(v.items) EXCEPT !.calls = Append(@, call)])
       ELSE push(v, [kind |-> "tools", calls |-> <<call>>])
     EXCEPT !.running = tool ]

idle(v) == [v EXCEPT !.busy = FALSE, !.running = None]

\* Mutant of endTurn: open calls are not settled.
endTurn_KeepsCalls(v, failed) == [idle(v) EXCEPT !.permission = None]

endTurn(v, failed) ==
  LET settled(c) == IF c.status \in OpenStatus
                    THEN [c EXCEPT !.status = IF failed THEN "error" ELSE "ok"] ELSE c
      still(it) == IF it = [kind |-> "prose", state |-> "streaming"] THEN [it EXCEPT !.state = "stopped"] ELSE it
  IN [MapItems(MapCalls(idle(v), settled), still) EXCEPT !.permission = None]

Bubble(text, isQueued) == [kind |-> "user", text |-> text, queued |-> isQueued]

(* The oldest bubble of this text that is still queued is queued no more.   *)
settleQueued(v, text) ==
  LET at == SelectInSeq(v.items, LAMBDA it : it = Bubble(text, TRUE))
  IN IF at = 0 THEN v ELSE [v EXCEPT !.items[at].queued = FALSE]

takeVisibleUserTexts(v, text) == [v EXCEPT !.pendingWeb = RemoveFirst(@, text)]

(* The echo of a text sent from here has been drawn already.                *)
TakeUserText(v, text, isHistory) ==
  IF ~isHistory /\ Contains(v.pendingWeb, text)
  THEN settleQueued(takeVisibleUserTexts(v, text), text)
  ELSE LET drawn == push(v, Bubble(text, FALSE))
       IN IF isHistory THEN drawn ELSE [drawn EXCEPT !.busy = TRUE]

closeOpenPermission(v, tool) == IF v.permission = tool THEN [v EXCEPT !.permission = None] ELSE v

GroupOf(v, tool) ==
  SelectInSeq(v.items, LAMBDA it : it.kind = "tools" /\ \E c \in Range(it.calls) : c.tool = tool)

(* The activity line shows one call; when that one is done, the newest call *)
(* of its group that is still open.                                         *)
HandOverLine(v, tool) ==
  LET calls == v.items[GroupOf(v, tool)].calls
      open == SelectLastInSeq(calls, LAMBDA c : c.status \in OpenStatus)
  IN IF v.running # tool \/ GroupOf(v, tool) = 0 THEN v
     ELSE [v EXCEPT !.running = IF open = 0 THEN None ELSE calls[open].tool]

TakeToolResult(v, tool, failed) ==
  LET closed == closeOpenPermission(v, tool)
  IN IF HasCard(v, tool) THEN SettleCard(closed, tool)
     ELSE HandOverLine(patchCall(closed, tool, IF failed THEN "error" ELSE "ok"), tool)

controlRequest(v, tool) ==
  IF tool \in Asking
  THEN IF HasCard(v, tool) THEN v ELSE push(v, CardOf(tool))
  ELSE [patchCall(v, tool, "awaiting") EXCEPT !.permission = tool]

\* Mutant of controlCancel: a question is not settled.
controlCancel_SheetOnly(v, tool) ==
  IF v.permission = tool THEN [patchCall(v, tool, "running") EXCEPT !.permission = None] ELSE v

controlCancel(v, tool) ==
  LET withdrawn == IF v.permission = tool
                   THEN [patchCall(v, tool, "running") EXCEPT !.permission = None] ELSE v
  IN SettleCard(withdrawn, tool)

(* A /clear that landed has drawn its divider already. *)
slashCommand(v) ==
  IF TailIs(v, "divider") /\ Last(v.items).label = "reset" THEN v ELSE push(v, [kind |-> "status"])

reduce(v, p, isHistory) ==
  CASE p.type = "user_text" -> TakeUserText(v, p.text, isHistory)
    [] p.type = "tool_result" -> TakeToolResult(v, p.tool, p.failed)
    [] p.type = "interrupt_notice" -> push(v, [kind |-> "status"])
    [] p.type = "command_echo" -> slashCommand(v)
    [] p.type = "assistant_text" -> settleStreamed(v)
    [] p.type = "tool_use" ->
         IF p.tool \in Asking THEN v
         ELSE addToolCall(IF isHistory THEN v ELSE [v EXCEPT !.busy = TRUE], p.tool)
    [] p.type = "content_block_delta" ->
         IF isHistory THEN appendStreamed(v) ELSE [appendStreamed(v) EXCEPT !.busy = TRUE]
    [] p.type = "message_stop" -> stopStreaming(v)
    [] p.type = "result" -> IF p.failed THEN push(endTurn(v, TRUE), [kind |-> "error"]) ELSE endTurn(v, FALSE)
    [] p.type = "post_turn_summary" -> push(idle(v), [kind |-> "status"])
    [] p.type = "worker_shutting_down" -> push(idle(v), [kind |-> "divider", label |-> "disconnected"])
    [] p.type = "conversation_reset" -> push(endTurn(v, FALSE), [kind |-> "divider", label |-> "reset"])
    [] p.type = "can_use_tool" -> controlRequest(v, p.tool)
    [] p.type = "control_cancel_request" -> controlCancel(v, p.tool)

(* The transcript after the first, the second, ... payload of a history.    *)
Replayed(payloads) ==
  LET after[n \in 0 .. Len(payloads)] ==
        IF n = 0 THEN initialState ELSE reduce(after[n - 1], payloads[n], TRUE)
  IN after

reduceAll(payloads) == Replayed(payloads)[Len(payloads)]

\* Mutant of localSend: the bubble is not told whether it waits.
localSend_NoState(v, text, queued) ==
  [push(v, [kind |-> "user", text |-> text]) EXCEPT !.pendingWeb = Append(@, text), !.busy = TRUE]

(* What the reader does at once, without waiting for the worker. *)
localSend(v, text, queued) ==
  [push(v, Bubble(text, queued)) EXCEPT !.pendingWeb = Append(@, text), !.busy = TRUE]

clearPermission(v) == [patchCall(v, v.permission, "running") EXCEPT !.permission = None]

-----------------------------------------------------------------------------
(* Does a stored history end in the middle of a turn? *)

UserTypes == {"user_text", "tool_result", "interrupt_notice", "command_echo"}

EndsTurn(p) == p.type \in {"result", "conversation_reset", "post_turn_summary", "worker_shutting_down"}

\* Mutant of turnActiveIn: only a call opens a turn.
turnActiveIn_ToolsOnly(payloads) ==
  LET last == SelectLastInSeq(payloads, LAMBDA p : EndsTurn(p) \/ p.type = "tool_use")
  IN last # 0 /\ ~EndsTurn(payloads[last])

(* The newest payload that ends a turn, starts one or continues one decides. *)
turnActiveIn(payloads) ==
  LET last == SelectLastInSeq(payloads, LAMBDA p : EndsTurn(p) \/ p.type \in UserTypes \cup {"tool_use"})
  IN last # 0 /\ ~EndsTurn(payloads[last])

-----------------------------------------------------------------------------
(* The digest, with the two fields of the session record it is folded from. *)

emptyDigest ==
  [turnActive |-> FALSE, toolStatus |-> None, currentToolUseId |-> None,
   pendingTools |-> {}, pendingApproval |-> FALSE]

settle(d, failed) ==
  [d EXCEPT !.turnActive = FALSE, !.pendingTools = {}, !.pendingApproval = FALSE,
            !.toolStatus = IF @ = "running" THEN (IF failed THEN "error" ELSE "ok") ELSE @]

(* A cancel names no tool: every pending ask is taken back.                 *)
Withdrawn(d) == [d EXCEPT !.pendingTools = {}, !.pendingApproval = FALSE]

(* A request that carries no tool_use_id does not occur here. *)
foldDigest(d, p) ==
  CASE EndsTurn(p) -> settle(d, p.type = "result" /\ p.failed)
    [] p.type = "user_text" -> [d EXCEPT !.turnActive = TRUE]
    [] p.type = "tool_result" ->
         LET left == d.pendingTools \ {p.tool}
         IN [d EXCEPT !.pendingTools = left, !.pendingApproval = left # {},
                      !.toolStatus = IF p.tool = d.currentToolUseId
                                     THEN (IF p.failed THEN "error" ELSE "ok") ELSE @]
    [] p.type = "tool_use" ->
         [d EXCEPT !.toolStatus = "running", !.currentToolUseId = p.tool, !.turnActive = TRUE]
    [] p.type = "can_use_tool" ->
         [d EXCEPT !.pendingTools = @ \cup {p.tool}, !.pendingApproval = TRUE]
    [] p.type = "control_cancel_request" ->
         Withdrawn(d)
    [] OTHER -> d

clearPendingApproval(d) == [d EXCEPT !.pendingTools = {}, !.pendingApproval = FALSE]
=============================================================================
