------------------------------- MODULE Shapes -------------------------------
(***************************************************************************)
(* The shape of a payload and whether the code has decided about it        *)
(* (src/wire-shape.ts): what db.ts stores beside every event, the reducer  *)
(* asks before it drops one, and the backlog report is made of.            *)
(*                                                                         *)
(* A payload is a record with the field that discriminates its type; a     *)
(* shape is the pair of the two, the set of block types standing for the   *)
(* sorted list of them.                                                    *)
(***************************************************************************)
EXTENDS Naturals, Sequences

Families == {"system", "result", "stream_event", "control_request", "control_response"}
Talk == {"assistant", "user"}

\* The block types of a content, with "?" for a block without one.
typesOf(content) == {content[i].type : i \in DOMAIN content}

(* content is a sequence of blocks, or the text of one, or neither. *)
shapeOf(p) ==
  CASE p.type \in Families -> <<p.type, p.subtype>>
    [] p.type \in Talk -> <<p.type, IF p.form = "blocks" THEN typesOf(p.content) ELSE {p.form}>>
    [] OTHER -> <<p.type>>

-----------------------------------------------------------------------------
(* The table *)

handledSystem ==
  {"init", "thinking_tokens", "post_turn_summary", "status", "compact_boundary", "task_started",
   "task_progress", "task_updated", "task_notification", "background_tasks_changed",
   "vcs_state_changed", "worker_shutting_down", "api_error", "permission_denied", "mirror_error"}

ourRequests ==
  {"interrupt", "set_permission_mode", "set_model", "set_max_thinking_tokens", "initialize",
   "apply_flag_settings"}

bookkeeping == {"message_start", "message_delta", "content_block_start", "content_block_stop", "ping"}

ExactRules ==
  LET Of(family, subtypes) == {<<family, s>> : s \in subtypes}
      handled == Of("system", handledSystem)
                   \cup {<<"control_request", "can_use_tool">>, <<"control_cancel_request">>,
                         <<"conversation_reset">>, <<"rate_limit_event">>}
                   \cup Of("stream_event", {"content_block_delta", "message_stop"})
      ignored == Of("control_request", ourRequests) \cup Of("stream_event", bookkeeping)
                   \cup {<<"keep_alive">>}
  IN  [s \in handled \cup ignored |-> IF s \in handled THEN "handled" ELSE "ignored"]

WildRules == [f \in Talk \cup {"result", "control_response"} |->
                IF f = "control_response" THEN "ignored" ELSE "handled"]

(* An exact rule, then the family's wildcard, then nobody has decided. *)
verdictOf(shape) ==
  CASE shape \in DOMAIN ExactRules -> ExactRules[shape]
    [] shape \notin DOMAIN ExactRules /\ Len(shape) = 2 /\ shape[1] \in DOMAIN WildRules ->
         WildRules[shape[1]]
    [] OTHER -> "unknown"

blockVerdictOf(type) ==
  IF type \in {"text", "thinking", "tool_use", "tool_result", "image"} THEN "handled" ELSE "unknown"

(* Swept over a message's content and over the inner content of a result. *)
unknownBlockTypes(content) == {t \in typesOf(content) : blockVerdictOf(t) = "unknown"}

=============================================================================
