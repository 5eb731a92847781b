-------------------------------- MODULE Tasks --------------------------------
(***************************************************************************)
(* Background tasks, the todo list and the activity line: what a worker    *)
(* does beside answering, how it reports it (task_started, task_progress,  *)
(* task_updated, task_notification, background_tasks_changed, the          *)
(* <task-notification> echo, TaskCreate and TaskUpdate, thinking_tokens,   *)
(* status) and what reduce (web/src/model.ts) draws from the reports, live *)
(* and when it reads any stretch of the stored history.                    *)
(*                                                                         *)
(* Descriptions, counts, reports and the text of lines are left out: an    *)
(* item with nothing but text is a "line".  Module TranscriptModel has the *)
(* turns, tool cards and asks.  A finished task is resumed only when its   *)
(* reports are in: the model learns of the end from the last of them.      *)
(***************************************************************************)
EXTENDS Naturals, Sequences, FiniteSets, SequencesExt

CONSTANTS
  Agents,      \* tasks run in the background
  Shells,      \* commands run in the foreground, which may be moved to the background
  Owned,       \* commands run by a subagent
  Undefined,        \* JavaScript's undefined
  Topics,      \* bound: what one behaviour is about, of "tasks", "todos" and "activity"
  MaxEvents,   \* bound: events posted, by topic
  MaxTodos     \* bound: todos created

TaskIds == Agents \cup Shells \cup Owned

\* What the constants must be.
TasksOK ==
  /\ Agents \cap Shells = {} /\ Owned \cap (Agents \cup Shells) = {} /\ Undefined \notin TaskIds
  /\ Topics \subseteq {"tasks", "todos", "activity"}
  /\ MaxEvents \in [Topics -> Nat] /\ MaxTodos \in Nat

-----------------------------------------------------------------------------
(* The transcript: a view is [items, quiet, todos, thinking, compacting]. *)

initialState == [items |-> <<>>, quiet |-> {}, todos |-> <<>>, thinking |-> FALSE, compacting |-> FALSE]

push(v, item) == [v EXCEPT !.items = Append(@, item)]
Line == [kind |-> "line"]
Card(t, status, again) == [kind |-> "bgtask", task |-> t, status |-> status, resumed |-> again, detail |-> FALSE]
TailIs(v, kind) == v.items # <<>> /\ Last(v.items).kind = kind
SetTail(v, item) == [v EXCEPT !.items[Len(v.items)] = item]

\* Mutant of taskStateOf: the word of a patch for a task that was stopped is not known.
taskStateOf_NoKilled(word) ==
  IF word \in {"running", "completed", "failed"} THEN word ELSE IF word = "stopped" THEN "interrupted" ELSE Undefined

\* The state a word of the wire stands for, if anyone has decided about it.
taskStateOf(word) ==
  IF word \in {"running", "completed", "failed"} THEN word
  ELSE IF word \in {"stopped", "killed"} THEN "interrupted" ELSE Undefined

\* Mutant of EndState: a word nobody decided about is kept.
EndState_Raw(word) == taskStateOf(word)

EndState(word) == IF taskStateOf(word) \in {"completed", "failed"} THEN taskStateOf(word) ELSE "interrupted"

\* The newest card of the task, or 0.
taskCardAt(v, t) == SelectLastInSeq(v.items, LAMBDA it : it.kind = "bgtask" /\ it.task = t)

\* A quiet task gets no card; a start of a finished one is another run, with a card of its own.
taskStarted(v, t) ==
  LET at == taskCardAt(v, t)
  IN IF t \in Shells \cup Owned THEN [v EXCEPT !.quiet = @ \cup {t}]
     ELSE IF at # 0 /\ v.items[at].status = "running" THEN v
     ELSE push(v, Card(t, "running", at # 0))

\* The end of a task: the card it has, or one made for it.
taskNotification(v, t, word) ==
  LET at == taskCardAt(v, t)
  IN IF t \in v.quiet THEN v
     ELSE IF at # 0 THEN [v EXCEPT !.items[at].status = EndState(word)]
     ELSE push(v, Card(t, EndState(word), FALSE))

\* The echo of a user message may end several tasks.
taskEcho(v, tasks, word) == FoldLeft(LAMBDA acc, t : taskNotification(acc, t, word), v, SetToSeq(tasks))

\* A quiet command moved to the background earns its card; a status is taken if its word is known.
taskUpdated(v, t, word, backgrounded) ==
  LET earned == IF backgrounded /\ t \in v.quiet \ Owned
                THEN push([v EXCEPT !.quiet = @ \ {t}], Card(t, "running", FALSE)) ELSE v
      at == taskCardAt(earned, t)
  IN IF at = 0 \/ taskStateOf(word) = Undefined THEN earned
     ELSE [earned EXCEPT !.items[at].status = taskStateOf(word)]

taskProgress(v, t) ==
  LET at == taskCardAt(v, t)
  IN IF at = 0 \/ v.items[at].status # "running" THEN v ELSE [v EXCEPT !.items[at].detail = TRUE]

\* Every card that runs, for a task of the set, is settled.
SettleCards(v, ts, status) ==
  LET settled(it) == IF it.kind = "bgtask" /\ it.status = "running" /\ it.task \in ts
                     THEN [it EXCEPT !.status = status] ELSE it
  IN [v EXCEPT !.items = FoldLeft(LAMBDA acc, it : Append(acc, settled(it)), <<>>, @)]

snapshotTodos(v) ==
  LET card == [kind |-> "todo", tasks |-> v.todos]
  IN IF TailIs(v, "todo") THEN SetTail(v, card) ELSE push(v, card)

\* A task created is named by its call until the result tells its number.
applyTodoTool(v, e) ==
  LET at == SelectInSeq(v.todos, LAMBDA td : td.key = e.key)
      todos == IF at = 0 THEN Append(v.todos, [key |-> e.key, status |-> e.status])
               ELSE [v.todos EXCEPT ![at].status = e.status]
  IN snapshotTodos([v EXCEPT !.todos = SelectSeq(todos, LAMBDA td : td.status # "deleted")])

learnTodoId(v, call, n) ==
  LET at == SelectInSeq(v.todos, LAMBDA td : td.key = call)
      todos == [v.todos EXCEPT ![at].key = <<"task", n>>]
      card == SelectLastInSeq(v.items, LAMBDA it : it.kind = "todo")
  IN IF at = 0 THEN v
     ELSE [v EXCEPT !.todos = todos, !.items = IF card = 0 THEN @ ELSE [@ EXCEPT ![card].tasks = todos]]

idle(v) == [v EXCEPT !.thinking = FALSE, !.compacting = FALSE]

markThinking(v) == IF TailIs(v, "thinking") THEN v ELSE push(v, [kind |-> "thinking"])

markUnknown(v) ==
  IF TailIs(v, "unknown") THEN SetTail(v, [Last(v.items) EXCEPT !.count = @ + 1])
  ELSE push(v, [kind |-> "unknown", count |-> 1])

\* What an assistant's or user's block says of reasoning counts only as it happens.
Reasoning(v, yes, isHistory) == IF isHistory THEN v ELSE [v EXCEPT !.thinking = yes]

taskVerdictOf(type) ==
  IF type = "keep_alive" THEN "ignored" ELSE IF type = "something_new" THEN "unknown" ELSE "handled"

reduce(v, e, isHistory) ==
  CASE taskVerdictOf(e.type) = "ignored" -> v
    [] taskVerdictOf(e.type) = "unknown" -> markUnknown(v)
    [] e.type = "task_started" -> taskStarted(v, e.task)
    [] e.type = "task_notification" -> taskNotification(v, e.task, e.word)
    [] e.type = "echo" -> taskEcho(v, e.tasks, e.word)
    [] e.type = "background_tasks_changed" -> SettleCards(v, TaskIds \ e.tracked, "completed")
    [] e.type = "task_progress" -> taskProgress(v, e.task)
    [] e.type = "task_updated" -> taskUpdated(v, e.task, e.word, e.backgrounded)
    [] e.type = "worker_shutting_down" -> push(SettleCards(idle(v), TaskIds, "interrupted"), Line)
    [] e.type = "todo_tool" -> applyTodoTool(v, e)
    [] e.type = "todo_result" -> learnTodoId(v, e.key, e.n)
    [] e.type = "conversation_reset" -> push([idle(v) EXCEPT !.todos = <<>>], [kind |-> "divider"])
    [] e.type = "thinking_tokens" -> [v EXCEPT !.thinking = TRUE]
    [] e.type = "thinking" -> markThinking(Reasoning(v, TRUE, isHistory))
    [] e.type = "user" -> push(Reasoning(v, FALSE, isHistory), Line)
    [] e.type \in {"text", "tool_use"} -> push(Reasoning(v, FALSE, isHistory), Line)
    [] e.type = "compacting" -> [v EXCEPT !.compacting = TRUE]
    [] e.type = "compact_result" -> LET done == [v EXCEPT !.compacting = FALSE] IN IF e.ok THEN done ELSE push(done, Line)
    [] e.type = "compact_boundary" -> push([v EXCEPT !.compacting = FALSE], [kind |-> "divider"])
    [] e.type = "result" -> idle(v)
    [] e.type = "post_turn_summary" -> push(idle(v), Line)
    [] e.type = "notice" -> push(v, Line)

reduceAll(events, isHistory) == FoldLeft(LAMBDA v, e : reduce(v, e, isHistory), initialState, events)

-----------------------------------------------------------------------------
(* The worker *)

VARIABLES
  topic,       \* what this behaviour is about
  runs,        \* the runs of each task: how each ended and what was told of it
  freed,       \* the shells moved to the background
  todoList,    \* the worker's own list: numbers and states
  created,     \* todos created in this conversation
  creating,    \* calls of TaskCreate without a result
  doing,       \* what the turn is at
  lost,        \* history: the end of a compaction was not reported
  posted       \* the events posted

taskVars == <<runs, freed>>
todoVars == <<todoList, created, creating>>
turnVars == <<doing, lost>>
tasksVars == <<topic, taskVars, todoVars, turnVars, posted>>

\* outcome: Undefined while it runs; told: its end was reported; guess: what else settled its card.
NewRun == [outcome |-> Undefined, told |-> FALSE, guess |-> Undefined]
Outcomes == {"completed", "interrupted", "odd"}   \* a failure is told as a completion is

Started(t) == runs[t] # <<>>
Running(t) == Started(t) /\ Last(runs[t]).outcome = Undefined
Ended(t) == Started(t) /\ ~Running(t)

Post(e) == Len(posted) < MaxEvents[topic] /\ posted' = Append(posted, e)

TasksInit ==
  /\ topic \in Topics
  /\ runs = [t \in TaskIds |-> <<>>]
  /\ freed = {}
  /\ todoList = {}
  /\ created = 0
  /\ creating = {}
  /\ doing = "idle"
  /\ lost = FALSE
  /\ posted = <<>>

\* A task is started, a finished agent also resumed.
Start(t) ==
  /\ topic = "tasks"
  /\ ~Started(t) \/ (t \in Agents /\ Ended(t) /\ Last(runs[t]).told)
  /\ runs' = [runs EXCEPT ![t] = Append(@, NewRun)]
  /\ Post([type |-> "task_started", task |-> t])
  /\ UNCHANGED <<topic, freed, todoVars, turnVars>>

\* A frame of a task that runs, or a late one.
Progress(t) ==
  /\ topic = "tasks" /\ Started(t)
  /\ Post([type |-> "task_progress", task |-> t])
  /\ UNCHANGED <<topic, taskVars, todoVars, turnVars>>

Background(t) ==
  /\ topic = "tasks" /\ t \in Shells \cup Owned /\ Running(t) /\ t \notin freed
  /\ freed' = freed \cup {t}
  /\ Post([type |-> "task_updated", task |-> t, word |-> Undefined, backgrounded |-> TRUE])
  /\ UNCHANGED <<topic, runs, todoVars, turnVars>>

\* What settles the cards of several tasks at once, whatever became of them.
Guess(S, status) ==
  runs' = [t \in TaskIds |-> [i \in DOMAIN runs[t] |->
             IF t \in S /\ i = Len(runs[t]) /\ ~runs[t][i].told /\ runs[t][i].guess = Undefined
             THEN [runs[t][i] EXCEPT !.guess = status] ELSE runs[t][i]]]

\* A task ends, or its process dies with it; nothing is said yet.
End(t, outcome) ==
  /\ topic = "tasks" /\ Running(t)
  /\ runs' = [runs EXCEPT ![t][Len(runs[t])].outcome = outcome]
  /\ UNCHANGED <<topic, freed, todoVars, turnVars, posted>>

\* The three reports of an end, each with its own word for a task that was stopped.
Word(outcome, stopped) == IF outcome = "interrupted" THEN stopped ELSE outcome
Tell(S) == runs' = [t \in TaskIds |-> IF t \in S THEN [runs[t] EXCEPT ![Len(runs[t])].told = TRUE] ELSE runs[t]]

Patch(t) ==
  /\ topic = "tasks" /\ Ended(t)
  /\ LET outcome == Last(runs[t]).outcome
     IN /\ Post([type |-> "task_updated", task |-> t, word |-> Word(outcome, "killed"), backgrounded |-> FALSE])
        /\ IF outcome = "odd" THEN UNCHANGED runs ELSE Tell({t})
  /\ UNCHANGED <<topic, freed, todoVars, turnVars>>

Notify(t) ==
  /\ topic = "tasks" /\ Ended(t)
  /\ Post([type |-> "task_notification", task |-> t, word |-> Word(Last(runs[t]).outcome, "stopped")])
  /\ Tell({t})
  /\ UNCHANGED <<topic, freed, todoVars, turnVars>>

\* The echo of one end, or the sweep of all that stopped with their process.
Echo(S) ==
  /\ topic = "tasks" /\ S # {}
  /\ \A t \in S : Ended(t)
  /\ \E outcome \in Outcomes :
       /\ \A t \in S : Last(runs[t]).outcome = outcome
       /\ Post([type |-> "echo", tasks |-> S, word |-> Word(outcome, "killed")])
  /\ Tell(S)
  /\ UNCHANGED <<topic, freed, todoVars, turnVars>>

TrackedChanged ==
  /\ topic = "tasks"
  /\ LET tracked == {t \in TaskIds : Running(t)}
     IN Post([type |-> "background_tasks_changed", tracked |-> tracked]) /\ Guess({t \in TaskIds : Ended(t)}, "completed")
  /\ UNCHANGED <<topic, freed, todoVars, turnVars>>

\* The process says that it goes, and its tasks go with it.
ShutDown ==
  /\ topic = "tasks"
  /\ Post([type |-> "worker_shutting_down"])
  /\ runs' = [t \in TaskIds |-> [i \in DOMAIN runs[t] |->
                LET r == runs[t][i]
                IN IF r.told \/ r.guess # Undefined THEN r
                   ELSE [r EXCEPT !.guess = "interrupted", !.outcome = IF @ = Undefined THEN "interrupted" ELSE @]]]
  /\ UNCHANGED <<topic, freed, todoVars, turnVars>>

\* An event that only draws something, or nothing.
Notice ==
  /\ topic = "todos"
  /\ \E type \in {"notice", "something_new", "keep_alive"} : Post([type |-> type])
  /\ UNCHANGED <<topic, taskVars, todoVars, turnVars>>

TaskCreate ==
  /\ topic = "todos" /\ created + Cardinality(creating) < MaxTodos
  /\ LET call == <<"call", CHOOSE n \in 1 .. MaxTodos : <<"call", n>> \notin creating /\ n > created>>
     IN /\ creating' = creating \cup {call}
        /\ Post([type |-> "todo_tool", key |-> call, status |-> "pending"])
  /\ UNCHANGED <<topic, taskVars, todoList, created, turnVars>>

\* Calls made at once are answered in any order.
TaskCreated(call) ==
  /\ call \in creating
  /\ creating' = creating \ {call}
  /\ created' = created + 1
  /\ todoList' = todoList \cup {[key |-> <<"task", created + 1>>, status |-> "pending"]}
  /\ Post([type |-> "todo_result", key |-> call, n |-> created + 1])
  /\ UNCHANGED <<topic, taskVars, turnVars>>

TaskUpdate(todo, status) ==
  /\ todo \in todoList /\ status # todo.status
  /\ todoList' = (todoList \ {todo}) \cup (IF status = "deleted" THEN {} ELSE {[todo EXCEPT !.status = status]})
  /\ Post([type |-> "todo_tool", key |-> todo.key, status |-> status])
  /\ UNCHANGED <<topic, taskVars, created, creating, turnVars>>

\* /clear: the list goes with the conversation.
Reset ==
  /\ topic = "todos" /\ creating = {}
  /\ todoList' = {} /\ created' = 0
  /\ Post([type |-> "conversation_reset"])
  /\ UNCHANGED <<topic, taskVars, creating, turnVars>>

Turn(from, to, e) ==
  /\ topic = "activity" /\ doing \in from
  /\ doing' = to
  /\ Post(e)

TakeTurn == Turn({"idle"}, "working", [type |-> "user"])
Think == \E type \in {"thinking", "thinking_tokens"} : Turn({"working", "thinking"}, "thinking", [type |-> type])
Say == Turn({"working", "thinking"}, "working", [type |-> "text"])
SayLast == Turn({"idle"}, "idle", [type |-> "text"])
UseTool == Turn({"working", "thinking"}, "working", [type |-> "tool_use"])
Compact == Turn({"working"}, "compacting", [type |-> "compacting"])
Compacted == \E e \in {[type |-> "compact_boundary"]} \cup [type : {"compact_result"}, ok : BOOLEAN] : Turn({"compacting"}, "working", e)

Act ==
  /\ \/ (TakeTurn \/ Think \/ Say \/ SayLast \/ UseTool \/ Compact) /\ UNCHANGED lost
     \/ Compacted /\ lost' = FALSE
  /\ UNCHANGED <<topic, taskVars, todoVars>>

CompactedUnheard ==
  /\ doing = "compacting"
  /\ doing' = "working" /\ lost' = TRUE
  /\ UNCHANGED <<topic, taskVars, todoVars, posted>>

TurnEnds ==
  /\ \E type \in {"result", "post_turn_summary"} : Turn({"working", "thinking"}, "idle", [type |-> type])
  /\ lost' = FALSE
  /\ UNCHANGED <<topic, taskVars, todoVars>>

TasksNext ==
  \/ \E t \in TaskIds :
       Start(t) \/ Progress(t) \/ Background(t) \/ Patch(t) \/ Notify(t) \/ \E o \in Outcomes : End(t, o)
  \/ \E S \in SUBSET TaskIds : Echo(S)
  \/ TrackedChanged \/ ShutDown \/ Notice
  \/ TaskCreate \/ Reset
  \/ \E call \in creating : TaskCreated(call)
  \/ \E todo \in todoList, st \in {"pending", "in_progress", "deleted"} : TaskUpdate(todo, st)
  \/ Act \/ CompactedUnheard \/ TurnEnds

TasksSpec == TasksInit /\ [][TasksNext]_tasksVars

-----------------------------------------------------------------------------
(* Properties *)

View(n) == reduceAll(SubSeq(posted, n, Len(posted)), TRUE)   \* read back from the n-th event on
Live == reduceAll(posted, FALSE)

CardsOf(v, t) == SelectSeq(v.items, LAMBDA it : it.kind = "bgtask" /\ it.task = t)

\* The lists, flags and cards of the transcript have their types, whatever the worker says.
TasksTypeOK ==
  LET v == Live
  IN /\ v.quiet \subseteq TaskIds
     /\ {v.thinking, v.compacting} \subseteq BOOLEAN
     /\ \A i \in DOMAIN v.items : v.items[i].kind = "bgtask" =>
          v.items[i].task \in TaskIds /\ v.items[i].status \in {"running", "completed", "failed", "interrupted"}

\* What a card may say of a run.
Says(r) ==
  IF r.told THEN IF r.outcome = "odd" THEN "interrupted" ELSE r.outcome
  ELSE IF r.guess # Undefined THEN r.guess ELSE "running"

\* However much of the history is read, the newest card of a task says how its last run ended as
\* soon as any report says so, in whichever words and order the reports come, and is not brought
\* back to life by a late one.  (model.ts:465-586, 777-831, task-status.ts:33-66)
CardsTrue ==
  \A n \in 1 .. Len(posted) :
    LET v == View(n)
    IN \A t \in TaskIds : Len(CardsOf(v, t)) > 0 => Last(CardsOf(v, t)).status = Says(Last(runs[t]))

\* In the whole transcript every run of a background task has a card of its own, in order, each with
\* the end of its own run; a foreground command has none unless it was moved to the background, and
\* a subagent's command never has one.  (model.ts:465-492, 572-576, 740-751)
RunsKept ==
  \A t \in TaskIds :
    LET cards == CardsOf(Live, t)
    IN IF t \in Agents \cup (freed \cap Shells)
       THEN /\ Len(cards) = Len(runs[t])
            /\ \A i \in DOMAIN cards : cards[i].status = Says(runs[t][i]) /\ cards[i].resumed = (i > 1)
       ELSE Len(cards) = 0

CardsHonest == CardsTrue /\ RunsKept

\* The transcript's list is the worker's, with the calls whose number is not known yet, whatever
\* the order of their results; and the newest todo card shows it, unless the conversation was reset
\* since.  (model.ts:275-315, 1039-1049)
TodosTrue ==
  LET v == Live
      card == SelectLastInSeq(v.items, LAMBDA it : it.kind = "todo")
      reset == SelectLastInSeq(v.items, LAMBDA it : it.kind = "divider")
  IN /\ Range(v.todos) = todoList \cup [key : creating, status : {"pending"}]
     /\ Len(v.todos) = Cardinality(Range(v.todos))
     /\ card > reset => v.items[card].tasks = v.todos

\* The activity line says that the model thinks or compacts exactly while it does, but for a
\* compaction whose end nobody reported, which the end of the turn ends; and a transcript read back
\* after the turn claims neither.  (model.ts:393-397, 426-433, 629-668, 915-926)
ActivityHonest ==
  /\ Live.thinking <=> doing = "thinking"
  /\ Live.compacting <=> doing = "compacting" \/ lost
  /\ doing = "idle" => \A n \in 1 .. Len(posted) : LET v == View(n) IN ~v.thinking /\ ~v.compacting

TasksHonest == CardsHonest /\ TodosTrue /\ ActivityHonest
=============================================================================
