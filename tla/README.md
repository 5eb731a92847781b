# control-claude-code in TLA+

A specification of a system that lets a browser watch and drive `claude` processes: the server with
its accounts, environments, sessions and PostgreSQL; the channel by which a transcript reaches a
browser; what the browser makes of a worker's events; the command line, and the debugger session by
which it prepares a `claude` at its launch.

`PROJECT.json` maps every definition to the lines it models, lists the runs, the theorems, the
findings, and the hazards with the properties that cover them.

## The system

| Component | State it keeps | Operations | Talks to |
|---|---|---|---|
| Session store (`src/server/store.ts`) | `users`, `byToken`, `environments` with their queues, `sessions`, `byIngressToken`, `dirtyActivity`, `memHistory` | register, log in, create, patch, delete, touch, flush, sweep, append, load | PostgreSQL; everything on the server calls it |
| Database access (`db.ts`, `schema.sql`) | tables `users`, `environments`, `sessions`, `events` | one statement per function on ten connections; boot backfills | the store |
| REST planes (`index.ts`) | open SSE responses, failed logins, the timers | accounts, environments and work, sessions, event posts, streams, blobs | children and the CLI, the store |
| Web channel (`web-channel.ts`) | a record per browser socket: `subscribed`, `pending` | subscribe, relay, list push, notices, commands | browsers, the store |
| Browser (`ws.ts`, `App.tsx`, `session.ts`, `auth.ts`, `deeplink.ts`) | socket, backoff timer, screen, list, session shown | log in, open, leave, delete, send, answer, stop, retry | the web channel |
| Transcript (`model.ts`, `transcript.ts`; `foldDigest`) | items, `busy`, `running`, `permission`, cards, todos; the digest | fold one payload; rebuild from the store | the reader; the session list |
| Shared rules (`wire-shape.ts`, `image-blob.ts`, `task-status.ts`) | none | the shape of a payload; references for images; the end of a task | server and browser |
| Inspector client (`injector/ws-client.ts`) | socket, `_closed`, `_pending`, `_nextId`, receive buffer | connect, send, close, decode | the inspector of a process |
| Launch (`gate-rebind.ts`, `attach.ts`) | a report per gate, running pause handlers, the worker's session | locate, set breakpoints, release; at a pause reassign and resume; attach to the worker | the inspector client |
| Profiles and locators (`profiles.ts`, `anchors.ts`) | the gate tables | detect a version, choose a profile, find a gate in the bundle | the launch |
| Command line (`control-cli.ts`, `cli-auth.ts`, `tui.ts`, `update-check.ts`) | the configuration, the update cache, the logs | parse, ask, log in, launch, stop | the launch, the REST plane |

The server is one single-threaded process: code between two awaits is atomic, and what can go wrong
sits at the awaits. Statements issued in one order commit in another; a handler's snapshot is stale
when its statement returns; a failed statement leaves the cache ahead of the table; a crash takes the
cache and perhaps the statements in flight; a child reconnects before its old stream's close is
noticed; a browser asks for a second transcript while the first is being read. A worker's turn may
end in five ways, with calls open and an ask pending, and be watched by a reader who acts at any
moment; the end of a task is told in up to four ways or in none. A launched process is stopped at
each gate until a chain of calls, each of which may fail, resumes it. Two runs of the command line
share files that each reads, changes and writes back.

What makes each part correct:

- *Accounts*: a name has one owner and one token for good, accepted from its first answer on; logins
  are refused after too many failures. *Environments*: work is handed out once, in order, in the end.
- *Sessions*: a token authenticates exactly the session that holds it; a connected record can be
  written to; deletion is final; the sweep takes what is stale and nothing live; no bump is lost.
- *Events*: a row has the shape of its payload; a reference leads to its image or to none.
- *Web channel and browser*: the transcript shown is that of the session shown, whole and in order;
  there is one connection; the page comes back after every loss.
- *Transcript*: a message is drawn once; the Stop button, tool cards, asks, task cards, todos, the
  activity line and the list row say what the worker does, live and reopened.
- *Launch*: no process is left stopped; every call is settled; a gate runs unprepared only if a
  failure explains it; the profile is that of the process; a breakpoint lands in its gate or nowhere.
- *Command line*: a saved login is found again; claude is not launched with a dead token; nothing is
  left running.

## Modules

`SessionStore` has the session cache, the handlers in `index.ts` that call it and the statements on
the table `sessions`. A request is one action up to its await; its statement commits (`Commit*`) or
fails (`Fail*`) in an action of its own, in any order. `streams` are the open responses, each with the
id its handler captured. `Crash` loses all but the table, `Restart` is `load()` with the sweep at
boot. `issued`, `deleted` and `sweep.busy` are history variables.

`Accounts` has registration, login and the token check, one request per slot, broken at the hash and
at the statements; a statement may commit with its answer lost, also after the process has died
(`orphans`). It implements `AccountBook`, which says what is promised and knows no cache, no table and
no request: `Book` instantiates it with the table as the book, the names the cache accepts as the known
ones and the answers given. `Environments` extends `Accounts`: both live in one process and crash
together; it has the registration of environments around its two awaits, the queue of work, polls,
deregistration, and of a session its owner, its environment and whether a child holds a stream.

`Archive` has the event rows: batches relayed, then inserted, the boot backfill of every server, the
blob route around its await, deletion. It extends `Shapes` (`wire-shape.ts`) and `ImageBlobs`
(`image-blob.ts`), which are operators only. `Framing` has the three frame decoders of the repository
side by side, on a script of frames cut anywhere, with the sizes scaled down.

`WebChannel` is one tab reading transcripts: `PostEvent` relays and then inserts; `HandleSubscribe`,
`ReadHistory` and `FinishRead` are the three parts of the `subscribe` handler around its await.
`Browser` is the same tab around that: the socket with its backoff timer, Retry, the screens, the
list, the deep link, and the server's fan-out of lists, events and notices; a backfill is one step
there, because `WebChannel` has its parts. `excused`, `abandoned`, `doubled`, `leftover` and `unpushed`
are history variables that name what a property excepts.

`TranscriptModel` has the folds as operators named as in the code (`reduce` with its cases,
`turnActiveIn`, `foldDigest`); `Turns` is one session in use on top of it: `Post` relays, folds and
stores an event, the reader sends, answers, stops and reopens, and the worker, which is external, does
what `docs/EVENTS.md` says of the order of events. `Tasks` has the rest of the reducer, which shares
no state with that: task cards, todos, reasoning, compaction, under reports that are late or lost.

`Inspector` is the client and both launches on it. A call is settled by its answer (`Receive`), its
deadline (`Timeout`) or the socket's close (`SocketClose`); the function that awaits it goes on in
`LaunchSend`, `HandlerSend` or `AttachStep`. `OnPaused` is the synchronous part of the pause handler.
`Serve`, `Pause`, `Pass`, `Exit`, `SayClose` and the `Worker*` actions are the processes, which are
external. `Profiles` has the gate tables, the detection of the version beside the launch and the
choice of a profile; `Locator` has the locators on texts of a few tokens and on graphs of a few
modules. `CommandLine` is several runs of the command line: arguments, prompts on a pipe, the login
flow, the launch as one step, signals, exit codes, the update check and the logs.

`MCParts` composes the parts that share no state with the others (`Accounts`, `Framing`, `Archive`,
`Profiles`, `Locator`, `Tasks`): a behaviour is of one of them while the others rest in an initial
state, so that one run checks them all. `MCSessionStore`, `MCWebChannel`, `MCTurns` and `MCCommandLine`
give model values, inputs and symmetry. `SessionStore_proofs`,
`Accounts_proofs`, `Environments_proofs`, `WebChannel_proofs`, `Browser_proofs`,
`Inspector_proofs`, `CommandLine_proofs` and `Turns_proofs` hold the theorems.

Definitions named `X_Something` before an operator `X` are mutants: a plausible bug in the code `X`
models, used to see that a property notices it.

## Runs

| Run | Instance | What it shows |
|---|---|---|
| `store_safety` | 1 session, 3 tokens, 2 responses, 2 statements in flight, 1 fault, 3 ticks | `ChannelLive`: a response a record holds is open. `ForgottenRightly`: the sweep spares what it was told to keep and what was busy, and deletion is final |
| `store_two` | an /rc and an environment session, 3 tokens, 2 in flight, 1 fault | `TokenIndexExact`, `TokenMeansOneSession` |
| `store_serial` | streams that never overlap, fair timers and PostgreSQL | `LiveKept`: connected iff a stream is open, and deletion spares the living. `TimersWork`: every bump reaches its row, every stale row goes |
| `store_sweep_live` (violation) | 1 token, no faults | a session that connects during the sweep's DELETE is forgotten with its stream open |
| `web_patient` | 2 sessions, 2 events, history limit 1, 4 subscriptions, 2 faults | `ReaderHonest`: the session shown, whole and in order. `EventuallyShown` |
| `turns` | 2 tools and a question, 1 text, 6 stored events, 1 message | `TurnShown`, `CallsShown`, `AsksShown`, `ReplayMatches`: what is shown agrees with the worker, live and reopened |
| `inspector` | 2 gates, 1 sticky; interactive with 3 pauses and 2 faults, headless with a worker, 2 pauses and 1 fault | `GatesHonest`, `StopsHandled`, and `NothingHangs` under fairness |
| `control_plane` | 2 environments, 2 registrations at once, 2 sessions, 1 fault or crash | `WorkHonest`, `SessionsHonest`, `EventuallyPolled` |
| `browser` | 2 sessions, 1 event each, 1 loss, 1 Retry, 1 change of status, 2 frames under way | `CaughtUp`, `OnceOnly`, `BackOnline` |
| `command_line` | 2 runs (one interactive, one headless), 2 servers, 1 fault, 1 signal, 2 days | `AccountHonest`, `InputHonest`, `EndsWell`, `CachesHonest` |
| `parts` | below | `BookKept` (the refinement), `LockHonest`, `FramesExact`, `ArchiveHonest`, `TargetsFound`, `TasksHonest`, `PartsEnd` |
| `import_edge` (violation) | as `parts` | an import that is first or last in its clause is not followed, or followed to another file |

A property is a conjunction of named parts, each with a comment that says what it claims and about
which code: `ReaderHonest`, for one, is `ShowsOnlyActive`, `AllShown`, `OrderKept` and
`PendingMeansReading`.

Bounds. *Sessions*: three tokens let a session be made, deleted and made again while an older token is
still in a write in flight; two responses overlap; two statements in flight are enough to swap; with
TTL 1 and ticks 0..2 a row is fresh, at the limit and stale. *Web*: a limit of one with two events
makes a backfill trim, two events fill the queue, four subscriptions allow a re-opened session after a
reconnect. *Turns*: six events hold a turn with two calls in parallel, an ask between them and an end;
one message can be queued, echoed and reopened over; the two tools are symmetric. *Inspector*: a sticky
gate to the right of one that is not is what a mistaken match needs, and two faults let a second call
fail while the first is recovered from. *Control plane*: two registrations of one environment overlap
while the other environment is used; the clock, which only logins read, has one tick. *Browser*: one
loss and one Retry are what two sockets need. *Command line*: two runs are what a lost update needs.
*Parts*: two requests and two tokens for one name, with three failures and two breaks; frames of three
payload lengths, below, at and above each limit, three to a script; two servers that stamp in batches
of one, beside one post; versions on both sides of each boundary and every order of two directories;
every text of up to four tokens, in two files, for a gate and for the worker's getter, and graphs of
four modules for an export; four events of an agent, a shell and a subagent's shell, five of todos,
six of the activity line. Deadlock is not checked, because the bounds let a bounded model stop, and a
launch that threw or a run that exited is at its end.

Fairness. `SessionStore`: the two `setInterval` timers keep firing and a statement sent is answered;
requests, failures and time get none. `WebChannel`: frames arrive, SELECTs are answered, the client
reconnects. `Browser`: the newest socket opens in the end (the server can be reached again), a closing one emits `close`, the backoff timer fires. `Environments`: a
bridge polls until it deregisters, as the poll interval it is given has it do. `Inspector`: settled
promises are acted on, TCP delivers, the timer of a call that is not answered fires, a closed socket
emits `close`, and the process answers while it lives; that it reaches a gate, exits or fails gets
none. `MCParts`: a server goes on with its backfill, and a launch with its probe. `Turns`, `Tasks`,
`CommandLine`, `Framing` and `Locator` have safety properties only and assume none.

## Proved

*Sessions* (`SessionStore_proofs`). `TypeCorrect`, `TokenIndexAlwaysExact`, `ChannelAlwaysLive` and
`TokenAlwaysMeansOneSession` hold for every set of sessions, tokens and responses and every bound, from
`ConstantsOK` alone. The inductive invariant `IInv` is the conjunction of the four: the token index is
not inductive alone, since a reload rebuilds it from the rows with one entry per token, so no token may
be in two rows; and rows come from statements in flight, so the same must hold of those.
`ForgottenAlwaysRightly` rests on `SweepInv`: a statement in flight writes the time it was sent, since
none outlives a tick; at most one flush is the sweep's; the activity the sweep waits for is recent
wherever it is, in the cache, in a flush or, once that flush is done, in the row (`BusyFresh`); and a
deleted session is in no cache, row or write (`DeletedGone`). `LiveAlwaysKept` has `~ReconnectOverlaps` as
its hypothesis, which `store_serial` sets: without it the property is false, as said below. It
needs that a session has one stream and that a stream carries the token of no session but its own, which
a crash keeps true because streams end with the process (`SerialInv`).

*Accounts* (`Accounts_proofs`). `AccountsKeepTheBook` is the refinement `Spec => BookKept` for every
set of names, passwords, tokens and requests, from `AccountsOK` alone; the run has one name, the proof
shows that several do not disturb each other. `AnswersAreHonoured` carries the book's promise over to
the server: a token once answered is the name's for good and accepted whenever the process takes
requests. `TypesCorrect` is type correctness. The inductive invariant says that the cache is true to
the table (`CacheTrue`), that a registration whose row was first has not been overtaken
(`WinnersFirst`), that what a login read is still cached when it is answered (`LoginsSee`), that a dead
process has no requests (`DownIdle`), and that a token stands in one row, one registration or one
orphaned insert (`TokensApart`): without the last, a late insert could give two names one token, and
the index built by `load()` would accept only one of them. The step of the refinement has one case per
action: a statement that sends a row is `Enrol` or nothing (`SentEnrols`), the winner's answer is
`Admit`, a login's is `Tell`, and all else leaves the book alone.

*The lock* (`Accounts_proofs`). `LockAlwaysHonest` rests on `LoginsCounted`: beside what `LockHonest`
says, a name whose logins never overlapped has at most one being checked, that one read the count as it
is now, and nothing is counted beyond the limit without a time until which it locks.

*Environments* (`Environments_proofs`). The control plane is two state machines in one process.
`AccountsUndisturbed` shows that it implements `Accounts`, so the account theorems hold in it and their
invariant is there to use. `EnvTypesCorrect`, `WorkAlwaysHonest` and `SessionsAlwaysHonest` then follow
from an invariant about where tokens and work are: a token in the index leads to the account that
presents it (`IndexTrue`), a bridge presents the token of an account in the table (`BridgesTrue`), to which
its environment and sessions belong, in memory and in both tables (`OwnersTrue`); a registration waits
for an environment that memory has (`MemoryTrue`), and a session is drawn once, for one environment
(`MadeOnce`). Work is in one queue or has been handed out (`WorkPlaced`), behind all earlier work of its
environment, across the queue and what was polled from it (`WorkSorted`). `OwnersAccepted` is where the two machines meet: a restart
reads owners from one table and accounts from another, and the proof needs the account book's promise
that an answered token is entered for good.

*Web channel* (`WebChannel_proofs`). `TypesCorrect` and `OrderAlwaysKept` hold for any reader, whatever
subscriptions overlap: the events held back are in order and behind all those on the wire (`Ordered`).
`ReaderAlwaysHonest` has `PatientReader`, the constant the run `web_patient` sets, as its hypothesis: a
reader who opens a session before the last one has loaded does lose events, as said below. It needs that
one backfill is under way at most, as a frame, a handler or a history on the wire (`OneBackfill`), that
the socket serves the session that is open (`Following`), what is held back belongs to it (`HeldBackOwn`),
and where each of its events is until it is on the screen: in the table or the rows read, held back, on
the wire behind the history, or excused (`Covered`).

*Browser* (`Browser_proofs`). `CaughtUpAlways` says nothing of a page while frames are on their way, so
the invariant must say what they will do. `Feed` reads a socket's frames from the last history of the open
session, or from the screen if there is none: it starts at some number of events and the events behind
it run from there to the last one the server has, each once and in order. `ListFeed` does so for the
session list, and `Synced` claims both of the newest socket of a page that is online. Lemmas say what a
frame sent (`FeedEvent`, `FeedHistory`, `FeedOther`) and a frame that arrives (`FeedTaken`) do to a feed.
`OneAtATime` says that until Retry doubles it a connection is one socket, the newest, or one timer;
`NotedOnce` that an event noted is on no wire, and one not noted on at most one, which needs that.
`ListedExist`, what the page was ever told of does or did exist, excludes that a session appears behind
the page's back.

*Inspector* (`Inspector_proofs`). `TypesCorrect`, `GatesAlwaysHonest` and `StopsAlwaysHandled` hold for
every number of gates, names, pauses and faults, from `ConstantsOK` alone, in both styles of launch.
What the properties say of the process depends on calls, answers and events under way, so the invariant
accounts for each of them. A call on its way has no answer yet and one no longer awaited is past its
deadline (`Ids`); the launch awaits the call it is at, its last one releases the process, and the process
does not run before (`LaunchTrue`); an answer tells the truth about what was done (`AnswersTrue`), so a
breakpoint the launch is past is reported set or failed (`PlacedTrue`). There is one handler for each
pause, and once the process has gone on it only awaits its resume (`HandlersTrue`); word of a pause under
way is of the last one, about which nothing was done yet (`EventsTrue`); calls under way are about the
pause of now and the resume is the last of them (`StopTrue`): that is why a pause is never resumed by
the handler of an earlier one. `DoneTrue` and `FrameTrue` count the assignments made and those on their
way against the name the handler is at: all are made before it removes the breakpoint or resumes, unless
a failure excuses the gate. A breakpoint reported set stays so until its gate is let go, and a one-shot
one that has stopped the process is removed, or about to be, unless that failed (`BreakpointsTrue`).
`WorkerTrue` ties the steps of the attachment to how far the worker got. `Invariance` has one lemma per
action.

*Command line* (`CommandLine_proofs`). All five properties of the run hold for any number of runs, servers,
lines, argument vectors, days and logs. The invariant `CInv` says of each run what it knows
(`RunOK`) and three things of what the runs share. Of a run: the token it uses is its own or one that was
issued, and was not refused unless the backend could not be reached (`AccountOK`); while it reads, the
lines that came are those taken, the one at hand and those queued, in order, and it waits only when none is
left (`InputOK`); claude and its worker run in the phases in which the controller sees to them
(`EndOK`). Of what is shared: as long as nobody wrote over what it had not read, a whole configuration
agrees with what was saved, so does what was read since the last write, and one run writes at a time
(`FileOK`); the log directory has exactly the last runs to have started (`LogsOK`); and what the update
check holds, and tells, was published (`CheckOK`). That `parseArgs` leaves claude its words and no
others is an induction over the argument vector (`Parsed`).

*Transcript* (`Turns_proofs`). All five properties of the run hold for any number of tools, texts, events
and messages, so for histories of any length, while the run stops at six. `Replay` is the transcript that
the stored history would rebuild. A reopening may come at any time, so the invariant `Shown` claims of
`Replay` what it claims of `view`: the open calls are the worker's and those it dropped, what can be answered
is what was asked, and the activity line names an open call (`ViewOK`); the worker's asks are about calls
that are open and stored as asked, and a text in progress has no call beside it (`WorkOK`); the digest has
the ask, the turn and the call of the worker (`DigestOK`). `TurnOK` adds the bubbles, counted by text in both
transcripts, and that a turn the worker holds can be read off the history (`turnActiveIn`). `ReplayOK` says how the two transcripts may differ when
only the worker has acted: not at all, or by one draft at the end of `view`, streaming or stopped, which the next
message replaces; it needs that `Replay` has no draft anywhere, and that a failed turn left none
(`FailedLast`), which is why the notice of an interruption does not come between a draft and its message. What
`reduce` does was proved case by case first (`Keeps` and `But` say what a case leaves alone); that a rebuilt
transcript is the fold of its events is an induction over the history (`ReplayedIs`, `ReplayNext`).

Each invariant was checked with TLC on the run's instance, and where that was quick on a larger one,
before it was proved. Two things changed because of proofs: a history of another session had two
matching arms in the `CASE` of `Receive`, which TLC takes in order and TLA+ does not (it is now an `IF`;
`ParseWord` of `CommandLine` had the same); and `Browser` starts with sessions that do not exist yet,
so that their creation, which a step of the proof is about, happens in the run too. The assumptions
on the constants say only that a `None` standing for `null` or `undefined` is not one of the values it
is told apart from (`ConstantsOK`, `AccountsOK`, `BrowserOK`), that bounds are numbers, that the calls that ask a
question are calls (`Turns`), and for `CommandLine` (`CommandLineOK`) that the runs are finitely many,
an argument vector is a sequence whose `--server` values are addresses, and a line is one of the things a line can
mean.

The library's induction theorems take an operator as a parameter, which the provers cannot instantiate.
Two functions defined by recursion, `Parsed` of `CommandLine` and `Replayed` of `TranscriptModel`, are
reasoned about all the same: `Least` takes a least element from the set of numbers at which a claim fails,
which exists because `<` is well-founded (`NatLessThanWellFounded`, `WFMin`), and `Induct` states induction
for a set instead of a predicate. The definitions write folds of this kind as recursive functions for that
reason.

Only model-checked: `Tasks`, `Archive`, `Framing`, `Profiles` and `Locator`, whose properties are about
what folds and scans of small inputs compute (`Decoded`, the scans of `Locator`) and which the run `parts`
enumerates; all liveness, and ENABLED, which are out of the prover's reach.

## Where the code departs from its comments

The two violation runs are findings (see `PROJECT.json`). Others, met on the way:

- *Sessions.* The close handler of a replaced stream detaches its successor (`index.ts:303`): without
  the assumption of `store_serial`, a live session can be deleted. An upsert in flight when a session
  is deleted puts its row back (`store.ts:387`); a DELETE in flight when a session is made again
  removes the new row (`store.ts:349`); a failed flush marks forgotten sessions dirty (`store.ts:482`).
- *Accounts and environments.* Logins that overlap read one count of failures and write it back
  (`index.ts:232`). Without a database two registrations of a name both succeed (`store.ts:243`). An
  environment that registers again loses its queue (`store.ts:293`); deregistering marks sessions
  offline under an open stream (`store.ts:644`).
- *Web.* A failed history SELECT leaves a socket holding events back until the next subscribe
  (`web-channel.ts:118`); two subscribe handlers that overlap share the queue and lose events
  (`web-channel.ts:121`). Retry during the backoff timer opens a second socket, and the session may go
  quiet (`ws.ts:76`), which `docs/DESKTOP-UI.md:18` calls the thing to avoid.
- *Transcript.* `turnActiveIn` counts every user payload, the digest only visible text
  (`model.ts:1163` against the comment at 1145). `worker_shutting_down` leaves tool calls and the sheet
  open (`model.ts:605`, `docs/EVENTS.md:134`). The echo of a queued message does not mark the
  transcript busy, so its turn starts without a Stop button (`unarmed`). A permission answered here is
  asked again when the session is reopened before its call is over (`granted`). A message sent while
  text streams makes the final text be drawn twice (`local`). An answer that a closed socket or a
  missing stream drops closes the sheet all the same (`answered`). In a replay `thinking_tokens` sets
  `live.thinking`, which stored text never clears (`model.ts:393`, 652). A foreground command whose
  start fell out of the history window gets a card on reopening.
- *Launch.* A socket closed in mid-handshake leaves `connect` unsettled (`ws-client.ts:134`). A gate
  whose breakpoint is unknown makes the next one to its left be taken for it and lost
  (`gate-rebind.ts:443`). `close` sets `_closed` before `_send`, which then drops the close frame
  (`ws-client.ts:354`, comment at 311). A failed call of the attachment leaves the worker waiting
  (`gate-rebind.ts:109`); later workers of a headless launch share one port (`gate-rebind.ts:162`).
  Bytes that come with the upgrade wait for the next chunk; the ingress emits `close` twice after an
  error. A bare re-export of a renamed import makes `localFor` take the import's name, and `expSource`
  does not find bare exports of the name asked for (`NoShadow` and `Regular` except these).
- *Command line.* A token just rejected is used after all when the second check finds the backend
  unreachable (`control-cli.ts:186`, `cli-auth.ts:165`). A claude killed by a signal is reported as
  exit 0 (`control-cli.ts:336`). Two runs may undo each other's logins, and one that reads between
  truncation and write sees none (`cli-auth.ts:88`). A headless run stopped before `control-cli.ts:379`
  leaves claude waiting; a worker whose parent died first, or that starts behind the snapshot of the
  process tree, is not killed (`attach.ts:63`). An arrow key split over two chunks lands in an input.
  `latest.log` dangles when as many runs as logs are kept start between a run's making its log and linking it
  (`control-cli.ts:244`, "so the symlinks never dangle"): `CachesHonest` excepts this.

## Plan

Done: every component with state of its own has a module, and the safety of the store's index, the
accounts, the environments, the web channel, the browser, the inspector's launches, the command line and
the transcript is proved. What would add most next: `ArchiveHonest` of `Archive`, the one state machine
over stored data that has no proof; larger instances of `turns` and `inspector`, which take about a minute
each as they are.

## Not modelled

- *Web presentation* (`components`, `render`, `i18n`, `md.ts`, `styles.css`, `tools.ts`,
  `tool-summary.ts`): wording, icons and layout. No other part depends on it.
- *QR code* and its vendored generator: output only.
- *Service worker and notification permission* (`sw.js`, `notify.ts`): the browser's own state; the
  number of notices is in `Browser`.
- *Orderly shutdown* (`main.ts`): one flush before the exit, a crash after a flush to these models.
- *Legacy ingress* beyond its frames: nothing in the boot path attaches it.
- *Regular expressions over the bundle*: modelled by what they match, token by token; the script
  `extract-anchors.ts`, which maintains the tables, is run by hand.
- *The terminal's drawing and keys* (`tui.ts`), static files, the form of JSON answers, and the mode
  without a database, which the tests run on, except in `Archive`.
