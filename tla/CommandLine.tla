----------------------------- MODULE CommandLine -----------------------------
(***************************************************************************)
(* The command line: control-claude started several times in one home      *)
(* directory.  A run parses its arguments, finds out which server to talk  *)
(* to and as whom (src/control-cli.ts, src/cli-auth.ts), asking on stdin   *)
(* what it does not know (src/tui.ts), opens its log, launches claude and  *)
(* ends with it; meanwhile it looks for a newer version                    *)
(* (src/update-check.ts).                                                  *)
(*                                                                         *)
(* The runs share what is in the home directory: the configuration, which  *)
(* is read, changed across any number of prompts and requests and then     *)
(* written back, the cache of the update check, and the logs.  The server, *)
(* the registry and claude are external.  The launch is one step here:     *)
(* Inspector.tla has its calls.                                            *)
(*                                                                         *)
(* A line is what it means to the question it answers; addresses are       *)
(* normalised ones.  Left out: the terminal's drawing and its keys,        *)
(* usernames, the notice about a legacy credential file.                   *)
(***************************************************************************)
EXTENDS Naturals, Sequences, FiniteSets, SequencesExt, FiniteSetsExt

CONSTANTS
  Hosts,          \* the runs of control-claude
  Jobs,           \* what each may be given: [argv, lines], the lines piped to it
  Urls, Default,  \* backends, and DEFAULT_BACKEND
  None,
  KeepRuns,       \* KEEP_RUNS
  MaxFaults,      \* bound: requests that find nobody
  MaxSignals,     \* bound: signals sent to a run
  MaxDay          \* bound: days, the interval of the update check, on each of which a version is published

ValueFlags == {"--server", "--credential"}

(* What a line may mean: nothing, a password or token, a number in a menu,  *)
(* an address, or none of these.                                            *)
Meanings == Urls \cup {"enter", "word", "first", "second", "third", "typo"}

(* What --server is given is an address.                                    *)
AddressesGiven(argv) ==
  \A i \in DOMAIN argv : argv[i].name = "--server" =>
    IF argv[i].value # None THEN argv[i].value \in Urls
    ELSE i < Len(argv) /\ argv[i + 1].name = "word" => argv[i + 1].value \in Urls

ASSUME CommandLineOK ==
  /\ Default \in Urls /\ None \notin Urls \cup Nat \cup ValueFlags \cup Meanings
  /\ {KeepRuns, MaxDay} \subseteq Nat \ {0}
  /\ {MaxFaults, MaxSignals} \subseteq Nat
  /\ IsFiniteSet(Hosts)
  /\ \A h \in Hosts : \A job \in Jobs[h] :
       /\ job.argv \in Seq(Range(job.argv)) /\ AddressesGiven(job.argv)
       /\ job.lines \in Seq(Meanings)

VARIABLES
  host,        \* the runs
  file,        \* config.json
  check,       \* update-check.json
  logs,        \* the log directory: its runs and where latest.log points
  world,       \* the registry, the day, the faults so far
  saved,       \* history: the token last saved for each backend
  writes,      \* history: writes to config.json
  clobbered,   \* history: did a run write over what it had not read?
  learned      \* history: the version the last update check found

ghosts == <<saved, writes, clobbered, learned>>
vars == <<host, file, check, logs, world, ghosts>>

Torn == [current |-> None, backends |-> <<>>, whole |-> FALSE]
Empty == [current |-> None, backends |-> <<>>, whole |-> TRUE]

(* A backend has issued 1 and then 2, which it accepts; 0 is nobody's.      *)
Token(url, n) == [url |-> url, n |-> n]

Accepted == 2

-----------------------------------------------------------------------------
(* Arguments.  A word is its name and, for a flag, the value after its `='. *)

NoFlags == [server |-> None, credential |-> None, headless |-> FALSE, login |-> FALSE, help |-> FALSE,
            claudeArgs |-> <<>>, died |-> FALSE, expect |-> None, verbatim |-> FALSE]

IsFlag(word) == word.name # "word"

SetFlag(cli, name, value) ==
  IF name = "--server" THEN [cli EXCEPT !.server = value, !.expect = None]
  ELSE [cli EXCEPT !.credential = value, !.expect = None]

Forward(cli, word) == [cli EXCEPT !.claudeArgs = Append(@, word)]

ParseWord(cli, word) ==
  CASE cli.died -> cli
    [] ~cli.died /\ cli.verbatim -> Forward(cli, word)
    [] ~cli.died /\ ~cli.verbatim /\ cli.expect # None ->
         IF IsFlag(word) THEN [cli EXCEPT !.died = TRUE] ELSE SetFlag(cli, cli.expect, word.value)
    [] OTHER ->
       CASE word.name = "--" -> [cli EXCEPT !.verbatim = TRUE]
         [] word.name \in {"-h", "--help"} -> [cli EXCEPT !.help = TRUE]
         [] word.name = "-i" -> cli
         [] word.name \in ValueFlags /\ word.value # None -> SetFlag(cli, word.name, word.value)
         [] word.name \in ValueFlags /\ word.value = None -> [cli EXCEPT !.expect = word.name]
         [] word.name \in {"--headless", "--no-interactive"} -> [cli EXCEPT !.headless = TRUE]
         [] word.name = "--interactive" -> [cli EXCEPT !.headless = FALSE]
         [] word.name = "--login" -> [cli EXCEPT !.login = TRUE]
         [] OTHER -> Forward(cli, word)

(* What is known once so many words have been read.                         *)
Parsed(argv) ==
  LET read[n \in 0 .. Len(argv)] == IF n = 0 THEN NoFlags ELSE ParseWord(read[n - 1], argv[n])
  IN read

parseArgs(argv) ==
  LET cli == Parsed(argv)[Len(argv)]
  IN [cli EXCEPT !.died = @ \/ cli.expect # None]

-----------------------------------------------------------------------------
(* The configuration. *)

loadConfig == IF file.whole THEN file ELSE Empty

findBackend(config, url) ==
  LET at == SelectInSeq(config.backends, LAMBDA b : b.url = url)
  IN IF at = 0 THEN None ELSE config.backends[at].token

(* The backends other than that one.  Written out, as SelectSeq is a name   *)
(* that a proof cannot look behind.                                         *)
Others(backends, url) ==
  LET kept[n \in 0 .. Len(backends)] ==
        IF n = 0 THEN <<>>
        ELSE IF backends[n].url = url THEN kept[n - 1] ELSE Append(kept[n - 1], backends[n])
  IN kept[Len(backends)]

rememberBackend(config, url, token) ==
  [current |-> url, whole |-> TRUE,
   backends |-> <<[url |-> url, token |-> token]>> \o Others(config.backends, url)]

Fresh ==
  [phase |-> "off", argv |-> <<>>, lines |-> <<>>, cli |-> NoFlags,
   config |-> Empty, seen |-> 0, url |-> None, token |-> None, rejected |-> {}, excused |-> FALSE,
   script |-> <<>>, reader |-> FALSE, queued |-> <<>>, ended |-> FALSE, ask |-> None, line |-> None, taken |-> <<>>,
   run |-> 0, notice |-> None, refresh |-> [on |-> FALSE, day |-> 0, from |-> 0],
   claude |-> "none", worker |-> "none", doomed |-> FALSE, escaped |-> FALSE, claudeCode |-> None, code |-> None]

Init ==
  /\ host = [h \in Hosts |-> Fresh]
  /\ \E n \in {1, Accepted} : file \in {Empty, rememberBackend(Empty, Default, Token(Default, n))}
  /\ check = [day |-> 0, latest |-> None]
  /\ logs = [runs |-> {}, latest |-> None]
  /\ world = [published |-> 1, day |-> 1, faults |-> 0, signals |-> 0]
  /\ saved = [u \in Urls |-> findBackend(file, u)]
  /\ writes = 0 /\ clobbered = FALSE /\ learned = None

Become(h, st) == host' = [host EXCEPT ![h] = st]

(* Of a run that has ended only its end is remembered.                      *)
Exit(st, code) ==
  [Fresh EXCEPT !.phase = "exited", !.code = code, !.cli.headless = st.cli.headless, !.run = st.run,
                !.claude = st.claude, !.worker = st.worker, !.claudeCode = st.claudeCode, !.escaped = st.escaped]

-----------------------------------------------------------------------------
(* Questions, and the one reader of stdin they share. *)

(* Mutant of closePrompts: the reader keeps stdin.                          *)
closePrompts_KeepsStdin(st) == [st EXCEPT !.queued = <<>>, !.ended = FALSE, !.ask = None, !.line = None]

(* What is left on stdin is for claude.                                     *)
closePrompts(st) ==
  [st EXCEPT !.reader = FALSE, !.queued = <<>>, !.ended = FALSE, !.ask = None, !.line = None,
             !.lines = <<>>, !.script = <<>>, !.taken = <<>>]

(* readLine: a line that came early, or wait for one; when the input has    *)
(* run out, leaving the prompt is leaving the program.                      *)
Asked(st, question) ==
  LET early == st.queued # <<>>
  IN IF ~early /\ st.ended THEN Exit(closePrompts(st), 1)
     ELSE [st EXCEPT !.phase = "asking", !.ask = question, !.reader = TRUE,
                     !.line = IF early THEN Head(st.queued) ELSE None,
                     !.queued = IF early THEN Tail(@) ELSE @]

Waiting(st) == st.phase = "asking" /\ st.line = None

(* Mutant of LineIn: a line nobody waits for is dropped.                    *)
LineIn_Lost(st, line) == IF Waiting(st) THEN [st EXCEPT !.line = line] ELSE st

LineIn(st, line) ==
  IF Waiting(st) THEN [st EXCEPT !.line = line] ELSE [st EXCEPT !.queued = Append(@, line)]

OnLine(h) ==
  LET st == host[h]
  IN /\ st.reader /\ st.script # <<>>
     /\ Become(h, LineIn([st EXCEPT !.script = Tail(@)], Head(st.script)))
     /\ UNCHANGED <<file, check, logs, world, ghosts>>

InputEnded(st) ==
  IF Waiting(st) THEN Exit(closePrompts(st), 1) ELSE [st EXCEPT !.ended = TRUE]

OnEnd(h) ==
  LET st == host[h]
  IN /\ st.reader /\ st.script = <<>> /\ ~st.ended
     /\ Become(h, InputEnded(st))
     /\ UNCHANGED <<file, check, logs, world, ghosts>>

Number == [first |-> 1, second |-> 2, third |-> 3]

(* select: an empty answer is the initial choice, 0 is to be asked again.   *)
Selected(line, size, initial) ==
  CASE line = "enter" -> initial
    [] line \in DOMAIN Number /\ Number[line] <= size -> Number[line]
    [] OTHER -> 0

AddNew == "add a backend"

Menu(config) ==
  LET others == Others(config.backends, Default)
  IN <<Default>> \o [i \in DOMAIN others |-> others[i].url] \o <<AddNew>>

Initial(config) ==
  LET current == IF config.current = None THEN Default ELSE config.current
      at == {i \in DOMAIN Menu(config) : Menu(config)[i] = current}
  IN IF at = {} THEN 1 ELSE Min(at)

-----------------------------------------------------------------------------
(* Which server, and as whom. *)

AtBackend(st) ==
  LET token == findBackend(st.config, st.url)
  IN IF token # None THEN [st EXCEPT !.phase = "rechecking", !.token = token] ELSE Asked(st, "how")

runLoginFlow(st) ==
  IF st.cli.server # None THEN AtBackend([st EXCEPT !.url = st.cli.server]) ELSE Asked(st, "backend")

Start(h) ==
  /\ host[h].phase = "off"
  /\ \E job \in Jobs[h] :
       Become(h, [Fresh EXCEPT !.phase = "parsed", !.argv = job.argv, !.cli = parseArgs(job.argv),
                                !.lines = job.lines, !.script = job.lines])
  /\ UNCHANGED <<file, check, logs, world, ghosts>>

First(options) == options[SelectInSeq(options, LAMBDA o : o # None)]

(* An explicit credential bypasses everything; a saved one is used as it is *)
(* unless the server says it is dead.                                       *)
resolveAccount(st) ==
  LET config == loadConfig
      read == [st EXCEPT !.config = config, !.seen = IF file.whole THEN writes ELSE None]
      url == First(<<st.cli.server, config.current, Default>>)
      token == findBackend(config, url)
  IN IF st.cli.credential # None
     THEN [closePrompts(st) EXCEPT !.phase = "settled", !.token = st.cli.credential,
                                   !.url = First(<<st.cli.server, Default>>)]
     ELSE IF ~st.cli.login /\ token # None
     THEN [read EXCEPT !.phase = "checking", !.url = url, !.token = token]
     ELSE runLoginFlow(read)

Main(h) ==
  LET st == host[h]
  IN /\ st.phase = "parsed"
     /\ Become(h, CASE st.cli.died -> Exit(st, 2)
                    [] ~st.cli.died /\ st.cli.help -> Exit(st, 0)
                    [] OTHER -> resolveAccount(st))
     /\ UNCHANGED <<file, check, logs, world, ghosts>>

chooseBackend(st) ==
  LET options == Menu(st.config)
      n == Selected(st.line, Len(options), Initial(st.config))
  IN CASE st.ask = "address" /\ st.line \in Urls -> AtBackend([st EXCEPT !.url = st.line])
       [] st.ask = "address" /\ st.line \notin Urls -> Asked(st, "address")
       [] st.ask = "backend" /\ n = 0 -> Asked(st, "backend")
       [] st.ask = "backend" /\ n = Len(options) -> Asked(st, "address")
       [] OTHER -> AtBackend([st EXCEPT !.url = options[n]])

(* A way to log in, and what it takes.  The word is the password, and the   *)
(* token; an empty line is an answer only to select.                        *)
obtainToken(st) ==
  LET n == Selected(st.line, 2, 1)
  IN CASE st.ask = "how" -> Asked(st, IF n = 0 THEN "how" ELSE IF n = 1 THEN "user" ELSE "token")
       [] st.ask # "how" /\ st.line = "enter" -> Asked(st, st.ask)
       [] st.ask = "user" /\ st.line # "enter" -> Asked(st, "password")
       [] st.ask = "password" /\ st.line # "enter" -> [st EXCEPT !.phase = "logging in"]
       [] st.ask = "token" /\ st.line # "enter" ->
            [st EXCEPT !.phase = "verifying", !.token = Token(st.url, IF st.line = "word" THEN Accepted ELSE 0)]

Answered(st) == IF st.ask \in {"backend", "address"} THEN chooseBackend(st) ELSE obtainToken(st)

Answer(h) ==
  LET st == host[h]
  IN /\ st.phase = "asking" /\ st.line # None
     /\ Become(h, Answered([st EXCEPT !.taken = Append(@, st.line)]))
     /\ UNCHANGED <<file, check, logs, world, ghosts>>

Known(st) == IF st.token.n = Accepted THEN "ok" ELSE "rejected"

(* A run returned from the flow gives stdin back before it saves.           *)
GotToken(st) == [closePrompts(st) EXCEPT !.phase = "saving"]

(* Mutant of Usable: a token told dead is as good as any.                   *)
Usable_Always(status) == status \in {"ok", "rejected", "unreachable"}

(* Nobody answering is no reason to log in again.                           *)
Usable(status) == status # "rejected"

Checked(st, status) ==
  LET told == [st EXCEPT !.rejected = IF status = "rejected" THEN @ \cup {st.token} ELSE @]
  IN CASE st.phase = "checking" ->
            IF Usable(status) THEN [closePrompts(told) EXCEPT !.phase = "settled", !.config = Empty, !.seen = 0] ELSE runLoginFlow(told)
       [] st.phase = "rechecking" ->
            IF Usable(status) THEN [GotToken(told) EXCEPT !.excused = status = "unreachable"] ELSE Asked(told, "how")
       [] st.phase = "verifying" ->
            IF status = "ok" THEN GotToken(told) ELSE Asked(told, "how")

LoggedIn(st, status) ==
  IF status = "ok" THEN [GotToken(st) EXCEPT !.token = Token(st.url, Accepted)] ELSE Asked(st, "how")

(* The answer of the backend, or none.                                      *)
Reply(h) ==
  LET st == host[h]
  IN /\ st.phase \in {"checking", "rechecking", "verifying", "logging in"}
     /\ \E status \in {"ok", "rejected", "unreachable"} :
          /\ IF status = "unreachable"
             THEN world.faults < MaxFaults /\ world' = [world EXCEPT !.faults = @ + 1]
             ELSE /\ status = IF st.phase # "logging in" THEN Known(st)
                              ELSE IF st.line = "word" THEN "ok" ELSE "rejected"
                  /\ UNCHANGED world
          /\ Become(h, IF st.phase = "logging in" THEN LoggedIn(st, status) ELSE Checked(st, status))
     /\ UNCHANGED <<file, check, logs, ghosts>>

(* saveConfig: the file is emptied and then written.                        *)
SaveOpens(h) ==
  /\ host[h].phase = "saving"
  /\ file' = Torn
  /\ clobbered' = (clobbered \/ host[h].seen # writes)
  /\ writes' = writes + 1
  /\ Become(h, [host[h] EXCEPT !.phase = "writing"])
  /\ UNCHANGED <<check, logs, world, saved, learned>>

SaveWrites(h) ==
  LET st == host[h]
  IN /\ st.phase = "writing"
     /\ file' = rememberBackend(st.config, st.url, st.token)
     /\ writes' = writes + 1
     /\ saved' = [saved EXCEPT ![st.url] = st.token]
     /\ Become(h, [st EXCEPT !.phase = "settled", !.config = Empty, !.seen = 0])
     /\ UNCHANGED <<check, logs, world, clobbered, learned>>

-----------------------------------------------------------------------------
(* The log, the update check, the launch. *)

pruneRuns(runs) == {r \in runs : Cardinality({q \in runs : q > r}) < KeepRuns}

(* Runs are named in the order in which they start.                         *)
createLogger(h) ==
  LET run == 1 + Cardinality({g \in Hosts : host[g].run # 0})
  IN /\ host[h].phase = "settled"
     /\ logs' = [runs |-> pruneRuns(logs.runs) \cup {run}, latest |-> None]
     /\ Become(h, [host[h] EXCEPT !.phase = "linking", !.run = run])
     /\ UNCHANGED <<file, check, world, ghosts>>

isStale(day) == day - check.day >= 1

updateNotice == IF check.latest # None /\ check.latest > 1 THEN check.latest ELSE None

(* The link fails when another run has made it since it was removed.  From  *)
(* here to the launch nothing is awaited.                                   *)
Launch(h) ==
  LET st == host[h]
  IN /\ st.phase = "linking"
     /\ logs' = [logs EXCEPT !.latest = IF @ = None THEN st.run ELSE @]
     /\ Become(h, [st EXCEPT !.phase = "launching", !.notice = updateNotice, !.claude = "waiting",
                             !.refresh = [on |-> isStale(world.day), day |-> world.day, from |-> world.published]])
     /\ UNCHANGED <<file, check, world, ghosts>>

(* Mutant of Refreshed: a failed query empties the cache.                   *)
Refreshed_Forgets(day, found) == [day |-> day, latest |-> found]

Refreshed(day, found) == [day |-> day, latest |-> IF found # None THEN found ELSE check.latest]

(* refreshInBackground: what was published at some time since it asked, or  *)
(* nothing; the cache is read again and written when it comes.              *)
Refresh(h) ==
  LET st == host[h]
  IN /\ st.refresh.on
     /\ \E found \in (st.refresh.from .. world.published) \cup {None} :
          /\ IF found = None
             THEN world.faults < MaxFaults /\ world' = [world EXCEPT !.faults = @ + 1]
             ELSE UNCHANGED world
          /\ check' = Refreshed(st.refresh.day, found)
          /\ learned' = IF found # None THEN found ELSE learned
     /\ Become(h, [st EXCEPT !.refresh.on = FALSE])
     /\ UNCHANGED <<file, logs, saved, writes, clobbered>>

Alive(p) == p \in {"waiting", "up"}

(* Everything in the snapshot of the process tree, and claude.              *)
(* Mutant of killTree: the worker is left behind.                           *)
killTree_ChildOnly(st, worker) == [st EXCEPT !.claude = IF worker \/ Alive(@) THEN "dead" ELSE @]

killTree(st, worker) ==
  [st EXCEPT !.claude = IF Alive(@) THEN "dead" ELSE @, !.worker = IF worker THEN "dead" ELSE @]

Launched(h) ==
  LET st == host[h]
  IN /\ st.phase = "launching"
     /\ \/ st.claude = "waiting" /\ Become(h, [st EXCEPT !.phase = "running", !.claude = "up"])
        \/ Become(h, Exit(killTree(st, FALSE), 1))
     /\ UNCHANGED <<file, check, logs, world, ghosts>>

(* A claude that a signal ended has no code.                                *)
ExitCode(st) == IF st.cli.headless \/ st.claudeCode = None THEN 0 ELSE st.claudeCode

Polled(h) ==
  LET st == host[h]
  IN /\ st.phase = "running" /\ st.claude = "dead"
     /\ Become(h, Exit(st, ExitCode(st)))
     /\ UNCHANGED <<file, check, logs, world, ghosts>>

(* SIGTERM to the run.  A headless one stops: a snapshot of the tree, then  *)
(* the kill.  Without a handler the run just dies.                          *)
Signal(h) ==
  LET st == host[h]
      handled == st.cli.headless /\ st.phase = "running"
  IN /\ st.phase \notin {"off", "killing", "exited"}
     /\ world.signals < MaxSignals
     /\ world' = [world EXCEPT !.signals = @ + 1]
     /\ IF handled
        THEN Become(h, [st EXCEPT !.phase = "killing", !.doomed = Alive(st.claude) /\ st.worker = "up"])
        ELSE Become(h, [Exit(st, None) EXCEPT !.escaped = TRUE])
     /\ UNCHANGED <<file, check, logs, ghosts>>

Kill(h) ==
  LET st == host[h]
  IN /\ st.phase = "killing"
     /\ Become(h, Exit(killTree(st, st.doomed), 0))
     /\ UNCHANGED <<file, check, logs, world, ghosts>>

HostStep(h) ==
  \/ Main(h) \/ OnLine(h) \/ OnEnd(h) \/ Answer(h) \/ Reply(h)
  \/ SaveOpens(h) \/ SaveWrites(h) \/ createLogger(h) \/ Launch(h) \/ Refresh(h)
  \/ Launched(h) \/ Polled(h) \/ Kill(h)

-----------------------------------------------------------------------------
(* claude, the registry and the calendar. *)

(* Only a headless claude forks a worker.  One that starts once a snapshot  *)
(* is taken, or whose parent ends by itself, is beyond reach.               *)
WorkerStarts(h) ==
  LET st == host[h]
  IN /\ st.cli.headless /\ st.claude = "up" /\ st.worker = "none"
     /\ st.phase \in {"running", "killing"}
     /\ Become(h, [st EXCEPT !.worker = "up", !.escaped = @ \/ st.phase = "killing"])
     /\ UNCHANGED <<file, check, logs, world, ghosts>>

ClaudeEnds(h) ==
  LET st == host[h]
  IN /\ Alive(st.claude) /\ st.phase # "exited"
     /\ \E code \in IF st.cli.headless THEN {None} ELSE {0, 1, None} :
          Become(h, [st EXCEPT !.claude = "dead", !.claudeCode = code, !.escaped = @ \/ (st.worker = "up" /\ ~st.doomed)])
     /\ UNCHANGED <<file, check, logs, world, ghosts>>

(* A day passes, and a version is published.                                *)
Tomorrow ==
  /\ world.day < MaxDay
  /\ world' = [world EXCEPT !.day = @ + 1, !.published = @ + 1]
  /\ UNCHANGED <<host, file, check, logs, ghosts>>

Next ==
  \/ \E h \in Hosts : Start(h) \/ HostStep(h) \/ Signal(h) \/ WorkerStarts(h) \/ ClaudeEnds(h)
  \/ Tomorrow

Spec == Init /\ [][Next]_vars

-----------------------------------------------------------------------------
(* Properties. *)

Phases == {"off", "parsed", "asking", "checking", "rechecking", "verifying", "logging in", "saving", "writing",
           "settled", "linking", "launching", "running", "killing", "exited"}

Tokens == [url : Urls, n : 0 .. Accepted]

Config(c) ==
  /\ c.current \in Urls \cup {None} /\ c.whole \in BOOLEAN
  /\ c.backends \in Seq([url : Urls, token : Tokens])

(* The variables have the shapes the code gives them.                       *)
TypeOK ==
  /\ Config(file)
  /\ \A h \in Hosts :
       LET st == host[h]
       IN /\ st.phase \in Phases /\ Config(st.config)
          /\ st.url \in Urls \cup {None}
          /\ st.token \in Tokens \cup {None, st.cli.credential}
          /\ st.claude \in {"none", "waiting", "up", "dead"} /\ st.worker \in {"none", "up", "dead"}
          /\ st.code \in {0, 1, 2, None}
          /\ st.reader => st.phase \in {"asking", "logging in", "verifying", "rechecking"}
  /\ check.day \in 0 .. MaxDay /\ check.latest \in (1 .. MaxDay) \cup {None}
  /\ logs.runs \subseteq 1 .. Cardinality(Hosts)

(* A login that was saved is there to be found, whoever saved what since,   *)
(* unless a run wrote back a configuration that it had read before or       *)
(* during another's write.                                                  *)
LoginsKept ==
  ~clobbered /\ file.whole => \A u \in Urls : findBackend(file, u) = saved[u]

(* "The token is verified before it is saved": a token in the file is one   *)
(* its backend has issued.                                                  *)
TokensVerified == \A i \in DOMAIN file.backends : file.backends[i].token.n # 0

(* claude is never launched as somebody the backend has told this run it    *)
(* does not know, unless the backend could not be asked a second time.      *)
TokenNotDead ==
  \A h \in Hosts :
    host[h].phase \in {"saving", "writing", "settled", "linking", "launching", "running"} =>
      host[h].token \notin host[h].rejected \/ host[h].excused

AccountHonest == LoginsKept /\ TokensVerified /\ TokenNotDead

Unread(st) == (IF st.phase = "asking" /\ st.line # None THEN <<st.line>> ELSE <<>>) \o st.queued \o st.script

(* What is piped answers the questions in order: a line that comes while    *)
(* nothing is asked is neither lost nor read twice.                         *)
AnswersInOrder == \A h \in Hosts : host[h].reader => host[h].lines = host[h].taken \o Unread(host[h])

Separator(argv) == Min({i \in DOMAIN argv : argv[i].name = "--"} \cup {Len(argv) + 1})

Ours(argv, i) ==
  /\ i <= Separator(argv)
  /\ \/ argv[i].name \in ValueFlags \cup {"--", "-h", "--help", "-i", "--headless", "--no-interactive", "--interactive", "--login"}
     \/ i > 1 /\ argv[i - 1].name \in ValueFlags /\ argv[i - 1].value = None

Theirs(argv) == {i \in DOMAIN argv : ~Ours(argv, i)}

(* claude gets, in order, every word that is not the controller's own.      *)
ArgsForwarded ==
  \A h \in Hosts :
    LET argv == host[h].argv
        args == host[h].cli.claudeArgs
    IN ~host[h].cli.died =>
         /\ Len(args) = Cardinality(Theirs(argv))
         /\ \A i \in Theirs(argv) : args[Cardinality({j \in Theirs(argv) : j <= i})] = argv[i]

(* Nobody is left waiting for a line once the input has ended.              *)
PromptsSettle == \A h \in Hosts : Waiting(host[h]) => host[h].reader /\ ~host[h].ended

InputHonest == AnswersInOrder /\ ArgsForwarded /\ PromptsSettle

(* A run that has ended has left nothing running, unless it was not yet     *)
(* listening for signals, claude ended without its worker, or the worker    *)
(* started behind the snapshot.                                             *)
NothingLeft ==
  \A h \in Hosts : host[h].phase = "exited" /\ ~host[h].escaped => ~Alive(host[h].claude) /\ host[h].worker # "up"

(* An interactive claude that ends with an error is not reported as a       *)
(* success.                                                                 *)
ErrorReported ==
  \A h \in Hosts :
    LET st == host[h]
    IN st.phase = "exited" /\ ~st.cli.headless /\ st.claudeCode \notin {0, None} => st.code # 0

EndsWell == NothingLeft /\ ErrorReported

(* The cache knows the last version anyone was told of, whatever failed     *)
(* since and however the checks of several runs overlap; what a run         *)
(* announces is newer than itself and was published.                        *)
VersionKnown ==
  /\ check.latest = learned
  /\ \A h \in Hosts : host[h].notice # None => host[h].notice > 1 /\ host[h].notice <= world.published

(* "create both so the symlinks never dangle": latest.log leads to a log,   *)
(* unless as many runs as are kept have started while its own was starting. *)
LatestLives ==
  logs.latest \in logs.runs \cup {None} \/ Cardinality({r \in logs.runs : r > logs.latest}) >= KeepRuns

CachesHonest == VersionKnown /\ LatestLives

=============================================================================
