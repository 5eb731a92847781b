------------------------------ MODULE MCParts ------------------------------
(***************************************************************************)
(* The parts that share no state with the others, checked in one run: a    *)
(* behaviour is of one of them, while the others rest in an initial state. *)
(***************************************************************************)
EXTENDS Accounts, Framing, Archive, Profiles, Locator, Tasks

VARIABLE part   \* which part the behaviour is of

-----------------------------------------------------------------------------
(* Framing: payloads below, at and above each length's limit *)

BitStrings == {<<1>>, <<0, 1, 1>>, <<1, 0, 0, 1, 1>>}
Keys == {<<0, 1>>}

-----------------------------------------------------------------------------
(* The archive: images in the content and in a result, with and without a uuid *)

Block(type, source, inner) == [type |-> type, source |-> source, inner |-> inner]
Image(data) == Block("image", Base64(data), <<>>)
Result(inner) == Block("tool_result", NoSource, inner)
Payload(type, subtype, form, content, uuid, copy) ==
  [type |-> type, subtype |-> subtype, form |-> form, content |-> content, uuid |-> uuid, copy |-> copy]
Plain(type, subtype, uuid) == Payload(type, subtype, "?", <<>>, uuid, "none")

Shot ==
  LET words == Block("text", NoSource, <<>>)
      linked == Block("image", [type |-> "url"], <<>>)
  IN  Payload("user", "?", "blocks", <<Image("d1"), Result(<<words, linked, Image("d2"), Image("d3")>>)>>,
              "u1", "bytes")
Bare == Payload("user", "?", "blocks", <<Result(<<Image("d4")>>), Block("document", NoSource, <<>>)>>,
                "no id", "none")
Delta == Plain("stream_event", "content_block_delta", "u4")
Posted == {<<Shot>>, <<Delta, Shot>>, <<Bare, Bare>>, <<Shot, Plain("system", "init", "u3")>>}
Stored == <<[session |-> "s2", payload |-> Shot],
            [session |-> "s1", payload |-> Plain("system", "something_new", "u2")]>>

-----------------------------------------------------------------------------
(* Profiles: a version at and around each boundary, found by its directory or by a probe *)

Versions ==
  {<<2, 1, 99>>, <<2, 1, 229>>, <<2, 1, 238>>, <<2, 1, 239>>, <<2, 1, 248>>, <<2, 1, 310>>, <<2, 1, 311>>,
   <<3, 0, 0>>}
Dir(state, layout, version) == [state |-> state, layout |-> layout, version |-> version]
Absent == Dir("absent", "other", NoVersion)
Claudes == {Dir("exec", l, v) : l \in {"native", "other"}, v \in Versions}
Directories ==
  {<<a, b>> : a \in {Absent, Dir("plain", "npm", <<2, 1, 300>>), Dir("exec", "npm", <<2, 1, 240>>)},
              b \in Claudes \cup {Absent}}

-----------------------------------------------------------------------------
(* Locator: every short text of a gate and of the getter, and modules up to three deep *)

TextsOf(S, longest) == UNION {[1..m -> S] : m \in 0..longest}
Marks == {Token("anchor", ""), Token("alias", "x"), Token("alias", "y"), Token("guard", "x"), Token("newline", "")}
Gates == {<<a, b>> : a \in TextsOf(Marks, 2), b \in TextsOf(Marks, 4)}

Flagged ==
  {<<a, b \o <<Token("flag", "")>> \o c>> :
     a \in {<<>>, <<Token("function", "h"), Token("flag", "")>>,
            <<Token("getter", "h"), Token("flag", ""), Token("}", "")>>},
     b \in TextsOf({Token("getter", "a"), Token("getter", "b"), Token("{", ""), Token("}", "")}, 4),
     c \in {<<>>, <<Token("status", "")>>}}

Module(exports, tabled, imports, defs) ==
  [exports |-> exports, table |-> tabled, imports |-> imports, defs |-> defs]
Import(specs, from) == [specs |-> specs, from |-> from]
\* The name alone, first, within and last in its clause.
Clauses(spec) ==
  {<<spec>>, <<spec, <<"z", "y">>>>, <<<<"z", "z">>, spec, <<"y", "y">>>>, <<<<"z", "y">>, spec>>}
Leading(exports, tabled, local, froms) ==
  {Module(exports, tabled, <<Import(c, f)>> \o next, {}) :
     c \in UNION {Clauses(<<x, local>>) : x \in {"q", local}},
     f \in froms, next \in {<<>>, <<Import(<<<<"y", "y">>>>, 4)>>}}
Entries ==
  UNION {Leading({<<"n", "e">>}, {}, "e", {2, 3}), Leading({<<"n", "n">>}, {}, "n", {2}),
         Leading({}, {<<"n", "e">>}, "e", {2}),
         {Module({<<"n", "e">>}, {}, <<>>, {"e"}), Module({}, {<<"n", "e">>}, <<>>, {"e"})}}
Barrels ==
  Leading({<<"q", "e">>}, {}, "e", {3})
    \cup {Module({<<x, x>>}, {}, <<>>, d) : x \in {"q", "e"}, d \in {{"q", "e"}, {}}}
    \cup {Module({<<"q", "e">>}, {}, <<>>, {"e"}), Module({<<"n", "e">>}, {}, <<>>, {"e", "n"})}
Leaves == {Module({<<"q", "q">>, <<"e", "e">>}, {}, <<>>, {"q", "e"}), Module({}, {}, <<>>, {"e"})}
Modules == {<<Module({}, {}, <<>>, {"e"}), a, b, c>> : a \in Entries, b \in Barrels, c \in Leaves}

-----------------------------------------------------------------------------
(* The parts *)

EventBounds == [tasks |-> 4, todos |-> 5, activity |-> 6]

ASSUME PartsOK == FramingOK /\ ArchiveOK /\ ProfilesOK /\ LocatorOK /\ TasksOK

partVars == <<part, accountVars, frameVars, archiveVars, profileVars, locatorVars, tasksVars>>

PartsInit ==
  /\ part \in {"accounts", "frames", "archive", "profiles", "locator", "tasks"}
  /\ Init
  /\ FramingInit /\ (part # "frames" => receiver = "web" /\ script = CHOOSE s \in Scripts : TRUE)
  /\ ArchiveInit /\ (part # "archive" => ~pooled)
  /\ ProfilesInit /\ (part # "profiles" => path = <<Absent, Absent>>)
  /\ IF part = "locator" THEN LocatorInit ELSE looking = "gate" /\ bundle = <<>> /\ report = Pending
  /\ TasksInit /\ (part # "tasks" => topic = "todos")

BackfillStep ==
  /\ part = "archive" /\ \E v \in Servers : Backfill(v)
  /\ UNCHANGED <<part, accountVars, frameVars, profileVars, locatorVars, tasksVars>>
LaunchStep(A) ==
  /\ part = "profiles" /\ A
  /\ UNCHANGED <<part, accountVars, frameVars, archiveVars, locatorVars, tasksVars>>

PartsNext ==
  \/ /\ part = "accounts" /\ Next
     /\ UNCHANGED <<part, frameVars, archiveVars, profileVars, locatorVars, tasksVars>>
  \/ /\ part = "frames" /\ FramingNext
     /\ UNCHANGED <<part, accountVars, archiveVars, profileVars, locatorVars, tasksVars>>
  \/ /\ part = "archive" /\ ArchiveNext
     /\ UNCHANGED <<part, accountVars, frameVars, profileVars, locatorVars, tasksVars>>
  \/ LaunchStep(ProfilesNext)
  \/ /\ part = "locator" /\ LocatorNext
     /\ UNCHANGED <<part, accountVars, frameVars, archiveVars, profileVars, tasksVars>>
  \/ /\ part = "tasks" /\ TasksNext
     /\ UNCHANGED <<part, accountVars, frameVars, archiveVars, profileVars, locatorVars>>

\* The fairness of each part.
PartsSpec ==
  /\ PartsInit /\ [][PartsNext]_partVars
  /\ WF_partVars(BackfillStep)
  /\ WF_partVars(LaunchStep(probeAnswers)) /\ WF_partVars(LaunchStep(awaitProfile))

-----------------------------------------------------------------------------
(* Properties *)

(* Every part's state has its type. *)
PartsTypeOK == TypeOK /\ FramingTypeOK /\ ArchiveTypeOK /\ ProfilesTypeOK /\ LocatorTypeOK /\ TasksTypeOK

(* A launch is injected with the profile meant for its claude (Profiles),  *)
(* and the locators find what they look for and nothing else (Locator).    *)
TargetsFound == ProfileHonest /\ LocatorHonest

(* BackfillEnds (Archive) and ProfileComes (Profiles), in one formula. *)
PartsEnd == <>[](BackfillOver /\ ~Awaiting)
=============================================================================
