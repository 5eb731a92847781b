------------------------------ MODULE Profiles ------------------------------
(***************************************************************************)
(* Which injection profile a launch uses: the gates of every profile       *)
(* (src/injector/anchors.ts:56-370, 698-800, profiles.ts:59-147), the      *)
(* choice of one by version (profiles.ts:150-195) and the detection of the *)
(* version, which runs beside the launch (profiles.ts:198-292,             *)
(* gate-rebind.ts:38-42): claude may be upgraded at any time in between.   *)
(*                                                                         *)
(* A version is a triple.  A gate keeps the names its expressions capture, *)
(* those its breakpoint's text mentions and those its statements assign    *)
(* and read; the expressions themselves are left out (Locator has them).   *)
(***************************************************************************)
EXTENDS Integers, SequencesExt, FiniteSetsExt

CONSTANTS
  PATHs,       \* what the directories of PATH may hold, in order
  MaxUpgrades  \* bound: upgrades of claude while it is launched

\* What the constants must be.
ProfilesOK == MaxUpgrades \in Nat

VARIABLES
  path,      \* what each directory of PATH holds now
  upgrades,  \* upgrades so far
  launch,    \* "idle", "detecting", "spawned" or "located"
  detected,  \* detectClaudeVersion: NoVersion, a version, or Probing
  running,   \* the version that was spawned
  chosen     \* the profile the locator is built from

profileVars == <<path, upgrades, launch, detected, running, chosen>>

-----------------------------------------------------------------------------
(* Gates: id, captured names, names in the breakpoint's text, names assigned *)

Gate(id, aliases, bp, rebinds) == [id |-> id, aliases |-> aliases, bp |-> bp, rebinds |-> rebinds]

GATE_DISPATCH_OAUTH == Gate("dispatch.oauth", {"H", "h", "g"}, {"H"}, {"H", "h", "g"})
GATE_DISPATCH_POLICY == Gate("dispatch.policy", {"R"}, {"R"}, {"R"})

GATE_DISPATCH_TRUST_LEGACY == Gate("dispatch.trust", {"W", "G"}, {"W"}, {"W", "G"})
GATE_DISPATCH_TRUST_PREFLIGHT == Gate("dispatch.trust", {"Z"}, {"Z"}, {"Z"})
GATE_DISPATCH_OAUTH_SPLIT == Gate("dispatch.oauth", {"H"}, {"H"}, {"H"})
GATE_DISPATCH_POLICY_SPLIT == Gate("dispatch.policy", {"E", "O"}, {"E"}, {"O"})
GATE_DISPATCH_TRUST_SPLIT == Gate("dispatch.trust", {"Z"}, {"Z"}, {"Z"})
GATE_BRIDGEMAIN_TRUST == Gate("bridgeMain.trust", {"t"}, {"t"}, {"t"})
GATE_BRIDGEMAIN_TOKENURL_SYNC == Gate("bridgeMain.tokenurl", {"M", "P"}, {"M"}, {"M", "P"})
GATE_BRIDGEMAIN_TOKENURL_ASYNC ==
  Gate("bridgeMain.tokenurl", {"M", "A", "P", "U"}, {"U", "A"}, {"M", "A", "P"})
GATE_BRIDGEMAIN_HTTPSCHEME == Gate("bridgeMain.httpscheme", {"U"}, {"U"}, {})
GATE_SPAWNER_SPAWN == Gate("spawner.spawn", {"L"}, {}, {})

headlessGates(oauth, policy, trust, tokenUrl) ==
  <<oauth, policy, trust, GATE_BRIDGEMAIN_TRUST, tokenUrl, GATE_BRIDGEMAIN_HTTPSCHEME, GATE_SPAWNER_SPAWN>>

(* Interactive gates: capture groups are numbered from 0; values[i] says    *)
(* which groups the value assigned to group i reads, refs which ones the    *)
(* breakpoint and its condition name.                                       *)
Interactive(id, groups, values, refs, sticky) ==
  [id |-> id, groups |-> groups, values |-> values, refs |-> refs, sticky |-> sticky]

INTERACTIVE_GATES ==
  {Interactive("int.enabled", 1, <<{}>>, {}, FALSE),
   Interactive("int.baseurl", 1, <<{}>>, {}, FALSE),
   Interactive("int.token", 1, <<{}>>, {}, FALSE),
   Interactive("int.policy", 2, <<{0}, {0, 1}>>, {0}, TRUE),
   Interactive("int.preflight", 3, <<{}, {}, {}>>, {}, TRUE),
   Interactive("int.replinit", 2, <<{}, {}>>, {0}, TRUE),
   Interactive("int.orguuid", 1, <<{}>>, {0}, TRUE),
   Interactive("int.httpscheme", 1, <<{0}>>, {0}, TRUE),
   Interactive("int.weburl", 1, <<{}>>, {}, FALSE),
   Interactive("int.qrnudge", 2, <<{0}, {0, 1}>>, {}, TRUE)}

PROFILES ==
  <<[id |-> "legacy", since |-> <<2, 1, 229>>, verifiedThrough |-> <<2, 1, 237>>,
     gates |-> headlessGates(GATE_DISPATCH_OAUTH, GATE_DISPATCH_POLICY,
                             GATE_DISPATCH_TRUST_LEGACY, GATE_BRIDGEMAIN_TOKENURL_SYNC)],
    [id |-> "preflight", since |-> <<2, 1, 238>>, verifiedThrough |-> <<2, 1, 238>>,
     gates |-> headlessGates(GATE_DISPATCH_OAUTH, GATE_DISPATCH_POLICY,
                             GATE_DISPATCH_TRUST_PREFLIGHT, GATE_BRIDGEMAIN_TOKENURL_SYNC)],
    [id |-> "async-token", since |-> <<2, 1, 239>>, verifiedThrough |-> <<2, 1, 247>>,
     gates |-> headlessGates(GATE_DISPATCH_OAUTH, GATE_DISPATCH_POLICY,
                             GATE_DISPATCH_TRUST_PREFLIGHT, GATE_BRIDGEMAIN_TOKENURL_ASYNC)],
    [id |-> "chunked-dispatch", since |-> <<2, 1, 248>>, verifiedThrough |-> <<2, 1, 310>>,
     gates |-> headlessGates(GATE_DISPATCH_OAUTH_SPLIT, GATE_DISPATCH_POLICY_SPLIT,
                             GATE_DISPATCH_TRUST_SPLIT, GATE_BRIDGEMAIN_TOKENURL_ASYNC)]>>

-----------------------------------------------------------------------------
(* The choice *)

compareVersion(a, b) ==
  LET differ == {i \in 1..3 : a[i] # b[i]}
  IN  IF differ = {} THEN 0 ELSE IF a[Min(differ)] < b[Min(differ)] THEN -1 ELSE 1

Sorted == SortSeq(PROFILES, LAMBDA p, q : compareVersion(p.since, q.since) < 0)

newestProfile == Sorted[Len(PROFILES)]

selectProfile(v) ==
  LET profile == FoldLeft(LAMBDA c, p : IF compareVersion(v, p.since) >= 0 THEN p ELSE c, Sorted[1], Sorted)
  IN  [profile |-> profile,
       note |-> CASE compareVersion(v, profile.since) < 0 -> "optimistic-older"
                  [] compareVersion(v, profile.verifiedThrough) > 0 -> "optimistic-newer"
                  [] OTHER -> "exact"]

NoVersion == <<>>
Probing == <<"probing">>
NoProfile == [note |-> "none"]

(* A directory of PATH: nothing, a file that cannot be run, or claude. *)
resolveBinPath(dirs) ==
  LET found == {i \in DOMAIN dirs : dirs[i].state = "exec"}
  IN  IF found = {} THEN {} ELSE {dirs[Min(found)]}

(* The native layout's directory name and claude-code's own package.json   *)
(* tell the version; any other layout leaves it to a probe.                *)
versionFromInstall(dirs) ==
  {c.version : c \in {x \in resolveBinPath(dirs) : x.layout \in {"native", "npm"}}}

resolveProfile(v) ==
  IF v = NoVersion THEN [profile |-> newestProfile, note |-> "undetected"] ELSE selectProfile(v)

-----------------------------------------------------------------------------
(* A launch *)

VersionNow == LET c == resolveBinPath(path) IN IF c = {} THEN NoVersion ELSE (CHOOSE x \in c : TRUE).version

ProfilesInit ==
  /\ path \in PATHs
  /\ upgrades = 0
  /\ launch = "idle"
  /\ detected = NoVersion
  /\ running = NoVersion
  /\ chosen = NoProfile

(* startProfileResolution(): the layout is read at once, or a probe started. *)
startProfileResolution ==
  /\ launch = "idle"
  /\ launch' = "detecting"
  /\ detected' = IF versionFromInstall(path) # {} THEN CHOOSE v \in versionFromInstall(path) : TRUE
                 ELSE IF resolveBinPath(path) = {} THEN NoVersion ELSE Probing
  /\ UNCHANGED <<path, upgrades, running, chosen>>

(* `claude --version` answers, or fails or takes longer than its deadline. *)
probeAnswers ==
  /\ detected = Probing
  /\ detected' \in {VersionNow, NoVersion}
  /\ UNCHANGED <<path, upgrades, launch, running, chosen>>

(* spawn(); nothing to run ends the launch. *)
spawnClaude ==
  /\ launch = "detecting"
  /\ VersionNow # NoVersion
  /\ running' = VersionNow
  /\ launch' = "spawned"
  /\ UNCHANGED <<path, upgrades, detected, chosen>>

(* await profileP, on the way to the locator. *)
awaitProfile ==
  /\ launch = "spawned"
  /\ detected # Probing
  /\ chosen' = resolveProfile(detected)
  /\ launch' = "located"
  /\ UNCHANGED <<path, upgrades, detected, running>>

(* The installer replaces claude, in place or in an earlier directory. *)
upgrade ==
  /\ upgrades < MaxUpgrades
  /\ upgrades' = upgrades + 1
  /\ path' \in PATHs \ {path}
  /\ UNCHANGED <<launch, detected, running, chosen>>

ProfilesNext == startProfileResolution \/ probeAnswers \/ spawnClaude \/ awaitProfile \/ upgrade

ProfilesSpec == ProfilesInit /\ [][ProfilesNext]_profileVars /\ WF_profileVars(probeAnswers) /\ WF_profileVars(awaitProfile)

-----------------------------------------------------------------------------
(* Properties *)

(* A version is a version, and a probe is not a place to launch from. *)
ProfilesTypeOK ==
  /\ path \in PATHs
  /\ launch \in {"idle", "detecting", "spawned", "located"}
  /\ \A v \in {detected, running} \ {NoVersion, Probing} : v \in Nat \X Nat \X Nat
  /\ running # Probing

Older(a, b) ==
  \/ a[1] < b[1]
  \/ a[1] = b[1] /\ a[2] < b[2]
  \/ a[1] = b[1] /\ a[2] = b[2] /\ a[3] < b[3]

\* The newest profile that is not newer than v, or the oldest there is.
MeantProfile(v) ==
  LET reached == {i \in DOMAIN PROFILES : ~Older(v, PROFILES[i].since)}
      Best(S, Before(_, _)) == CHOOSE i \in S : \A j \in S \ {i} : Before(PROFILES[j].since, PROFILES[i].since)
  IN  IF reached # {} THEN PROFILES[Best(reached, Older)]
                      ELSE PROFILES[Best(DOMAIN PROFILES, LAMBDA a, b : Older(b, a))]

(* A launch is injected with the profile meant for the claude it runs, and *)
(* the log says "exact" only of a version somebody measured, unless claude *)
(* was replaced under the launch or its version could not be told; then    *)
(* the newest profile is used (profiles.ts:175-195, 261-292).              *)
ProfileFits ==
  launch = "located" =>
    \/ /\ chosen.profile = MeantProfile(running)
       /\ chosen.note = "exact" => /\ ~Older(running, chosen.profile.since)
                                   /\ ~Older(chosen.profile.verifiedThrough, running)
    \/ chosen = [profile |-> MeantProfile(<<9, 0, 0>>), note |-> "undetected"] /\ detected = NoVersion
    \/ upgrades > 0 /\ detected # running

(* Whatever profile a claude is met with, the same seven guards are, and   *)
(* every name a breakpoint or a statement mentions was captured: none is   *)
(* left as the text ${X} in what is evaluated in claude (anchors.ts:56-370, *)
(* 585-588, 698-800).                                                      *)
GatesClosed ==
  launch = "located" =>
    LET gates == chosen.profile.gates
    IN  /\ {g.id : g \in Range(gates)} = {g.id : g \in Range(PROFILES[1].gates)}
        /\ Len(gates) = Cardinality({g.id : g \in Range(gates)})
        /\ \A g \in Range(gates) : g.bp \cup g.rebinds \subseteq g.aliases
        /\ \A g \in INTERACTIVE_GATES :
             /\ Len(g.values) = g.groups
             /\ g.refs \cup UNION Range(g.values) \subseteq 0..(g.groups - 1)

ProfileHonest == ProfileFits /\ GatesClosed

(* A launched claude does not wait for its profile for ever. *)
Awaiting == launch = "spawned"
ProfileComes == <>[]~Awaiting

=============================================================================
