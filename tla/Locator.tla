------------------------------- MODULE Locator -------------------------------
(***************************************************************************)
(* The locators that run inside the paused claude (src/injector/           *)
(* anchors.ts:380-545, 590-660, 800-999): they read the embedded bundle,   *)
(* Bun.main first and then every chunk in directory order, and say where   *)
(* each breakpoint goes and what minified names its statements use.        *)
(*                                                                         *)
(* Source text is a sequence of tokens, one for each thing an expression   *)
(* looks for, and a distance is a number of tokens.  For the interactive   *)
(* gates a chunk is its import and export clauses and its functions.       *)
(* Left out: the reject site of a worker's --sdk-url check, the            *)
(* interactive gates found by a string, and the caches.                    *)
(***************************************************************************)
EXTENDS Naturals, FiniteSetsExt, SequencesExt

CONSTANTS
  Back, Fwd,    \* windowBack and windowFwd of the gate
  LookBack,     \* how far zeroArgFnAround looks (600)
  Answers,      \* how far it looks for the verdict (300)
  HOPS,         \* how many files resolveExport asks (12)
  Wanted,       \* the export name asked for
  Names,        \* names that modules export and import
  GateBundles,  \* bundles: sequences of token sequences, Bun.main first
  FlagBundles,
  ModuleBundles \* sequences of chunks, Bun.main first

\* What the constants must be.
LocatorOK == {Back, Fwd, LookBack, Answers, HOPS} \subseteq Nat

VARIABLES
  looking,   \* "gate", "flag" or "export"
  bundle,
  report     \* what the locator leaves in globalThis, or Pending

locatorVars == <<looking, bundle, report>>

Pending == [error |-> "pending"]
NotFound(error) == [error |-> error]

-----------------------------------------------------------------------------
(* Text *)

Token(t, v) == [t |-> t, v |-> v]
At(tokens, S) == {i \in DOMAIN tokens : tokens[i] \in S}

(* Sources are searched in order; a hit is a file and a place in it. *)
Hits(S) == {<<f, k>> \in UNION {{f} \X DOMAIN bundle[f] : f \in DOMAIN bundle} : bundle[f][k] \in S}
Before(a, b) == a[1] < b[1] \/ (a[1] = b[1] /\ a[2] < b[2])
First(H) == {h \in H : \A x \in H \ {h} : Before(h, x)}

findSource(S) == First(Hits(S))
findSourceWhere(S, accepted) == First(Hits(S) \cap accepted)

(* Offsets of the newlines, bisected for those before idx: the line and the column. *)
lineTable(s) == SetToSortSeq(At(s, {Token("newline", "")}), <)

absLineCol(s, idx) ==
  LET t == lineTable(s)
      Bisect[lo \in 0..Len(t), hi \in 0..Len(t)] ==
        LET mid == (lo + hi) \div 2
        IN  IF lo >= hi THEN lo ELSE IF t[mid + 1] < idx THEN Bisect[mid + 1, hi] ELSE Bisect[lo, mid]
      line == Bisect[0, Len(t)]
  IN  [line |-> line, col |-> IF line = 0 THEN idx - 1 ELSE idx - (t[line] + 1)]

-----------------------------------------------------------------------------
(* A headless gate: an anchor, the alias its guard calls, and the guard *)

Anchor == {Token("anchor", "")}
Aliases(s) == {x \in Range(s) : x.t = "alias"}
Window(s, k) == SubSeq(s, Max({1, k - Back}), Min({Len(s), k + Fwd - 1}))

(* The gate against one hit of its anchor. *)
resolveAt(s, k) ==
  LET win == Window(s, k)
      alias == {i \in DOMAIN win : win[i].t = "alias"}
      name == win[Min(alias)].v
      guard == At(win, {Token("guard", name)})
  IN  IF alias = {} THEN NotFound("alias-not-found")
      ELSE IF guard = {} THEN NotFound("bp-substr-not-found")
      ELSE [error |-> "", alias |-> name, idx |-> Max({1, k - Back}) + Min(guard) - 1]

(* Mutant of LocateGate: the first hit of the anchor is taken for the gate's. *)
LocateGate_FirstHit ==
  LET at == findSource(Anchor)
  IN  IF at = {} THEN NotFound("anchor-not-found")
      ELSE LET h == CHOOSE x \in at : TRUE
               r == resolveAt(bundle[h[1]], h[2])
           IN  IF r.error # "" THEN r
               ELSE [error |-> "", file |-> h[1], at |-> absLineCol(bundle[h[1]], r.idx), alias |-> r.alias]

(* The first hit the whole shape resolves against, else the first hit's error. *)
LocateGate ==
  LET resolving == {h \in Hits(Anchor) : resolveAt(bundle[h[1]], h[2]).error = ""}
      whole == findSourceWhere(Anchor, resolving)
      at == IF whole # {} THEN whole ELSE findSource(Anchor)
  IN  IF at = {} THEN NotFound("anchor-not-found")
      ELSE LET h == CHOOSE x \in at : TRUE
               r == resolveAt(bundle[h[1]], h[2])
           IN  IF r.error # "" THEN r
               ELSE [error |-> "", file |-> h[1], at |-> absLineCol(bundle[h[1]], r.idx), alias |-> r.alias]

-----------------------------------------------------------------------------
(* The worker's allowlist getter: the function around its read of the flag *)

Flag == {Token("flag", "")}
Opens(x) == x.t \in {"getter", "function", "{"}
Lookback(s, k) == {i \in Max({1, k - LookBack})..(k - 1) : s[i].t = "getter"}

(* The last zero-argument function of the lookback that is still open at k. *)
zeroArgFnAround(s, k) ==
  LET open == {i \in Lookback(s, k) : \A j \in i..(k - 1) :
                 Cardinality({n \in i..j : s[n].t = "}"}) < Cardinality({n \in i..j : Opens(s[n])})}
  IN  IF open = {} THEN {} ELSE {s[Max(open)].v}

Reads ==
  {h \in Hits(Flag) :
     LET s == bundle[h[1]]  k == h[2]
     IN  zeroArgFnAround(s, k) # {} /\ \E i \in k..Min({Len(s), k + Answers - 1}) : s[i].t = "status"}

LocateChild ==
  LET at == findSourceWhere(Flag, Reads)
  IN  IF at = {} THEN NotFound("dHs null")
      ELSE LET h == CHOOSE x \in at : TRUE
           IN  [error |-> "", file |-> h[1], dHs |-> CHOOSE n \in zeroArgFnAround(bundle[h[1]], h[2]) : TRUE]

-----------------------------------------------------------------------------
(* An export: the module graph *)

(* A chunk: [table, exports, imports, defs].  table and exports pair a name *)
(* with a local; an import is a sequence of specs pairing a name with a     *)
(* local, and the file they come from; defs are the functions it declares.  *)
(* A pair of equal names is written bare.                                   *)
Renamed(pair) == pair[1] # pair[2]
Specs(c) == UNION {{i} \X DOMAIN c.imports[i].specs : i \in DOMAIN c.imports}
SpecAt(c, p) == c.imports[p[1]].specs[p[2]]

\* Where ` as n,` or ` as n}` stands: the imports come before the exports.
ImportedAs(c, n) == {p \in Specs(c) : Renamed(SpecAt(c, p)) /\ SpecAt(c, p)[2] = n}
ExportedAs(c, n) == {e \in c.exports : Renamed(e) /\ e[1] = n}

expSource(n) ==
  LET tables == {f \in DOMAIN bundle : \E e \in bundle[f].table : e[1] = n}
      says == {f \in DOMAIN bundle : ImportedAs(bundle[f], n) # {} \/ ExportedAs(bundle[f], n) # {}}
  IN  IF tables # {} THEN {Min(tables)} ELSE IF says # {} THEN {Min(says)} ELSE {}

(* What a chunk exports as n: off a table, else before ` as n`, else n itself. *)
localFor(c, n) ==
  LET tabled == {e[2] : e \in {x \in c.table : x[1] = n}}
      renamed == IF ImportedAs(c, n) # {} THEN {SpecAt(c, p)[1] : p \in First(ImportedAs(c, n))}
                 ELSE {e[2] : e \in ExportedAs(c, n)}
      bare == {n} \cap {e[1] : e \in {x \in c.exports : ~Renamed(x)}}
  IN  IF tabled # {} THEN tabled ELSE IF renamed # {} THEN renamed ELSE bare

(* The import of a local.  The expression never matches the first name of a *)
(* clause, and for the last it reads the file off the clause that follows.  *)
importEdge(c, local) ==
  LET from(p) == IF p[2] < Len(c.imports[p[1]].specs) THEN p[1] ELSE p[1] + 1
      found(rename) == First({p \in Specs(c) : /\ p[2] > 1
                                              /\ SpecAt(c, p)[2] = local
                                              /\ Renamed(SpecAt(c, p)) = rename
                                              /\ from(p) \in DOMAIN c.imports})
      taken == IF found(TRUE) # {} THEN found(TRUE) ELSE found(FALSE)
  IN  {[name |-> SpecAt(c, p)[1], file |-> c.imports[from(p)].from] : p \in taken}

(* From chunk to chunk, until the local is a function of the chunk it is asked of. *)
resolveExport(n) ==
  LET Ask[hop \in 0..HOPS] ==
        [f \in DOMAIN bundle |->
          [name \in Names |->
            IF hop = 0 THEN {}
            ELSE UNION {IF l \in bundle[f].defs THEN {<<f, l>>}
                        ELSE UNION {Ask[hop - 1][e.file][e.name] : e \in importEdge(bundle[f], l)}
                        : l \in localFor(bundle[f], name)}]]
  IN  UNION {Ask[HOPS][f][n] : f \in expSource(n)}

LocateExport ==
  LET at == resolveExport(Wanted)
  IN  IF at = {} THEN NotFound("export-unresolved")
      ELSE LET d == CHOOSE x \in at : TRUE IN [error |-> "", file |-> d[1], alias |-> d[2]]

-----------------------------------------------------------------------------
(* One bundle, and the locator that reads it *)

LocatorInit ==
  /\ \/ looking = "gate" /\ bundle \in GateBundles
     \/ looking = "flag" /\ bundle \in FlagBundles
     \/ looking = "export" /\ bundle \in ModuleBundles
  /\ report = Pending

Locate ==
  /\ report = Pending
  /\ report' = CASE looking = "gate" -> LocateGate
                 [] looking = "flag" -> LocateChild
                 [] looking = "export" -> LocateExport
  /\ UNCHANGED <<looking, bundle>>

LocatorNext == Locate

LocatorSpec == LocatorInit /\ [][LocatorNext]_locatorVars

-----------------------------------------------------------------------------
(* Properties *)

LocatorTypeOK ==
  /\ looking \in {"gate", "flag", "export"}
  /\ report # Pending /\ report.error = "" => report.file \in DOMAIN bundle

Found == report # Pending /\ report.error = ""

(* A gate is found exactly when some hit of its anchor has the alias and   *)
(* the guard near it, whatever decoys are listed before; the breakpoint is *)
(* the guard of that alias, and its line and column, counted from the      *)
(* newlines before it, lead back to it.                                    *)
Resolvable(s, k) ==
  LET near == Max({1, k - Back})..Min({Len(s), k + Fwd - 1})
      alias == {i \in near : s[i].t = "alias"}
  IN  alias # {} /\ \E i \in near : s[i] = Token("guard", s[Min(alias)].v)

PlaceOf(s, at) ==
  CHOOSE i \in 1..(Len(s) + 1) :
    /\ Cardinality({j \in 1..(i - 1) : s[j].t = "newline"}) = at.line
    /\ Cardinality({j \in 1..(i - 1) : \A m \in j..(i - 1) : s[m].t # "newline"}) = at.col

GateFound ==
  looking = "gate" /\ report # Pending =>
    /\ Found <=> \E h \in Hits(Anchor) : Resolvable(bundle[h[1]], h[2])
    /\ Found => bundle[report.file][PlaceOf(bundle[report.file], report.at)] = Token("guard", report.alias)

(* The allowlist getter is the innermost zero-argument function around its *)
(* own read of the flag, a helper closed before it or an argv helper that  *)
(* spells the flag too notwithstanding.                                    *)
Enclosing(s, k) ==
  LET step(st, i) == IF Opens(s[i]) THEN Append(st, i)
                     ELSE IF s[i].t = "}" /\ st # <<>> THEN Front(st) ELSE st
  IN  Range(FoldLeft(step, <<>>, [i \in 1..(k - 1) |-> i]))

Getters(s, k) == {i \in Enclosing(s, k) : s[i].t = "getter" /\ i >= k - LookBack}

ChildFound ==
  looking = "flag" /\ report # Pending =>
    LET own == {h \in Hits(Flag) :
                  /\ Getters(bundle[h[1]], h[2]) # {}
                  /\ \E i \in h[2]..(h[2] + Answers - 1) : i \in DOMAIN bundle[h[1]] /\ bundle[h[1]][i].t = "status"}
    IN  /\ Found <=> own # {}
        /\ Found => \E h \in own : /\ h[1] = report.file
                                   /\ bundle[h[1]][Max(Getters(bundle[h[1]], h[2]))].v = report.dHs

(* What the modules mean: the function a chunk's export leads to. *)
Exported(c, n) == {e[2] : e \in {x \in c.table \cup c.exports : x[1] = n}}
Meant(f, n) ==
  LET Lead[hop \in 0..HOPS] ==
        [g \in DOMAIN bundle |->
          [name \in Names |->
            IF hop = 0 THEN {}
            ELSE UNION {IF l \in bundle[g].defs THEN {<<g, l>>}
                        ELSE UNION {Lead[hop - 1][bundle[g].imports[p[1]].from][SpecAt(bundle[g], p)[1]] :
                                      p \in {q \in Specs(bundle[g]) : SpecAt(bundle[g], q)[2] = l}}
                        : l \in Exported(bundle[g], name)}]]
  IN  Lead[HOPS][f][n]

LeadsToMeaning ==
  LET meant == UNION {Meant(f, Wanted) : f \in expSource(Wanted)}
  IN  IF Found THEN <<report.file, report.alias>> \in meant ELSE meant = {}

\* No import renames to a name that is asked for or that its chunk exports.
NoShadow ==
  \A f \in DOMAIN bundle : \A p \in Specs(bundle[f]) :
    Renamed(SpecAt(bundle[f], p)) =>
      SpecAt(bundle[f], p)[2] \notin {Wanted} \cup {e[1] : e \in bundle[f].table \cup bundle[f].exports}

\* A local that is exported and not declared stands within its import clause.
Regular ==
  \A f \in DOMAIN bundle :
    LET needed == {e[2] : e \in bundle[f].table \cup bundle[f].exports} \ bundle[f].defs
    IN  \A p \in Specs(bundle[f]) :
          SpecAt(bundle[f], p)[2] \in needed => p[2] \notin {1, Len(bundle[f].imports[p[1]].specs)}

(* The name is resolved to the function it means, or reported unresolved   *)
(* when it means none: never to another function of the same local name.   *)
ExportFound ==
  looking = "export" /\ report # Pending /\ NoShadow /\ Regular => LeadsToMeaning

LocatorHonest == GateFound /\ ChildFound /\ ExportFound

(* The comment of resolveExport has an import edge lead to the file it     *)
(* names, for its example the only name of the clause.  The expressions    *)
(* never match the first name of a clause, and they read the file of the   *)
(* last off the clause that follows.                                       *)
EdgesFollowed ==
  looking = "export" /\ report # Pending /\ NoShadow => LeadsToMeaning

=============================================================================
