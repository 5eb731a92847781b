-------------------------- MODULE CommandLine_proofs --------------------------
(***************************************************************************)
(* Theorems about CommandLine: its types, that logins, answers and         *)
(* arguments are not lost, how a run ends, and what the update check and   *)
(* the log directory hold, for any number of runs and whatever each is     *)
(* given.                                                                  *)
(***************************************************************************)
EXTENDS CommandLine, FiniteSetTheorems, SequenceTheorems, WellFoundedInduction, TLAPS

-----------------------------------------------------------------------------
(* Induction over the naturals, and the two functions defined by recursion *)

LEMMA Least ==
  ASSUME NEW T \in SUBSET Nat, T # {}
  PROVE  \E n \in T : \A m \in T : n <= m
  <1> DEFINE R == {p \in Nat \X Nat : p[1] < p[2]}
  <1>1. IsWellFoundedOn(R, Nat)
    BY NatLessThanWellFounded DEF OpToRel
  <1>2. PICK n \in T : \A m \in T : <<m, n>> \notin R
    <2> HIDE DEF R
    <2> QED
      BY <1>1, WFMin
  <1>3. ASSUME NEW m \in T PROVE ~(m < n)
    BY <1>2
  <1> HIDE DEF R
  <1> QED
    BY <1>3

\* What holds of 0, and of each number's successor, holds of every number.
LEMMA Induct ==
  ASSUME NEW T \in SUBSET Nat, 0 \in T, \A n \in T : n + 1 \in T
  PROVE  T = Nat
  <1> SUFFICES ASSUME Nat \ T # {} PROVE FALSE
    OBVIOUS
  <1>1. PICK n \in Nat \ T : \A m \in Nat \ T : n <= m
    BY Least
  <1>2. n # 0 /\ n - 1 \in Nat /\ n - 1 \in T
    BY <1>1
  <1> QED
    BY <1>1, <1>2

\* Parsed(argv) is what its definition says: reading word after word.
LEMMA ParsedIs ==
  ASSUME NEW S, NEW argv \in Seq(S)
  PROVE  /\ DOMAIN Parsed(argv) = 0 .. Len(argv)
         /\ Parsed(argv)[0] = NoFlags
         /\ \A n \in 1 .. Len(argv) : Parsed(argv)[n] = ParseWord(Parsed(argv)[n - 1], argv[n])
  <1> DEFINE Reads(f, m) == f = [n \in 0 .. m |-> IF n = 0 THEN NoFlags ELSE ParseWord(f[n - 1], argv[n])]
             T == {m \in Nat : \E f : Reads(f, m)}
  <1>1. 0 \in T
    <2>1. Reads([n \in 0 .. 0 |-> NoFlags], 0)
      OBVIOUS
    <2> QED
      BY <2>1
  <1>2. ASSUME NEW m \in T PROVE m + 1 \in T
    <2>1. PICK f : Reads(f, m)
      BY <1>2
    <2> DEFINE g == [n \in 0 .. m + 1 |-> IF n = m + 1 THEN ParseWord(f[m], argv[m + 1]) ELSE f[n]]
    <2>2. m \in Nat /\ \A n \in 0 .. m : g[n] = f[n]
      OBVIOUS
    <2>3. ASSUME NEW n \in 0 .. m + 1 PROVE g[n] = IF n = 0 THEN NoFlags ELSE ParseWord(g[n - 1], argv[n])
      <3>1. CASE n = m + 1
        <4>1. n - 1 \in 0 .. m /\ n - 1 = m /\ n # 0
          BY <2>2, <3>1
        <4> QED
          BY <2>2, <3>1, <4>1
      <3>2. CASE n # m + 1
        <4>1. n \in 0 .. m /\ (n # 0 => n - 1 \in 0 .. m)
          BY <2>2, <3>2
        <4>2. f[n] = IF n = 0 THEN NoFlags ELSE ParseWord(f[n - 1], argv[n])
          BY <2>1, <4>1
        <4> QED
          BY <2>2, <4>1, <4>2
      <3> QED
        BY <3>1, <3>2
    <2>4. Reads(g, m + 1)
      BY <2>3
    <2> HIDE DEF Reads, g
    <2> QED
      BY <2>2, <2>4
  <1>3. Len(argv) \in T
    <2>1. T \subseteq Nat /\ Len(argv) \in Nat
      OBVIOUS
    <2> HIDE DEF T
    <2> QED
      BY <1>1, <1>2, <2>1, Induct
  <1>4. Reads(Parsed(argv), Len(argv))
    BY <1>3 DEF Parsed
  <1> QED
    <2>1. Len(argv) \in Nat
      OBVIOUS
    <2> HIDE DEF Reads
    <2> QED
      BY <1>4, <2>1 DEF Reads

\* Others(backends, url) keeps, in order, the backends it should.
LEMMA OthersIs ==
  ASSUME NEW S, NEW backends \in Seq(S), NEW url
  PROVE  \E kept : /\ DOMAIN kept = 0 .. Len(backends) /\ kept[0] = <<>> /\ kept[Len(backends)] = Others(backends, url)
                   /\ \A n \in 1 .. Len(backends) :
                        kept[n] = IF backends[n].url = url THEN kept[n - 1] ELSE Append(kept[n - 1], backends[n])
  <1> DEFINE Next1(f, n) == IF backends[n].url = url THEN f[n - 1] ELSE Append(f[n - 1], backends[n])
             Keeps(f, m) == f = [n \in 0 .. m |-> IF n = 0 THEN <<>> ELSE Next1(f, n)]
             T == {m \in Nat : \E f : Keeps(f, m)}
  <1>1. 0 \in T
    <2>1. Keeps([n \in 0 .. 0 |-> <<>>], 0)
      OBVIOUS
    <2> QED
      BY <2>1
  <1>2. ASSUME NEW m \in T PROVE m + 1 \in T
    <2>1. PICK f : Keeps(f, m)
      BY <1>2
    <2> DEFINE g == [n \in 0 .. m + 1 |-> IF n = m + 1 THEN Next1(f, m + 1) ELSE f[n]]
    <2>2. m \in Nat /\ \A n \in 0 .. m : g[n] = f[n]
      OBVIOUS
    <2>3. ASSUME NEW n \in 0 .. m + 1 PROVE g[n] = IF n = 0 THEN <<>> ELSE Next1(g, n)
      <3>1. CASE n = m + 1
        <4>1. n - 1 \in 0 .. m /\ n - 1 = m /\ n # 0 /\ m + 1 - 1 = m
          BY <2>2, <3>1
        <4> QED
          BY <2>2, <3>1, <4>1
      <3>2. CASE n # m + 1
        <4>1. n \in 0 .. m /\ (n # 0 => n - 1 \in 0 .. m)
          BY <2>2, <3>2
        <4>2. f[n] = IF n = 0 THEN <<>> ELSE Next1(f, n)
          BY <2>1, <4>1
        <4> QED
          BY <2>2, <4>1, <4>2
      <3> QED
        BY <3>1, <3>2
    <2>4. Keeps(g, m + 1)
      BY <2>3
    <2> HIDE DEF Keeps, g
    <2> QED
      BY <2>2, <2>4
  <1>3. Len(backends) \in T
    <2>1. T \subseteq Nat /\ Len(backends) \in Nat
      OBVIOUS
    <2> HIDE DEF T
    <2> QED
      BY <1>1, <1>2, <2>1, Induct
  <1> DEFINE f == CHOOSE g : Keeps(g, Len(backends))
  <1>4. Keeps(f, Len(backends))
    BY <1>3
  <1>5. f[Len(backends)] = Others(backends, url)
    BY DEF Others
  <1>6. Len(backends) \in Nat
    OBVIOUS
  <1> HIDE DEF f
  <1>7. DOMAIN f = 0 .. Len(backends) /\ f[0] = <<>>
    BY <1>4, <1>6
  <1>8. ASSUME NEW n \in 1 .. Len(backends) PROVE f[n] = Next1(f, n)
    <2>1. n \in 0 .. Len(backends) /\ n # 0
      BY <1>6
    <2> HIDE DEF Next1
    <2> QED
      BY <1>4, <2>1
  <1> QED
    BY <1>5, <1>7, <1>8

-----------------------------------------------------------------------------
(* The arguments *)

Creds(argv) == {argv[i].value : i \in DOMAIN argv} \cup {None}

CliOf(argv) ==
  [server : Urls \cup {None}, credential : Creds(argv), headless : BOOLEAN, login : BOOLEAN, help : BOOLEAN,
   claudeArgs : Seq(Range(argv)), died : BOOLEAN, expect : ValueFlags \cup {None}, verbatim : BOOLEAN]

\* A flag whose value is the word behind it.
Expects(argv, i) == i \in DOMAIN argv /\ argv[i].name \in ValueFlags /\ argv[i].value = None

TheirsUpTo(argv, n) == {i \in Theirs(argv) : i <= n}

\* args is, in order, what of the first n words is claude's.
ForwardedUpTo(argv, n, args) ==
  /\ Len(args) = Cardinality(TheirsUpTo(argv, n))
  /\ \A i \in TheirsUpTo(argv, n) : args[Cardinality(TheirsUpTo(argv, i))] = argv[i]

\* What the parser knows when it has read n words.
ReadOK(argv, n, cli) ==
  /\ cli \in CliOf(argv)
  /\ ~cli.died => /\ cli.verbatim <=> Separator(argv) <= n
                  /\ ~cli.verbatim => cli.expect = IF Expects(argv, n) THEN argv[n].name ELSE None
                  /\ ForwardedUpTo(argv, n, cli.claudeArgs)
                  /\ cli.verbatim => cli.expect = None

LEMMA NoneIsNothing == None \notin ValueFlags /\ None \notin Meanings /\ None \notin Urls /\ None \notin Nat /\ Default \in Urls
  BY CommandLineOK

LEMMA SeparatorIs ==
  ASSUME NEW S, NEW argv \in Seq(S)
  PROVE  /\ Separator(argv) \in 1 .. Len(argv) + 1
         /\ Separator(argv) \in DOMAIN argv => argv[Separator(argv)].name = "--"
         /\ \A i \in DOMAIN argv : argv[i].name = "--" => Separator(argv) <= i
  <1> DEFINE T == {i \in DOMAIN argv : argv[i].name = "--"} \cup {Len(argv) + 1}
  <1>1. Len(argv) \in Nat /\ DOMAIN argv = 1 .. Len(argv)
    OBVIOUS
  <1>2. T \in SUBSET Nat /\ T # {} /\ T \subseteq 1 .. Len(argv) + 1
    BY <1>1
  <1>3. \E n \in T : \A m \in T : n <= m
    <2> HIDE DEF T
    <2> QED
      BY <1>2, Least
  <1>4. Separator(argv) = CHOOSE n \in T : \A m \in T : n <= m
    BY DEF Separator, Min
  <1>5. Separator(argv) \in T /\ \A m \in T : Separator(argv) <= m
    <2> HIDE DEF T
    <2> QED
      BY <1>3, <1>4
  <1> QED
    BY <1>1, <1>2, <1>5

\* One word more: it is claude's, or it is not.
LEMMA UpToNext ==
  ASSUME NEW argv, argv \in Seq(Range(argv)), NEW n \in 0 .. Len(argv) - 1
  PROVE  /\ n + 1 \in Theirs(argv) => TheirsUpTo(argv, n + 1) = TheirsUpTo(argv, n) \cup {n + 1}
         /\ n + 1 \notin Theirs(argv) => TheirsUpTo(argv, n + 1) = TheirsUpTo(argv, n)
         /\ IsFiniteSet(TheirsUpTo(argv, n)) /\ n + 1 \notin TheirsUpTo(argv, n)
         /\ Cardinality(TheirsUpTo(argv, n)) \in Nat
  <1>1. Theirs(argv) \subseteq 1 .. Len(argv) /\ Len(argv) \in Nat /\ n \in Nat
    BY DEF Theirs
  <1>2. IsFiniteSet(Theirs(argv)) /\ TheirsUpTo(argv, n) \subseteq Theirs(argv)
    <2>1. IsFiniteSet(1 .. Len(argv))
      BY <1>1, FS_Interval
    <2> QED
      BY <1>1, <2>1, FS_Subset DEF TheirsUpTo
  <1>3. IsFiniteSet(TheirsUpTo(argv, n))
    BY <1>2, FS_Subset
  <1>4. Cardinality(TheirsUpTo(argv, n)) \in Nat
    BY <1>3, FS_CardinalityType
  <1> QED
    BY <1>1, <1>3, <1>4 DEF TheirsUpTo

LEMMA ForwardedStep ==
  ASSUME NEW argv, argv \in Seq(Range(argv)), NEW n \in 0 .. Len(argv) - 1,
         NEW args \in Seq(Range(argv)), ForwardedUpTo(argv, n, args)
  PROVE  /\ n + 1 \in Theirs(argv) => ForwardedUpTo(argv, n + 1, Append(args, argv[n + 1]))
         /\ n + 1 \notin Theirs(argv) => ForwardedUpTo(argv, n + 1, args)
  <1>1. CASE n + 1 \notin Theirs(argv)
    BY <1>1, UpToNext DEF ForwardedUpTo
  <1>2. CASE n + 1 \in Theirs(argv)
    <2> DEFINE more == Append(args, argv[n + 1])
               k == Cardinality(TheirsUpTo(argv, n))
    <2>1. k \in Nat /\ Len(args) = k /\ TheirsUpTo(argv, n + 1) = TheirsUpTo(argv, n) \cup {n + 1}
      BY <1>2, UpToNext DEF ForwardedUpTo
    <2>2. Cardinality(TheirsUpTo(argv, n + 1)) = k + 1
      BY <2>1, UpToNext, FS_AddElement
    <2>3. Len(more) = k + 1 /\ more[k + 1] = argv[n + 1] /\ \A j \in 1 .. k : more[j] = args[j]
      BY <2>1
    <2>4. ASSUME NEW i \in TheirsUpTo(argv, n)
          PROVE  Cardinality(TheirsUpTo(argv, i)) \in 1 .. k
      <3>1. TheirsUpTo(argv, i) \subseteq TheirsUpTo(argv, n) /\ i \in TheirsUpTo(argv, i)
        BY DEF TheirsUpTo, Theirs
      <3>2. IsFiniteSet(TheirsUpTo(argv, i)) /\ Cardinality(TheirsUpTo(argv, i)) <= k
        BY <3>1, UpToNext, FS_Subset
      <3>3. Cardinality(TheirsUpTo(argv, i)) \in Nat /\ Cardinality(TheirsUpTo(argv, i)) # 0
        BY <3>1, <3>2, FS_CardinalityType, FS_EmptySet
      <3> QED
        BY <2>1, <3>2, <3>3
    <2>5. ASSUME NEW i \in TheirsUpTo(argv, n + 1)
          PROVE  more[Cardinality(TheirsUpTo(argv, i))] = argv[i]
      <3>1. CASE i = n + 1
        <4> HIDE DEF k, more
        <4> QED
          BY <2>2, <2>3, <3>1
      <3>2. CASE i \in TheirsUpTo(argv, n)
        <4>1. args[Cardinality(TheirsUpTo(argv, i))] = argv[i]
          BY <3>2 DEF ForwardedUpTo
        <4> HIDE DEF k, more
        <4> QED
          BY <2>3, <2>4, <3>2, <4>1
      <3> QED
        BY <2>1, <3>1, <3>2
    <2> HIDE DEF k
    <2> QED
      BY <1>2, <2>2, <2>3, <2>5 DEF ForwardedUpTo
  <1> QED
    BY <1>1, <1>2

\* Is the word behind the first n the controller's?
LEMMA OursIs ==
  ASSUME NEW argv, argv \in Seq(Range(argv)), NEW n \in 0 .. Len(argv) - 1
  PROVE  n + 1 \in Theirs(argv) <=>
           \/ Separator(argv) <= n
           \/ argv[n + 1].name \notin ValueFlags \cup {"--", "-h", "--help", "-i", "--headless", "--no-interactive", "--interactive", "--login"}
              /\ ~Expects(argv, n)
  <1>1. n + 1 \in DOMAIN argv /\ n \in Nat /\ (n + 1 > 1 => n \in DOMAIN argv) /\ n + 1 - 1 = n
    OBVIOUS
  <1>2. Separator(argv) \in Nat
    BY SeparatorIs
  <1>3. n + 1 \in Theirs(argv) <=> ~Ours(argv, n + 1)
    BY <1>1 DEF Theirs
  <1>4. n + 1 > 1 <=> n \in DOMAIN argv
    BY <1>1
  <1>5. ~(n + 1 <= Separator(argv)) <=> Separator(argv) <= n
    BY <1>1, <1>2
  <1>6. (n + 1 > 1 /\ argv[n + 1 - 1].name \in ValueFlags /\ argv[n + 1 - 1].value = None) <=> Expects(argv, n)
    BY <1>1, <1>4 DEF Expects
  <1> QED
    BY <1>3, <1>5, <1>6 DEF Ours

LEMMA SeparatorNext ==
  ASSUME NEW argv, argv \in Seq(Range(argv)), NEW n \in 0 .. Len(argv) - 1
  PROVE  Separator(argv) <= n + 1 <=> Separator(argv) <= n \/ argv[n + 1].name = "--"
  <1>1. n + 1 \in DOMAIN argv /\ n \in Nat
    OBVIOUS
  <1> QED
    BY <1>1, SeparatorIs

LEMMA ParseStep ==
  ASSUME NEW argv, argv \in Seq(Range(argv)), AddressesGiven(argv), NEW n \in 0 .. Len(argv) - 1,
         NEW cli, ReadOK(argv, n, cli)
  PROVE  ReadOK(argv, n + 1, ParseWord(cli, argv[n + 1]))
  <1> DEFINE word == argv[n + 1]
             next == ParseWord(cli, word)
  <1> SUFFICES ReadOK(argv, n + 1, next)
    OBVIOUS
  <1> HIDE DEF next
  <1>1. n + 1 \in DOMAIN argv /\ n \in Nat /\ word \in Range(argv) /\ Len(argv) \in Nat
    <2>1. n + 1 \in DOMAIN argv /\ n \in Nat /\ Len(argv) \in Nat
      OBVIOUS
    <2> QED
      BY <2>1 DEF Range
  <1>2. cli \in CliOf(argv) /\ None \notin ValueFlags /\ None \notin Urls
    BY NoneIsNothing DEF ReadOK
  <1>3. word.value \in Creds(argv)
    BY <1>1 DEF Creds
  <1>4. word.name = "--server" /\ word.value # None => word.value \in Urls
    BY <1>1 DEF AddressesGiven
  <1>5. ASSUME Expects(argv, n), argv[n].name = "--server", word.name = "word"
        PROVE  word.value \in Urls
    <2>1. n \in DOMAIN argv /\ n < Len(argv) /\ argv[n].value = None
      BY <1>1, <1>5 DEF Expects
    <2> QED
      BY <2>1, <1>5 DEF AddressesGiven
  <1>6. CASE cli.died
    BY <1>2, <1>6 DEF next, ReadOK, ParseWord
  <1>7. CASE ~cli.died /\ cli.verbatim
    <2>1. next = [cli EXCEPT !.claudeArgs = Append(@, word)]
      BY <1>7 DEF next, ParseWord, Forward
    <2>0. cli.claudeArgs \in Seq(Range(argv)) /\ Append(cli.claudeArgs, word) \in Seq(Range(argv)) /\ cli.expect = None
      BY <1>1, <1>2, <1>7 DEF CliOf, ReadOK
    <2>2. next \in CliOf(argv) /\ ~next.died /\ next.verbatim /\ next.expect = None
          /\ next.claudeArgs = Append(cli.claudeArgs, word)
      <3> DEFINE args == Append(cli.claudeArgs, word)
      <3>1. next = [cli EXCEPT !.claudeArgs = args]
        BY <2>1
      <3> HIDE DEF args
      <3>2. args \in Seq(Range(argv))
        BY <2>0 DEF args
      <3>3. next \in CliOf(argv) /\ ~next.died /\ next.verbatim /\ next.expect = None /\ next.claudeArgs = args
        BY <1>2, <1>7, <2>0, <3>1, <3>2 DEF CliOf
      <3> QED
        BY <3>3 DEF args
    <2>3. n + 1 \in Theirs(argv) /\ Separator(argv) <= n + 1
      BY <1>7, OursIs, SeparatorNext DEF ReadOK
    <2>4. ForwardedUpTo(argv, n + 1, next.claudeArgs)
      BY <1>2, <1>7, <2>2, <2>3, ForwardedStep DEF ReadOK, CliOf
    <2> QED
      BY <2>2, <2>3, <2>4 DEF ReadOK
  <1>8. CASE ~cli.died /\ ~cli.verbatim /\ cli.expect # None
    <2>1. Expects(argv, n) /\ cli.expect = argv[n].name /\ cli.expect \in ValueFlags
      BY <1>2, <1>8 DEF ReadOK, Expects
    <2>2. CASE IsFlag(word)
      <3>1. next = [cli EXCEPT !.died = TRUE]
        BY <1>8, <2>2 DEF next, ParseWord
      <3>2. next \in CliOf(argv) /\ next.died
        BY <1>2, <3>1 DEF CliOf
      <3> QED
        BY <3>2 DEF ReadOK
    <2>3. CASE ~IsFlag(word)
      <3>1. next = SetFlag(cli, cli.expect, word.value) /\ word.name = "word"
        BY <1>8, <2>3 DEF next, ParseWord, IsFlag
      <3>2. cli.expect = "--server" => word.value \in Urls
        BY <1>5, <2>1, <3>1
      <3>3. next \in CliOf(argv) /\ ~next.died /\ ~next.verbatim /\ next.expect = None
            /\ next.claudeArgs = cli.claudeArgs
        BY <1>2, <1>3, <1>8, <3>1, <3>2 DEF CliOf, SetFlag
      <3>4. n + 1 \notin Theirs(argv) /\ ~(Separator(argv) <= n) /\ ~(Separator(argv) <= n + 1)
        BY <1>8, <2>1, <3>1, OursIs, SeparatorNext DEF ReadOK
      <3>5. ForwardedUpTo(argv, n + 1, next.claudeArgs)
        BY <1>2, <1>8, <3>3, <3>4, ForwardedStep DEF ReadOK, CliOf
      <3>6. ~Expects(argv, n + 1)
        BY <3>1 DEF Expects, ValueFlags
      <3> QED
        BY <3>3, <3>4, <3>5, <3>6 DEF ReadOK
    <2> QED
      BY <2>2, <2>3
  <1>9. CASE ~cli.died /\ ~cli.verbatim /\ cli.expect = None
    <2>1. ~Expects(argv, n) /\ ~(Separator(argv) <= n) /\ ForwardedUpTo(argv, n, cli.claudeArgs)
      <3>2. Expects(argv, n) => argv[n].name # None
        BY <1>2 DEF Expects
      <3> QED
        BY <1>9, <3>2 DEF ReadOK
    <2>2. Expects(argv, n + 1) <=> word.name \in ValueFlags /\ word.value = None
      BY <1>1 DEF Expects
    <2>3. n + 1 \in Theirs(argv) <=>
            word.name \notin ValueFlags \cup {"--", "-h", "--help", "-i", "--headless", "--no-interactive", "--interactive", "--login"}
      BY <2>1, OursIs
    <2>4. Separator(argv) <= n + 1 <=> word.name = "--"
      BY <2>1, SeparatorNext
    <2>5. ASSUME NEW c, c \in CliOf(argv), ~c.died, c.claudeArgs = IF n + 1 \in Theirs(argv) THEN Append(cli.claudeArgs, word) ELSE cli.claudeArgs,
                 c.verbatim <=> word.name = "--", c.expect = IF word.name \in ValueFlags /\ word.value = None THEN word.name ELSE None
          PROVE  ReadOK(argv, n + 1, c)
      <3>1. ForwardedUpTo(argv, n + 1, c.claudeArgs)
        BY <1>2, <2>1, <2>5, ForwardedStep DEF CliOf
      <3>2. c.verbatim => c.expect = None
        BY <2>5 DEF ValueFlags
      <3> QED
        BY <2>2, <2>4, <2>5, <3>1, <3>2 DEF ReadOK
    <2> DEFINE set == word.name \in ValueFlags /\ word.value # None
               wait == word.name \in ValueFlags /\ word.value = None
               plain == word.name \notin ValueFlags \cup {"--", "-h", "--help", "-i", "--headless", "--no-interactive", "--interactive", "--login"}
    <2>6. CASE word.name = "--"
      <3>1. next = [cli EXCEPT !.verbatim = TRUE]
        BY <1>9, <2>6 DEF next, ParseWord, ValueFlags
      <3>2. next \in CliOf(argv) /\ ~next.died /\ next.verbatim /\ next.expect = None /\ next.claudeArgs = cli.claudeArgs
        BY <1>2, <1>9, <3>1 DEF CliOf
      <3> QED
        BY <2>3, <2>5, <2>6, <3>2 DEF ValueFlags
    <2>7. CASE word.name \in {"-h", "--help", "-i", "--headless", "--no-interactive", "--interactive", "--login"}
      <3>1. \/ next = cli \/ next = [cli EXCEPT !.help = TRUE] \/ next = [cli EXCEPT !.login = TRUE]
            \/ next = [cli EXCEPT !.headless = TRUE] \/ next = [cli EXCEPT !.headless = FALSE]
        BY <1>9, <2>7 DEF next, ParseWord, ValueFlags
      <3>2. next \in CliOf(argv) /\ ~next.died /\ ~next.verbatim /\ next.expect = None /\ next.claudeArgs = cli.claudeArgs
        BY <1>2, <1>9, <3>1 DEF CliOf
      <3> QED
        BY <2>3, <2>5, <2>7, <3>2 DEF ValueFlags
    <2>8. CASE set
      <3>1. next = SetFlag(cli, word.name, word.value)
        BY <1>9, <2>8 DEF next, ParseWord, ValueFlags
      <3>2. next \in CliOf(argv) /\ ~next.died /\ ~next.verbatim /\ next.expect = None /\ next.claudeArgs = cli.claudeArgs
        BY <1>2, <1>3, <1>4, <1>9, <2>8, <3>1 DEF CliOf, SetFlag
      <3> QED
        BY <2>3, <2>5, <2>8, <3>2 DEF ValueFlags
    <2>9. CASE wait
      <3>1. next = [cli EXCEPT !.expect = word.name]
        BY <1>9, <2>9 DEF next, ParseWord, ValueFlags
      <3>2. next \in CliOf(argv) /\ ~next.died /\ ~next.verbatim /\ next.expect = word.name /\ next.claudeArgs = cli.claudeArgs
        BY <1>2, <1>9, <2>9, <3>1 DEF CliOf
      <3> QED
        BY <2>3, <2>5, <2>9, <3>2 DEF ValueFlags
    <2>10. CASE plain
      <3>1. next = [cli EXCEPT !.claudeArgs = Append(@, word)]
        BY <1>9, <2>10 DEF next, ParseWord, ValueFlags, Forward
      <3>2. next \in CliOf(argv) /\ ~next.died /\ ~next.verbatim /\ next.expect = None /\ next.claudeArgs = Append(cli.claudeArgs, word)
        <4> DEFINE args == Append(cli.claudeArgs, word)
        <4>1. args \in Seq(Range(argv))
          BY <1>1, <1>2 DEF CliOf
        <4>2. next = [cli EXCEPT !.claudeArgs = args]
          BY <3>1
        <4> HIDE DEF args
        <4>3. next \in CliOf(argv) /\ ~next.died /\ ~next.verbatim /\ next.expect = None /\ next.claudeArgs = args
          BY <1>2, <1>9, <4>1, <4>2 DEF CliOf
        <4> QED
          BY <4>3 DEF args
      <3> QED
        BY <2>3, <2>5, <2>10, <3>2 DEF ValueFlags
    <2> QED
      BY <2>6, <2>7, <2>8, <2>9, <2>10
  <1> QED
    BY <1>6, <1>7, <1>8, <1>9

\* Every word is parsed, and those that are not the controller's are kept.
LEMMA ParseArgsOK ==
  ASSUME NEW argv, argv \in Seq(Range(argv)), AddressesGiven(argv)
  PROVE  /\ parseArgs(argv) \in CliOf(argv)
         /\ ~parseArgs(argv).died => ForwardedUpTo(argv, Len(argv), parseArgs(argv).claudeArgs)
  <1> DEFINE read == Parsed(argv)
             T == {n \in Nat : n <= Len(argv) => ReadOK(argv, n, read[n])}
  <1>1. /\ read[0] = NoFlags /\ Len(argv) \in Nat
        /\ \A n \in 1 .. Len(argv) : read[n] = ParseWord(read[n - 1], argv[n])
    BY ParsedIs
  <1> HIDE DEF read
  <1>2. ReadOK(argv, 0, NoFlags)
    <2>1. NoFlags \in CliOf(argv)
      BY DEF NoFlags, CliOf, Creds
    <2>2. TheirsUpTo(argv, 0) = {} /\ Separator(argv) \in Nat \ {0} /\ ~Expects(argv, 0)
      BY SeparatorIs DEF TheirsUpTo, Theirs, Expects
    <2>3. Cardinality(TheirsUpTo(argv, 0)) = 0
      BY <2>2, FS_EmptySet
    <2> QED
      BY <2>1, <2>2, <2>3 DEF ReadOK, NoFlags, ForwardedUpTo
  <1>3. 0 \in T
    BY <1>1, <1>2
  <1>4. ASSUME NEW n \in T PROVE n + 1 \in T
    <2>1. CASE n + 1 <= Len(argv)
      <3>1. n \in 0 .. Len(argv) - 1 /\ n + 1 \in 1 .. Len(argv) /\ ReadOK(argv, n, read[n]) /\ n + 1 - 1 = n
        BY <1>1, <2>1
      <3>2. read[n + 1] = ParseWord(read[n], argv[n + 1])
        BY <1>1, <3>1
      <3>3. ReadOK(argv, n + 1, read[n + 1])
        BY <3>1, <3>2, ParseStep
      <3> QED
        BY <3>3
    <2>2. CASE ~(n + 1 <= Len(argv))
      BY <2>2
    <2> QED
      BY <2>1, <2>2
  <1>5. ReadOK(argv, Len(argv), read[Len(argv)])
    <2>1. T \in SUBSET Nat
      OBVIOUS
    <2>2. Len(argv) \in T
      <3> HIDE DEF T
      <3> QED
        BY <1>1, <1>3, <1>4, <2>1, Induct
    <2> QED
      BY <1>1, <2>2
  <1> DEFINE cli == read[Len(argv)]
             end == [cli EXCEPT !.died = @ \/ cli.expect # None]
  <1>6. parseArgs(argv) = end
    BY DEF parseArgs, read
  <1>7. cli \in CliOf(argv)
    BY <1>5 DEF ReadOK
  <1> HIDE DEF cli
  <1>8. end \in CliOf(argv) /\ (~end.died => ~cli.died) /\ end.claudeArgs = cli.claudeArgs
    BY <1>7 DEF CliOf
  <1> QED
    BY <1>5, <1>6, <1>8 DEF ReadOK, cli

-----------------------------------------------------------------------------
(* The configuration *)

\* The first of the backends at that address has that token, or there is none.
Finds(backends, url, token) ==
  \/ token = None /\ \A i \in 1 .. Len(backends) : backends[i].url # url
  \/ \E i \in 1 .. Len(backends) :
       /\ backends[i].url = url /\ token = backends[i].token
       /\ \A j \in 1 .. i - 1 : backends[j].url # url

LEMMA FindFinds ==
  ASSUME NEW S, NEW config, config.backends \in Seq(S), NEW url, NEW token
  PROVE  findBackend(config, url) = token <=> Finds(config.backends, url, token)
  <1> DEFINE bs == config.backends
             I == {i \in 1 .. Len(bs) : bs[i].url = url}
             at == IF I # {} THEN CHOOSE x \in I : \A y \in I : x <= y ELSE 0
  <1>1. findBackend(config, url) = IF at = 0 THEN None ELSE bs[at].token
    BY DEF findBackend, SelectInSeq, Min
  <1>2. Len(bs) \in Nat /\ I \in SUBSET Nat
    OBVIOUS
  <1>3. CASE I = {}
    BY <1>1, <1>2, <1>3 DEF Finds
  <1>4. CASE I # {}
    <2>1. at \in I /\ \A y \in I : at <= y
      <3>1. at = CHOOSE x \in I : \A y \in I : x <= y
        BY <1>4
      <3>2. \E x \in I : \A y \in I : x <= y
        <4> HIDE DEF I
        <4> QED
          BY <1>2, <1>4, Least
      <3> HIDE DEF at, I
      <3> QED
        BY <3>1, <3>2
    <2> HIDE DEF at
    <2>2. at \in 1 .. Len(bs) /\ bs[at].url = url /\ at # 0
      BY <1>2, <2>1
    <2>3. \A j \in 1 .. at - 1 : bs[j].url # url
      BY <1>2, <2>1, <2>2
    <2>4. findBackend(config, url) = bs[at].token
      BY <1>1, <2>2 DEF at
    <2>5. Finds(bs, url, bs[at].token)
      BY <2>2, <2>3 DEF Finds
    <2>6. ASSUME Finds(bs, url, token) PROVE token = bs[at].token
      <3>1. PICK i \in 1 .. Len(bs) : bs[i].url = url /\ token = bs[i].token /\ \A j \in 1 .. i - 1 : bs[j].url # url
        BY <2>2, <2>6 DEF Finds
      <3>2. i = at
        BY <1>2, <2>2, <2>3, <3>1
      <3> QED
        BY <3>1, <3>2
    <2> QED
      BY <2>4, <2>5, <2>6
  <1> QED
    BY <1>3, <1>4

\* The two lists have the same first backend at that address, or none.
SameFirst(bs, n, kept, url) ==
  \/ /\ \A i \in 1 .. n : bs[i].url # url
     /\ \A k \in 1 .. Len(kept) : kept[k].url # url
  \/ \E i \in 1 .. n, k \in 1 .. Len(kept) :
       /\ bs[i] = kept[k] /\ bs[i].url = url
       /\ \A j \in 1 .. i - 1 : bs[j].url # url
       /\ \A j \in 1 .. k - 1 : kept[j].url # url

LEMMA OthersSame ==
  ASSUME NEW S, NEW bs \in Seq(S), NEW url
  PROVE  /\ Others(bs, url) \in Seq(S)
         /\ \A v : v # url => SameFirst(bs, Len(bs), Others(bs, url), v)
  <1>1. PICK kept : /\ DOMAIN kept = 0 .. Len(bs) /\ kept[0] = <<>> /\ kept[Len(bs)] = Others(bs, url)
                    /\ \A n \in 1 .. Len(bs) :
                         kept[n] = IF bs[n].url = url THEN kept[n - 1] ELSE Append(kept[n - 1], bs[n])
    BY OthersIs
  <1> DEFINE Good(n) == kept[n] \in Seq(S) /\ \A v : v # url => SameFirst(bs, n, kept[n], v)
             T == {n \in Nat : n <= Len(bs) => Good(n)}
  <1>2. Len(bs) \in Nat
    OBVIOUS
  <1>3. 0 \in T
    <2>1. kept[0] \in Seq(S) /\ Len(kept[0]) = 0 /\ 1 .. 0 = {}
      BY <1>1
    <2>2. \A v : SameFirst(bs, 0, kept[0], v)
      BY <2>1 DEF SameFirst
    <2> QED
      BY <2>1, <2>2
  <1>4. ASSUME NEW n \in T PROVE n + 1 \in T
    <2>1. SUFFICES ASSUME n + 1 <= Len(bs) PROVE Good(n + 1)
      OBVIOUS
    <2>2. n + 1 \in 1 .. Len(bs) /\ n + 1 - 1 = n /\ n \in Nat /\ Good(n) /\ bs[n + 1] \in S
      BY <1>2, <2>1
    <2>3. CASE bs[n + 1].url = url
      <3>1. kept[n + 1] = kept[n]
        BY <1>1, <2>2, <2>3
      <3>2. ASSUME NEW v, v # url PROVE SameFirst(bs, n + 1, kept[n], v)
        <4>1. SameFirst(bs, n, kept[n], v)
          BY <2>2, <3>2
        <4>2. \A i \in 1 .. n : i \in 1 .. n + 1
          BY <2>2
        <4>3. \A i \in 1 .. n + 1 : i \in 1 .. n \/ i = n + 1
          BY <2>2
        <4>4. CASE \A i \in 1 .. n : bs[i].url # v
          BY <2>2, <2>3, <3>2, <4>1, <4>3, <4>4 DEF SameFirst
        <4>5. CASE ~\A i \in 1 .. n : bs[i].url # v
          BY <4>1, <4>2, <4>5 DEF SameFirst
        <4> QED
          BY <4>4, <4>5
      <3> QED
        BY <2>2, <3>1, <3>2
    <2>4. CASE bs[n + 1].url # url
      <3> DEFINE was == kept[n]
                 now == Append(was, bs[n + 1])
      <3>0. kept[n + 1] = IF bs[n + 1].url = url THEN kept[n + 1 - 1] ELSE Append(kept[n + 1 - 1], bs[n + 1])
        BY <1>1, <2>2
      <3>1. kept[n + 1] = now
        BY <2>2, <2>4, <3>0
      <3>2. was \in Seq(S) /\ now \in Seq(S) /\ Len(was) \in Nat /\ Len(now) = Len(was) + 1
            /\ now[Len(was) + 1] = bs[n + 1] /\ \A k \in 1 .. Len(was) : now[k] = was[k]
        BY <2>2
      <3> HIDE DEF now, was
      <3>3. ASSUME NEW v, v # url PROVE SameFirst(bs, n + 1, now, v)
        <4>1. SameFirst(bs, n, was, v)
          BY <2>2, <3>3 DEF was
        <4>2. CASE \A i \in 1 .. n : bs[i].url # v
          <5>1. \A k \in 1 .. Len(was) : was[k].url # v
            BY <4>1, <4>2 DEF SameFirst
          <5>2. CASE bs[n + 1].url = v
            <6>1. n + 1 \in 1 .. n + 1 /\ Len(now) \in 1 .. Len(now) /\ now[Len(now)] = bs[n + 1]
              BY <2>2, <3>2
            <6>2. \A j \in 1 .. n + 1 - 1 : bs[j].url # v
              BY <2>2, <4>2
            <6>3. \A j \in 1 .. Len(now) - 1 : now[j].url # v
              BY <3>2, <5>1
            <6> QED
              BY <5>2, <6>1, <6>2, <6>3 DEF SameFirst
          <5>3. CASE bs[n + 1].url # v
            <6>1. \A i \in 1 .. n + 1 : bs[i].url # v
              BY <2>2, <4>2, <5>3
            <6>2. \A k \in 1 .. Len(now) : now[k].url # v
              BY <3>2, <5>1, <5>3
            <6> QED
              BY <6>1, <6>2 DEF SameFirst
          <5> QED
            BY <5>2, <5>3
        <4>3. CASE ~\A i \in 1 .. n : bs[i].url # v
          <5>1. PICK i \in 1 .. n, k \in 1 .. Len(was) :
                  /\ bs[i] = was[k] /\ bs[i].url = v
                  /\ \A j \in 1 .. i - 1 : bs[j].url # v
                  /\ \A j \in 1 .. k - 1 : was[j].url # v
            BY <4>1, <4>3 DEF SameFirst
          <5>2. /\ i \in 1 .. n + 1 /\ k \in 1 .. Len(now) /\ now[k] = bs[i]
                /\ \A j \in 1 .. k - 1 : j \in 1 .. Len(was)
            <6>1. i \in 1 .. n + 1
              BY <2>2
            <6>2. Len(was) \in Nat /\ Len(now) = Len(was) + 1
              BY <3>2
            <6>3. k \in 1 .. Len(now)
              BY ONLY k \in 1 .. Len(was), <6>2
            <6>4. \A j \in 1 .. k - 1 : j \in 1 .. Len(was)
              BY ONLY k \in 1 .. Len(was), <6>2
            <6>5. now[k] = was[k]
              BY <3>2
            <6> QED
              BY <5>1, <6>1, <6>3, <6>4, <6>5
          <5>3. \A j \in 1 .. k - 1 : now[j].url # v
            <6>1. \A j \in 1 .. Len(was) : now[j] = was[j]
              BY <3>2
            <6> QED
              BY <5>1, <5>2, <6>1
          <5> QED
            BY <5>1, <5>2, <5>3 DEF SameFirst
        <4> QED
          BY <4>2, <4>3
      <3> QED
        BY <3>1, <3>2, <3>3
    <2> QED
      BY <2>3, <2>4
  <1>5. Good(Len(bs))
    <2>1. T \in SUBSET Nat
      OBVIOUS
    <2>2. Len(bs) \in T
      <3> HIDE DEF T
      <3> QED
        BY <1>2, <1>3, <1>4, <2>1, Induct
    <2> QED
      BY <1>2, <2>2
  <1> QED
    BY <1>1, <1>5

\* What was remembered last is found, and what was remembered of the others.
LEMMA Remembered ==
  ASSUME NEW S, NEW config, config.backends \in Seq(S), NEW url, NEW token,
         [url |-> url, token |-> token] \in S
  PROVE  /\ rememberBackend(config, url, token).backends \in Seq(S)
         /\ findBackend(rememberBackend(config, url, token), url) = token
         /\ \A v : v # url => findBackend(rememberBackend(config, url, token), v) = findBackend(config, v)
  <1> DEFINE bs == config.backends
             rest == Others(bs, url)
             new == [url |-> url, token |-> token]
             now == <<new>> \o rest
             next == rememberBackend(config, url, token)
  <1>1. rest \in Seq(S) /\ \A v : v # url => SameFirst(bs, Len(bs), rest, v)
    BY OthersSame
  <1> HIDE DEF rest
  <1>2. next.backends = now
    BY DEF rememberBackend, rest
  <1>3. /\ now \in Seq(S) /\ Len(rest) \in Nat /\ Len(now) = Len(rest) + 1 /\ now[1] = new
        /\ \A k \in 1 .. Len(rest) : now[k + 1] = rest[k]
    BY <1>1
  <1> HIDE DEF now
  <1>4. new.url = url /\ new.token = token
    OBVIOUS
  <1>5. Finds(now, url, token)
    <2>1. 1 \in 1 .. Len(now) /\ \A j \in 1 .. 1 - 1 : now[j].url # url
      BY <1>3
    <2> QED
      BY <1>3, <1>4, <2>1 DEF Finds
  <1>6. ASSUME NEW v, v # url, NEW t, Finds(bs, v, t) PROVE Finds(now, v, t)
    <2>1. SameFirst(bs, Len(bs), rest, v) /\ Len(bs) \in Nat
      BY <1>1, <1>6
    <2>2. \A j \in 1 .. Len(now) : j = 1 \/ (j - 1 \in 1 .. Len(rest) /\ now[j] = rest[j - 1])
      <3>1. ASSUME NEW j \in 1 .. Len(now), j # 1 PROVE j - 1 \in 1 .. Len(rest) /\ now[j] = rest[j - 1]
        <4>1. j - 1 \in 1 .. Len(rest) /\ j - 1 + 1 = j
          BY <1>3, <3>1
        <4> QED
          BY <1>3, <4>1
      <3> QED
        BY <3>1
    <2>3. CASE \A i \in 1 .. Len(bs) : bs[i].url # v
      <3>1. t = None /\ \A k \in 1 .. Len(rest) : rest[k].url # v
        BY <1>6, <2>1, <2>3 DEF Finds, SameFirst
      <3>2. \A j \in 1 .. Len(now) : now[j].url # v
        BY <1>3, <1>4, <1>6, <2>2, <3>1
      <3> QED
        BY <3>1, <3>2 DEF Finds
    <2>4. CASE ~\A i \in 1 .. Len(bs) : bs[i].url # v
      <3>1. PICK i \in 1 .. Len(bs), k \in 1 .. Len(rest) :
              /\ bs[i] = rest[k] /\ bs[i].url = v
              /\ \A j \in 1 .. i - 1 : bs[j].url # v
              /\ \A j \in 1 .. k - 1 : rest[j].url # v
        BY <2>1, <2>4 DEF SameFirst
      <3>2. PICK a \in 1 .. Len(bs) : bs[a].url = v /\ t = bs[a].token /\ \A j \in 1 .. a - 1 : bs[j].url # v
        BY <1>6, <2>4 DEF Finds
      <3>3. a = i
        BY <2>1, <3>1, <3>2
      <3>4. k + 1 \in 1 .. Len(now) /\ now[k + 1] = bs[i]
        BY <1>3, <3>1
      <3>5. ASSUME NEW j \in 1 .. k + 1 - 1 PROVE now[j].url # v
        <4>1. j \in 1 .. Len(now) /\ (j # 1 => j - 1 \in 1 .. k - 1)
          BY <1>3
        <4> QED
          BY <1>3, <1>4, <1>6, <2>2, <3>1, <4>1
      <3> QED
        BY <3>1, <3>2, <3>3, <3>4, <3>5 DEF Finds
    <2> QED
      BY <2>3, <2>4
  <1> HIDE DEF next, new
  <1>7. findBackend(next, url) = token
    BY <1>2, <1>3, <1>5, FindFinds
  <1>8. ASSUME NEW v, v # url PROVE findBackend(next, v) = findBackend(config, v)
    <2>1. Finds(bs, v, findBackend(config, v))
      BY FindFinds
    <2>2. Finds(now, v, findBackend(config, v))
      BY <1>6, <1>8, <2>1
    <2> QED
      BY <1>2, <1>3, <2>2, FindFinds
  <1> QED
    BY <1>2, <1>3, <1>7, <1>8 DEF next

-----------------------------------------------------------------------------
(* What holds of each run *)

Questions == {"backend", "address", "how", "user", "password", "token"}

\* A token that can be in the file, and one of which a run was told that it is dead.
Issued == [url : Urls, n : 1 .. Accepted]

Dead == {t \in Tokens : t.n # Accepted}

Backends == [url : Urls, token : Issued]

Configs == [current : Urls \cup {None}, backends : Seq(Backends), whole : BOOLEAN]

Clis(h) == {parseArgs(job.argv) : job \in Jobs[h]} \cup {NoFlags} \cup {[NoFlags EXCEPT !.headless = b] : b \in BOOLEAN}

Argvs(h) == {<<>>} \cup {job.argv : job \in Jobs[h]}

Presented(h) == Tokens \cup {None} \cup {cli.credential : cli \in Clis(h)}

Runs(h) ==
  [phase : Phases, argv : Argvs(h), lines : Seq(Meanings), cli : Clis(h),
   config : Configs, seen : Nat \cup {None}, url : Urls \cup {None},
   token : Presented(h), rejected : SUBSET Dead, excused : BOOLEAN,
   script : Seq(Meanings), reader : BOOLEAN, queued : Seq(Meanings), ended : BOOLEAN,
   ask : Questions \cup {None}, line : Meanings \cup {None}, taken : Seq(Meanings),
   run : Nat, notice : Nat \cup {None}, refresh : [on : BOOLEAN, day : Nat, from : Nat],
   claude : {"none", "waiting", "up", "dead"}, worker : {"none", "up", "dead"}, doomed : BOOLEAN,
   escaped : BOOLEAN, claudeCode : {0, 1, None}, code : {0, 1, 2, None}]

Talking == {"asking", "logging in", "verifying", "rechecking"}

BeforeRun == {"off", "parsed", "checking", "saving", "writing", "settled"} \cup Talking

BeforeClaude == BeforeRun \cup {"linking"}

Settled == {"saving", "writing", "settled", "linking", "launching", "running"}

Idle(st) ==
  /\ st.claude = "none" /\ st.worker = "none" /\ st.claudeCode = None /\ ~st.doomed
  /\ ~st.refresh.on /\ st.notice = None

OwnToken(st) == st.token \in Tokens \cup {None, st.cli.credential}

\* A token in use is one, and was not refused.
AccountOK(st) ==
  /\ OwnToken(st)
  /\ st.phase \in {"checking", "rechecking", "saving", "writing"} => st.token \in Issued
  /\ st.phase = "verifying" => st.token \in Tokens
  /\ st.phase \in {"checking", "saving", "writing", "logging in", "verifying", "rechecking"} => st.url \in Urls
  /\ st.phase = "asking" /\ st.ask \notin {"backend", "address"} => st.url \in Urls
  /\ st.phase \in {"parsed", "checking"} => st.rejected = {}
  /\ st.phase \in Settled => st.token \notin st.rejected \/ st.excused

\* Nothing has been read yet.
Untouched(st) == st.lines = st.script /\ st.taken = <<>> /\ st.queued = <<>> /\ ~st.ended

\* The lines that came are those taken, the one at hand, those queued.
InputOK(st) ==
  /\ st.reader => st.phase \in Talking /\ st.lines = st.taken \o Unread(st)
  /\ st.phase \in {"asking", "logging in", "verifying"} => st.reader
  /\ st.phase = "asking" => st.ask \in Questions
  /\ Waiting(st) => ~st.ended /\ st.queued = <<>>
  /\ st.phase \in {"parsed", "checking", "rechecking"} /\ ~st.reader => Untouched(st)
  /\ ~st.cli.died => ForwardedUpTo(st.argv, Len(st.argv), st.cli.claudeArgs)

\* What runs beside it, and what has been seen to.
EndOK(st) ==
  /\ st.phase \in BeforeClaude => Idle(st)
  /\ st.phase \in BeforeRun => st.run = 0
  /\ st.phase \in {"linking", "launching", "running", "killing"} => st.run # 0
  /\ st.phase = "launching" => st.claude \in {"waiting", "dead"} /\ st.worker = "none" /\ ~st.doomed
  /\ st.phase = "running" => /\ st.claude \in {"up", "dead"} /\ ~st.doomed
                             /\ st.claude = "dead" /\ st.worker = "up" => st.escaped
  /\ st.phase = "killing" => /\ st.claude \in {"up", "dead"} /\ st.cli.headless
                             /\ st.worker = "up" /\ ~st.doomed => st.escaped
  /\ st.phase = "exited" => /\ ~st.escaped => ~Alive(st.claude) /\ st.worker # "up"
                            /\ ~st.cli.headless /\ st.claudeCode \notin {0, None} => st.code # 0

RunOK(h, st) == st \in Runs(h) /\ AccountOK(st) /\ InputOK(st) /\ EndOK(st)

-----------------------------------------------------------------------------
(* What holds of what they share *)

Agrees(config) == \A u \in Urls : findBackend(config, u) = saved[u]

Reading == {"checking", "saving"} \cup Talking

\* Unless a run wrote over what it had not read: what is whole agrees with
\* what was saved, and so does what was read since the last write; one run
\* writes at a time, and it has read what it replaces.
FileOK ==
  /\ file \in Configs /\ saved \in [Urls -> Issued \cup {None}] /\ writes \in Nat /\ clobbered \in BOOLEAN
  /\ \A h \in Hosts : host[h].seen # None => host[h].seen <= writes
  /\ ~clobbered =>
       /\ file.whole => Agrees(file)
       /\ \A h \in Hosts : host[h].phase \in Reading /\ host[h].seen = writes => file.whole /\ Agrees(host[h].config)
       /\ \A h \in Hosts : host[h].phase = "writing" =>
            /\ host[h].seen # None /\ host[h].seen + 1 = writes /\ ~file.whole /\ Agrees(host[h].config)
       /\ \A h, g \in Hosts : host[h].phase = "writing" /\ host[g].phase = "writing" => h = g

Started == {g \in Hosts : host[g].run # 0}

\* The log directory holds the last runs to have started.
LogsOK ==
  LET n == Cardinality(Started)
  IN /\ logs = [runs |-> logs.runs, latest |-> logs.latest]
     /\ logs.runs = {r \in 1 .. n : r + KeepRuns >= n}
     /\ logs.latest \in (1 .. n) \cup {None}
     /\ \A h \in Hosts : host[h].run <= n

\* What the update check knows, and what runs learn from it, was published.
CheckOK ==
  /\ world \in [published : 1 .. MaxDay, day : 1 .. MaxDay, faults : Nat, signals : Nat] /\ world.published = world.day
  /\ check \in [day : 0 .. MaxDay, latest : (1 .. world.published) \cup {None}] /\ check.latest = learned
  /\ \A h \in Hosts :
       /\ host[h].refresh.on => host[h].refresh.day \in 1 .. MaxDay /\ host[h].refresh.from \in 1 .. world.published
       /\ host[h].notice # None => host[h].notice > 1 /\ host[h].notice <= world.published

CInv ==
  /\ DOMAIN host = Hosts
  /\ \A h \in Hosts : RunOK(h, host[h])
  /\ FileOK /\ LogsOK /\ CheckOK

-----------------------------------------------------------------------------
(* Types *)

LEMMA ConfigTypes ==
  /\ Empty \in Configs /\ Torn \in Configs /\ Empty.whole /\ ~Torn.whole
  /\ Empty.backends = <<>> /\ Issued \subseteq Tokens /\ None \notin Urls /\ Default \in Urls
  BY NoneIsNothing DEF Empty, Torn, Configs, Issued, Tokens, Accepted

LEMMA FindType ==
  ASSUME NEW config \in Configs, NEW url
  PROVE  findBackend(config, url) \in Issued \cup {None}
  <1>1. config.backends \in Seq(Backends)
    BY DEF Configs
  <1>2. Finds(config.backends, url, findBackend(config, url))
    BY <1>1, FindFinds
  <1>3. ASSUME NEW i \in 1 .. Len(config.backends) PROVE config.backends[i].token \in Issued
    <2>1. config.backends[i] \in Backends
      BY <1>1
    <2> QED
      BY <2>1 DEF Backends
  <1> QED
    BY <1>2, <1>3 DEF Finds

LEMMA RememberType ==
  ASSUME NEW config \in Configs, NEW url \in Urls, NEW token \in Issued
  PROVE  rememberBackend(config, url, token) \in Configs /\ rememberBackend(config, url, token).whole
  <1>1. config.backends \in Seq(Backends) /\ [url |-> url, token |-> token] \in Backends
    BY DEF Configs, Backends
  <1>2. rememberBackend(config, url, token).backends \in Seq(Backends)
    BY <1>1, Remembered
  <1> QED
    BY <1>2 DEF rememberBackend, Configs

LEMMA CliIs ==
  ASSUME NEW h \in Hosts, NEW cli \in Clis(h)
  PROVE  /\ cli.server \in Urls \cup {None} /\ cli.headless \in BOOLEAN
         /\ cli.died \in BOOLEAN /\ cli.help \in BOOLEAN /\ cli.login \in BOOLEAN
         /\ [NoFlags EXCEPT !.headless = cli.headless] \in Clis(h)
  <1>1. CASE \E job \in Jobs[h] : cli = parseArgs(job.argv)
    <2>1. PICK job \in Jobs[h] : cli = parseArgs(job.argv)
      BY <1>1
    <2>2. cli \in CliOf(job.argv)
      BY <2>1, ParseArgsOK, CommandLineOK
    <2> QED
      BY <2>2 DEF CliOf, Clis
  <1>2. CASE \E b \in BOOLEAN : cli = [NoFlags EXCEPT !.headless = b]
    BY <1>2 DEF NoFlags, Clis
  <1>3. CASE cli = NoFlags
    BY <1>3 DEF NoFlags, Clis
  <1> QED
    BY <1>1, <1>2, <1>3 DEF Clis

LEMMA FreshType ==
  ASSUME NEW h \in Hosts
  PROVE  Fresh \in Runs(h) /\ NoFlags \in Clis(h) /\ <<>> \in Seq(Meanings)
  <1>2. NoFlags \in Clis(h)
    BY DEF Clis
  <1>3. <<>> \in Seq(Meanings) /\ "off" \in Phases
    BY DEF Phases
  <1> QED
    BY <1>2, <1>3, ConfigTypes DEF Fresh, Runs, Argvs, Presented

\* claude gets nothing of no arguments.
LEMMA NothingForwarded == ForwardedUpTo(<<>>, Len(<<>>), <<>>)
  <1>1. TheirsUpTo(<<>>, Len(<<>>)) = {}
    BY DEF TheirsUpTo, Theirs
  <1> QED
    BY <1>1, FS_EmptySet DEF ForwardedUpTo

\* What is left of a run that ends.
Left(st, code, next) ==
  /\ next.phase = "exited" /\ next.code = code /\ next.cli = [NoFlags EXCEPT !.headless = st.cli.headless]
  /\ next.run = st.run /\ next.claude = st.claude /\ next.worker = st.worker /\ next.claudeCode = st.claudeCode
  /\ next.argv = <<>> /\ next.rejected = {} /\ next.reader = FALSE /\ next.seen = 0
  /\ next.refresh.on = FALSE /\ next.notice = None /\ next.token = None

LEMMA ExitIs ==
  ASSUME NEW h \in Hosts, NEW st \in Runs(h), NEW code \in {0, 1, 2, None}
  PROVE  Exit(st, code) \in Runs(h) /\ Left(st, code, Exit(st, code)) /\ Exit(st, code).escaped = st.escaped
  <1> DEFINE off == [NoFlags EXCEPT !.headless = st.cli.headless]
  <1>1. /\ Fresh.cli = NoFlags /\ Fresh.argv = <<>> /\ Fresh.rejected = {} /\ Fresh.reader = FALSE /\ Fresh.seen = 0
        /\ Fresh.refresh.on = FALSE /\ Fresh.notice = None /\ Fresh.token = None
    BY DEF Fresh
  <1>2. off \in Clis(h)
    BY CliIs DEF Runs
  <1>3. Exit(st, code) = [Fresh EXCEPT !.phase = "exited", !.code = code, !.cli = off, !.run = st.run, !.claude = st.claude,
                                       !.worker = st.worker, !.claudeCode = st.claudeCode, !.escaped = st.escaped]
    BY <1>1 DEF Exit, Fresh
  <1>4. /\ "exited" \in Phases /\ st.run \in Nat /\ st.claude \in {"none", "waiting", "up", "dead"}
        /\ st.worker \in {"none", "up", "dead"} /\ st.claudeCode \in {0, 1, None} /\ st.escaped \in BOOLEAN
    BY DEF Phases, Runs
  <1> HIDE DEF off
  <1>5. Exit(st, code) \in Runs(h)
    <2> DEFINE half == [Fresh EXCEPT !.phase = "exited", !.code = code, !.cli = off, !.run = st.run]
    <2>1. half \in Runs(h)
      BY <1>2, <1>4, FreshType DEF Runs
    <2>2. Exit(st, code) = [half EXCEPT !.claude = st.claude, !.worker = st.worker, !.claudeCode = st.claudeCode,
                                        !.escaped = st.escaped]
      BY <1>3
    <2> HIDE DEF half
    <2> QED
      BY <1>4, <2>1, <2>2 DEF Runs
  <1>6. Left(st, code, Exit(st, code)) /\ Exit(st, code).escaped = st.escaped
    <2>1. Fresh \in Runs(h)
      BY FreshType
    <2> QED
      BY <1>1, <1>3, <2>1 DEF Left, Runs, off
  <1> QED
    BY <1>5, <1>6

\* A step of a run that leaves what it shares as it is: it keeps what it has
\* read, or is done with it.
Follows(st, config, seen, next) ==
  /\ next.run = st.run
  /\ next.refresh.on => next.refresh = st.refresh
  /\ next.notice # None => next.notice = st.notice
  /\ \/ next.phase \in Reading /\ next.config = config /\ next.seen = seen
     \/ next.phase \notin Reading \cup {"writing"} /\ next.seen \in {0, st.seen, seen}

LEMMA ExitOK ==
  ASSUME NEW h \in Hosts, NEW st \in Runs(h), NEW code \in {0, 1, 2, None},
         NEW next, next = Exit(st, code) \/ next = [Exit(st, code) EXCEPT !.escaped = TRUE],
         ~next.escaped => ~Alive(st.claude) /\ st.worker # "up",
         ~st.cli.headless /\ st.claudeCode \notin {0, None} => code # 0,
         NEW config, NEW seen
  PROVE  RunOK(h, next) /\ Follows(st, config, seen, next)
  <1>1. next \in Runs(h) /\ Left(st, code, next)
    <2>1. CASE next = Exit(st, code)
      BY <2>1, ExitIs
    <2>2. CASE next = [Exit(st, code) EXCEPT !.escaped = TRUE]
      <3> DEFINE exit == Exit(st, code)
      <3>1. exit \in Runs(h) /\ Left(st, code, exit)
        BY ExitIs
      <3> HIDE DEF exit
      <3>2. next = [exit EXCEPT !.escaped = TRUE]
        BY <2>2 DEF exit
      <3>3. next \in Runs(h)
        BY <3>1, <3>2 DEF Runs
      <3>4. Left(st, code, next)
        BY <3>1, <3>2 DEF Left, Runs
      <3> QED
        BY <3>3, <3>4
    <2> QED
      BY <2>1, <2>2
  <1> DEFINE off == [NoFlags EXCEPT !.headless = st.cli.headless]
  <1>3. off.claudeArgs = <<>> /\ off.headless = st.cli.headless
    BY DEF NoFlags
  <1>4. Left(st, code, next) /\ next.cli = off
    BY <1>1 DEF Left
  <1> HIDE DEF off
  <1>5. AccountOK(next)
    BY <1>4 DEF AccountOK, Settled, Left, OwnToken
  <1>6. InputOK(next)
    BY <1>3, <1>4, NothingForwarded DEF InputOK, Waiting, Left
  <1>7. EndOK(next)
    BY <1>3, <1>4 DEF EndOK, BeforeClaude, BeforeRun, Talking, Left
  <1>8. Follows(st, config, seen, next)
    BY <1>4 DEF Follows, Reading, Talking, Left
  <1> QED
    BY <1>1, <1>5, <1>6, <1>7, <1>8 DEF RunOK

-----------------------------------------------------------------------------
(* Questions and answers *)

\* Neither what it was given nor what it started has changed.
SameLife(st, next) ==
  /\ next.argv = st.argv /\ next.cli = st.cli /\ next.run = st.run /\ next.refresh = st.refresh /\ next.notice = st.notice
  /\ next.claude = st.claude /\ next.worker = st.worker /\ next.claudeCode = st.claudeCode /\ next.doomed = st.doomed
  /\ next.escaped = st.escaped

SameLogin(st, next) ==
  /\ next.config = st.config /\ next.seen = st.seen /\ next.url = st.url /\ next.token = st.token
  /\ next.rejected = st.rejected /\ next.excused = st.excused

\* The lines that came are those taken, then those to come.
Ready(h, st) ==
  /\ st \in Runs(h) /\ Idle(st) /\ st.run = 0 /\ OwnToken(st)
  /\ st.lines = st.taken \o (st.queued \o st.script)
  /\ ~st.reader => Untouched(st)
  /\ ~st.cli.died => ForwardedUpTo(st.argv, Len(st.argv), st.cli.claudeArgs)

LEMMA ClosedIs ==
  ASSUME NEW h \in Hosts, NEW st \in Runs(h)
  PROVE  /\ closePrompts(st) \in Runs(h) /\ SameLife(st, closePrompts(st)) /\ SameLogin(st, closePrompts(st))
         /\ closePrompts(st).phase = st.phase /\ closePrompts(st).reader = FALSE
  <1> DEFINE half == [st EXCEPT !.reader = FALSE, !.queued = <<>>, !.ended = FALSE, !.ask = None]
             next == [half EXCEPT !.line = None, !.lines = <<>>, !.script = <<>>, !.taken = <<>>]
  <1>1. closePrompts(st) = next
    BY DEF closePrompts
  <1>2. half \in Runs(h)
    BY FreshType DEF Runs
  <1>3. SameLife(st, half) /\ SameLogin(st, half) /\ half.phase = st.phase /\ half.reader = FALSE
    BY DEF Runs, SameLife, SameLogin
  <1> HIDE DEF half
  <1>4. next \in Runs(h)
    BY <1>2, FreshType DEF Runs
  <1>5. SameLife(half, next) /\ SameLogin(half, next) /\ next.phase = half.phase /\ next.reader = half.reader
    BY <1>2 DEF Runs, SameLife, SameLogin
  <1> HIDE DEF next
  <1> QED
    BY <1>1, <1>3, <1>4, <1>5 DEF SameLife, SameLogin

\* Leaving a prompt is leaving the program.
LEMMA LeaveOK ==
  ASSUME NEW h \in Hosts, NEW st \in Runs(h), Idle(st), NEW config, NEW seen
  PROVE  /\ RunOK(h, Exit(closePrompts(st), 1))
         /\ Follows(st, config, seen, Exit(closePrompts(st), 1))
  <1> DEFINE closed == closePrompts(st)
             next == Exit(closed, 1)
  <1>1. closed \in Runs(h) /\ SameLife(st, closed) /\ SameLogin(st, closed)
    BY ClosedIs
  <1> HIDE DEF closed
  <1>2. ~Alive(closed.claude) /\ closed.worker # "up"
    BY <1>1 DEF SameLife, Idle, Alive
  <1>3. RunOK(h, next) /\ Follows(closed, config, seen, next)
    BY <1>1, <1>2, ExitOK
  <1> HIDE DEF next
  <1>4. Follows(st, config, seen, next)
    BY <1>1, <1>3 DEF Follows, SameLife, SameLogin
  <1> QED
    BY <1>3, <1>4 DEF next, closed

LEMMA Glue ==
  ASSUME NEW S, NEW q \in Seq(S), q # <<>>
  PROVE  Head(q) \in S /\ Tail(q) \in Seq(S) /\ <<Head(q)>> \o Tail(q) = q
  <1>1. Head(q) \in S /\ Tail(q) \in Seq(S) /\ Len(q) = Len(Tail(q)) + 1 /\ Len(q) \in Nat
    BY HeadTailProperties
  <1>2. Head(q) = q[1] /\ \A i \in 1 .. Len(Tail(q)) : Tail(q)[i] = q[i + 1]
    BY HeadTailProperties
  <1> DEFINE all == <<Head(q)>> \o Tail(q)
  <1>3. all \in Seq(S) /\ Len(all) = Len(q) /\ all[1] = q[1]
    BY <1>1, <1>2
  <1>4. ASSUME NEW i \in 1 .. Len(q) PROVE all[i] = q[i]
    <2>1. CASE i = 1
      BY <1>3, <2>1
    <2>2. CASE i # 1
      <3>1. i - 1 \in 1 .. Len(Tail(q)) /\ i - 1 + 1 = i
        BY <1>1, <2>2
      <3>2. all[i] = Tail(q)[i - 1]
        BY <1>1, <3>1
      <3> HIDE DEF all
      <3> QED
        BY <1>2, <3>1, <3>2
    <2> QED
      BY <2>1, <2>2
  <1>5. all = q
    <2> HIDE DEF all
    <2> QED
      BY <1>3, <1>4, SeqEqual
  <1> QED
    BY <1>1, <1>5

\* A question takes a line that came early, or waits, or is the end.
LEMMA AskedOK ==
  ASSUME NEW h \in Hosts, NEW st, Ready(h, st), NEW question \in Questions,
         question \notin {"backend", "address"} => st.url \in Urls
  PROVE  RunOK(h, Asked(st, question)) /\ Follows(st, st.config, st.seen, Asked(st, question))
  <1>1. /\ st \in Runs(h) /\ st.queued \in Seq(Meanings) /\ st.script \in Seq(Meanings) /\ st.taken \in Seq(Meanings)
        /\ Idle(st) /\ "asking" \in Phases /\ st.ended \in BOOLEAN
    BY DEF Ready, Runs, Phases
  <1>2. CASE st.queued = <<>> /\ st.ended
    <2>1. Asked(st, question) = Exit(closePrompts(st), 1)
      BY <1>2 DEF Asked
    <2> QED
      BY <1>1, <2>1, LeaveOK
  <1>3. CASE ~(st.queued = <<>> /\ st.ended)
    <2> DEFINE early == st.queued # <<>>
               line == IF early THEN Head(st.queued) ELSE None
               rest == IF early THEN Tail(st.queued) ELSE st.queued
               next == [st EXCEPT !.phase = "asking", !.ask = question, !.reader = TRUE, !.line = line, !.queued = rest]
    <2>1. Asked(st, question) = next
      BY <1>3 DEF Asked
    <2>2. /\ line \in Meanings \cup {None} /\ rest \in Seq(Meanings)
          /\ (IF line # None THEN <<line>> ELSE <<>>) \o rest = st.queued
          /\ line = None => rest = <<>> /\ ~st.ended
      <3>1. CASE early
        BY <1>1, <3>1, Glue, NoneIsNothing
      <3>2. CASE ~early
        BY <1>1, <1>3, <3>2
      <3> QED
        BY <3>1, <3>2
    <2> HIDE DEF line, rest
    <2>3. next \in Runs(h)
      BY <1>1, <2>2 DEF Runs
    <2>4. /\ next.phase = "asking" /\ next.ask = question /\ next.reader = TRUE /\ next.line = line /\ next.queued = rest
          /\ next.lines = st.lines /\ next.taken = st.taken /\ next.script = st.script /\ next.ended = st.ended
          /\ SameLife(st, next) /\ SameLogin(st, next)
      BY <1>1 DEF Runs, SameLife, SameLogin
    <2> HIDE DEF next
    <2>5. Unread(next) = st.queued \o st.script
      BY <2>2, <2>4 DEF Unread
    <2>6. AccountOK(next)
      BY <2>4 DEF AccountOK, Settled, SameLogin, SameLife, OwnToken, Ready
    <2>7. InputOK(next)
      BY <2>2, <2>4, <2>5 DEF InputOK, Waiting, SameLife, Ready, Talking
    <2>8. EndOK(next)
      BY <1>1, <2>4 DEF EndOK, BeforeClaude, BeforeRun, Talking, SameLife, Idle, Ready
    <2>9. Follows(st, st.config, st.seen, next)
      BY <2>4 DEF Follows, SameLife, SameLogin, Reading, Talking
    <2> QED
      BY <2>1, <2>3, <2>6, <2>7, <2>8, <2>9 DEF RunOK
  <1> QED
    BY <1>2, <1>3

LEMMA AtBackendOK ==
  ASSUME NEW h \in Hosts, NEW st, Ready(h, st), st.url \in Urls
  PROVE  RunOK(h, AtBackend(st)) /\ Follows(st, st.config, st.seen, AtBackend(st))
  <1> DEFINE token == findBackend(st.config, st.url)
             next == [st EXCEPT !.phase = "rechecking", !.token = token]
  <1>1. st \in Runs(h) /\ st.config \in Configs /\ Idle(st) /\ "rechecking" \in Phases /\ "how" \in Questions
    BY DEF Ready, Runs, Phases, Questions
  <1>2. token \in Issued \cup {None}
    BY <1>1, FindType
  <1> HIDE DEF token
  <1>3. CASE token = None
    <2>1. AtBackend(st) = Asked(st, "how")
      BY <1>3 DEF AtBackend, token
    <2> QED
      BY <1>1, <2>1, AskedOK
  <1>4. CASE token # None
    <2>1. AtBackend(st) = next
      BY <1>4 DEF AtBackend, token
    <2>2. token \in Issued /\ token \in Presented(h)
      BY <1>2, <1>4, ConfigTypes DEF Presented
    <2>3. next \in Runs(h)
      BY <1>1, <2>2 DEF Runs
    <2>4. /\ next.phase = "rechecking" /\ next.token = token /\ next.reader = st.reader /\ next.queued = st.queued
          /\ next.lines = st.lines /\ next.taken = st.taken /\ next.script = st.script /\ next.ended = st.ended
          /\ SameLife(st, next) /\ next.url = st.url /\ next.config = st.config /\ next.seen = st.seen
      BY <1>1 DEF Runs, SameLife
    <2>5. next.queued \in Seq(Meanings) /\ next.script \in Seq(Meanings)
      BY <1>1, <2>4 DEF Runs
    <2> HIDE DEF next
    <2>6. AccountOK(next)
      BY <2>2, <2>4, ConfigTypes DEF AccountOK, Settled, OwnToken
    <2>7. Unread(next) = st.queued \o st.script
      BY <2>4, <2>5 DEF Unread
    <2>8. InputOK(next)
      BY <2>4, <2>7 DEF InputOK, Waiting, SameLife, Ready, Talking, Untouched
    <2>9. EndOK(next)
      BY <1>1, <2>4 DEF EndOK, BeforeClaude, BeforeRun, Talking, SameLife, Idle, Ready
    <2>10. Follows(st, st.config, st.seen, next)
      BY <2>4 DEF Follows, SameLife, Reading, Talking
    <2> QED
      BY <2>1, <2>3, <2>6, <2>8, <2>9, <2>10 DEF RunOK
  <1> QED
    BY <1>3, <1>4

\* Readiness does not depend on where the login has got to.
LEMMA ReadyAt ==
  ASSUME NEW h \in Hosts, NEW st, Ready(h, st), NEW url \in Urls
  PROVE  /\ Ready(h, [st EXCEPT !.url = url])
         /\ [st EXCEPT !.url = url].url = url /\ [st EXCEPT !.url = url].config = st.config
         /\ [st EXCEPT !.url = url].seen = st.seen
         /\ SameLife(st, [st EXCEPT !.url = url])
  <1> DEFINE next == [st EXCEPT !.url = url]
  <1>1. st \in Runs(h)
    BY DEF Ready
  <1>2. next \in Runs(h)
    BY <1>1 DEF Runs
  <1>3. /\ next.url = url /\ next.config = st.config /\ next.seen = st.seen /\ SameLife(st, next)
        /\ next.reader = st.reader /\ next.queued = st.queued /\ next.token = st.token
        /\ next.lines = st.lines /\ next.taken = st.taken /\ next.script = st.script /\ next.ended = st.ended
    BY <1>1 DEF Runs, SameLife
  <1> HIDE DEF next
  <1>4. Ready(h, next)
    BY <1>2, <1>3 DEF Ready, SameLife, Idle, Untouched, OwnToken
  <1> QED
    BY <1>3, <1>4 DEF next

LEMMA AtOK ==
  ASSUME NEW h \in Hosts, NEW st, Ready(h, st), NEW url \in Urls
  PROVE  /\ RunOK(h, AtBackend([st EXCEPT !.url = url]))
         /\ Follows(st, st.config, st.seen, AtBackend([st EXCEPT !.url = url]))
  <1> DEFINE there == [st EXCEPT !.url = url]
  <1>1. /\ Ready(h, there) /\ there.url = url /\ there.config = st.config /\ there.seen = st.seen
        /\ SameLife(st, there)
    BY ReadyAt
  <1> HIDE DEF there
  <1>2. RunOK(h, AtBackend(there)) /\ Follows(there, st.config, st.seen, AtBackend(there))
    BY <1>1, AtBackendOK
  <1>3. Follows(st, st.config, st.seen, AtBackend(there))
    BY <1>1, <1>2 DEF Follows, SameLife
  <1> QED
    BY <1>2, <1>3 DEF there

LEMMA LoginFlowOK ==
  ASSUME NEW h \in Hosts, NEW st, Ready(h, st)
  PROVE  RunOK(h, runLoginFlow(st)) /\ Follows(st, st.config, st.seen, runLoginFlow(st))
  <1>1. CASE st.cli.server # None
    <2>1. st.cli.server \in Urls
      BY <1>1, CliIs DEF Ready, Runs
    <2> QED
      BY <1>1, <2>1, AtOK DEF runLoginFlow
  <1>2. CASE st.cli.server = None
    <2>1. "backend" \in Questions
      BY DEF Questions
    <2> QED
      BY <1>2, <2>1, AskedOK DEF runLoginFlow
  <1> QED
    BY <1>1, <1>2

LEMMA FirstIs ==
  ASSUME NEW a \in Urls \cup {None}, NEW b \in Urls
  PROVE  /\ First(<<a, b>>) \in Urls
         /\ \A c \in Urls \cup {None} : First(<<c, a, b>>) \in Urls
  <1>1. ASSUME NEW s, NEW n \in Nat, s \in Seq(Urls \cup {None}), Len(s) = n, n # 0, s[n] \in Urls
        PROVE  First(s) \in Urls
    <2> DEFINE I == {i \in 1 .. Len(s) : s[i] # None}
    <2>1. I \in SUBSET Nat /\ n \in I
      BY <1>1, NoneIsNothing
    <2>2. First(s) = s[CHOOSE x \in I : \A y \in I : x <= y]
      BY <2>1 DEF First, SelectInSeq, Min
    <2>3. \E x \in I : \A y \in I : x <= y
      <3> HIDE DEF I
      <3> QED
        BY <2>1, Least
    <2>4. PICK x \in I : First(s) = s[x]
      <3> HIDE DEF I
      <3> QED
        BY <2>2, <2>3
    <2> QED
      BY <1>1, <2>4
  <1>2. <<a, b>> \in Seq(Urls \cup {None}) /\ Len(<<a, b>>) = 2 /\ <<a, b>>[2] \in Urls
    OBVIOUS
  <1>3. ASSUME NEW c \in Urls \cup {None}
        PROVE  <<c, a, b>> \in Seq(Urls \cup {None}) /\ Len(<<c, a, b>>) = 3 /\ <<c, a, b>>[3] \in Urls
    OBVIOUS
  <1>4. First(<<a, b>>) \in Urls
    <2> DEFINE s == <<a, b>>
    <2>1. s \in Seq(Urls \cup {None}) /\ Len(s) = 2 /\ s[2] \in Urls /\ 2 \in Nat /\ 2 # 0
      BY <1>2
    <2> HIDE DEF s
    <2>2. First(s) \in Urls
      BY <1>1, <2>1
    <2> QED
      BY <2>2 DEF s
  <1>5. ASSUME NEW c \in Urls \cup {None} PROVE First(<<c, a, b>>) \in Urls
    <2> DEFINE s == <<c, a, b>>
    <2>1. s \in Seq(Urls \cup {None}) /\ Len(s) = 3 /\ s[3] \in Urls /\ 3 \in Nat /\ 3 # 0
      BY <1>3
    <2> HIDE DEF s
    <2>2. First(s) \in Urls
      BY <1>1, <2>1
    <2> QED
      BY <2>2 DEF s
  <1> QED
    BY <1>4, <1>5

\* The configuration as a run reads it.
LEMMA LoadIs ==
  ASSUME file \in Configs
  PROVE  loadConfig \in Configs /\ (file.whole => loadConfig = file)
  BY ConfigTypes DEF loadConfig

LEMMA ResolveOK ==
  ASSUME NEW h \in Hosts, NEW st, RunOK(h, st), st.phase = "parsed", file \in Configs, writes \in Nat
  PROVE  RunOK(h, resolveAccount(st)) /\ Follows(st, loadConfig, IF file.whole THEN writes ELSE None, resolveAccount(st))
  <1> DEFINE config == loadConfig
             seen == IF file.whole THEN writes ELSE None
             read == [st EXCEPT !.config = config, !.seen = seen]
             url == First(<<st.cli.server, config.current, Default>>)
             token == findBackend(config, url)
             next == resolveAccount(st)
  <1>1. /\ st \in Runs(h) /\ config \in Configs /\ seen \in Nat \cup {None} /\ Idle(st) /\ st.run = 0 /\ st.reader = FALSE
        /\ Untouched(st) /\ st.rejected = {} /\ st.cli \in Clis(h) /\ OwnToken(st)
        /\ ~st.cli.died => ForwardedUpTo(st.argv, Len(st.argv), st.cli.claudeArgs)
    <2>1. st \in Runs(h) /\ st.reader \in BOOLEAN /\ st.cli \in Clis(h)
      BY DEF RunOK, Runs
    <2>2. st.reader = FALSE
      BY <2>1 DEF RunOK, InputOK, Talking
    <2> QED
      BY <2>1, <2>2, LoadIs DEF RunOK, InputOK, EndOK, AccountOK, BeforeClaude, BeforeRun
  <1>2. config.current \in Urls \cup {None} /\ st.cli.server \in Urls \cup {None} /\ Default \in Urls
    BY <1>1, CliIs, ConfigTypes DEF Configs
  <1>3. url \in Urls /\ First(<<st.cli.server, Default>>) \in Urls
    BY <1>2, FirstIs
  <1>4. token \in Issued \cup {None}
    BY <1>1, FindType
  <1>5. next = IF st.cli.credential # None
               THEN [closePrompts(st) EXCEPT !.phase = "settled", !.token = st.cli.credential, !.url = First(<<st.cli.server, Default>>)]
               ELSE IF ~st.cli.login /\ token # None THEN [read EXCEPT !.phase = "checking", !.url = url, !.token = token]
               ELSE runLoginFlow(read)
    BY DEF resolveAccount
  <1> HIDE DEF config, seen, url, token, next
  <1>6. /\ read \in Runs(h) /\ SameLife(st, read) /\ read.config = config /\ read.seen = seen
        /\ read.reader = FALSE /\ Untouched(read) /\ read.rejected = {} /\ read.phase = st.phase /\ OwnToken(read)
    <2>0. st \in Runs(h) /\ config \in Configs /\ seen \in Nat \cup {None}
      BY <1>1
    <2>1. read \in Runs(h)
      BY <2>0 DEF Runs
    <2>2. SameLife(st, read) /\ read.config = config /\ read.seen = seen
      BY <1>1 DEF Runs, SameLife
    <2>3. /\ read.reader = st.reader /\ read.rejected = st.rejected /\ read.token = st.token /\ read.phase = st.phase /\ read.lines = st.lines
          /\ read.script = st.script /\ read.taken = st.taken /\ read.queued = st.queued /\ read.ended = st.ended
      BY <1>1 DEF Runs
    <2> HIDE DEF read
    <2> QED
      BY <1>1, <2>1, <2>2, <2>3 DEF Untouched, OwnToken, SameLife
  <1> HIDE DEF read
  <1>7. CASE st.cli.credential # None
    <2> DEFINE closed == closePrompts(st)
               there == First(<<st.cli.server, Default>>)
               last == [closed EXCEPT !.phase = "settled", !.token = st.cli.credential, !.url = there]
    <2>1. /\ closed \in Runs(h) /\ SameLife(st, closed) /\ SameLogin(st, closed) /\ closed.reader = FALSE
      BY <1>1, ClosedIs
    <2>2. there \in Urls /\ st.cli.credential \in Presented(h) /\ "settled" \in Phases
      BY <1>1, <1>3 DEF Presented, Phases
    <2> HIDE DEF closed, there
    <2>3. last \in Runs(h)
      BY <2>1, <2>2 DEF Runs
    <2>4. /\ last.phase = "settled" /\ SameLife(st, last) /\ last.seen = st.seen /\ last.rejected = st.rejected
          /\ last.reader = FALSE /\ last.token = st.cli.credential
      BY <2>1 DEF Runs, SameLife, SameLogin
    <2>5. next = last
      BY <1>5, <1>7 DEF closed, there
    <2> HIDE DEF last
    <2>6. AccountOK(next)
      BY <1>1, <2>4, <2>5 DEF AccountOK, OwnToken, SameLife
    <2>7. InputOK(next) /\ EndOK(next)
      BY <1>1, <2>4, <2>5 DEF InputOK, EndOK, Waiting, SameLife, Idle, BeforeClaude, BeforeRun
    <2>8. Follows(st, config, seen, next)
      BY <2>4, <2>5 DEF Follows, SameLife, Reading, Talking
    <2> QED
      BY <2>3, <2>5, <2>6, <2>7, <2>8 DEF RunOK, next, config, seen
  <1>8. CASE st.cli.credential = None /\ ~st.cli.login /\ token # None
    <2> DEFINE last == [read EXCEPT !.phase = "checking", !.url = url, !.token = token]
    <2>1. next = last /\ token \in Issued /\ token \in Presented(h) /\ "checking" \in Phases
      BY <1>4, <1>5, <1>8, ConfigTypes DEF Presented, Phases
    <2>2. last \in Runs(h)
      BY <1>3, <1>6, <2>1 DEF Runs
    <2>3. /\ last.phase = "checking" /\ SameLife(st, last) /\ last.seen = seen /\ last.config = config /\ last.rejected = {}
          /\ last.reader = FALSE /\ Untouched(last) /\ last.token = token /\ last.url = url
      BY <1>6 DEF Runs, SameLife, Untouched
    <2> HIDE DEF last
    <2>4. AccountOK(next)
      BY <1>3, <2>1, <2>3, ConfigTypes DEF AccountOK, Settled, OwnToken
    <2>5. InputOK(next)
      BY <1>1, <2>1, <2>3 DEF InputOK, Waiting, SameLife
    <2>6. EndOK(next)
      BY <1>1, <2>1, <2>3 DEF EndOK, SameLife, Idle, BeforeClaude, BeforeRun
    <2>7. Follows(st, config, seen, next)
      BY <2>1, <2>3 DEF Follows, SameLife, Reading
    <2> QED
      BY <2>1, <2>2, <2>4, <2>5, <2>6, <2>7 DEF RunOK, next, config, seen
  <1>9. CASE st.cli.credential = None /\ ~(~st.cli.login /\ token # None)
    <2>1. next = runLoginFlow(read)
      BY <1>5, <1>9
    <2>2. Ready(h, read)
      <3>1. read.script \in Seq(Meanings)
        BY <1>6 DEF Runs
      <3>2. read.taken \o (read.queued \o read.script) = read.script
        BY <1>6, <3>1 DEF Untouched
      <3> QED
        BY <1>1, <1>6, <3>2 DEF Ready, Untouched, SameLife, Idle, OwnToken
    <2>3. RunOK(h, next) /\ Follows(read, config, seen, next)
      BY <1>6, <2>1, <2>2, LoginFlowOK
    <2>4. CASE next.phase \in Reading /\ next.config = config /\ next.seen = seen
      BY <1>6, <2>3, <2>4 DEF Follows, SameLife, next, config, seen
    <2>5. CASE ~(next.phase \in Reading /\ next.config = config /\ next.seen = seen)
      BY <1>6, <2>3, <2>5 DEF Follows, SameLife, next, config, seen
    <2> QED
      BY <2>4, <2>5
  <1> QED
    BY <1>7, <1>8, <1>9

\* The menu: every entry but the last is an address.
LEMMA MenuIs ==
  ASSUME NEW config \in Configs
  PROVE  /\ Len(Menu(config)) \in Nat \ {0}
         /\ \A n \in 1 .. Len(Menu(config)) : n # Len(Menu(config)) => Menu(config)[n] \in Urls
         /\ Initial(config) \in 1 .. Len(Menu(config))
  <1> DEFINE others == Others(config.backends, Default)
             mid == [i \in DOMAIN others |-> others[i].url]
             menu == <<Default>> \o mid \o <<AddNew>>
  <1>1. others \in Seq(Backends)
    BY OthersSame DEF Configs
  <1> HIDE DEF others
  <1>2. Len(others) \in Nat /\ DOMAIN others = 1 .. Len(others)
    BY <1>1
  <1>3. ASSUME NEW i \in 1 .. Len(others) PROVE others[i].url \in Urls
    <2>1. others[i] \in Backends
      BY <1>1
    <2> QED
      BY <2>1 DEF Backends
  <1>4. mid \in Seq(Urls) /\ Len(mid) = Len(others)
    BY <1>2, <1>3
  <1> HIDE DEF mid
  <1>5. Menu(config) = menu
    BY DEF Menu, mid, others
  <1> DEFINE head == <<Default>> \o mid
  <1>6. head \in Seq(Urls) /\ Len(head) \in Nat \ {0}
    BY <1>4, ConfigTypes
  <1> HIDE DEF head
  <1>7. menu = head \o <<AddNew>>
    BY DEF head
  <1>8. Len(menu) = Len(head) + 1 /\ \A n \in 1 .. Len(head) : menu[n] = head[n]
    BY <1>6, <1>7
  <1>9. \A n \in 1 .. Len(head) : head[n] \in Urls
    BY <1>6
  <1>10. menu \in Seq(Urls \cup {AddNew})
    BY <1>4, ConfigTypes
  <1> HIDE DEF menu
  <1>11. Initial(config) \in 1 .. Len(menu)
    <2> DEFINE current == IF config.current = None THEN Default ELSE config.current
               at == {i \in DOMAIN menu : menu[i] = current}
    <2>1. DOMAIN menu = 1 .. Len(menu) /\ 1 \in 1 .. Len(menu)
      BY <1>6, <1>8, <1>10
    <2>2. Initial(config) = IF at = {} THEN 1 ELSE CHOOSE x \in at : \A y \in at : x <= y
      BY <1>5 DEF Initial, Min
    <2>3. at \in SUBSET Nat /\ at \subseteq 1 .. Len(menu)
      BY <2>1
    <2> HIDE DEF at
    <2>4. at # {} => \E x \in at : \A y \in at : x <= y
      BY <2>3, Least
    <2> QED
      BY <2>1, <2>2, <2>3, <2>4
  <1> QED
    BY <1>5, <1>6, <1>8, <1>9, <1>11

LEMMA SelectedIs ==
  ASSUME NEW line, NEW size \in Nat, NEW initial \in 1 .. size
  PROVE  Selected(line, size, initial) \in 0 .. size
  <1>1. Number = [first |-> 1, second |-> 2, third |-> 3]
    BY DEF Number
  <1>2. \A x \in DOMAIN Number : Number[x] \in 1 .. 3
    BY <1>1
  <1>3. CASE line = "enter"
    <2>1. Selected(line, size, initial) = initial
      <3>1. "enter" \notin DOMAIN Number
        BY <1>1
      <3> QED
        BY <1>3, <3>1 DEF Selected
    <2> QED
      BY <2>1
  <1>4. CASE line # "enter" /\ line \in DOMAIN Number /\ Number[line] <= size
    <2>1. Selected(line, size, initial) = Number[line]
      BY <1>4 DEF Selected
    <2> QED
      BY <1>2, <1>4, <2>1
  <1>5. CASE line # "enter" /\ ~(line \in DOMAIN Number /\ Number[line] <= size)
    <2>1. Selected(line, size, initial) = 0
      BY <1>5 DEF Selected
    <2> QED
      BY <2>1
  <1> QED
    BY <1>3, <1>4, <1>5

LEMMA ChooseOK ==
  ASSUME NEW h \in Hosts, NEW st, Ready(h, st), st.ask \in {"backend", "address"}
  PROVE  RunOK(h, chooseBackend(st)) /\ Follows(st, st.config, st.seen, chooseBackend(st))
  <1> DEFINE options == Menu(st.config)
             n == Selected(st.line, Len(options), Initial(st.config))
             next == chooseBackend(st)
  <1>1. st.config \in Configs
    BY DEF Ready, Runs
  <1>2. Len(options) \in Nat \ {0} /\ n \in 0 .. Len(options)
    BY <1>1, MenuIs, SelectedIs
  <1>3. n # 0 /\ n # Len(options) => options[n] \in Urls
    BY <1>1, <1>2, MenuIs
  <1>4. \/ st.line \in Urls /\ next = AtBackend([st EXCEPT !.url = st.line])
        \/ next = Asked(st, "address") \/ next = Asked(st, "backend")
        \/ n # 0 /\ n # Len(options) /\ next = AtBackend([st EXCEPT !.url = options[n]])
    <2> HIDE DEF options, n
    <2>1. next = CASE st.ask = "address" /\ st.line \in Urls -> AtBackend([st EXCEPT !.url = st.line])
                   [] st.ask = "address" /\ st.line \notin Urls -> Asked(st, "address")
                   [] st.ask = "backend" /\ n = 0 -> Asked(st, "backend")
                   [] st.ask = "backend" /\ n = Len(options) -> Asked(st, "address")
                   [] OTHER -> AtBackend([st EXCEPT !.url = options[n]])
      BY DEF chooseBackend, options, n
    <2> HIDE DEF next
    <2>2. CASE st.ask = "address" /\ st.line \in Urls
      BY <2>1, <2>2
    <2>3. CASE st.ask = "address" /\ st.line \notin Urls
      BY <2>1, <2>3
    <2>4. CASE st.ask = "backend" /\ n = 0
      BY <1>2, <2>1, <2>4
    <2>5. CASE st.ask = "backend" /\ n = Len(options)
      BY <1>2, <2>1, <2>5
    <2>6. CASE st.ask = "backend" /\ n # 0 /\ n # Len(options)
      BY <2>1, <2>6
    <2> QED
      BY <2>2, <2>3, <2>4, <2>5, <2>6
  <1>5. "address" \in Questions /\ "backend" \in Questions
    BY DEF Questions
  <1> HIDE DEF next, options, n
  <1>6. CASE next = Asked(st, "address") \/ next = Asked(st, "backend")
    BY <1>5, <1>6, AskedOK DEF next
  <1>7. ASSUME NEW url \in Urls, next = AtBackend([st EXCEPT !.url = url])
        PROVE  RunOK(h, next) /\ Follows(st, st.config, st.seen, next)
    BY <1>7, AtOK
  <1> QED
    BY <1>3, <1>4, <1>6, <1>7 DEF next

\* A request that needs the backend's answer.
LEMMA RequestOK ==
  ASSUME NEW h \in Hosts, NEW st, Ready(h, st), st.reader, st.url \in Urls,
         NEW phase \in {"logging in", "verifying"}, NEW token \in Presented(h), token \in Tokens \cup {st.token},
         phase = "verifying" => token \in Tokens
  PROVE  /\ RunOK(h, [st EXCEPT !.phase = phase, !.token = token])
         /\ Follows(st, st.config, st.seen, [st EXCEPT !.phase = phase, !.token = token])
  <1> DEFINE next == [st EXCEPT !.phase = phase, !.token = token]
  <1>1. st \in Runs(h) /\ Idle(st) /\ phase \in Phases /\ st.queued \in Seq(Meanings) /\ st.script \in Seq(Meanings)
    BY DEF Ready, Runs, Phases
  <1>2. next \in Runs(h)
    BY <1>1 DEF Runs
  <1>3. /\ next.phase = phase /\ next.token = token /\ next.reader = st.reader /\ next.queued = st.queued
        /\ next.lines = st.lines /\ next.taken = st.taken /\ next.script = st.script
        /\ SameLife(st, next) /\ next.url = st.url /\ next.config = st.config /\ next.seen = st.seen
    BY <1>1 DEF Runs, SameLife
  <1> HIDE DEF next
  <1>4. AccountOK(next)
    BY <1>3 DEF AccountOK, Settled, OwnToken, SameLife, Ready
  <1>5. Unread(next) = st.queued \o st.script
    <2>1. next.phase # "asking"
      BY <1>3
    <2>2. st.queued \in Seq(Meanings) /\ <<>> \o st.queued = st.queued
      BY <1>1, ConcatEmptySeq
    <2> QED
      BY <1>3, <2>1, <2>2 DEF Unread
  <1>6. InputOK(next)
    BY <1>3, <1>5 DEF InputOK, Waiting, SameLife, Ready, Talking
  <1>7. EndOK(next)
    BY <1>1, <1>3 DEF EndOK, BeforeClaude, BeforeRun, Talking, SameLife, Idle, Ready
  <1>8. Follows(st, st.config, st.seen, next)
    BY <1>3 DEF Follows, SameLife, Reading, Talking
  <1> QED
    BY <1>2, <1>4, <1>6, <1>7, <1>8 DEF RunOK, next

LEMMA ObtainOK ==
  ASSUME NEW h \in Hosts, NEW st, Ready(h, st), st.reader, st.ask \in Questions \ {"backend", "address"}, st.url \in Urls
  PROVE  RunOK(h, obtainToken(st)) /\ Follows(st, st.config, st.seen, obtainToken(st))
  <1> DEFINE n == Selected(st.line, 2, 1)
             next == obtainToken(st)
  <1>1. st \in Runs(h) /\ {"how", "user", "password", "token"} \subseteq Questions /\ st.token \in Presented(h)
    BY DEF Ready, Questions, Runs
  <1>2. ASSUME NEW question \in {"how", "user", "password", "token"}, next = Asked(st, question)
        PROVE  RunOK(h, next) /\ Follows(st, st.config, st.seen, next)
    BY <1>1, <1>2, AskedOK
  <1>3. CASE st.ask = "how"
    <2>1. next = Asked(st, IF n = 0 THEN "how" ELSE IF n = 1 THEN "user" ELSE "token")
      BY <1>3 DEF obtainToken
    <2> HIDE DEF next
    <2> QED
      BY <1>2, <2>1 DEF next
  <1>4. CASE st.ask # "how" /\ st.line = "enter"
    <2>1. next = Asked(st, st.ask) /\ st.ask \in {"how", "user", "password", "token"}
      BY <1>4 DEF obtainToken, Questions
    <2> QED
      BY <1>2, <2>1
  <1>5. CASE st.ask = "user" /\ st.line # "enter"
    <2>1. next = Asked(st, "password")
      BY <1>5 DEF obtainToken
    <2> QED
      BY <1>2, <2>1
  <1>6. CASE st.ask = "password" /\ st.line # "enter"
    <2>1. next = [st EXCEPT !.phase = "logging in"]
      BY <1>6 DEF obtainToken
    <2>2. next = [st EXCEPT !.phase = "logging in", !.token = st.token]
      BY <1>1, <2>1 DEF Runs
    <2>3. /\ RunOK(h, [st EXCEPT !.phase = "logging in", !.token = st.token])
          /\ Follows(st, st.config, st.seen, [st EXCEPT !.phase = "logging in", !.token = st.token])
      BY <1>1, RequestOK
    <2> HIDE DEF next
    <2>4. RunOK(h, next) /\ Follows(st, st.config, st.seen, next)
      BY <2>2, <2>3
    <2> QED
      BY <2>4 DEF next
  <1>7. CASE st.ask = "token" /\ st.line # "enter"
    <2> DEFINE token == Token(st.url, IF st.line = "word" THEN Accepted ELSE 0)
    <2>1. next = [st EXCEPT !.phase = "verifying", !.token = token]
      BY <1>7 DEF obtainToken
    <2>2. token \in Tokens /\ token \in Presented(h)
      BY DEF Token, Tokens, Presented, Accepted
    <2> HIDE DEF token
    <2>3. /\ RunOK(h, [st EXCEPT !.phase = "verifying", !.token = token])
          /\ Follows(st, st.config, st.seen, [st EXCEPT !.phase = "verifying", !.token = token])
      BY <1>1, <2>2, RequestOK
    <2> HIDE DEF next
    <2>4. RunOK(h, next) /\ Follows(st, st.config, st.seen, next)
      BY <2>1, <2>3
    <2> QED
      BY <2>4 DEF next
  <1> QED
    BY <1>3, <1>4, <1>5, <1>6, <1>7 DEF Questions

LEMMA Regroup ==
  ASSUME NEW S, NEW a \in Seq(S), NEW b \in S, NEW c \in Seq(S), NEW d \in Seq(S)
  PROVE  Append(a, b) \in Seq(S) /\ Append(a, b) \o (c \o d) = a \o ((<<b>> \o c) \o d)
  <1> DEFINE e == <<b>>
  <1>1. Append(a, b) = a \o e /\ e \in Seq(S)
    OBVIOUS
  <1> HIDE DEF e
  <1>2. c \o d \in Seq(S)
    OBVIOUS
  <1>3. (e \o c) \o d = e \o (c \o d)
    BY <1>1, ConcatAssociative
  <1>4. (a \o e) \o (c \o d) = a \o (e \o (c \o d))
    BY <1>1, <1>2, ConcatAssociative
  <1>5. Append(a, b) \in Seq(S)
    OBVIOUS
  <1>6. Append(a, b) \o (c \o d) = a \o ((e \o c) \o d)
    BY <1>1, <1>3, <1>4
  <1> QED
    BY <1>5, <1>6 DEF e

\* An answer was taken: what is left is to come.
LEMMA AnswerOK ==
  ASSUME NEW h \in Hosts, NEW st, RunOK(h, st), st.phase = "asking", st.line # None
  PROVE  /\ RunOK(h, Answered([st EXCEPT !.taken = Append(@, st.line)]))
         /\ Follows(st, st.config, st.seen, Answered([st EXCEPT !.taken = Append(@, st.line)]))
  <1> DEFINE taken == Append(st.taken, st.line)
             next == [st EXCEPT !.taken = taken]
  <1>1. /\ st \in Runs(h) /\ st.taken \in Seq(Meanings) /\ st.line \in Meanings /\ st.queued \in Seq(Meanings)
        /\ st.script \in Seq(Meanings) /\ Idle(st) /\ st.run = 0 /\ st.reader
        /\ st.lines = st.taken \o ((<<st.line>> \o st.queued) \o st.script)
        /\ ~st.cli.died => ForwardedUpTo(st.argv, Len(st.argv), st.cli.claudeArgs)
        /\ st.ask \in Questions /\ (st.ask \notin {"backend", "address"} => st.url \in Urls)
    <2>1. /\ st \in Runs(h) /\ st.taken \in Seq(Meanings) /\ st.line \in Meanings /\ st.queued \in Seq(Meanings)
          /\ st.script \in Seq(Meanings)
      BY DEF RunOK, Runs
    <2> QED
      BY <2>1 DEF RunOK, InputOK, AccountOK, EndOK, BeforeClaude, BeforeRun, Talking, Unread
  <1>2. taken \in Seq(Meanings) /\ taken \o (st.queued \o st.script) = st.lines
    <2>1. st.taken \in Seq(Meanings) /\ st.line \in Meanings /\ st.queued \in Seq(Meanings) /\ st.script \in Seq(Meanings)
      BY <1>1
    <2>2. \A a, c, d \in Seq(Meanings), b \in Meanings :
            Append(a, b) \in Seq(Meanings) /\ Append(a, b) \o (c \o d) = a \o ((<<b>> \o c) \o d)
      BY Regroup
    <2>3. taken \in Seq(Meanings) /\ taken \o (st.queued \o st.script) = st.taken \o ((<<st.line>> \o st.queued) \o st.script)
      BY ONLY <2>1, <2>2, Zenon DEF taken
    <2> HIDE DEF taken
    <2> QED
      BY <1>1, <2>3
  <1> HIDE DEF taken
  <1>3. next \in Runs(h)
    <2>1. st \in Runs(h) /\ taken \in Seq(Meanings)
      BY <1>1, <1>2
    <2> QED
      BY <2>1 DEF Runs
  <1>4. /\ SameLife(st, next) /\ SameLogin(st, next) /\ next.taken = taken /\ next.queued = st.queued /\ next.script = st.script
        /\ next.lines = st.lines /\ next.reader = st.reader /\ next.ask = st.ask
    BY <1>1 DEF Runs, SameLife, SameLogin
  <1>5. Answered([st EXCEPT !.taken = Append(@, st.line)]) = Answered(next)
    BY DEF taken
  <1> HIDE DEF next
  <1>6. Ready(h, next)
    BY <1>1, <1>2, <1>3, <1>4 DEF Ready, SameLife, SameLogin, Idle, RunOK, AccountOK, OwnToken
  <1>7. RunOK(h, Answered(next)) /\ Follows(next, next.config, next.seen, Answered(next))
    <2>1. CASE next.ask \in {"backend", "address"}
      BY <1>6, <2>1, ChooseOK DEF Answered
    <2>2. CASE next.ask \notin {"backend", "address"}
      BY <1>1, <1>4, <1>6, <2>2, ObtainOK DEF Answered, SameLogin
    <2> QED
      BY <2>1, <2>2
  <1>8. Follows(st, st.config, st.seen, Answered(next))
    BY <1>4, <1>7 DEF Follows, SameLife, SameLogin
  <1> QED
    BY <1>5, <1>7, <1>8

-----------------------------------------------------------------------------
(* The steps of a run *)

LEMMA Shift ==
  ASSUME NEW S, NEW a \in Seq(S), NEW b \in Seq(S), b # <<>>
  PROVE  /\ Append(a, Head(b)) \in Seq(S) /\ Head(b) \in S /\ Tail(b) \in Seq(S)
         /\ Append(a, Head(b)) \o Tail(b) = a \o b
         /\ (<<Head(b)>> \o <<>>) \o Tail(b) = b
  <1>1. Head(b) \in S /\ Tail(b) \in Seq(S) /\ <<Head(b)>> \o Tail(b) = b
    BY Glue
  <1> DEFINE e == <<Head(b)>>
  <1>2. e \in Seq(S) /\ Append(a, Head(b)) = a \o e /\ Append(a, Head(b)) \in Seq(S)
    BY <1>1
  <1>3. e \o Tail(b) = b
    BY <1>1
  <1> HIDE DEF e
  <1>4. (a \o e) \o Tail(b) = a \o (e \o Tail(b))
    BY <1>1, <1>2, ConcatAssociative
  <1>5. e \o <<>> = e
    BY <1>2, ConcatEmptySeq
  <1>6. Append(a, Head(b)) \o Tail(b) = a \o b
    BY <1>2, <1>3, <1>4
  <1> QED
    BY <1>1, <1>2, <1>3, <1>5, <1>6 DEF e

LEMMA TalkingEnd ==
  ASSUME NEW st, NEW next, EndOK(st), SameLife(st, next), st.phase \in Talking, next.phase = st.phase
  PROVE  EndOK(next)
  <1>1. Idle(next) /\ next.run = 0
    BY DEF EndOK, SameLife, Idle, BeforeClaude, BeforeRun
  <1>2. next.phase \notin {"linking", "launching", "running", "killing", "exited"}
    BY DEF Talking
  <1> QED
    BY <1>1, <1>2 DEF EndOK

LEMMA OnLineOK ==
  ASSUME NEW h \in Hosts, NEW st, RunOK(h, st), st.reader, st.script # <<>>
  PROVE  /\ RunOK(h, LineIn([st EXCEPT !.script = Tail(@)], Head(st.script)))
         /\ Follows(st, st.config, st.seen, LineIn([st EXCEPT !.script = Tail(@)], Head(st.script)))
         /\ LineIn([st EXCEPT !.script = Tail(@)], Head(st.script)).phase = st.phase
  <1> DEFINE line == Head(st.script)
             rest == Tail(st.script)
             mid == [st EXCEPT !.script = rest]
             next == LineIn(mid, line)
             early == (IF st.phase = "asking" /\ st.line # None THEN <<st.line>> ELSE <<>>)
  <1>1. /\ st \in Runs(h) /\ st.queued \in Seq(Meanings) /\ st.script \in Seq(Meanings) /\ st.phase \in Talking
        /\ st.lines = st.taken \o Unread(st) /\ st.line \in Meanings \cup {None}
    <2>1. st \in Runs(h)
      BY DEF RunOK
    <2> QED
      BY <2>1 DEF RunOK, InputOK, Runs
  <1>2. /\ line \in Meanings /\ line # None /\ rest \in Seq(Meanings) /\ (<<line>> \o <<>>) \o rest = st.script
        /\ Append(st.queued, line) \in Seq(Meanings) /\ Append(st.queued, line) \o rest = st.queued \o st.script
    <2>1. \A a, b \in Seq(Meanings) : b # <<>> =>
            /\ Append(a, Head(b)) \in Seq(Meanings) /\ Head(b) \in Meanings /\ Tail(b) \in Seq(Meanings)
            /\ Append(a, Head(b)) \o Tail(b) = a \o b
            /\ (<<Head(b)>> \o <<>>) \o Tail(b) = b
      BY Shift
    <2>2. st.queued \in Seq(Meanings) /\ st.script \in Seq(Meanings) /\ st.script # <<>>
      BY <1>1
    <2>3. Head(st.script) # None
      BY <2>1, <2>2, NoneIsNothing
    <2> QED
      BY ONLY <2>1, <2>2, <2>3, Zenon DEF line, rest
  <1>3. Unread(st) = (early \o st.queued) \o st.script /\ early \in Seq(Meanings)
    <2>1. Unread(st) = (early \o st.queued) \o st.script
      BY DEF Unread
    <2> QED
      BY <1>1, <2>1
  <1>4. [st EXCEPT !.script = Tail(@)] = mid
    OBVIOUS
  <1> HIDE DEF line, rest, early
  <1>5. mid \in Runs(h) /\ mid.phase = st.phase /\ mid.line = st.line /\ mid.queued = st.queued
    BY <1>1, <1>2 DEF Runs
  <1>6. CASE Waiting(st)
    <2> DEFINE last == [st EXCEPT !.script = rest, !.line = line]
    <2>1. next = last
      BY <1>1, <1>5, <1>6 DEF LineIn, Waiting, Runs
    <2>2. last \in Runs(h)
      BY <1>1, <1>2 DEF Runs
    <2>3. /\ last.phase = st.phase /\ last.line = line /\ last.script = rest /\ last.queued = st.queued /\ last.reader = st.reader
          /\ last.lines = st.lines /\ last.taken = st.taken /\ last.ended = st.ended /\ last.ask = st.ask
          /\ SameLife(st, last) /\ SameLogin(st, last)
      BY <1>1 DEF Runs, SameLife, SameLogin
    <2>4. st.queued = <<>> /\ st.phase = "asking" /\ st.line = None
      BY <1>6 DEF RunOK, InputOK, Waiting
    <2> HIDE DEF last
    <2>5. Unread(last) = Unread(st)
      <3>1. Unread(last) = (<<line>> \o <<>>) \o rest
        BY <1>2, <2>3, <2>4 DEF Unread
      <3>2. Unread(st) = (<<>> \o <<>>) \o st.script
        BY <1>3, <2>4 DEF early
      <3>3. (<<>> \o <<>>) \o st.script = st.script
        BY <1>1
      <3> QED
        BY <1>2, <3>1, <3>2, <3>3
    <2>6. AccountOK(last)
      BY <2>3 DEF RunOK, AccountOK, SameLogin, SameLife, OwnToken
    <2>7. InputOK(last)
      BY <1>2, <2>3, <2>4, <2>5 DEF RunOK, InputOK, Waiting, SameLife
    <2>8. EndOK(last)
      BY <1>1, <2>3, TalkingEnd DEF RunOK
    <2>9. Follows(st, st.config, st.seen, last)
      BY <1>1, <2>3 DEF Follows, Reading, SameLife, SameLogin
    <2> QED
      BY <1>4, <2>1, <2>2, <2>3, <2>6, <2>7, <2>8, <2>9 DEF RunOK, line
  <1>7. CASE ~Waiting(st)
    <2> DEFINE queued == Append(st.queued, line)
               last == [st EXCEPT !.script = rest, !.queued = queued]
    <2>1. next = last
      BY <1>1, <1>5, <1>7 DEF LineIn, Waiting, Runs
    <2>2. queued \in Seq(Meanings) /\ queued \o rest = st.queued \o st.script
      BY <1>2
    <2> HIDE DEF queued
    <2>3. last \in Runs(h)
      BY <1>1, <1>2, <2>2 DEF Runs
    <2>4. /\ last.phase = st.phase /\ last.line = st.line /\ last.script = rest /\ last.queued = queued /\ last.reader = st.reader
          /\ last.lines = st.lines /\ last.taken = st.taken /\ last.ended = st.ended /\ last.ask = st.ask
          /\ SameLife(st, last) /\ SameLogin(st, last)
      BY <1>1 DEF Runs, SameLife, SameLogin
    <2> HIDE DEF last
    <2>5. Unread(last) = Unread(st)
      <3>0. \A a, b, c \in Seq(Meanings) : (a \o b) \o c = a \o (b \o c)
        BY ConcatAssociative
      <3>4. /\ early \in Seq(Meanings) /\ queued \in Seq(Meanings) /\ rest \in Seq(Meanings)
            /\ st.queued \in Seq(Meanings) /\ st.script \in Seq(Meanings)
        BY <1>1, <1>2, <1>3, <2>2
      <3>1. Unread(last) = (early \o queued) \o rest
        BY <2>4 DEF Unread, early
      <3>2. (early \o queued) \o rest = early \o (queued \o rest)
        BY ONLY <3>0, <3>4, Zenon
      <3>3. (early \o st.queued) \o st.script = early \o (st.queued \o st.script)
        BY ONLY <3>0, <3>4, Zenon
      <3> QED
        BY <1>3, <2>2, <3>1, <3>2, <3>3
    <2>6. AccountOK(last)
      BY <2>4 DEF RunOK, AccountOK, SameLogin, SameLife, OwnToken
    <2>7. InputOK(last)
      BY <1>7, <2>4, <2>5 DEF RunOK, InputOK, Waiting, SameLife
    <2>8. EndOK(last)
      BY <1>1, <2>4, TalkingEnd DEF RunOK
    <2>9. Follows(st, st.config, st.seen, last)
      BY <1>1, <2>4 DEF Follows, Reading, SameLife, SameLogin
    <2> QED
      BY <1>4, <2>1, <2>3, <2>4, <2>6, <2>7, <2>8, <2>9 DEF RunOK, line
  <1> QED
    BY <1>6, <1>7

LEMMA OnEndOK ==
  ASSUME NEW h \in Hosts, NEW st, RunOK(h, st), st.reader
  PROVE  RunOK(h, InputEnded(st)) /\ Follows(st, st.config, st.seen, InputEnded(st))
  <1>1. st \in Runs(h) /\ st.phase \in Talking /\ Idle(st)
    BY DEF RunOK, InputOK, EndOK, BeforeClaude, BeforeRun
  <1>2. CASE Waiting(st)
    BY <1>1, <1>2, LeaveOK DEF InputEnded
  <1>3. CASE ~Waiting(st)
    <2> DEFINE next == [st EXCEPT !.ended = TRUE]
    <2>1. InputEnded(st) = next
      BY <1>3 DEF InputEnded
    <2>2. next \in Runs(h)
      BY <1>1 DEF Runs
    <2>3. /\ next.phase = st.phase /\ next.line = st.line /\ next.script = st.script /\ next.queued = st.queued
          /\ next.reader = st.reader /\ next.lines = st.lines /\ next.taken = st.taken /\ next.ask = st.ask
          /\ SameLife(st, next) /\ SameLogin(st, next)
      BY <1>1 DEF Runs, SameLife, SameLogin
    <2> HIDE DEF next
    <2>4. AccountOK(next)
      BY <2>3 DEF RunOK, AccountOK, SameLogin, SameLife, OwnToken
    <2>5. InputOK(next)
      BY <1>3, <2>3 DEF RunOK, InputOK, Waiting, SameLife, Unread
    <2>6. EndOK(next)
      BY <1>1, <2>3, TalkingEnd DEF RunOK
    <2>7. Follows(st, st.config, st.seen, next)
      BY <1>1, <2>3 DEF Follows, Reading, SameLife, SameLogin
    <2> QED
      BY <2>1, <2>2, <2>4, <2>5, <2>6, <2>7 DEF RunOK
  <1> QED
    BY <1>2, <1>3

\* A run returned from the flow has its token and gives stdin back.
LEMMA GotOK ==
  ASSUME NEW h \in Hosts, NEW st, Ready(h, st), st.url \in Urls, NEW token \in Issued, NEW excused \in BOOLEAN,
         NEW rejected \in SUBSET Dead, token \notin rejected \/ excused,
         NEW next, next = [closePrompts(st) EXCEPT !.phase = "saving", !.token = token, !.rejected = rejected, !.excused = excused]
  PROVE  RunOK(h, next) /\ Follows(st, st.config, st.seen, next)
  <1> DEFINE closed == closePrompts(st)
  <1>1. closed \in Runs(h) /\ SameLife(st, closed) /\ SameLogin(st, closed) /\ closed.reader = FALSE /\ Idle(st)
    BY ClosedIs DEF Ready
  <1>2. token \in Presented(h) /\ "saving" \in Phases
    BY ConfigTypes DEF Presented, Phases
  <1>3. next = [closed EXCEPT !.phase = "saving", !.token = token, !.rejected = rejected, !.excused = excused]
    OBVIOUS
  <1> HIDE DEF closed
  <1>4. next \in Runs(h)
    <2> DEFINE half == [closed EXCEPT !.phase = "saving", !.token = token]
    <2>1. closed \in Runs(h)
      BY <1>1
    <2>2. half \in Runs(h)
      BY <1>2, <2>1 DEF Runs
    <2>3. next = [half EXCEPT !.rejected = rejected, !.excused = excused]
      BY <1>3
    <2> HIDE DEF half
    <2> QED
      BY <2>2, <2>3 DEF Runs
  <1>5. /\ next.phase = "saving" /\ next.token = token /\ next.rejected = rejected /\ next.excused = excused
        /\ SameLife(closed, next) /\ next.config = closed.config /\ next.seen = closed.seen /\ next.url = closed.url
        /\ next.reader = closed.reader
    BY <1>1, <1>3 DEF Runs, SameLife
  <1>6. AccountOK(next)
    BY <1>1, <1>5, ConfigTypes DEF AccountOK, SameLogin, OwnToken
  <1>7. InputOK(next)
    BY <1>1, <1>5 DEF InputOK, Waiting, SameLife, Ready
  <1>8. EndOK(next)
    BY <1>1, <1>5 DEF EndOK, BeforeClaude, BeforeRun, SameLife, Idle, Ready
  <1>9. Follows(st, st.config, st.seen, next)
    BY <1>1, <1>5 DEF Follows, SameLife, SameLogin, Reading
  <1> QED
    BY <1>4, <1>6, <1>7, <1>8, <1>9 DEF RunOK

LEMMA ReadyFrom ==
  ASSUME NEW h \in Hosts, NEW st, RunOK(h, st), st.phase \in {"checking", "rechecking", "verifying", "logging in"}
  PROVE  Ready(h, st) /\ st.url \in Urls
  <1>1. /\ st \in Runs(h) /\ st.reader \in BOOLEAN /\ st.queued \in Seq(Meanings) /\ st.script \in Seq(Meanings)
    BY DEF RunOK, Runs
  <1>2. st.url \in Urls /\ Idle(st) /\ st.run = 0 /\ (~st.reader => Untouched(st))
        /\ (~st.cli.died => ForwardedUpTo(st.argv, Len(st.argv), st.cli.claudeArgs))
    BY DEF RunOK, AccountOK, EndOK, InputOK, BeforeClaude, BeforeRun, Talking
  <1>3. st.lines = st.taken \o (st.queued \o st.script)
    <2>1. CASE st.reader
      <3>1. st.lines = st.taken \o ((<<>> \o st.queued) \o st.script)
        BY <2>1 DEF RunOK, InputOK, Unread
      <3>2. <<>> \o st.queued = st.queued
        BY <1>1, ConcatEmptySeq
      <3> QED
        BY <3>1, <3>2
    <2>2. CASE ~st.reader
      <3>1. st.lines = st.script /\ st.taken = <<>> /\ st.queued = <<>>
        BY <1>2, <2>2 DEF Untouched
      <3>2. <<>> \o st.script = st.script
        BY <1>1, ConcatEmptySeq
      <3> QED
        BY <3>1, <3>2
    <2> QED
      BY <2>1, <2>2
  <1> QED
    BY <1>1, <1>2, <1>3 DEF Ready, RunOK, AccountOK

LEMMA ReadyTold ==
  ASSUME NEW h \in Hosts, NEW st, Ready(h, st), NEW rejected \in SUBSET Dead,
         NEW told, told = [st EXCEPT !.rejected = rejected]
  PROVE  /\ Ready(h, told) /\ SameLife(st, told) /\ told.config = st.config /\ told.seen = st.seen /\ told.url = st.url
         /\ told.rejected = rejected /\ told.token = st.token /\ told.excused = st.excused /\ told.phase = st.phase
  <1>1. st \in Runs(h)
    BY DEF Ready
  <1>2. told \in Runs(h)
    BY <1>1 DEF Runs
  <1>3. /\ told.url = st.url /\ told.config = st.config /\ told.seen = st.seen /\ SameLife(st, told)
        /\ told.reader = st.reader /\ told.queued = st.queued /\ told.phase = st.phase
        /\ told.lines = st.lines /\ told.taken = st.taken /\ told.script = st.script /\ told.ended = st.ended
        /\ told.rejected = rejected /\ told.token = st.token /\ told.excused = st.excused
    BY <1>1 DEF Runs, SameLife
  <1> QED
    BY <1>2, <1>3 DEF Ready, SameLife, Idle, Untouched, OwnToken

\* What the backend says of a token, or that it says nothing.
LEMMA CheckedOK ==
  ASSUME NEW h \in Hosts, NEW st, RunOK(h, st), st.phase \in {"checking", "rechecking", "verifying"},
         NEW status \in {"ok", "rejected", "unreachable"}, status # "unreachable" => status = Known(st)
  PROVE  RunOK(h, Checked(st, status)) /\ Follows(st, st.config, st.seen, Checked(st, status))
  <1> DEFINE rejected == IF status = "rejected" THEN st.rejected \cup {st.token} ELSE st.rejected
             told == [st EXCEPT !.rejected = rejected]
             next == Checked(st, status)
  <1> SUFFICES RunOK(h, next) /\ Follows(st, st.config, st.seen, next)
    OBVIOUS
  <1>1. Ready(h, st) /\ st.url \in Urls /\ st \in Runs(h) /\ st.rejected \in SUBSET Dead /\ st.token \in Tokens
        /\ (st.phase \in {"checking", "rechecking"} => st.token \in Issued)
        /\ (st.phase = "checking" => st.rejected = {} /\ st.reader = FALSE)
    <2>1. Ready(h, st) /\ st.url \in Urls
      BY ReadyFrom
    <2>2. st \in Runs(h) /\ st.rejected \in SUBSET Dead /\ st.reader \in BOOLEAN
      BY DEF RunOK, Runs
    <2>3. st.phase \in {"checking", "rechecking"} => st.token \in Issued
      BY DEF RunOK, AccountOK
    <2>4. st.token \in Tokens
      BY <2>3, ConfigTypes DEF RunOK, AccountOK
    <2>5. st.phase = "checking" => st.rejected = {} /\ st.reader = FALSE
      BY <2>2 DEF RunOK, AccountOK, InputOK, Talking
    <2> QED
      BY <2>1, <2>2, <2>3, <2>4, <2>5
  <1>2. status = "ok" => st.token \notin Dead /\ st.token \in Issued
    <2>1. status = "ok" => st.token.n = Accepted
      BY DEF Known
    <2>2. st.token.n = Accepted => st.token \notin Dead /\ st.token \in Issued
      BY <1>1 DEF Dead, Tokens, Issued, Accepted
    <2> QED
      BY <2>1, <2>2
  <1>3. rejected \in SUBSET Dead
    <2>1. status = "rejected" => st.token.n # Accepted
      BY DEF Known
    <2>2. status = "rejected" => st.token \in Dead
      BY <1>1, <2>1 DEF Dead
    <2> QED
      BY <1>1, <2>2
  <1>4. status # "rejected" => rejected = st.rejected
    OBVIOUS
  <1>5. told = [st EXCEPT !.rejected = IF status = "rejected" THEN @ \cup {st.token} ELSE @]
    BY <1>1 DEF Runs
  <1> HIDE DEF rejected
  <1>6. /\ Ready(h, told) /\ SameLife(st, told) /\ told.config = st.config /\ told.seen = st.seen /\ told.url = st.url
        /\ told.rejected = rejected /\ told.token = st.token /\ told.excused = st.excused /\ told.phase = st.phase
    BY <1>1, <1>3, ReadyTold
  <1>7. next = CASE st.phase = "checking" ->
                      IF status # "rejected" THEN [closePrompts(told) EXCEPT !.phase = "settled", !.config = Empty, !.seen = 0]
                      ELSE runLoginFlow(told)
                 [] st.phase = "rechecking" ->
                      IF status # "rejected" THEN [GotToken(told) EXCEPT !.excused = status = "unreachable"] ELSE Asked(told, "how")
                 [] st.phase = "verifying" ->
                      IF status = "ok" THEN GotToken(told) ELSE Asked(told, "how")
    BY <1>5 DEF Checked, Usable
  <1> HIDE DEF told, next
  <1>8. ASSUME NEW last, RunOK(h, last), Follows(told, told.config, told.seen, last), next = last
        PROVE  RunOK(h, next) /\ Follows(st, st.config, st.seen, next)
    BY <1>6, <1>8 DEF Follows, SameLife
  <1>9. ASSUME next = Asked(told, "how") PROVE RunOK(h, next) /\ Follows(st, st.config, st.seen, next)
    <2>1. "how" \in Questions
      BY DEF Questions
    <2>2. RunOK(h, Asked(told, "how")) /\ Follows(told, told.config, told.seen, Asked(told, "how"))
      BY <1>1, <1>6, <2>1, AskedOK
    <2> QED
      BY <1>8, <1>9, <2>2
  <1> DEFINE closed == closePrompts(told)
  <1>10. /\ closed \in Runs(h) /\ SameLife(told, closed) /\ SameLogin(told, closed) /\ closed.phase = told.phase
         /\ closed.reader = FALSE
    BY <1>6, ClosedIs DEF Ready
  <1> HIDE DEF closed
  <1>11. CASE st.phase = "checking"
    <2>1. CASE status = "rejected"
      <3>1. next = runLoginFlow(told)
        BY <1>7, <1>11, <2>1
      <3> QED
        BY <1>6, <1>8, <3>1, LoginFlowOK
    <2>2. CASE status # "rejected"
      <3>1. next = [closed EXCEPT !.phase = "settled", !.config = Empty, !.seen = 0]
        BY <1>7, <1>11, <2>2 DEF closed
      <3>2. next \in Runs(h)
        BY <1>10, <3>1, ConfigTypes DEF Runs, Phases
      <3>3. /\ next.phase = "settled" /\ SameLife(closed, next) /\ next.rejected = closed.rejected
            /\ next.reader = FALSE /\ next.seen = 0 /\ next.token = closed.token
        BY <1>10, <3>1 DEF Runs, SameLife
      <3>4. next.rejected = {} /\ SameLife(st, next) /\ OwnToken(next)
        BY <1>1, <1>4, <1>6, <1>10, <1>11, <2>2, <3>3 DEF SameLogin, SameLife, OwnToken, Ready
      <3>5. AccountOK(next)
        BY <3>3, <3>4 DEF AccountOK
      <3>6. InputOK(next)
        BY <1>1, <3>3, <3>4 DEF InputOK, Waiting, SameLife, Ready
      <3>7. EndOK(next)
        BY <1>1, <3>3, <3>4 DEF EndOK, BeforeClaude, BeforeRun, SameLife, Idle, Ready
      <3>8. Follows(st, st.config, st.seen, next)
        BY <3>3, <3>4 DEF Follows, SameLife, Reading, Talking
      <3> QED
        BY <3>2, <3>5, <3>6, <3>7, <3>8 DEF RunOK
    <2> QED
      BY <2>1, <2>2
  <1>12. ASSUME NEW excused \in BOOLEAN, st.token \in Issued, st.token \notin rejected \/ excused,
                next = [closed EXCEPT !.phase = "saving", !.token = st.token, !.rejected = rejected, !.excused = excused]
         PROVE  RunOK(h, next) /\ Follows(st, st.config, st.seen, next)
    <2>1. RunOK(h, next) /\ Follows(told, told.config, told.seen, next)
      BY <1>1, <1>3, <1>6, <1>12, GotOK DEF closed
    <2> QED
      BY <1>8, <2>1
  <1>13. /\ closed.token = st.token /\ closed.rejected = rejected /\ closed.excused = st.excused /\ st.excused \in BOOLEAN
    BY <1>1, <1>6, <1>10 DEF SameLogin, Runs
  <1>14. CASE st.phase = "rechecking"
    <2>1. CASE status = "rejected"
      BY <1>7, <1>9, <1>14, <2>1
    <2>2. CASE status # "rejected"
      <3> DEFINE excused == status = "unreachable"
      <3>1. next = [[closed EXCEPT !.phase = "saving"] EXCEPT !.excused = excused]
        BY <1>7, <1>14, <2>2 DEF closed, GotToken
      <3>2. excused \in BOOLEAN /\ (excused \/ status = "ok")
        BY <2>2
      <3> HIDE DEF excused
      <3>3. next = [closed EXCEPT !.phase = "saving", !.token = st.token, !.rejected = rejected, !.excused = excused]
        BY <1>10, <1>13, <3>1 DEF Runs
      <3>4. st.token \in Issued /\ (st.token \notin rejected \/ excused)
        BY <1>1, <1>2, <1>3, <1>14, <3>2
      <3> QED
        BY <1>12, <3>2, <3>3, <3>4
    <2> QED
      BY <2>1, <2>2
  <1>15. CASE st.phase = "verifying"
    <2>1. CASE status # "ok"
      BY <1>7, <1>9, <1>15, <2>1
    <2>2. CASE status = "ok"
      <3>1. next = [closed EXCEPT !.phase = "saving"]
        BY <1>7, <1>15, <2>2 DEF closed, GotToken
      <3>2. next = [closed EXCEPT !.phase = "saving", !.token = st.token, !.rejected = rejected, !.excused = st.excused]
        BY <1>10, <1>13, <3>1 DEF Runs
      <3>3. st.token \in Issued /\ st.token \notin rejected
        BY <1>2, <1>3, <2>2
      <3> QED
        BY <1>12, <1>13, <3>2, <3>3
    <2> QED
      BY <2>1, <2>2
  <1> QED
    BY <1>11, <1>14, <1>15

LEMMA NewToken ==
  ASSUME NEW url \in Urls
  PROVE  Token(url, Accepted) \in Issued /\ Token(url, Accepted) \notin Dead
  <1>1. Token(url, Accepted).n = Accepted
    BY DEF Token
  <1>2. Token(url, Accepted) \in Issued
    BY DEF Token, Issued, Accepted
  <1> QED
    BY <1>1, <1>2 DEF Dead

LEMMA LoggedInOK ==
  ASSUME NEW h \in Hosts, NEW st, RunOK(h, st), st.phase = "logging in", NEW status
  PROVE  RunOK(h, LoggedIn(st, status)) /\ Follows(st, st.config, st.seen, LoggedIn(st, status))
  <1> DEFINE token == Token(st.url, Accepted)
             next == LoggedIn(st, status)
             closed == closePrompts(st)
  <1>1. Ready(h, st) /\ st.url \in Urls /\ st \in Runs(h) /\ "how" \in Questions /\ st.rejected \in SUBSET Dead /\ st.excused \in BOOLEAN
    <2>1. st \in Runs(h)
      BY DEF RunOK
    <2> QED
      BY <2>1, ReadyFrom DEF Runs, Questions
  <1>2. CASE status # "ok"
    <2>1. next = Asked(st, "how")
      BY <1>2 DEF LoggedIn
    <2> QED
      BY <1>1, <2>1, AskedOK
  <1>3. CASE status = "ok"
    <2>1. token \in Issued /\ token \notin Dead
      BY <1>1, NewToken
    <2> HIDE DEF token
    <2>2. next = [[closed EXCEPT !.phase = "saving"] EXCEPT !.token = token]
      BY <1>3 DEF LoggedIn, GotToken, token
    <2>3. closed \in Runs(h) /\ closed.rejected = st.rejected /\ closed.excused = st.excused
      BY <1>1, ClosedIs DEF SameLogin
    <2> HIDE DEF closed, next
    <2>4. next = [closed EXCEPT !.phase = "saving", !.token = token, !.rejected = st.rejected, !.excused = st.excused]
      BY <2>2, <2>3 DEF Runs
    <2>5. token \notin st.rejected
      BY <1>1, <2>1
    <2>6. RunOK(h, next) /\ Follows(st, st.config, st.seen, next)
      BY <1>1, <2>1, <2>4, <2>5, GotOK DEF closed
    <2> QED
      BY <2>6 DEF next
  <1> QED
    BY <1>2, <1>3

\* A step of a run with claude: it still goes, or has ended, as it must.
LEMMA GoesOn ==
  ASSUME NEW h \in Hosts, NEW st, RunOK(h, st), NEW next \in Runs(h),
         st.phase \in {"launching", "running", "killing"}, next.phase \in {"launching", "running", "killing"},
         next.argv = st.argv, next.cli = st.cli, next.run = st.run, next.refresh = st.refresh, next.notice = st.notice,
         next.seen = st.seen, next.rejected = st.rejected, next.token = st.token, next.excused = st.excused, next.reader = st.reader,
         st.phase # "killing" \/ next.phase = "killing",
         EndOK(next)
  PROVE  RunOK(h, next) /\ Follows(st, st.config, st.seen, next)
  <1>1. AccountOK(next)
    BY DEF RunOK, AccountOK, Settled, OwnToken
  <1>2. st.reader \in BOOLEAN
    BY DEF RunOK, Runs
  <1>3. ~st.reader
    BY <1>2 DEF RunOK, InputOK, Talking
  <1>4. InputOK(next)
    BY <1>3 DEF RunOK, InputOK, Waiting
  <1>5. Follows(st, st.config, st.seen, next)
    BY DEF Follows, Reading, Talking
  <1> QED
    BY <1>1, <1>4, <1>5 DEF RunOK

LEMMA LaunchedOK ==
  ASSUME NEW h \in Hosts, NEW st, RunOK(h, st), st.phase = "launching"
  PROVE  /\ st.claude = "waiting" => /\ RunOK(h, [st EXCEPT !.phase = "running", !.claude = "up"])
                                     /\ Follows(st, st.config, st.seen, [st EXCEPT !.phase = "running", !.claude = "up"])
         /\ RunOK(h, Exit(killTree(st, FALSE), 1)) /\ Follows(st, st.config, st.seen, Exit(killTree(st, FALSE), 1))
  <1>1. st \in Runs(h) /\ st.worker = "none" /\ ~st.doomed /\ st.claude \in {"waiting", "dead"} /\ st.run # 0
    BY DEF RunOK, EndOK
  <1>2. ASSUME st.claude = "waiting"
        PROVE  /\ RunOK(h, [st EXCEPT !.phase = "running", !.claude = "up"])
               /\ Follows(st, st.config, st.seen, [st EXCEPT !.phase = "running", !.claude = "up"])
    <2> DEFINE next == [st EXCEPT !.phase = "running", !.claude = "up"]
    <2>1. next \in Runs(h)
      BY <1>1 DEF Runs, Phases
    <2>2. /\ next.phase = "running" /\ next.claude = "up" /\ next.worker = st.worker /\ next.doomed = st.doomed
          /\ next.argv = st.argv /\ next.cli = st.cli /\ next.run = st.run /\ next.refresh = st.refresh /\ next.notice = st.notice
          /\ next.seen = st.seen /\ next.rejected = st.rejected /\ next.token = st.token /\ next.excused = st.excused
          /\ next.reader = st.reader
      BY <1>1 DEF Runs
    <2> HIDE DEF next
    <2>3. EndOK(next)
      BY <1>1, <2>2 DEF EndOK, BeforeClaude, BeforeRun, Talking
    <2>4. RunOK(h, next) /\ Follows(st, st.config, st.seen, next)
      BY <2>1, <2>2, <2>3, GoesOn
    <2> QED
      BY <2>4 DEF next
  <1>3. RunOK(h, Exit(killTree(st, FALSE), 1)) /\ Follows(st, st.config, st.seen, Exit(killTree(st, FALSE), 1))
    <2> DEFINE killed == killTree(st, FALSE)
    <2>1. killed = [st EXCEPT !.claude = "dead"]
      BY <1>1 DEF killTree, Alive, Runs
    <2> HIDE DEF killed
    <2>2. /\ killed \in Runs(h) /\ killed.claude = "dead" /\ killed.worker = st.worker /\ killed.run = st.run
          /\ killed.seen = st.seen /\ killed.refresh = st.refresh /\ killed.notice = st.notice
      BY <1>1, <2>1 DEF Runs
    <2>3. RunOK(h, Exit(killed, 1)) /\ Follows(killed, st.config, st.seen, Exit(killed, 1))
      BY <1>1, <2>2, ExitOK DEF Alive
    <2>4. Follows(st, st.config, st.seen, Exit(killed, 1))
      BY <2>2, <2>3 DEF Follows
    <2> QED
      BY <2>3, <2>4 DEF killed
  <1> QED
    BY <1>2, <1>3

LEMMA PolledOK ==
  ASSUME NEW h \in Hosts, NEW st, RunOK(h, st), st.phase = "running", st.claude = "dead"
  PROVE  RunOK(h, Exit(st, ExitCode(st))) /\ Follows(st, st.config, st.seen, Exit(st, ExitCode(st)))
  <1>1. st \in Runs(h) /\ st.claudeCode \in {0, 1, None}
    BY DEF RunOK, Runs
  <1>2. ExitCode(st) \in {0, 1, 2, None} /\ (~st.cli.headless /\ st.claudeCode \notin {0, None} => ExitCode(st) # 0)
    BY <1>1 DEF ExitCode
  <1>3. ~st.escaped => ~Alive(st.claude) /\ st.worker # "up"
    BY DEF RunOK, EndOK, Alive
  <1>4. ~Exit(st, ExitCode(st)).escaped => ~Alive(st.claude) /\ st.worker # "up"
    BY <1>1, <1>2, <1>3, ExitIs
  <1> QED
    BY <1>1, <1>2, <1>4, ExitOK

LEMMA SignalOK ==
  ASSUME NEW h \in Hosts, NEW st, RunOK(h, st)
  PROVE  /\ st.cli.headless /\ st.phase = "running" =>
              LET next == [st EXCEPT !.phase = "killing", !.doomed = Alive(st.claude) /\ st.worker = "up"]
              IN RunOK(h, next) /\ Follows(st, st.config, st.seen, next)
         /\ LET next == [Exit(st, None) EXCEPT !.escaped = TRUE]
            IN RunOK(h, next) /\ Follows(st, st.config, st.seen, next)
  <1>1. st \in Runs(h)
    BY DEF RunOK
  <1>2. ASSUME st.cli.headless, st.phase = "running"
        PROVE  LET next == [st EXCEPT !.phase = "killing", !.doomed = Alive(st.claude) /\ st.worker = "up"]
               IN RunOK(h, next) /\ Follows(st, st.config, st.seen, next)
    <2> DEFINE doomed == Alive(st.claude) /\ st.worker = "up"
               next == [st EXCEPT !.phase = "killing", !.doomed = doomed]
    <2>1. doomed \in BOOLEAN /\ (doomed <=> st.claude = "up" /\ st.worker = "up")
      BY <1>2 DEF Alive, RunOK, EndOK
    <2> HIDE DEF doomed
    <2>2. next \in Runs(h)
      <3>1. doomed \in BOOLEAN /\ "killing" \in Phases
        BY <2>1 DEF Phases
      <3> QED
        BY ONLY <1>1, <3>1 DEF Runs
    <2>3. /\ next.phase = "killing" /\ next.claude = st.claude /\ next.worker = st.worker /\ next.doomed = doomed
          /\ next.argv = st.argv /\ next.cli = st.cli /\ next.run = st.run /\ next.refresh = st.refresh /\ next.notice = st.notice
          /\ next.seen = st.seen /\ next.rejected = st.rejected /\ next.token = st.token /\ next.excused = st.excused
          /\ next.reader = st.reader /\ next.escaped = st.escaped
      BY <1>1 DEF Runs
    <2> HIDE DEF next
    <2>4. EndOK(next)
      BY <1>2, <2>1, <2>3 DEF RunOK, EndOK, BeforeClaude, BeforeRun, Talking
    <2>5. RunOK(h, next) /\ Follows(st, st.config, st.seen, next)
      BY <1>2, <2>2, <2>3, <2>4, GoesOn
    <2> QED
      BY <2>5 DEF next, doomed
  <1>3. LET next == [Exit(st, None) EXCEPT !.escaped = TRUE]
        IN RunOK(h, next) /\ Follows(st, st.config, st.seen, next)
    <2> DEFINE exit == Exit(st, None)
               next == [exit EXCEPT !.escaped = TRUE]
    <2>1. exit \in Runs(h)
      BY <1>1, ExitIs
    <2>2. next = [Exit(st, None) EXCEPT !.escaped = TRUE]
      OBVIOUS
    <2> HIDE DEF exit
    <2>3. next.escaped = TRUE
      BY <2>1 DEF Runs
    <2>4. 0 # None
      BY NoneIsNothing
    <2> HIDE DEF next
    <2>5. RunOK(h, next) /\ Follows(st, st.config, st.seen, next)
      BY <1>1, <2>2, <2>3, <2>4, ExitOK
    <2> QED
      BY <2>5 DEF next, exit
  <1> QED
    BY <1>2, <1>3

LEMMA KillOK ==
  ASSUME NEW h \in Hosts, NEW st, RunOK(h, st), st.phase = "killing"
  PROVE  /\ RunOK(h, Exit(killTree(st, st.doomed), 0))
         /\ Follows(st, st.config, st.seen, Exit(killTree(st, st.doomed), 0))
  <1>1. /\ st \in Runs(h) /\ st.doomed \in BOOLEAN /\ st.claude \in {"up", "dead"} /\ st.cli.headless
        /\ (st.worker = "up" /\ ~st.doomed => st.escaped)
    BY DEF RunOK, EndOK, Runs
  <1> DEFINE worker == IF st.doomed THEN "dead" ELSE st.worker
             killed == killTree(st, st.doomed)
  <1>2. worker \in {"none", "up", "dead"}
    BY <1>1 DEF Runs
  <1>3. killed = [st EXCEPT !.claude = "dead", !.worker = worker]
    BY <1>1 DEF killTree, Alive, Runs
  <1>4. worker = "up" => st.escaped
    BY <1>1
  <1> HIDE DEF killed, worker
  <1>5. /\ killed \in Runs(h) /\ killed.claude = "dead" /\ killed.worker = worker /\ killed.run = st.run /\ killed.cli = st.cli
        /\ killed.seen = st.seen /\ killed.refresh = st.refresh /\ killed.notice = st.notice /\ killed.escaped = st.escaped
    BY <1>1, <1>2, <1>3 DEF Runs
  <1>6. ~Exit(killed, 0).escaped => ~Alive(killed.claude) /\ killed.worker # "up"
    BY <1>4, <1>5, ExitIs DEF Alive
  <1>7. RunOK(h, Exit(killed, 0)) /\ Follows(killed, st.config, st.seen, Exit(killed, 0))
    BY <1>1, <1>5, <1>6, ExitOK
  <1>8. Follows(st, st.config, st.seen, Exit(killed, 0))
    BY <1>5, <1>7 DEF Follows
  <1> QED
    BY <1>7, <1>8 DEF killed

LEMMA WorkerOK ==
  ASSUME NEW h \in Hosts, NEW st, RunOK(h, st), st.claude = "up", st.phase \in {"running", "killing"},
         NEW next, next = [st EXCEPT !.worker = "up", !.escaped = @ \/ st.phase = "killing"]
  PROVE  RunOK(h, next) /\ Follows(st, st.config, st.seen, next)
  <1> DEFINE escaped == st.escaped \/ st.phase = "killing"
  <1>1. st \in Runs(h) /\ st.escaped \in BOOLEAN
    BY DEF RunOK, Runs
  <1>2. next = [st EXCEPT !.worker = "up", !.escaped = escaped] /\ escaped \in BOOLEAN
    BY <1>1
  <1>3. st.phase = "killing" => escaped
    OBVIOUS
  <1> HIDE DEF escaped
  <1>4. next \in Runs(h)
    BY <1>1, <1>2 DEF Runs
  <1>5. /\ next.phase = st.phase /\ next.claude = st.claude /\ next.worker = "up" /\ next.doomed = st.doomed
        /\ next.argv = st.argv /\ next.cli = st.cli /\ next.run = st.run /\ next.refresh = st.refresh /\ next.notice = st.notice
        /\ next.seen = st.seen /\ next.rejected = st.rejected /\ next.token = st.token /\ next.excused = st.excused
        /\ next.reader = st.reader /\ next.escaped = escaped
    BY <1>1, <1>2 DEF Runs
  <1>6. EndOK(next)
    BY <1>3, <1>5 DEF RunOK, EndOK, BeforeClaude, BeforeRun, Talking
  <1> QED
    BY <1>4, <1>5, <1>6, GoesOn

LEMMA ClaudeEndsOK ==
  ASSUME NEW h \in Hosts, NEW st, RunOK(h, st), Alive(st.claude), st.phase # "exited", NEW code \in {0, 1, None},
         NEW next, next = [st EXCEPT !.claude = "dead", !.claudeCode = code, !.escaped = @ \/ (st.worker = "up" /\ ~st.doomed)]
  PROVE  RunOK(h, next) /\ Follows(st, st.config, st.seen, next)
  <1> DEFINE escaped == st.escaped \/ (st.worker = "up" /\ ~st.doomed)
  <1>1. st \in Runs(h) /\ st.escaped \in BOOLEAN /\ st.phase \in {"launching", "running", "killing"}
    <2>1. st \in Runs(h) /\ st.escaped \in BOOLEAN /\ st.phase \in Phases
      BY DEF RunOK, Runs
    <2>2. st.phase \notin BeforeClaude
      BY DEF RunOK, EndOK, Idle, Alive
    <2> QED
      BY <2>1, <2>2 DEF Phases, BeforeClaude, BeforeRun, Talking
  <1>2. next = [st EXCEPT !.claude = "dead", !.claudeCode = code, !.escaped = escaped] /\ escaped \in BOOLEAN
    BY <1>1
  <1>3. st.worker = "up" /\ ~st.doomed => escaped
    OBVIOUS
  <1> HIDE DEF escaped
  <1>4. next \in Runs(h)
    BY <1>1, <1>2 DEF Runs
  <1>5. /\ next.phase = st.phase /\ next.claude = "dead" /\ next.worker = st.worker /\ next.doomed = st.doomed
        /\ next.argv = st.argv /\ next.cli = st.cli /\ next.run = st.run /\ next.refresh = st.refresh /\ next.notice = st.notice
        /\ next.seen = st.seen /\ next.rejected = st.rejected /\ next.token = st.token /\ next.excused = st.excused
        /\ next.reader = st.reader /\ next.escaped = escaped
    BY <1>1, <1>2 DEF Runs
  <1>6. EndOK(next)
    BY <1>1, <1>3, <1>5 DEF RunOK, EndOK, BeforeClaude, BeforeRun, Talking
  <1> QED
    BY <1>1, <1>4, <1>5, <1>6, GoesOn

-----------------------------------------------------------------------------
(* The steps of the system *)

LEMMA InitOK ==
  ASSUME Init
  PROVE  CInv
  <1>1. ASSUME NEW h \in Hosts PROVE RunOK(h, host[h])
    <2>1. host[h] = Fresh /\ Fresh \in Runs(h)
      BY FreshType DEF Init
    <2>2. AccountOK(Fresh) /\ EndOK(Fresh)
      BY DEF AccountOK, OwnToken, EndOK, Fresh, Settled, BeforeClaude, BeforeRun, Talking, Idle
    <2>3. InputOK(Fresh)
      BY NothingForwarded DEF InputOK, Fresh, Waiting, NoFlags
    <2> QED
      BY <2>1, <2>2, <2>3 DEF RunOK
  <1>2. DOMAIN host = Hosts
    BY DEF Init
  <1>3. \A h \in Hosts : /\ host[h].phase = "off" /\ host[h].seen = 0 /\ host[h].run = 0 /\ host[h].refresh.on = FALSE
                         /\ host[h].notice = None
    BY DEF Init, Fresh
  <1>4. file \in Configs /\ file.whole
    <2>1. Token(Default, 1) \in Issued /\ Token(Default, Accepted) \in Issued
      BY ConfigTypes DEF Token, Issued, Accepted
    <2>2. PICK n \in {1, Accepted} : file \in {Empty, rememberBackend(Empty, Default, Token(Default, n))}
      BY DEF Init
    <2> QED
      BY <2>1, <2>2, ConfigTypes, RememberType
  <1>5. FileOK
    <2>1. saved = [u \in Urls |-> findBackend(file, u)]
      BY DEF Init
    <2>2. saved \in [Urls -> Issued \cup {None}] /\ Agrees(file)
      BY <1>4, <2>1, FindType DEF Agrees
    <2>3. \A h \in Hosts : host[h].phase \notin Reading \cup {"writing"}
      BY <1>3 DEF Reading, Talking
    <2>4. writes = 0 /\ clobbered = FALSE
      BY DEF Init
    <2>5. \A h \in Hosts : host[h].seen <= writes
      BY <1>3, <2>4
    <2>6. \A h \in Hosts : host[h].phase \notin Reading /\ host[h].phase # "writing"
      BY <2>3
    <2>7. writes \in Nat /\ clobbered \in BOOLEAN
      BY <2>4
    <2> QED
      BY <1>4, <2>2, <2>5, <2>6, <2>7 DEF FileOK
  <1>6. LogsOK
    <2>1. Started = {}
      BY <1>3 DEF Started
    <2>2. Cardinality(Started) = 0
      BY <2>1, FS_EmptySet
    <2>3. logs = [runs |-> {}, latest |-> None]
      BY DEF Init
    <2> QED
      BY <1>3, <2>2, <2>3 DEF LogsOK
  <1>7. CheckOK
    BY <1>3, CommandLineOK DEF CheckOK, Init
  <1> QED
    BY <1>1, <1>2, <1>5, <1>6, <1>7 DEF CInv

\* What a run may do with the rest as it is.
LEMMA FollowStep ==
  ASSUME CInv, NEW h \in Hosts, NEW next, RunOK(h, next), NEW config, NEW seen, Follows(host[h], config, seen, next),
         host' = [host EXCEPT ![h] = next],
         UNCHANGED <<file, check, logs, saved, writes, clobbered, learned>>,
         world' \in [published : 1 .. MaxDay, day : 1 .. MaxDay, faults : Nat, signals : Nat],
         world'.day = world.day, world'.published = world.published,
         \/ config = host[h].config /\ seen = host[h].seen /\ (host[h].phase \in Reading \/ next.phase \notin Reading)
         \/ config = loadConfig /\ seen = IF file.whole THEN writes ELSE None
  PROVE  CInv'
  <1>1. DOMAIN host' = Hosts /\ host'[h] = next /\ \A g \in Hosts : g # h => host'[g] = host[g]
    BY DEF CInv
  <1>2. \A g \in Hosts : RunOK(g, host'[g])
    BY <1>1 DEF CInv
  <1>3. \A g \in Hosts : host'[g].run = host[g].run
    BY <1>1 DEF Follows
  <1>4. LogsOK'
    <2>1. Started' = Started
      BY <1>3 DEF Started
    <2> QED
      BY <1>3, <2>1 DEF LogsOK, CInv
  <1>5. CheckOK'
    <2>1. ASSUME NEW g \in Hosts
          PROVE  /\ host'[g].refresh.on => host'[g].refresh.day \in 1 .. MaxDay /\ host'[g].refresh.from \in 1 .. world.published
                 /\ host'[g].notice # None => host'[g].notice > 1 /\ host'[g].notice <= world.published
      <3>1. CASE g = h
        BY <1>1, <3>1 DEF CInv, CheckOK, Follows
      <3>2. CASE g # h
        BY <1>1, <3>2 DEF CInv, CheckOK
      <3> QED
        BY <3>1, <3>2
    <2> QED
      BY <2>1 DEF CInv, CheckOK
  <1>6. FileOK'
    <2>1. FileOK /\ None \notin Nat
      BY NoneIsNothing DEF CInv
    <2>2. ASSUME NEW g \in Hosts, host'[g].seen # None PROVE host'[g].seen <= writes
      <3>1. CASE g = h
        BY <1>1, <2>1, <2>2, <3>1 DEF FileOK, Follows
      <3>2. CASE g # h
        BY <1>1, <2>1, <2>2, <3>2 DEF FileOK
      <3> QED
        BY <3>1, <3>2
    <2>3. ASSUME NEW g \in Hosts, ~clobbered, host'[g].phase \in Reading, host'[g].seen = writes
          PROVE  file.whole /\ Agrees(host'[g].config)
      <3>1. CASE g = h
        <4>1. next.config = config /\ next.seen = seen /\ seen = writes
          BY <1>1, <2>3, <3>1 DEF Follows
        <4>2. CASE config = host[h].config /\ seen = host[h].seen /\ host[h].phase \in Reading
          BY <1>1, <2>1, <2>3, <3>1, <4>1, <4>2 DEF FileOK
        <4>3. CASE config = loadConfig /\ seen = IF file.whole THEN writes ELSE None
          <5>1. file.whole
            BY <2>1, <4>1, <4>3 DEF FileOK
          <5>2. config = file /\ Agrees(file)
            BY <2>1, <2>3, <4>3, <5>1 DEF loadConfig, FileOK
          <5> QED
            BY <1>1, <3>1, <4>1, <5>1, <5>2
        <4> QED
          BY <1>1, <2>3, <3>1, <4>2, <4>3
      <3>2. CASE g # h
        BY <1>1, <2>1, <2>3, <3>2 DEF FileOK
      <3> QED
        BY <3>1, <3>2
    <2>4. "writing" \notin Reading
      BY DEF Reading, Talking
    <2>5. \A g \in Hosts : host'[g].phase = "writing" => g # h /\ host'[g] = host[g]
      BY <1>1, <2>4 DEF Follows
    <2>7. ~clobbered => \A g \in Hosts : host'[g].phase = "writing" =>
            host'[g].seen # None /\ host'[g].seen + 1 = writes /\ ~file.whole /\ Agrees(host'[g].config)
      BY <2>1, <2>5 DEF FileOK
    <2>8. ~clobbered => \A f, g \in Hosts : host'[f].phase = "writing" /\ host'[g].phase = "writing" => f = g
      BY <2>1, <2>5 DEF FileOK
    <2> QED
      BY <2>1, <2>2, <2>3, <2>7, <2>8 DEF FileOK, Agrees
  <1> QED
    BY <1>1, <1>2, <1>4, <1>5, <1>6 DEF CInv

LEMMA OthersKept ==
  ASSUME CInv, NEW h \in Hosts, NEW next, RunOK(h, next), host' = [host EXCEPT ![h] = next]
  PROVE  /\ DOMAIN host' = Hosts /\ host'[h] = next /\ \A g \in Hosts : g # h => host'[g] = host[g]
         /\ \A g \in Hosts : RunOK(g, host'[g])
  BY DEF CInv

LEMMA LogsFrame ==
  ASSUME LogsOK, UNCHANGED logs, \A g \in Hosts : host'[g].run = host[g].run
  PROVE  LogsOK'
  <1>1. Started' = Started
    BY DEF Started
  <1> QED
    BY <1>1 DEF LogsOK

LEMMA CheckFrame ==
  ASSUME CheckOK, UNCHANGED <<check, world, learned>>,
         \A g \in Hosts : /\ host'[g].refresh.on => host'[g].refresh = host[g].refresh
                          /\ host'[g].notice # None => host'[g].notice = host[g].notice
  PROVE  CheckOK'
  BY DEF CheckOK

LEMMA FileFrame ==
  ASSUME FileOK, NEW h \in Hosts, UNCHANGED <<file, saved, writes, clobbered>>,
         \A g \in Hosts : g # h => host'[g] = host[g],
         host'[h].phase \notin Reading \cup {"writing"}, host'[h].seen = host[h].seen
  PROVE  FileOK'
  <1>1. \A g \in Hosts : host'[g].seen # None => host'[g].seen <= writes
    BY DEF FileOK
  <1>2. \A g \in Hosts : host'[g].phase \in Reading \cup {"writing"} => host'[g] = host[g]
    OBVIOUS
  <1>3. ~clobbered =>
          /\ \A g \in Hosts : host'[g].phase \in Reading /\ host'[g].seen = writes => file.whole /\ Agrees(host'[g].config)
          /\ \A g \in Hosts : host'[g].phase = "writing" =>
               /\ host'[g].seen # None /\ host'[g].seen + 1 = writes /\ ~file.whole /\ Agrees(host'[g].config)
          /\ \A f, g \in Hosts : host'[f].phase = "writing" /\ host'[g].phase = "writing" => f = g
    BY <1>2 DEF FileOK
  <1> QED
    BY <1>1, <1>3 DEF FileOK, Agrees

LEMMA SaveOpensOK ==
  ASSUME CInv, NEW h \in Hosts, SaveOpens(h)
  PROVE  CInv'
  <1> DEFINE st == host[h]
             next == [st EXCEPT !.phase = "writing"]
  <1>1. st.phase = "saving" /\ RunOK(h, st) /\ st \in Runs(h) /\ file' = Torn /\ writes' = writes + 1
        /\ clobbered' = (clobbered \/ st.seen # writes) /\ UNCHANGED <<check, logs, world, saved, learned>>
        /\ host' = [host EXCEPT ![h] = next] /\ FileOK /\ LogsOK /\ CheckOK
    BY DEF CInv, SaveOpens, Become, RunOK
  <1>2. next \in Runs(h)
    <2>1. st \in Runs(h) /\ "writing" \in Phases
      BY <1>1 DEF Phases
    <2> QED
      BY <2>1 DEF Runs
  <1>3. /\ next.phase = "writing" /\ SameLife(st, next) /\ SameLogin(st, next) /\ next.reader = st.reader
        /\ st.reader \in BOOLEAN
    <2>1. st \in Runs(h)
      BY <1>1
    <2> QED
      BY <2>1 DEF Runs, SameLife, SameLogin
  <1> HIDE DEF st, next
  <1>4. RunOK(h, next)
    <2>1. ~st.reader
      BY <1>1, <1>3 DEF RunOK, InputOK, Talking
    <2>2. InputOK(next)
      BY <1>1, <1>3, <2>1 DEF RunOK, InputOK, SameLife, Waiting
    <2>3. AccountOK(next)
      BY <1>1, <1>3 DEF RunOK, AccountOK, SameLogin, SameLife, Settled, OwnToken
    <2>4. Idle(next) /\ next.run = 0
      BY <1>1, <1>3 DEF RunOK, EndOK, SameLife, Idle, BeforeClaude, BeforeRun
    <2>5. EndOK(next)
      BY <1>3, <2>4 DEF EndOK
    <2> QED
      BY <1>2, <2>2, <2>3, <2>5 DEF RunOK
  <1>5. DOMAIN host' = Hosts /\ host'[h] = next /\ (\A g \in Hosts : g # h => host'[g] = host[g]) /\ host[h] = st
        /\ \A g \in Hosts : RunOK(g, host'[g])
    BY <1>1, <1>4, OthersKept DEF st
  <1>6. LogsOK' /\ CheckOK'
    <2>1. \A g \in Hosts : host'[g].run = host[g].run /\ host'[g].refresh = host[g].refresh /\ host'[g].notice = host[g].notice
      BY <1>3, <1>5 DEF SameLife
    <2> QED
      BY <1>1, <2>1, LogsFrame, CheckFrame
  <1>7. FileOK'
    <2>1. writes \in Nat /\ writes' \in Nat /\ clobbered' \in BOOLEAN /\ file' \in Configs /\ ~file'.whole
          /\ saved' \in [Urls -> Issued \cup {None}] /\ None \notin Nat
      BY <1>1, ConfigTypes, NoneIsNothing DEF FileOK
    <2>2. \A g \in Hosts : host'[g].seen = host[g].seen /\ host'[g].config = host[g].config
      BY <1>3, <1>5 DEF SameLogin
    <2>3. \A g \in Hosts : host[g].seen # None => host[g].seen <= writes /\ host[g].seen \in Nat
      <3>1. ASSUME NEW g \in Hosts PROVE host[g].seen \in Nat \cup {None}
        BY DEF CInv, RunOK, Runs
      <3> QED
        BY <1>1, <3>1 DEF FileOK
    <2>4. \A g \in Hosts : host'[g].seen # None => host'[g].seen <= writes' /\ host'[g].seen # writes'
      BY <1>1, <2>1, <2>2, <2>3
    <2>5. ASSUME ~clobbered' PROVE /\ ~clobbered /\ st.seen = writes /\ file.whole /\ Agrees(st.config)
                                   /\ \A g \in Hosts : host[g].phase # "writing"
      <3>1. ~clobbered /\ st.seen = writes
        BY <1>1, <2>5
      <3>2. st.phase \in Reading
        BY <1>1 DEF Reading
      <3>3. file.whole /\ Agrees(st.config)
        BY <1>1, <1>5, <3>1, <3>2 DEF FileOK
      <3> QED
        BY <1>1, <3>1, <3>3 DEF FileOK
    <2>6. ~clobbered' => \A g \in Hosts : host'[g].phase \in Reading => host'[g].seen # writes'
      BY <2>1, <2>4
    <2>7. ~clobbered' => \A g \in Hosts : host'[g].phase = "writing" => g = h
      BY <1>5, <2>5
    <2>8. ~clobbered' => /\ host'[h].seen # None /\ host'[h].seen + 1 = writes' /\ Agrees(host'[h].config)
      BY <1>1, <1>5, <2>1, <2>2, <2>5
    <2>9. saved' = saved
      BY <1>1
    <2> QED
      BY <2>1, <2>4, <2>6, <2>7, <2>8, <2>9 DEF FileOK, Agrees
  <1> QED
    BY <1>5, <1>6, <1>7 DEF CInv

LEMMA SaveWritesOK ==
  ASSUME CInv, NEW h \in Hosts, SaveWrites(h)
  PROVE  CInv'
  <1> DEFINE st == host[h]
             next == [st EXCEPT !.phase = "settled", !.config = Empty, !.seen = 0]
  <1>1. st.phase = "writing" /\ RunOK(h, st) /\ st \in Runs(h) /\ file' = rememberBackend(st.config, st.url, st.token)
        /\ writes' = writes + 1 /\ saved' = [saved EXCEPT ![st.url] = st.token]
        /\ UNCHANGED <<check, logs, world, clobbered, learned>>
        /\ host' = [host EXCEPT ![h] = next] /\ FileOK /\ LogsOK /\ CheckOK
    BY DEF CInv, SaveWrites, Become, RunOK
  <1>2. next \in Runs(h)
    <2>1. st \in Runs(h) /\ "settled" \in Phases /\ Empty \in Configs
      BY <1>1, ConfigTypes DEF Phases
    <2> QED
      BY <2>1 DEF Runs
  <1>3. /\ next.phase = "settled" /\ SameLife(st, next) /\ next.seen = 0 /\ next.reader = st.reader /\ next.rejected = st.rejected
        /\ next.token = st.token /\ next.excused = st.excused /\ st.reader \in BOOLEAN /\ st.config \in Configs
    <2>1. st \in Runs(h)
      BY <1>1
    <2> QED
      BY <2>1 DEF Runs, SameLife
  <1> HIDE DEF st, next
  <1>4. RunOK(h, next)
    <2>1. ~st.reader
      BY <1>1, <1>3 DEF RunOK, InputOK, Talking
    <2>2. InputOK(next)
      BY <1>1, <1>3, <2>1 DEF RunOK, InputOK, SameLife, Waiting
    <2>3. AccountOK(next)
      BY <1>1, <1>3 DEF RunOK, AccountOK, Settled, OwnToken, SameLife
    <2>4. Idle(next) /\ next.run = 0
      BY <1>1, <1>3 DEF RunOK, EndOK, SameLife, Idle, BeforeClaude, BeforeRun
    <2>5. EndOK(next)
      BY <1>3, <2>4 DEF EndOK
    <2> QED
      BY <1>2, <2>2, <2>3, <2>5 DEF RunOK
  <1>5. DOMAIN host' = Hosts /\ host'[h] = next /\ (\A g \in Hosts : g # h => host'[g] = host[g]) /\ host[h] = st
        /\ \A g \in Hosts : RunOK(g, host'[g])
    BY <1>1, <1>4, OthersKept DEF st
  <1>6. LogsOK' /\ CheckOK'
    <2>1. \A g \in Hosts : host'[g].run = host[g].run /\ host'[g].refresh = host[g].refresh /\ host'[g].notice = host[g].notice
      BY <1>3, <1>5 DEF SameLife
    <2> QED
      BY <1>1, <2>1, LogsFrame, CheckFrame
  <1>7. FileOK'
    <2>1. st.url \in Urls /\ st.token \in Issued
      BY <1>1 DEF RunOK, AccountOK
    <2>2. file' \in Configs /\ file'.whole
      BY <1>1, <1>3, <2>1, RememberType
    <2>3. writes \in Nat /\ writes' \in Nat /\ clobbered' = clobbered /\ clobbered \in BOOLEAN /\ None \notin Nat
          /\ saved \in [Urls -> Issued \cup {None}] /\ saved' \in [Urls -> Issued \cup {None}]
      BY <1>1, <2>1, NoneIsNothing DEF FileOK
    <2>4. \A g \in Hosts : host[g].seen # None => host[g].seen <= writes /\ host[g].seen \in Nat
      <3>1. ASSUME NEW g \in Hosts PROVE host[g].seen \in Nat \cup {None}
        BY DEF CInv, RunOK, Runs
      <3> QED
        BY <1>1, <3>1 DEF FileOK
    <2>5. \A g \in Hosts : host'[g].seen # None => host'[g].seen <= writes' /\ host'[g].seen # writes'
      BY <1>1, <1>3, <1>5, <2>3, <2>4
    <2>6. ~clobbered => Agrees(st.config) /\ \A g \in Hosts : host[g].phase = "writing" => g = h
      BY <1>1, <1>5 DEF FileOK
    <2>7. ~clobbered => \A u \in Urls : findBackend(file', u) = saved'[u]
      <3>1. ASSUME ~clobbered, NEW u \in Urls PROVE findBackend(file', u) = saved'[u]
        <4>1. findBackend(st.config, u) = saved[u]
          BY <2>6, <3>1 DEF Agrees
        <4>2. st.config.backends \in Seq(Backends) /\ [url |-> st.url, token |-> st.token] \in Backends
          BY <1>3, <2>1 DEF Configs, Backends
        <4>3. /\ findBackend(rememberBackend(st.config, st.url, st.token), st.url) = st.token
              /\ u # st.url => findBackend(rememberBackend(st.config, st.url, st.token), u) = findBackend(st.config, u)
          BY <4>2, Remembered
        <4> QED
          BY <1>1, <2>3, <4>1, <4>3
      <3> QED
        BY <3>1
    <2>8. ~clobbered => \A g \in Hosts : host'[g].phase # "writing"
      BY <1>3, <1>5, <2>6
    <2>9. \A g \in Hosts : host'[g].phase \in Reading => host'[g].seen # writes'
      BY <2>3, <2>5
    <2> QED
      BY <2>2, <2>3, <2>5, <2>7, <2>8, <2>9 DEF FileOK, Agrees
  <1> QED
    BY <1>5, <1>6, <1>7 DEF CInv

\* As many have started since as there are numbers between.
LEMMA Since ==
  ASSUME NEW n \in Nat, NEW K \in Nat, NEW runs, runs = {r \in 1 .. n : r + K >= n}, NEW r \in runs
  PROVE  Cardinality({q \in runs : q > r}) = n - r
  <1> DEFINE later == {q \in runs : q > r}
  <1>1. later = (r + 1) .. n /\ r \in Nat /\ r <= n
    OBVIOUS
  <1>2. Cardinality((r + 1) .. n) = IF r + 1 > n THEN 0 ELSE n - (r + 1) + 1
    BY <1>1, FS_Interval
  <1> HIDE DEF later
  <1>3. Cardinality(later) = IF r + 1 > n THEN 0 ELSE n - (r + 1) + 1
    BY <1>1, <1>2
  <1>4. Cardinality(later) = n - r
    BY <1>1, <1>3
  <1> QED
    BY <1>4 DEF later

LEMMA StartedIs ==
  ASSUME NEW h \in Hosts
  PROVE  IsFiniteSet(Started) /\ Cardinality(Started) \in Nat
  <1>1. IsFiniteSet(Hosts) /\ Started \subseteq Hosts
    BY CommandLineOK DEF Started
  <1> QED
    BY <1>1, FS_Subset, FS_CardinalityType

LEMMA CreateLoggerOK ==
  ASSUME CInv, NEW h \in Hosts, createLogger(h)
  PROVE  CInv'
  <1> DEFINE st == host[h]
             n == Cardinality(Started)
             next == [st EXCEPT !.phase = "linking", !.run = n + 1]
  <1>0. n \in Nat /\ IsFiniteSet(Started)
    BY StartedIs
  <1>1. st.phase = "settled" /\ RunOK(h, st) /\ st \in Runs(h)
        /\ logs' = [runs |-> pruneRuns(logs.runs) \cup {n + 1}, latest |-> None]
        /\ UNCHANGED <<file, check, world, saved, writes, clobbered, learned>>
        /\ host' = [host EXCEPT ![h] = next] /\ FileOK /\ LogsOK /\ CheckOK
    <2>1. 1 + Cardinality({g \in Hosts : host[g].run # 0}) = n + 1
      BY <1>0 DEF Started
    <2> QED
      BY <2>1 DEF CInv, createLogger, Become, RunOK, ghosts
  <1> HIDE DEF n
  <1>2. next \in Runs(h)
    <2>1. st \in Runs(h) /\ "linking" \in Phases /\ n + 1 \in Nat
      BY <1>0, <1>1 DEF Phases
    <2> QED
      BY <2>1 DEF Runs
  <1>3. /\ next.phase = "linking" /\ next.run = n + 1 /\ next.seen = st.seen /\ next.reader = st.reader
        /\ next.rejected = st.rejected /\ next.token = st.token /\ next.excused = st.excused /\ st.reader \in BOOLEAN
        /\ next.argv = st.argv /\ next.cli = st.cli /\ next.refresh = st.refresh /\ next.notice = st.notice
        /\ next.claude = st.claude /\ next.worker = st.worker /\ next.claudeCode = st.claudeCode /\ next.doomed = st.doomed
    <2>1. st \in Runs(h)
      BY <1>1
    <2> QED
      BY <2>1 DEF Runs
  <1> HIDE DEF st, next
  <1>4. RunOK(h, next) /\ st.run = 0
    <2>1. ~st.reader
      BY <1>1, <1>3 DEF RunOK, InputOK, Talking
    <2>2. InputOK(next)
      BY <1>1, <1>3, <2>1 DEF RunOK, InputOK, Waiting
    <2>3. AccountOK(next)
      BY <1>1, <1>3 DEF RunOK, AccountOK, Settled, OwnToken
    <2>4. Idle(next) /\ st.run = 0 /\ next.run # 0
      BY <1>0, <1>1, <1>3 DEF RunOK, EndOK, Idle, BeforeClaude, BeforeRun
    <2>5. EndOK(next)
      BY <1>3, <2>4 DEF EndOK, BeforeRun, Talking
    <2> QED
      BY <1>2, <2>2, <2>3, <2>4, <2>5 DEF RunOK
  <1>5. DOMAIN host' = Hosts /\ host'[h] = next /\ (\A g \in Hosts : g # h => host'[g] = host[g]) /\ host[h] = st
        /\ \A g \in Hosts : RunOK(g, host'[g])
    BY <1>1, <1>4, OthersKept DEF st
  <1>6. CheckOK'
    <2>1. \A g \in Hosts : host'[g].refresh = host[g].refresh /\ host'[g].notice = host[g].notice
      BY <1>3, <1>5
    <2> QED
      BY <1>1, <2>1, CheckFrame
  <1>7. FileOK'
    <2>1. next.phase \notin Reading \cup {"writing"}
      BY <1>3 DEF Reading, Talking
    <2> QED
      BY <1>1, <1>3, <1>5, <2>1, FileFrame
  <1>8. LogsOK'
    <2>1. h \notin Started /\ Started' = Started \cup {h}
      BY <1>0, <1>3, <1>4, <1>5 DEF Started
    <2>2. Cardinality(Started)' = n + 1
      BY <1>0, <2>1, FS_AddElement DEF n
    <2>3. logs.runs = {r \in 1 .. n : r + KeepRuns >= n} /\ \A g \in Hosts : host[g].run <= n
      BY <1>1 DEF LogsOK, n
    <2>4. KeepRuns \in Nat /\ KeepRuns # 0
      BY CommandLineOK
    <2>5. pruneRuns(logs.runs) \cup {n + 1} = {r \in 1 .. n + 1 : r + KeepRuns >= n + 1}
      <3>1. \A r \in logs.runs : Cardinality({q \in logs.runs : q > r}) = n - r
        BY <1>0, <2>3, <2>4, Since
      <3>2. pruneRuns(logs.runs) = {r \in logs.runs : n - r < KeepRuns}
        BY <3>1 DEF pruneRuns
      <3>3. ASSUME NEW r PROVE r \in pruneRuns(logs.runs) \cup {n + 1} <=> r \in 1 .. n + 1 /\ r + KeepRuns >= n + 1
        BY <1>0, <2>3, <2>4, <3>2
      <3> QED
        BY <3>3
    <2>6. logs' = [runs |-> logs'.runs, latest |-> logs'.latest] /\ logs'.latest = None
          /\ logs'.runs = {r \in 1 .. n + 1 : r + KeepRuns >= n + 1}
      BY <1>1, <2>5
    <2>7. ASSUME NEW g \in Hosts PROVE host'[g].run <= n + 1
      <3>1. host[g].run \in Nat
        BY DEF CInv, RunOK, Runs
      <3> QED
        BY <1>0, <1>3, <1>5, <2>3, <3>1
    <2> QED
      BY <2>2, <2>6, <2>7 DEF LogsOK
  <1> QED
    BY <1>5, <1>6, <1>7, <1>8 DEF CInv

LEMMA LaunchOK ==
  ASSUME CInv, NEW h \in Hosts, Launch(h)
  PROVE  CInv'
  <1> DEFINE st == host[h]
             refresh == [on |-> isStale(world.day), day |-> world.day, from |-> world.published]
             next == [st EXCEPT !.phase = "launching", !.notice = updateNotice, !.claude = "waiting", !.refresh = refresh]
  <1>1. st.phase = "linking" /\ RunOK(h, st) /\ st \in Runs(h)
        /\ logs' = [logs EXCEPT !.latest = IF @ = None THEN st.run ELSE @]
        /\ UNCHANGED <<file, check, world, saved, writes, clobbered, learned>>
        /\ host' = [host EXCEPT ![h] = next] /\ FileOK /\ LogsOK /\ CheckOK
    BY DEF CInv, Launch, Become, RunOK, ghosts
  <1>2. /\ world.day \in 1 .. MaxDay /\ world.published \in 1 .. MaxDay /\ MaxDay \in Nat /\ refresh \in [on : BOOLEAN, day : Nat, from : Nat]
        /\ updateNotice \in Nat \cup {None} /\ (updateNotice # None => updateNotice > 1 /\ updateNotice <= world.published)
    <2>1. MaxDay \in Nat /\ world \in [published : 1 .. MaxDay, day : 1 .. MaxDay, faults : Nat, signals : Nat]
          /\ check.latest \in (1 .. world.published) \cup {None}
      BY <1>1, CommandLineOK DEF CheckOK
    <2>2. world.day \in 1 .. MaxDay /\ world.published \in 1 .. MaxDay
      BY <2>1
    <2>3. isStale(world.day) \in BOOLEAN
      BY DEF isStale
    <2> QED
      BY <2>1, <2>2, <2>3 DEF updateNotice
  <1> DEFINE notice == updateNotice
  <1>3. refresh.on => refresh.day \in 1 .. MaxDay /\ refresh.from \in 1 .. world.published
    BY <1>2
  <1> HIDE DEF notice, refresh
  <1>4. next = [st EXCEPT !.phase = "launching", !.notice = notice, !.claude = "waiting", !.refresh = refresh]
    BY DEF notice
  <1>5. next \in Runs(h)
    <2>1. st \in Runs(h) /\ "launching" \in Phases /\ notice \in Nat \cup {None} /\ refresh \in [on : BOOLEAN, day : Nat, from : Nat]
      BY <1>1, <1>2 DEF Phases, notice
    <2> HIDE DEF next
    <2> QED
      BY <1>4, <2>1 DEF Runs
  <1>6. /\ next.phase = "launching" /\ next.run = st.run /\ next.seen = st.seen /\ next.reader = st.reader
        /\ next.rejected = st.rejected /\ next.token = st.token /\ next.excused = st.excused /\ st.reader \in BOOLEAN
        /\ next.argv = st.argv /\ next.cli = st.cli /\ next.refresh = refresh /\ next.notice = notice
        /\ next.claude = "waiting" /\ next.worker = st.worker /\ next.claudeCode = st.claudeCode /\ next.doomed = st.doomed
    <2>1. st \in Runs(h)
      BY <1>1
    <2> HIDE DEF next
    <2> QED
      BY <1>4, <2>1 DEF Runs
  <1> HIDE DEF st, next
  <1>7. RunOK(h, next)
    <2>1. ~st.reader
      BY <1>1, <1>6 DEF RunOK, InputOK, Talking
    <2>2. InputOK(next)
      BY <1>1, <1>6, <2>1 DEF RunOK, InputOK, Waiting
    <2>3. AccountOK(next)
      BY <1>1, <1>6 DEF RunOK, AccountOK, Settled, OwnToken
    <2>4. Idle(st) /\ st.run # 0
      BY <1>1 DEF RunOK, EndOK, BeforeClaude
    <2>5. EndOK(next)
      BY <1>6, <2>4 DEF EndOK, BeforeClaude, BeforeRun, Talking, Idle
    <2> QED
      BY <1>5, <2>2, <2>3, <2>5 DEF RunOK
  <1>8. DOMAIN host' = Hosts /\ host'[h] = next /\ (\A g \in Hosts : g # h => host'[g] = host[g]) /\ host[h] = st
        /\ \A g \in Hosts : RunOK(g, host'[g])
    BY <1>1, <1>7, OthersKept DEF st
  <1>9. CheckOK'
    <2>1. ASSUME NEW g \in Hosts
          PROVE  /\ host'[g].refresh.on => host'[g].refresh.day \in 1 .. MaxDay /\ host'[g].refresh.from \in 1 .. world.published
                 /\ host'[g].notice # None => host'[g].notice > 1 /\ host'[g].notice <= world.published
      <3>1. CASE g = h
        BY <1>2, <1>3, <1>6, <1>8, <3>1 DEF notice
      <3>2. CASE g # h
        BY <1>1, <1>8, <3>2 DEF CheckOK
      <3> QED
        BY <3>1, <3>2
    <2> QED
      BY <1>1, <2>1 DEF CheckOK
  <1>10. FileOK'
    <2>1. next.phase \notin Reading \cup {"writing"}
      BY <1>6 DEF Reading, Talking
    <2> QED
      BY <1>1, <1>6, <1>8, <2>1, FileFrame
  <1>11. LogsOK'
    <2>1. Started' = Started /\ \A g \in Hosts : host'[g].run = host[g].run
      BY <1>6, <1>8 DEF Started
    <2>2. st.run \in 1 .. Cardinality(Started)
      <3>1. st.run \in Nat /\ st.run # 0 /\ Cardinality(Started) \in Nat /\ st.run <= Cardinality(Started)
        BY <1>1, <1>8, StartedIs DEF RunOK, Runs, EndOK, LogsOK
      <3> QED
        BY <3>1
    <2>3. logs' = [runs |-> logs.runs, latest |-> IF logs.latest = None THEN st.run ELSE logs.latest]
      BY <1>1 DEF LogsOK
    <2> QED
      BY <1>1, <2>1, <2>2, <2>3 DEF LogsOK
  <1> QED
    BY <1>8, <1>9, <1>10, <1>11 DEF CInv

LEMMA RefreshOK ==
  ASSUME CInv, NEW h \in Hosts, Refresh(h)
  PROVE  CInv'
  <1> DEFINE st == host[h]
             refresh == [st.refresh EXCEPT !.on = FALSE]
             next == [st EXCEPT !.refresh = refresh]
  <1>1. /\ st.refresh.on /\ RunOK(h, st) /\ st \in Runs(h) /\ FileOK /\ LogsOK /\ CheckOK
        /\ UNCHANGED <<file, logs, saved, writes, clobbered>> /\ host' = [host EXCEPT ![h] = next]
    BY DEF CInv, Refresh, Become, RunOK
  <1>2. PICK found \in (st.refresh.from .. world.published) \cup {None} :
          /\ IF found = None
             THEN world.faults < MaxFaults /\ world' = [world EXCEPT !.faults = @ + 1]
             ELSE UNCHANGED world
          /\ check' = Refreshed(st.refresh.day, found)
          /\ learned' = IF found # None THEN found ELSE learned
    BY DEF Refresh
  <1>3. st.refresh \in [on : BOOLEAN, day : Nat, from : Nat]
    BY <1>1 DEF Runs
  <1>4. refresh \in [on : BOOLEAN, day : Nat, from : Nat] /\ refresh.on = FALSE
    BY <1>3
  <1> HIDE DEF refresh
  <1>5. next \in Runs(h)
    <2>1. st \in Runs(h)
      BY <1>1
    <2> QED
      BY <1>4, <2>1 DEF Runs
  <1>6. /\ next.phase = st.phase /\ next.run = st.run /\ next.seen = st.seen /\ next.reader = st.reader
        /\ next.rejected = st.rejected /\ next.token = st.token /\ next.excused = st.excused
        /\ next.argv = st.argv /\ next.cli = st.cli /\ next.refresh = refresh /\ next.notice = st.notice /\ next.code = st.code
        /\ next.claude = st.claude /\ next.worker = st.worker /\ next.claudeCode = st.claudeCode /\ next.doomed = st.doomed
        /\ next.escaped = st.escaped
    <2>1. st \in Runs(h)
      BY <1>1
    <2> QED
      BY <2>1 DEF Runs
  <1> HIDE DEF st, next
  <1>7. st.phase \notin BeforeClaude /\ st.phase \in Phases
    BY <1>1 DEF RunOK, EndOK, Idle, Runs
  <1>8. st.phase \in {"launching", "running", "killing", "exited"}
    BY <1>7 DEF BeforeClaude, BeforeRun, Talking, Phases
  <1>9. RunOK(h, next)
    <2>1. st.reader \in BOOLEAN
      BY <1>1 DEF Runs
    <2>2. InputOK(next)
      BY <1>1, <1>6, <1>8, <2>1 DEF RunOK, InputOK, Waiting, Talking
    <2>3. AccountOK(next)
      BY <1>1, <1>6, <1>8 DEF RunOK, AccountOK, Settled, OwnToken
    <2>4. EndOK(next)
      BY <1>1, <1>6, <1>7 DEF RunOK, EndOK, BeforeClaude
    <2> QED
      BY <1>5, <2>2, <2>3, <2>4 DEF RunOK
  <1>10. DOMAIN host' = Hosts /\ host'[h] = next /\ (\A g \in Hosts : g # h => host'[g] = host[g]) /\ host[h] = st
         /\ \A g \in Hosts : RunOK(g, host'[g])
    BY <1>1, <1>9, OthersKept DEF st
  <1>11. FileOK' /\ LogsOK'
    <2>1. next.phase \notin Reading \cup {"writing"}
      BY <1>6, <1>8 DEF Reading, Talking
    <2>2. \A g \in Hosts : host'[g].run = host[g].run
      BY <1>6, <1>10
    <2> QED
      BY <1>1, <1>6, <1>10, <2>1, <2>2, FileFrame, LogsFrame
  <1>12. CheckOK'
    <2>1. /\ world \in [published : 1 .. MaxDay, day : 1 .. MaxDay, faults : Nat, signals : Nat] /\ world.published = world.day
          /\ check.latest \in (1 .. world.published) \cup {None} /\ check.latest = learned
          /\ st.refresh.day \in 1 .. MaxDay /\ st.refresh.from \in 1 .. world.published /\ MaxDay \in Nat
      BY <1>1, <1>10, CommandLineOK DEF CheckOK
    <2>2. world' \in [published : 1 .. MaxDay, day : 1 .. MaxDay, faults : Nat, signals : Nat]
          /\ world'.published = world.published /\ world'.day = world.day
      BY <1>2, <2>1
    <2>3. found # None => found \in 1 .. world.published
      BY <1>2, <2>1
    <2>4. check' \in [day : 0 .. MaxDay, latest : (1 .. world.published) \cup {None}] /\ check'.latest = learned'
      BY <1>2, <2>1, <2>3 DEF Refreshed
    <2>5. ASSUME NEW g \in Hosts
          PROVE  /\ host'[g].refresh.on => host'[g].refresh.day \in 1 .. MaxDay /\ host'[g].refresh.from \in 1 .. world.published
                 /\ host'[g].notice # None => host'[g].notice > 1 /\ host'[g].notice <= world.published
      <3>1. CASE g = h
        BY <1>1, <1>4, <1>6, <1>10, <3>1 DEF CheckOK
      <3>2. CASE g # h
        BY <1>1, <1>10, <3>2 DEF CheckOK
      <3> QED
        BY <3>1, <3>2
    <2> QED
      BY <2>1, <2>2, <2>4, <2>5 DEF CheckOK
  <1> QED
    BY <1>10, <1>11, <1>12 DEF CInv

LEMMA TomorrowOK ==
  ASSUME CInv, Tomorrow
  PROVE  CInv'
  <1>1. UNCHANGED <<host, file, check, logs, saved, writes, clobbered, learned>> /\ CheckOK /\ FileOK /\ LogsOK
    BY DEF Tomorrow, ghosts, CInv
  <1>2. /\ world' \in [published : 1 .. MaxDay, day : 1 .. MaxDay, faults : Nat, signals : Nat] /\ world'.published = world'.day
        /\ world'.published = world.published + 1 /\ world.published \in Nat /\ MaxDay \in Nat
    <2>1. /\ world \in [published : 1 .. MaxDay, day : 1 .. MaxDay, faults : Nat, signals : Nat] /\ world.published = world.day
          /\ world.day < MaxDay /\ world' = [world EXCEPT !.day = @ + 1, !.published = @ + 1] /\ MaxDay \in Nat
      BY <1>1, CommandLineOK DEF Tomorrow, CheckOK
    <2>2. world.day \in 1 .. MaxDay /\ world.published \in 1 .. MaxDay /\ world.faults \in Nat /\ world.signals \in Nat
      BY <2>1
    <2>3. world.day + 1 \in 1 .. MaxDay
      BY <2>1, <2>2
    <2>4. /\ world'.published = world.published + 1 /\ world'.day = world.day + 1
          /\ world' \in [published : 1 .. MaxDay, day : 1 .. MaxDay, faults : Nat, signals : Nat]
      BY <2>1, <2>2, <2>3
    <2> QED
      BY <2>1, <2>2, <2>4
  <1>3. ASSUME NEW h \in Hosts PROVE host[h].notice \in Nat \cup {None} /\ host[h].refresh.from \in Nat
    BY DEF CInv, RunOK, Runs
  <1>4. CheckOK'
    BY <1>1, <1>2, <1>3 DEF CheckOK
  <1>5. FileOK' /\ LogsOK'
    BY <1>1 DEF FileOK, LogsOK, Agrees, Started
  <1> QED
    BY <1>1, <1>4, <1>5 DEF CInv

-----------------------------------------------------------------------------
(* The steps that change one run and nothing they share *)

LEMMA StartOK ==
  ASSUME CInv, NEW h \in Hosts, Start(h)
  PROVE  CInv'
  <1>1. PICK job \in Jobs[h] :
          host' = [host EXCEPT ![h] = [Fresh EXCEPT !.phase = "parsed", !.argv = job.argv, !.cli = parseArgs(job.argv),
                                                    !.lines = job.lines, !.script = job.lines]]
    BY DEF Start, Become
  <1> DEFINE st == host[h]
             cli == parseArgs(job.argv)
             next == [Fresh EXCEPT !.phase = "parsed", !.argv = job.argv, !.cli = cli, !.lines = job.lines, !.script = job.lines]
  <1>2. st.phase = "off" /\ RunOK(h, st) /\ UNCHANGED <<file, check, logs, saved, writes, clobbered, learned, world>> /\ CheckOK
    BY DEF CInv, Start, ghosts
  <1>3. job.argv \in Seq(Range(job.argv)) /\ AddressesGiven(job.argv) /\ job.lines \in Seq(Meanings)
    BY CommandLineOK
  <1>4. job.argv \in Argvs(h) /\ cli \in Clis(h)
    BY DEF Argvs, Clis
  <1>5. ~cli.died => ForwardedUpTo(job.argv, Len(job.argv), cli.claudeArgs)
    BY <1>3, ParseArgsOK
  <1> HIDE DEF cli
  <1>6. next \in Runs(h)
    <2>1. Fresh \in Runs(h) /\ "parsed" \in Phases
      BY FreshType DEF Phases
    <2> QED
      BY <1>3, <1>4, <2>1 DEF Runs
  <1>7. /\ next.phase = "parsed" /\ next.argv = job.argv /\ next.cli = cli /\ next.lines = job.lines /\ next.script = job.lines
        /\ next.reader = FALSE /\ next.queued = <<>> /\ next.token = None /\ next.taken = <<>> /\ next.ended = FALSE /\ next.rejected = {}
        /\ next.claude = "none" /\ next.worker = "none" /\ next.claudeCode = None /\ next.doomed = FALSE
        /\ next.refresh.on = FALSE /\ next.notice = None /\ next.run = 0 /\ next.seen = 0
    BY DEF Fresh
  <1> HIDE DEF st, next
  <1>8. RunOK(h, next)
    <2>1. InputOK(next)
      BY <1>5, <1>7 DEF InputOK, Untouched, Waiting
    <2>2. AccountOK(next)
      BY <1>7 DEF AccountOK, Settled, OwnToken
    <2>3. EndOK(next)
      BY <1>7 DEF EndOK, Idle
    <2> QED
      BY <1>6, <2>1, <2>2, <2>3 DEF RunOK
  <1>9. Follows(st, st.config, st.seen, next)
    <2>1. st.run = 0
      BY <1>2 DEF RunOK, EndOK, BeforeRun
    <2>2. next.phase \notin Reading \cup {"writing"}
      BY <1>7 DEF Reading, Talking
    <2> QED
      BY <1>7, <2>1, <2>2 DEF Follows
  <1>10. next.phase \notin Reading
    BY <1>7 DEF Reading, Talking
  <1>11. host' = [host EXCEPT ![h] = next]
    BY <1>1 DEF next, cli
  <1>12. world \in [published : 1 .. MaxDay, day : 1 .. MaxDay, faults : Nat, signals : Nat]
    BY <1>2 DEF CheckOK
  <1> QED
    BY <1>2, <1>8, <1>9, <1>10, <1>11, <1>12, FollowStep DEF st

\* A step that changes one run, and of what they share at most how often something went wrong.
LEMMA Ordinary ==
  ASSUME CInv, NEW h \in Hosts, NEW next, RunOK(h, next), Follows(host[h], host[h].config, host[h].seen, next),
         host' = [host EXCEPT ![h] = next],
         UNCHANGED <<file, check, logs, ghosts>>,
         \/ UNCHANGED world
         \/ world' = [world EXCEPT !.faults = @ + 1]
         \/ world' = [world EXCEPT !.signals = @ + 1],
         host[h].phase \in Reading \/ next.phase \notin Reading
  PROVE  CInv'
  <1>1. world \in [published : 1 .. MaxDay, day : 1 .. MaxDay, faults : Nat, signals : Nat]
    BY DEF CInv, CheckOK
  <1>2. world' \in [published : 1 .. MaxDay, day : 1 .. MaxDay, faults : Nat, signals : Nat]
        /\ world'.day = world.day /\ world'.published = world.published
    BY <1>1
  <1>3. UNCHANGED <<file, check, logs, saved, writes, clobbered, learned>>
    BY DEF ghosts
  <1> QED
    BY <1>2, <1>3, FollowStep

LEMMA MainOK ==
  ASSUME CInv, NEW h \in Hosts, Main(h)
  PROVE  CInv'
  <1> DEFINE st == host[h]
             next == CASE st.cli.died -> Exit(st, 2)
                       [] ~st.cli.died /\ st.cli.help -> Exit(st, 0)
                       [] OTHER -> resolveAccount(st)
             seen == IF file.whole THEN writes ELSE None
  <1>1. /\ st.phase = "parsed" /\ RunOK(h, st) /\ st \in Runs(h) /\ file \in Configs /\ writes \in Nat /\ CheckOK
        /\ UNCHANGED <<file, check, logs, world, saved, writes, clobbered, learned>>
        /\ host' = [host EXCEPT ![h] = next]
    BY DEF CInv, Main, Become, RunOK, FileOK, ghosts
  <1>2. Idle(st) /\ ~Alive(st.claude) /\ st.worker # "up" /\ st.claudeCode = None
    BY <1>1 DEF RunOK, EndOK, BeforeClaude, BeforeRun, Idle, Alive
  <1>3. \A code \in {0, 1, 2, None} : RunOK(h, Exit(st, code)) /\ Follows(st, loadConfig, seen, Exit(st, code))
    <2> HIDE DEF st, seen
    <2> QED
      BY <1>1, <1>2, ExitOK
  <1>4. RunOK(h, resolveAccount(st)) /\ Follows(st, loadConfig, seen, resolveAccount(st))
    BY <1>1, ResolveOK
  <1>5. RunOK(h, next) /\ Follows(st, loadConfig, seen, next)
    <2>1. CASE st.cli.died
      BY <1>3, <2>1
    <2>2. CASE ~st.cli.died /\ st.cli.help
      BY <1>3, <2>2
    <2>3. CASE ~st.cli.died /\ ~st.cli.help
      BY <1>4, <2>3
    <2> QED
      BY <2>1, <2>2, <2>3
  <1>6. world \in [published : 1 .. MaxDay, day : 1 .. MaxDay, faults : Nat, signals : Nat]
    BY <1>1 DEF CheckOK
  <1> HIDE DEF next
  <1> QED
    BY <1>1, <1>5, <1>6, FollowStep

LEMMA LinesOK ==
  ASSUME CInv, NEW h \in Hosts, OnLine(h) \/ OnEnd(h) \/ Answer(h)
  PROVE  CInv'
  <1> DEFINE st == host[h]
  <1>1. RunOK(h, st) /\ UNCHANGED <<file, check, logs, world, ghosts>>
    BY DEF CInv, OnLine, OnEnd, Answer
  <1>2. st.reader => st.phase \in Reading
    BY <1>1 DEF RunOK, InputOK, Reading
  <1>3. CASE OnLine(h)
    <2> DEFINE next == LineIn([st EXCEPT !.script = Tail(@)], Head(st.script))
    <2>1. st.reader /\ st.script # <<>> /\ host' = [host EXCEPT ![h] = next]
      BY <1>3 DEF OnLine, Become
    <2>2. RunOK(h, next) /\ Follows(st, st.config, st.seen, next)
      BY <1>1, <2>1, OnLineOK
    <2> HIDE DEF next
    <2> QED
      BY <1>1, <1>2, <2>1, <2>2, Ordinary
  <1>4. CASE OnEnd(h)
    <2>1. st.reader /\ host' = [host EXCEPT ![h] = InputEnded(st)]
      BY <1>4 DEF OnEnd, Become
    <2>2. RunOK(h, InputEnded(st)) /\ Follows(st, st.config, st.seen, InputEnded(st))
      BY <1>1, <2>1, OnEndOK
    <2> QED
      BY <1>1, <1>2, <2>1, <2>2, Ordinary
  <1>5. CASE Answer(h)
    <2> DEFINE next == Answered([st EXCEPT !.taken = Append(@, st.line)])
    <2>1. st.phase = "asking" /\ st.line # None /\ host' = [host EXCEPT ![h] = next]
      BY <1>5 DEF Answer, Become
    <2>2. RunOK(h, next) /\ Follows(st, st.config, st.seen, next)
      BY <1>1, <2>1, AnswerOK
    <2>3. st.phase \in Reading
      BY <2>1 DEF Reading, Talking
    <2> HIDE DEF next
    <2> QED
      BY <1>1, <2>1, <2>2, <2>3, Ordinary
  <1> QED
    BY <1>3, <1>4, <1>5

LEMMA ReplyOK ==
  ASSUME CInv, NEW h \in Hosts, Reply(h)
  PROVE  CInv'
  <1> DEFINE st == host[h]
             Next1(status) == IF st.phase = "logging in" THEN LoggedIn(st, status) ELSE Checked(st, status)
  <1>1. PICK status \in {"ok", "rejected", "unreachable"} :
          /\ IF status = "unreachable"
             THEN world.faults < MaxFaults /\ world' = [world EXCEPT !.faults = @ + 1]
             ELSE /\ status = IF st.phase # "logging in" THEN Known(st)
                              ELSE IF st.line = "word" THEN "ok" ELSE "rejected"
                  /\ UNCHANGED world
          /\ host' = [host EXCEPT ![h] = Next1(status)]
    BY DEF Reply, Become
  <1> DEFINE next == Next1(status)
  <1>2. st.phase \in {"checking", "rechecking", "verifying", "logging in"} /\ RunOK(h, st)
        /\ UNCHANGED <<file, check, logs, ghosts>>
    BY DEF CInv, Reply
  <1>3. RunOK(h, next) /\ Follows(st, st.config, st.seen, next)
    <2>1. CASE st.phase = "logging in"
      BY <1>2, <2>1, LoggedInOK
    <2>2. CASE st.phase # "logging in"
      <3>1. status # "unreachable" => status = Known(st)
        BY <1>1, <2>2
      <3> QED
        BY <1>2, <2>2, <3>1, CheckedOK
    <2> QED
      BY <2>1, <2>2
  <1>4. st.phase \in Reading
    <2>1. {"checking", "rechecking", "verifying", "logging in"} \subseteq Reading
      BY DEF Reading, Talking
    <2> QED
      BY <1>2, <2>1
  <1>5. UNCHANGED world \/ world' = [world EXCEPT !.faults = @ + 1]
    BY <1>1
  <1>6. host' = [host EXCEPT ![h] = next]
    BY <1>1
  <1> HIDE DEF next
  <1> QED
    BY <1>2, <1>3, <1>4, <1>5, <1>6, Ordinary

\* A run that follows another without reading.
LEMMA Onward ==
  ASSUME NEW st, NEW next, Follows(st, st.config, st.seen, next), next.phase \in {"launching", "running", "killing", "exited"}
  PROVE  next.phase \notin Reading
  BY DEF Reading, Talking

LEMMA EndsOK ==
  ASSUME CInv, NEW h \in Hosts, Launched(h) \/ Polled(h) \/ Kill(h) \/ WorkerStarts(h) \/ ClaudeEnds(h) \/ Signal(h)
  PROVE  CInv'
  <1> DEFINE st == host[h]
  <1>1. RunOK(h, st) /\ st \in Runs(h) /\ UNCHANGED <<file, check, logs, ghosts>>
    BY DEF CInv, RunOK, Launched, Polled, Kill, WorkerStarts, ClaudeEnds, Signal
  <1>2. CASE Launched(h)
    <2> DEFINE up == [st EXCEPT !.phase = "running", !.claude = "up"]
               failed == Exit(killTree(st, FALSE), 1)
    <2>1. st.phase = "launching" /\ UNCHANGED world
          /\ ((st.claude = "waiting" /\ host' = [host EXCEPT ![h] = up]) \/ host' = [host EXCEPT ![h] = failed])
      BY <1>2 DEF Launched, Become
    <2>2. /\ st.claude = "waiting" => RunOK(h, up) /\ Follows(st, st.config, st.seen, up)
          /\ RunOK(h, failed) /\ Follows(st, st.config, st.seen, failed)
      BY <1>1, <2>1, LaunchedOK
    <2>3. up.phase \notin Reading /\ failed.phase \notin Reading
      <3>1. up.phase = "running"
        BY <1>1 DEF Runs
      <3>2. failed.phase = "exited"
        BY DEF Exit, Fresh
      <3> QED
        BY <3>1, <3>2 DEF Reading, Talking
    <2> HIDE DEF up, failed
    <2> QED
      BY <1>1, <2>1, <2>2, <2>3, Ordinary
  <1>3. CASE Polled(h)
    <2> DEFINE next == Exit(st, ExitCode(st))
    <2>1. st.phase = "running" /\ st.claude = "dead" /\ UNCHANGED world /\ host' = [host EXCEPT ![h] = next]
      BY <1>3 DEF Polled, Become
    <2>2. RunOK(h, next) /\ Follows(st, st.config, st.seen, next)
      BY <1>1, <2>1, PolledOK
    <2>3. next.phase \notin Reading
      BY DEF Exit, Fresh, Reading, Talking
    <2> HIDE DEF next
    <2> QED
      BY <1>1, <2>1, <2>2, <2>3, Ordinary
  <1>4. CASE Kill(h)
    <2> DEFINE next == Exit(killTree(st, st.doomed), 0)
    <2>1. st.phase = "killing" /\ UNCHANGED world /\ host' = [host EXCEPT ![h] = next]
      BY <1>4 DEF Kill, Become
    <2>2. RunOK(h, next) /\ Follows(st, st.config, st.seen, next)
      BY <1>1, <2>1, KillOK
    <2>3. next.phase \notin Reading
      BY DEF Exit, Fresh, Reading, Talking
    <2> HIDE DEF next
    <2> QED
      BY <1>1, <2>1, <2>2, <2>3, Ordinary
  <1>5. CASE WorkerStarts(h)
    <2> DEFINE next == [st EXCEPT !.worker = "up", !.escaped = @ \/ st.phase = "killing"]
    <2>1. st.phase \in {"running", "killing"} /\ st.claude = "up" /\ UNCHANGED world /\ host' = [host EXCEPT ![h] = next]
      BY <1>5 DEF WorkerStarts, Become
    <2>2. RunOK(h, next) /\ Follows(st, st.config, st.seen, next)
      <3> HIDE DEF next
      <3>1. next = [st EXCEPT !.worker = "up", !.escaped = @ \/ st.phase = "killing"]
        BY DEF next
      <3> QED
        BY <1>1, <2>1, <3>1, WorkerOK
    <2>3. next.phase \notin Reading
      <3>1. next.phase = st.phase
        BY <1>1 DEF Runs
      <3> QED
        BY <2>1, <3>1 DEF Reading, Talking
    <2> HIDE DEF next
    <2> QED
      BY <1>1, <2>1, <2>2, <2>3, Ordinary
  <1>6. CASE ClaudeEnds(h)
    <2>1. Alive(st.claude) /\ st.phase # "exited" /\ UNCHANGED world
      BY <1>6 DEF ClaudeEnds
    <2>2. PICK code \in {0, 1, None} :
            host' = [host EXCEPT ![h] = [st EXCEPT !.claude = "dead", !.claudeCode = code,
                                                   !.escaped = @ \/ (st.worker = "up" /\ ~st.doomed)]]
      BY <1>6 DEF ClaudeEnds, Become
    <2> DEFINE next == [st EXCEPT !.claude = "dead", !.claudeCode = code, !.escaped = @ \/ (st.worker = "up" /\ ~st.doomed)]
    <2>3. RunOK(h, next) /\ Follows(st, st.config, st.seen, next)
      <3> HIDE DEF next
      <3>1. next = [st EXCEPT !.claude = "dead", !.claudeCode = code, !.escaped = @ \/ (st.worker = "up" /\ ~st.doomed)]
        BY DEF next
      <3> QED
        BY <1>1, <2>1, <3>1, ClaudeEndsOK
    <2>4. next.phase = st.phase
      BY <1>1 DEF Runs
    <2>5. host' = [host EXCEPT ![h] = next]
      BY <2>2
    <2> HIDE DEF next
    <2> QED
      BY <1>1, <2>1, <2>3, <2>4, <2>5, Ordinary
  <1>7. CASE Signal(h)
    <2> DEFINE stops == [st EXCEPT !.phase = "killing", !.doomed = Alive(st.claude) /\ st.worker = "up"]
               dies == [Exit(st, None) EXCEPT !.escaped = TRUE]
    <2>1. world' = [world EXCEPT !.signals = @ + 1]
          /\ ((st.cli.headless /\ st.phase = "running" /\ host' = [host EXCEPT ![h] = stops]) \/ host' = [host EXCEPT ![h] = dies])
      BY <1>7 DEF Signal, Become
    <2>2. /\ st.cli.headless /\ st.phase = "running" => RunOK(h, stops) /\ Follows(st, st.config, st.seen, stops)
          /\ RunOK(h, dies) /\ Follows(st, st.config, st.seen, dies)
      BY <1>1, SignalOK
    <2>3. stops.phase \notin Reading /\ dies.phase \notin Reading
      <3>1. stops.phase = "killing"
        BY <1>1 DEF Runs
      <3>2. dies.phase = "exited"
        BY DEF Exit, Fresh
      <3> QED
        BY <3>1, <3>2 DEF Reading, Talking
    <2> HIDE DEF stops, dies
    <2> QED
      BY <1>1, <2>1, <2>2, <2>3, Ordinary
  <1> QED
    BY <1>2, <1>3, <1>4, <1>5, <1>6, <1>7

LEMMA StepOK ==
  ASSUME CInv, [Next]_vars
  PROVE  CInv'
  <1>1. CASE UNCHANGED vars
    <2>1. UNCHANGED <<host, file, check, logs, world, saved, writes, clobbered, learned>>
      BY <1>1 DEF vars, ghosts
    <2> QED
      BY <2>1 DEF CInv, FileOK, LogsOK, CheckOK, Agrees, Started
  <1>2. CASE Tomorrow
    BY <1>2, TomorrowOK
  <1>3. CASE \E h \in Hosts : Start(h) \/ HostStep(h) \/ Signal(h) \/ WorkerStarts(h) \/ ClaudeEnds(h)
    <2>1. PICK h \in Hosts : Start(h) \/ HostStep(h) \/ Signal(h) \/ WorkerStarts(h) \/ ClaudeEnds(h)
      BY <1>3
    <2>2. CASE Start(h)
      BY <2>2, StartOK
    <2>3. CASE HostStep(h)
      BY <2>3, MainOK, LinesOK, ReplyOK, SaveOpensOK, SaveWritesOK, CreateLoggerOK, LaunchOK, RefreshOK, EndsOK DEF HostStep
    <2> QED
      BY <2>1, <2>2, <2>3, EndsOK
  <1> QED
    BY <1>1, <1>2, <1>3 DEF Next

LEMMA Invariance == Spec => []CInv
  <1>1. Init => CInv
    BY InitOK
  <1>2. CInv /\ [Next]_vars => CInv'
    BY StepOK
  <1> QED
    BY <1>1, <1>2, PTL DEF Spec

-----------------------------------------------------------------------------
(* Theorems *)

\* Runs, the configuration, the cache of the update check and the log directory only take on the shapes the
\* code gives them, for any number of runs, whatever each is given: in particular a reader has stdin only
\* while a question is being answered (tui.ts), and there are no more logs than runs (logger.ts).
THEOREM TypesCorrect == Spec => []TypeOK
  <1>1. ASSUME NEW c \in Configs PROVE Config(c)
    <2>1. c.current \in Urls \cup {None} /\ c.whole \in BOOLEAN /\ c.backends \in Seq(Backends)
      BY <1>1 DEF Configs
    <2>2. Backends \subseteq [url : Urls, token : Tokens]
      BY ConfigTypes DEF Backends
    <2>3. c.backends \in Seq([url : Urls, token : Tokens])
      <3> DEFINE X == [url : Urls, token : Tokens]
      <3>1. c.backends \in Seq(Backends) /\ Backends \subseteq X
        BY <2>1, <2>2
      <3> HIDE DEF X
      <3>2. c.backends \in Seq(X)
        BY <3>1
      <3> QED
        BY <3>2 DEF X
    <2> QED
      BY <2>1, <2>3 DEF Config
  <1>2. ASSUME CInv PROVE TypeOK
    <2>1. FileOK /\ LogsOK /\ CheckOK
      BY <1>2 DEF CInv
    <2>2. Config(file)
      BY <1>1, <2>1 DEF FileOK
    <2>3. check.day \in 0 .. MaxDay /\ check.latest \in (1 .. MaxDay) \cup {None}
      <3>1. check.day \in 0 .. MaxDay /\ check.latest \in (1 .. world.published) \cup {None}
            /\ world.published \in 1 .. MaxDay /\ MaxDay \in Nat
        BY <2>1, CommandLineOK DEF CheckOK
      <3> QED
        BY <3>1
    <2>4. logs.runs \subseteq 1 .. Cardinality(Hosts)
      <3>1. IsFiniteSet(Hosts) /\ Started \subseteq Hosts
        BY CommandLineOK DEF Started
      <3>2. Cardinality(Started) \in Nat /\ Cardinality(Hosts) \in Nat /\ Cardinality(Started) <= Cardinality(Hosts)
        BY <3>1, FS_Subset, FS_CardinalityType
      <3>3. logs.runs \subseteq 1 .. Cardinality(Started)
        BY <2>1 DEF LogsOK
      <3> QED
        BY <3>2, <3>3
    <2>5. ASSUME NEW h \in Hosts
          PROVE  LET st == host[h]
                 IN /\ st.phase \in Phases /\ Config(st.config)
                    /\ st.url \in Urls \cup {None}
                    /\ st.token \in Tokens \cup {None, st.cli.credential}
                    /\ st.claude \in {"none", "waiting", "up", "dead"} /\ st.worker \in {"none", "up", "dead"}
                    /\ st.code \in {0, 1, 2, None}
                    /\ st.reader => st.phase \in {"asking", "logging in", "verifying", "rechecking"}
      <3> DEFINE st == host[h]
      <3>1. RunOK(h, st)
        BY <1>2 DEF CInv
      <3>2. /\ st.phase \in Phases /\ st.config \in Configs /\ st.url \in Urls \cup {None}
            /\ st.claude \in {"none", "waiting", "up", "dead"} /\ st.worker \in {"none", "up", "dead"}
            /\ st.code \in {0, 1, 2, None}
        BY <3>1 DEF RunOK, Runs
      <3>3. st.reader => st.phase \in {"asking", "logging in", "verifying", "rechecking"}
        BY <3>1 DEF RunOK, InputOK, Talking
      <3>4. st.token \in Tokens \cup {None, st.cli.credential}
        BY <3>1 DEF RunOK, AccountOK, OwnToken
      <3> QED
        BY <1>1, <3>2, <3>3, <3>4
    <2> QED
      BY <2>2, <2>3, <2>4, <2>5 DEF TypeOK
  <1> QED
    BY <1>2, Invariance, PTL

\* A saved login stays there to be found until a run writes over a configuration that it had not read, no
\* matter how the runs' reads and writes interleave (cli-auth.ts); a token is saved only once its backend has
\* issued it, and claude is never launched with one that the run was told is dead (control-cli.ts).
THEOREM AccountAlwaysHonest == Spec => []AccountHonest
  <1>1. ASSUME CInv PROVE AccountHonest
    <2>1. FileOK
      BY <1>1 DEF CInv
    <2>2. LoginsKept
      BY <2>1 DEF FileOK, LoginsKept, Agrees
    <2>3. TokensVerified
      <3>1. file.backends \in Seq(Backends)
        BY <2>1 DEF FileOK, Configs
      <3>2. \A i \in DOMAIN file.backends : file.backends[i] \in Backends
        BY <3>1
      <3> QED
        BY <3>2 DEF TokensVerified, Backends, Issued
    <2>4. TokenNotDead
      <3>1. \A h \in Hosts : AccountOK(host[h])
        BY <1>1 DEF CInv, RunOK
      <3> QED
        BY <3>1 DEF TokenNotDead, AccountOK, Settled
    <2> QED
      BY <2>2, <2>3, <2>4 DEF AccountHonest
  <1> QED
    BY <1>1, Invariance, PTL

\* However long the input, and whenever a line of it arrives, the questions take its lines in order, none
\* lost and none read twice, and nobody waits for a line after the last (tui.ts); and for every argument
\* vector claude is given, in order, exactly the words that are not the controller's (parseArgs).
THEOREM InputAlwaysHonest == Spec => []InputHonest
  <1>1. ASSUME CInv PROVE InputHonest
    <2>1. \A h \in Hosts : InputOK(host[h]) /\ host[h] \in Runs(h)
      BY <1>1 DEF CInv, RunOK
    <2>2. AnswersInOrder
      BY <2>1 DEF InputOK, AnswersInOrder
    <2>3. PromptsSettle
      BY <2>1 DEF InputOK, PromptsSettle, Waiting
    <2>4. ArgsForwarded
      <3>1. ASSUME NEW h \in Hosts, ~host[h].cli.died
            PROVE  /\ Len(host[h].cli.claudeArgs) = Cardinality(Theirs(host[h].argv))
                   /\ \A i \in Theirs(host[h].argv) :
                        host[h].cli.claudeArgs[Cardinality({j \in Theirs(host[h].argv) : j <= i})] = host[h].argv[i]
        <4> DEFINE argv == host[h].argv
                   args == host[h].cli.claudeArgs
        <4>1. ForwardedUpTo(argv, Len(argv), args)
          BY <2>1, <3>1 DEF InputOK
        <4>2. argv \in Seq(Range(argv))
          <5>1. argv \in Argvs(h)
            BY <2>1 DEF Runs
          <5>2. <<>> \in Seq(Range(<<>>))
            OBVIOUS
          <5> QED
            BY <5>1, <5>2, CommandLineOK DEF Argvs
        <4> HIDE DEF argv, args
        <4>3. TheirsUpTo(argv, Len(argv)) = Theirs(argv)
          BY <4>2 DEF TheirsUpTo, Theirs
        <4>4. Len(args) = Cardinality(Theirs(argv)) /\ \A i \in Theirs(argv) : args[Cardinality({j \in Theirs(argv) : j <= i})] = argv[i]
          BY <4>1, <4>3 DEF ForwardedUpTo, TheirsUpTo
        <4> QED
          BY <4>4 DEF argv, args
      <3> QED
        BY <3>1 DEF ArgsForwarded
    <2> QED
      BY <2>2, <2>3, <2>4 DEF InputHonest
  <1> QED
    BY <1>1, Invariance, PTL

\* A run that has ended has left nothing of claude's running, except where killTree cannot reach or nobody
\* listens for the signal; and an interactive claude's error is never reported as success (control-cli.ts).
THEOREM RunsEndWell == Spec => []EndsWell
  <1>1. ASSUME CInv PROVE EndsWell
    <2>1. \A h \in Hosts : EndOK(host[h])
      BY <1>1 DEF CInv, RunOK
    <2> QED
      BY <2>1 DEF EndOK, EndsWell, NothingLeft, ErrorReported
  <1> QED
    BY <1>1, Invariance, PTL

\* The update check's cache is what the last check to find something found, however the checks of several
\* runs overlap and fail (update-check.ts); and latest.log leads to a log that is kept, unless KEEP_RUNS
\* further runs have started since (logger.ts).
THEOREM CachesAlwaysHonest == Spec => []CachesHonest
  <1>1. ASSUME CInv PROVE CachesHonest
    <2> DEFINE n == Cardinality(Started)
    <2>1. LogsOK /\ CheckOK
      BY <1>1 DEF CInv
    <2>2. VersionKnown
      BY <2>1 DEF CheckOK, VersionKnown
    <2>3. n \in Nat
      <3>1. IsFiniteSet(Hosts) /\ Started \subseteq Hosts
        BY CommandLineOK DEF Started
      <3> QED
        BY <3>1, FS_Subset, FS_CardinalityType
    <2>4. /\ logs.runs = {r \in 1 .. n : r + KeepRuns >= n} /\ logs.latest \in (1 .. n) \cup {None}
          /\ KeepRuns \in Nat /\ KeepRuns # 0
      BY <2>1, CommandLineOK DEF LogsOK
    <2> HIDE DEF n
    <2>5. CASE logs.latest \in 1 .. n /\ logs.latest \notin logs.runs
      <3> DEFINE newer == {r \in logs.runs : r > logs.latest}
      <3>1. logs.latest + KeepRuns < n /\ logs.latest \in Nat /\ n - KeepRuns \in Nat
        BY <2>3, <2>4, <2>5
      <3>2. newer = (n - KeepRuns) .. n
        BY <2>3, <2>4, <3>1
      <3>3. Cardinality((n - KeepRuns) .. n) = n - (n - KeepRuns) + 1
        BY <2>3, <2>4, <3>1, FS_Interval
      <3> HIDE DEF newer
      <3>4. Cardinality(newer) >= KeepRuns
        BY <2>3, <2>4, <3>2, <3>3
      <3> QED
        BY <2>2, <3>4 DEF newer, CachesHonest, LatestLives
    <2>6. CASE logs.latest \in logs.runs \cup {None}
      BY <2>2, <2>6 DEF CachesHonest, LatestLives
    <2> QED
      BY <2>4, <2>5, <2>6
  <1> QED
    BY <1>1, Invariance, PTL

=============================================================================
