---------------------------- MODULE MCCommandLine ----------------------------
(* What the two runs of the instance are given: the first is interactive,   *)
(* the second headless but for its probes of the arguments.                 *)
EXTENDS CommandLine

CONSTANTS h1, h2

W(name) == [name |-> name, value |-> None]
V(name, value) == [name |-> name, value |-> value]

Explicit == [url |-> Default, n |-> 0]

GivenJobs ==
  [h \in {h1, h2} |->
     IF h = h1
     THEN { [argv |-> <<W("-c")>>, lines |-> <<"enter", "enter", "word", "word">>],
            [argv |-> <<W("--headless"), W("--login"), W("--interactive"), W("--"), W("--headless")>>,
             lines |-> <<"third", "lan", "second", "typo", "second", "word">>] }
     ELSE { [argv |-> <<W("--server"), V("word", "lan"), W("-c"), W("--headless")>>,
             lines |-> <<"enter", "word", "typo", "second", "word">>],
            [argv |-> <<V("--credential", Explicit), W("-i"), W("--no-interactive")>>, lines |-> <<>>],
            [argv |-> <<W("-h"), W("--server"), W("-c")>>, lines |-> <<>>],
            [argv |-> <<W("-c"), W("-i"), W("word"), W("--server"), V("word", "lan"), W("-h")>>, lines |-> <<>>] }]
=============================================================================
