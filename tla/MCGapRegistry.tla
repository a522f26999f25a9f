--------------------------- MODULE MCGapRegistry ---------------------------
(***************************************************************************)
(* Instances of GapRegistry for TLC.                                       *)
(***************************************************************************)
EXTENDS GapRegistry, TLC

CONSTANTS card1, card2, file1, file2, file3, grep1, grep2

\* grep1 and grep2 are reported under one category and range over the same files.
MCCategory == [x \in Patterns |-> "errors"]
MCPaths    == [x \in Patterns |-> Files]

\* One hit of grep1 to begin with, in a repository the tools have never seen and in one
\* where it is a debt already.
New  == [registry |-> <<>>, code |-> {<<grep1, file1>>}, files |-> Files,
         debts |-> [p \in Patterns |-> NoDebt]]
Used == [New EXCEPT !.registry = <<Opened(1, grep1), Ruled(1, "debt")>>,
                    !.debts[grep1] = [status |-> "open", gap |-> 1, baseline |-> 1]]

MCFirstTrees == {New, Used}

\* Cards remove the hit, move it to another file, or delete its file and leave more hits
\* elsewhere, of either grep.
MCCommits ==
  [code : {{}, {<<grep1, file2>>}, {<<grep1, file3>>}}, files : {Files}]
    \cup {[code  |-> {<<grep1, file2>>, <<grep1, file3>>, <<grep2, file2>>},
           files |-> Files \ {file1}]}

CardSymmetry == Permutations(Cards)
=============================================================================
