---------------------------- MODULE MCLzJsonPath ----------------------------
(* LzJsonPath on every path of up to five characters, and on those that     *)
(* write some deeper steps, in a value of depth five.                       *)
EXTENDS LzJsonPath, SequencesExt

\* { "a": ["x", { "a": [["z"], "s", NULL], "1": NULL }, "y"], "": "e" }, with
\* the null pointer for an item and for a member, and its list.
TheNodes == {"o", "l", "x", "p", "q", "r", "z", "s", "y", "e"}
TheMembers == [n \in {"o", "p"} |->
  IF n = "o" THEN [key \in {<<"a">>, <<>>} |-> IF key = <<>> THEN "e" ELSE "l"]
             ELSE [key \in {<<"a">>, <<"1">>} |-> IF key = <<"a">> THEN "q" ELSE NULL]]
TheItems == [n \in {"l", "q", "r"} |->
  CASE n = "l" -> <<"x", "p", "y">> [] n = "q" -> <<"r", "s", NULL>> [] n = "r" -> <<"z">>]

PathChars == {"a", "0", "1", "2", "6", ".", "[", "]"}

\* "16" is zero in an int of four bits.
Indices == SeqOf({"0", "1"}, 3) \cup {<<"2">>, <<"1", "6">>}
Steps == { KeyStep(t) : t \in {<<>>, <<"a">>, <<"1">>} } \cup { IndexStep(t) : t \in Indices }
LongSteps == { <<KeyStep(<<"a">>), IndexStep(<<"1">>), KeyStep(<<"a">>), IndexStep(m),
                 IndexStep(n)>> : m, n \in {<<"0">>, <<"1">>} }
TheSteps == (SeqOf(Steps, 3) \ {<<>>}) \cup LongSteps

ThePaths == SeqOf(PathChars \ {"2", "6"}, 5) \cup { Written(steps) : steps \in TheSteps }
=============================================================================
