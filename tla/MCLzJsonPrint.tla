--------------------------- MODULE MCLzJsonPrint ---------------------------
(* LzJsonPrint on scalars, on containers of up to two of them, and on a few *)
(* values of depth three; buffers of every length up to a little more than  *)
(* most texts need.                                                         *)
EXTENDS LzJsonReadBack

\* Numbers around the pairs of digits, the largest int and the largest
\* unsigned int of eight bits; strings with everything there is to escape.
Scalars == { Num(n) : n \in {0, 9, 10, 99, 100, 127, 128, 255} }
           \cup { Str(s) : s \in { <<>>, <<"x">>, <<"quote", "bslash">>,
                                   <<"newline", "n">>, <<"ctl">> } }
           \cup { Bool(b) : b \in BOOLEAN } \cup {Nil}

Few == {Num(12), Str(<<"quote">>), Bool(TRUE), Arr(<<>>), NullPtr}

Arrays == { Arr(vs) : vs \in SeqOf(Few, 2) }
Objects == { Obj(ms) : ms \in SeqOf({ Pairing(<<"x">>, v) : v \in Few }, 2) }
Innermost(w) == Arr(<<w, Nil>>)
Middle(v, w) == Obj(<<Pairing(<<"x">>, v), Pairing(<<>>, Innermost(w))>>)
Deep == UNION { {Arr(<<Middle(v, w), w>>), Middle(v, w), Innermost(w)} : v, w \in Few }

AllValues == Scalars \cup Few \cup Arrays \cup Objects \cup Deep
SomeKeys == { <<"x">>, <<>> }

RECURSIVE Depth(_)
Depth(v) == IF v.type \notin Containers THEN 0
            ELSE 1 + Max({0} \cup { Depth(v.members[i].val) : i \in DOMAIN v.members })
AllNesting == [v \in AllValues |-> Depth(v)]

AllRequests == { Calls(v, esc) : v \in AllValues, esc \in BOOLEAN }

AllChars == DigitSet \cup {"quote", "bslash", "newline", "ctl", "n", "x", "[", "]", "{",
                           "}", ",", ":", "t", "r", "u", "e", "f", "a", "l", "s"}

\* The constants.  TLC evaluates what stands for a constant at every use, but
\* the definitions above only once.
SomeValues == AllValues
SomeNesting == AllNesting
SomeRequests == AllRequests
=============================================================================
