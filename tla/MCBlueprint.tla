---------------------------- MODULE MCBlueprint ----------------------------
(***************************************************************************)
(* Scripts for Blueprint: arithmetic over all classes, assignments before  *)
(* and after a branch, loops in loops, and the ways to fail, before and    *)
(* after an assignment.                                                    *)
(***************************************************************************)
EXTENDS Blueprint

C(n) == <<"const", n>>
P(k) == <<"param", k>>
X == <<"get", "x">>
G == <<"get", "g_x">>
I == <<"index">>
A == <<"array", <<3, -1>>>>

Sums == {<<op, a, b>> : op \in {"AddInt", "SubInt", "MulInt", "DivInt", "ModInt"}, a \in {P(1), X}, b \in {P(2), C(-3)}}
Others ==
  {<<"RandNumber", C(0), P(1), P(2)>>, <<"GetArrayLen", <<"AppendIntegerToArray", A, X>>>>,
   <<"GetArrayInt", A, P(1)>>, <<"timer", A>>, <<"MulInt", <<"AddInt", X, P(1)>>, X>>}
Straight == {<<<<"set", "x", C(5)>>, <<"set", "g_x", e>>, <<"ret", G>>>> : e \in Sums \cup Others}

Bodies ==
  {<<<<"ret", I>>>>, <<<<"set", "x", <<"AddInt", X, I>>>>>>,
   <<<<"if", "EqualInteger", I, C(1), <<<<"ret", X>>>>, <<<<"set", "x", C(9)>>>>>>>>,
   <<<<"seq", <<<<"set", "g_x", I>>>>, <<<<"ret", <<"DivInt", C(6), I>>>>>>>>>>}
Inner == Bodies \cup {<<<<"for", C(0), P(1), b>>>> : b \in Bodies}
Loops ==
  {<<<<"set", "x", P(2)>>, <<"for", C(0), C(3), b \o <<<<"ret", I>>>>>>, <<"ret", X>>>> : b \in Inner}

Branches ==
  {<<<<"set", "x", C(0)>>, s, <<"ret", X>>, <<"ret", G>>>> : s \in
     {<<"if", c, P(1), P(2), <<<<"set", "x", C(1)>>>>, <<<<"set", "g_x", C(2)>>>>>> :
        c \in {"GreaterThanInteger", "LessThanInteger", "EqualInteger"}}
     \cup {<<"switch", c, P(1), <<0, 1>>, <<<<"set", "g_x", C(7)>>>>, <<<<"set", "x", C(1)>>>>, <<>>>> :
             c \in {"RangeCompare", "EqualSwitch"}}
     \cup {<<"find", P(1), A, <<>>, <<<<"set", "g_x", X>>>>>>, <<"prob", P(1), <<<<"set", "g_x", C(3)>>>>, <<>>>>,
           <<"each", A, <<<<"set", "g_x", <<"item">>>>, <<"set", "x", <<"AddInt", X, <<"item">>>>>>>>>>}}

\* Assignments to the global variable, and then a panic or an error.
Broken ==
  {<<<<"set", "g_x", C(7)>>, <<"ret", G>>, <<"set", "g_x", e>>, <<"ret", G>>>> : e \in
     {<<"RandNumber", C(0), P(1), P(2)>>, <<"DivInt", G, P(2)>>, <<"timer", A>>}}
  \cup {<<<<"for", C(0), P(1), <<<<"set", "g_x", I>>, <<"set", "x", <<"RandNumber", C(0), I, P(2)>>>>>>>>>>}

\* A branch that joins again before five more nodes: too deep to load.
Long == <<<<"if", "EqualInteger", P(1), C(0), <<>>, <<<<"ret", C(1)>>>>>>>> \o [i \in 1 .. 6 |-> <<"ret", C(i)>>]

File(m) == [main |-> m, timer |-> <<<<"set", "g_x", <<"GetArrayInt", <<"arg">>, C(1)>>>>>>]
MCScripts == {File(m) : m \in Straight \cup Loops \cup Branches \cup Broken}
MCEdits == {File(Long), File(<<<<"set", "g_x", C(4)>>>>)}
MCArguments == {<<IntP(1), IntP(2)>>, <<IntP(3), IntP(0)>>}
============================================================================
