-------------------------- MODULE BlueprintScript --------------------------
(***************************************************************************)
(* What a drawn graph is meant to do, for drawings made from scripts: a    *)
(* script is a list of statements, Draw draws it as nodes and edges, and   *)
(* Meaning says directly what running it does.                             *)
(*                                                                         *)
(* Expressions: <<"const", n>>, <<"param", k>>, <<"get", v>>, <<"index">>  *)
(* and <<"item">> of the innermost loop, <<class, a, b>> for a class with  *)
(* data ports only, <<"timer", a>>; arrays: <<"array", numbers>>,          *)
(* <<"arg">>.  Statements: <<"set", v, a>>, <<"ret", a>>,                  *)
(* <<"if", class, a, b, else, then>>, <<"prob", a, else, then>>,           *)
(* <<"find", a, array, else, then>>, <<"switch", class, a, numbers, else,  *)
(* first, second>>, <<"for", a, b, body>>, <<"each", array, body>>,        *)
(* <<"seq", first, second>>.                                               *)
(***************************************************************************)
EXTENDS BlueprintGraph

Root == <<0>>
Blank == [nodes |-> [n \in {} |-> 0], edges |-> {}, out |-> {}]
Plus(f, h) == [nodes |-> f.nodes @@ h.nodes, edges |-> f.edges \cup h.edges, out |-> h.out]

Leaves == {"const", "param", "index", "item", "arg"}
\* The port an expression drawn at p comes from.
Source(e, p, loops) ==
  CASE e[1] = "param" -> <<Root, e[2]>> [] e[1] = "arg" -> <<Root, 1>>
    [] e[1] = "index" -> <<loops.index, 2>> [] e[1] = "item" -> <<loops.item, 3>>
    [] e[1] = "timer" -> <<p, 1>> [] OTHER -> <<p, 0>>

RECURSIVE DrawE(_, _, _), DrawList(_, _, _, _, _), DrawS(_, _, _)
\* Node n of the class, with the expressions es at its in ports from first on.
Place(n, c, v, es, first, loops, default) ==
  LET consts == {i \in DOMAIN es : es[i][1] = "const"}
      src(i) == Source(es[i], Append(n, i), loops)
      own == [nodes |-> n :> [class |-> c, var |-> v,
                              default |-> default @@ [k \in {first + i - 1 : i \in consts} |-> IntP(es[k - first + 1][2])]],
              edges |-> {<<src(i)[1], src(i)[2], n, first + i - 1>> : i \in DOMAIN es \ consts},
              out |-> {<<n, 0>>}]
      parts == [i \in DOMAIN es |-> DrawE(es[i], Append(n, i), loops)] IN
  FoldLeft(LAMBDA f, h : Plus(h, f), own, parts)

NoDefault == [k \in {} |-> NilPort]
JsonArray(ns) == Port("any", ArrayOf(ns)[2])
DrawE(e, p, loops) ==
  CASE e[1] \in Leaves -> Blank
    [] e[1] = "get" -> Place(p, "GetVar_int", e[2], <<>>, 0, loops, NoDefault)
    [] e[1] = "array" -> Place(p, "CreateIntArray", "", <<>>, 0, loops, 0 :> JsonArray(e[2]))
    [] e[1] = "timer" -> Place(p, "CreateTimer", "", <<<<"const", 1>>, e[2]>>, 0, loops, NoDefault)
    [] e[1] \in {"SubInt", "DivInt"} -> Place(p, e[1], "", Tail(e), 0, loops, 2 :> BoolP(TRUE))
    [] OTHER -> Place(p, e[1], "", Tail(e), 0, loops, NoDefault)

\* The statements from the i-th on, reached from the exits in from.
DrawList(l, i, p, from, loops) ==
  IF i > Len(l) THEN [Blank EXCEPT !.out = from]
  ELSE LET n == Append(p, i)
           lines == [Blank EXCEPT !.edges = {<<x[1], x[2], n, 0>> : x \in from}]
           onward(f) == Plus(f, DrawList(l, i + 1, p, f.out, loops)) IN
       onward(Plus(lines, DrawS(l[i], n, loops)))

\* Lists at the exits of node n; the drawing goes on from those in onward.
Below(n, lists, onward, loops) ==
  LET joined(parts) == [FoldLeft(Plus, Blank, parts) EXCEPT !.out = UNION {parts[i].out : i \in onward}] IN
  joined([i \in DOMAIN lists |-> DrawList(lists[i][2], 1, Append(n, 10 + i), {<<n, lists[i][1]>>}, loops)])

DrawS(s, n, loops) ==
  CASE s[1] = "set" -> Place(n, "SetVar_int", s[2], <<s[3]>>, 1, loops, NoDefault)
    [] s[1] = "ret" -> Place(n, "AppendIntReturn", "", <<s[2]>>, 1, loops, NoDefault)
    [] s[1] = "if" ->
         Plus(Place(n, s[2], "", <<s[3], s[4]>>, IF s[2] = "EqualInteger" THEN 1 ELSE 2, loops, 1 :> BoolP(FALSE)),
              Below(n, <<<<0, s[5]>>, <<1, s[6]>>>>, {1, 2}, loops))
    [] s[1] = "prob" ->
         Plus(Place(n, "Probability", "", <<s[2]>>, 1, loops, NoDefault), Below(n, <<<<0, s[3]>>, <<1, s[4]>>>>, {1, 2}, loops))
    [] s[1] = "find" ->
         LET m == Append(n, 9)
             test == [Place(m, "BoolIf", "", <<>>, 1, loops, NoDefault) EXCEPT !.edges = {<<n, 0, m, 0>>, <<n, 1, m, 1>>}] IN
         Plus(Plus(Place(n, "IntInArray", "", <<s[2], s[3]>>, 1, loops, NoDefault), test),
              Below(m, <<<<0, s[4]>>, <<1, s[5]>>>>, {1, 2}, loops))
    [] s[1] = "switch" ->
         Plus(Place(n, s[2], "", <<s[3]>>, 1, loops, 2 :> JsonArray(s[4])),
              Below(n, <<<<0, s[5]>>, <<2, s[6]>>, <<3, s[7]>>>>, {1, 2, 3}, loops))
    [] s[1] = "for" ->
         [Plus(Place(n, "Foreach", "", <<s[2], s[3]>>, 1, loops, NoDefault),
               Below(n, <<<<0, s[4]>>>>, {}, [loops EXCEPT !.index = n])) EXCEPT !.out = {<<n, 1>>}]
    [] s[1] = "each" ->
         [Plus(Place(n, "ForeachIntArray", "", <<s[2]>>, 1, loops, NoDefault),
               Below(n, <<<<0, s[3]>>>>, {}, [loops EXCEPT !.item = n])) EXCEPT !.out = {<<n, 1>>}]
    [] s[1] = "seq" ->
         Plus(Place(n, "Sequence", "", <<>>, 1, loops, NoDefault), Below(n, <<<<0, s[2]>>, <<1, s[3]>>>>, {2}, loops))

Draw(script, entrance) ==
  LET rooted(f) == [nodes |-> (Root :> [class |-> entrance, var |-> "", default |-> NoDefault]) @@ f.nodes,
                    edges |-> f.edges] IN
  prepareOneEntrance(rooted(DrawList(script, 1, <<1>>, {<<Root, 0>>}, [index |-> Root, item |-> Root])), Root)
-----------------------------------------------------------------------------
\* The meaning of an expression in an environment: how it ends and its value.
Val(n) == [st |-> "ok", v |-> n]
Fault(st) == [st |-> st, v |-> 0]
RECURSIVE MeaningE(_, _), MeaningList(_, _, _), MeaningS(_, _), MeaningFor(_, _, _, _)
MeaningE(e, env) ==
  LET Sub(i) == MeaningE(e[i], env)
      worst == {i \in 2 .. Len(e) : Sub(i).st # "ok"}
      V(i) == Sub(i).v IN
  CASE e[1] = "const" -> Val(Wrap(e[2]))
    [] e[1] \in {"param", "arg"} -> Val(env.args[IF e[1] = "arg" THEN 1 ELSE e[2]][2])
    [] e[1] = "get" -> IF e[2] \in DOMAIN env.vars THEN Val(env.vars[e[2]]) ELSE Fault("err")
    [] e[1] = "index" -> Val(env.index) [] e[1] = "item" -> Val(env.item)
    [] e[1] = "array" -> Val(ArrayOf(e[2])[2])
    [] worst # {} -> Sub(CHOOSE i \in worst : \A j \in worst : i <= j)
    [] e[1] = "timer" -> Fault("panic")
    [] e[1] = "AddInt" -> Val(Wrap(V(2) + V(3)))
    [] e[1] = "SubInt" -> Val(LET d == Wrap(V(2) - V(3)) IN IF d < 0 THEN Wrap(-d) ELSE d)
    [] e[1] = "MulInt" -> Val(Wrap(V(2) * V(3)))
    [] e[1] \in {"DivInt", "ModInt"} /\ V(3) = 0 -> Fault("err")
    [] e[1] = "DivInt" -> Val(Wrap(Quo(Wrap(V(2) + Quo(V(3), 2)), V(3))))
    [] e[1] = "ModInt" -> Val(CHOOSE m \in (-V(3) .. V(3)) \cup (V(3) .. -V(3)) :
                                \E q \in -2^IntWidth .. 2^IntWidth :
                                  V(2) = q * V(3) + m /\ m * V(2) >= 0 /\ m # V(3) /\ m # -V(3))
    [] e[1] = "RandNumber" -> IF V(4) < V(3) THEN Fault("panic") ELSE Val(V(3) + (env.rnd % (V(4) - V(3) + 1)))
    [] e[1] = "GetArrayLen" -> Val(Len(V(2)))
    [] e[1] = "GetArrayInt" -> IF V(3) + 1 \in DOMAIN V(2) THEN Val(V(2)[V(3) + 1].i) ELSE Fault("err")
    [] e[1] = "AppendIntegerToArray" -> Val(Append(V(2), IntElem(V(3))))

\* Statements change the environment; the first fault ends the run.
Then(env, v, F(_)) == IF env.st # "ok" THEN env ELSE IF v.st # "ok" THEN [env EXCEPT !.st = v.st] ELSE F(v.v)
MeaningList(l, i, env) ==
  IF i > Len(l) \/ env.st # "ok" THEN env ELSE MeaningList(l, i + 1, MeaningS(l[i], env))
Part(l, env) == MeaningList(l, 1, env)

\* One round of the body for each of the values.
MeaningFor(vs, i, s, env) ==
  IF i > Len(vs) \/ env.st # "ok" THEN env
  ELSE MeaningFor(vs, i + 1, s,
         IF s[1] = "for" THEN [Part(s[4], [env EXCEPT !.index = vs[i]]) EXCEPT !.index = env.index]
         ELSE [Part(s[3], [env EXCEPT !.item = vs[i]]) EXCEPT !.item = env.item])

MeaningS(s, env) ==
  LET E(i) == MeaningE(s[i], env) IN
  CASE s[1] = "set" -> Then(env, E(3), LAMBDA v : [env EXCEPT !.vars = (s[2] :> v) @@ @])
    [] s[1] = "ret" -> Then(env, E(2), LAMBDA v : [env EXCEPT !.ret = Append(@, IntElem(v))])
    [] s[1] = "if" ->
         Then(env, E(3), LAMBDA a : Then(env, E(4), LAMBDA b :
           IF CASE s[2] = "GreaterThanInteger" -> a > b [] s[2] = "LessThanInteger" -> a < b [] OTHER -> a = b
           THEN Part(s[6], env) ELSE Part(s[5], env)))
    [] s[1] = "prob" -> Then(env, E(2), LAMBDA a : Part(IF (env.rnd % ProbRange) < a THEN s[4] ELSE s[3], env))
    [] s[1] = "find" ->
         Then(env, E(2), LAMBDA a : Then(env, E(3), LAMBDA b :
           Part(IF a \in {b[k].i : k \in DOMAIN b} THEN s[5] ELSE s[4], env)))
    [] s[1] = "switch" ->
         Then(env, E(3), LAMBDA a :
           LET Fits(n) == IF s[2] = "EqualSwitch" THEN a = n ELSE a <= n IN
           Part(IF Len(s[4]) >= 1 /\ Fits(s[4][1]) THEN s[6]
                ELSE IF Len(s[4]) >= 2 /\ Fits(s[4][2]) THEN s[7] ELSE s[5], env))
    [] s[1] = "for" ->
         Then(env, E(2), LAMBDA a : Then(env, E(3), LAMBDA b :
           MeaningFor([k \in 1 .. (b - a) |-> a + k - 1], 1, s, env)))
    [] s[1] = "each" -> Then(env, E(2), LAMBDA a : MeaningFor([k \in DOMAIN a |-> a[k].i], 1, s, env))
    [] s[1] = "seq" -> Part(s[3], Part(s[2], env))

\* A run of the script: how it ends, what it returns and the global it leaves.
Meaning(script, args, rnd, gx) ==
  LET start == [st |-> "ok", args |-> args, rnd |-> rnd, ret |-> <<>>, index |-> 0, item |-> 0,
                vars |-> IF IsNil(gx) THEN [v \in {} |-> 0] ELSE "g_x" :> gx[2]]
      end == Part(script, start) IN
  [st |-> end.st, ret |-> IF end.st = "ok" THEN end.ret ELSE <<>>,
   gx |-> IF end.st = "panic" THEN gx ELSE IF "g_x" \in DOMAIN end.vars THEN IntP(end.vars["g_x"]) ELSE NilPort]
=============================================================================
