--------------------------- MODULE BlueprintGraph ---------------------------
(***************************************************************************)
(* Package util/blueprint: how a drawn graph is loaded (graphpool.go) and  *)
(* run (node.go, graph.go, and the Exec methods that run other nodes or    *)
(* touch the graph).                                                       *)
(*                                                                         *)
(* A configuration cfg has nodes (a function from ids to class, variable   *)
(* name and defaults) and a set of edges <<source, port, target, port>>.   *)
(* A run is a record: the contexts of the nodes, the variables, the state  *)
(* of the class objects, the timers it started and how it ended.  The      *)
(* object of a class is shared by all nodes of the class in all graphs:    *)
(* em[c] holds the node and the context it works for.                      *)
(***************************************************************************)
EXTENDS BlueprintNodes, FiniteSets, SequencesExt

CONSTANT MaxRecursion  \* prepareOneNode's limit

None == <<>>   \* no node; ids are nonempty
Classes == DOMAIN Def

\* findOutNextNode, findPreInPortNode: an edge is found by the port it leaves or
\* enters, whatever is at its other end.
findOutNextNode(cfg, n, k) ==
  LET es == {e \in cfg.edges : e[1] = n /\ e[2] = k} IN IF es = {} THEN None ELSE (CHOOSE e \in es : TRUE)[3]
findPreInPortNode(cfg, n, k) ==
  LET es == {e \in cfg.edges : e[3] = n /\ e[4] = k} IN
  IF es = {} THEN [node |-> None, port |-> 0]
  ELSE LET e == CHOOSE e \in es : TRUE IN [node |-> e[1], port |-> e[2]]

ClassOf(cfg, n) == cfg.nodes[n].class
\* ExecOuts of the class, numbered from 0.
Exits(cfg, n) == {k - 1 : k \in ExecOuts(ClassOf(cfg, n))}

\* prepareOneNode appends the exits of a node to its list every time it comes by
\* and then follows all that the list holds: coming by v times it goes through
\* each of the exits 1 + 2 + ... + v times.  visits is how often it comes by;
\* drawings have no cycles.
ExecLines(cfg) == {e \in cfg.edges : e[2] \in Exits(cfg, e[1])}
prepareOneNode(cfg, entrance) ==
  LET into(n) == {e \in ExecLines(cfg) : e[3] = n}
      visits[n \in DOMAIN cfg.nodes] ==
        IF n = entrance THEN 1
        ELSE MapThenSumSet(LAMBDA e : LET v == visits[e[1]] IN (v * (v + 1)) \div 2, into(n)) IN
  visits

\* prepareOneEntrance: the nodes that exec lines lead to, if they are not too
\* many to come by.
prepareOneEntrance(cfg, entrance) ==
  LET visits == prepareOneNode(cfg, entrance)
      prepared == {n \in DOMAIN cfg.nodes : visits[n] > 0} IN
  [cfg |-> cfg, entrance |-> entrance, prepared |-> prepared, connected |-> prepared \ {entrance},
   loaded |-> MapThenSumSet(LAMBDA n : visits[n], prepared) <= MaxRecursion]
-----------------------------------------------------------------------------
NoEm == [ctx |-> None, node |-> None, gr |-> "none"]

\* A run of graph object gr.  Graph.Do: fresh variables and contexts, and an
\* empty return value among the globals.
Starts(gr, globals, em, rnd) ==
  [gr |-> gr, ctx |-> [n \in {} |-> NilPort], variables |-> [v \in {} |-> NilPort],
   globals |-> [globals EXCEPT !["g_Return"] = NilPort],
   em |-> em, timers |-> <<>>, rnd |-> rnd, next |-> -1, st |-> "ok"]

Ends(r, st) == [r EXCEPT !.st = st]
Ok(r) == r.st = "ok"

\* The name says where a variable lives.
Globals == {"g_x", "g_Return"}
Variable(r, v) ==
  IF v \in Globals THEN r.globals[v] ELSE IF v \in DOMAIN r.variables THEN r.variables[v] ELSE NilPort
SetVariable(r, v, p) ==
  IF v \in Globals THEN [r EXCEPT !.globals[v] = p] ELSE [r EXCEPT !.variables = (v :> p) @@ @]

Default(g, n, k) == LET d == g.cfg.nodes[n].default IN IF k \in DOMAIN d THEN d[k] ELSE NilPort

RECURSIVE Do(_, _, _, _), DoSetInPorts(_, _, _, _), Loop(_, _, _, _, _), Sequence(_, _, _, _)

\* DoNext: the class object says which node's exits are meant.
DoNext(g, c, k, r) ==
  LET n == r.em[c].node IN
  IF ~Ok(r) THEN r
  ELSE IF k \notin Exits(g.cfg, n) \/ n \notin g.prepared THEN Ends(r, "err")
  ELSE LET m == findOutNextNode(g.cfg, n, k) IN IF m = None THEN r ELSE Do(g, m, <<>>, r)

\* Foreach and ForeachIntArray: the values come from the in ports once, the out
\* ports are set before each round.
Loop(g, c, rounds, i, r) ==
  IF ~Ok(r) THEN r
  ELSE IF i > Len(rounds) THEN DoNext(g, c, 1, r)
  ELSE Loop(g, c, rounds, i + 1,
         DoNext(g, c, 0, [r EXCEPT !.ctx[r.em[c].ctx] =
                            IF c = "Foreach" THEN SetOut(@, 2, IntP(rounds[i]))
                            ELSE SetOut(SetOut(@, 2, IntP(i - 1)), 3, IntP(rounds[i]))]))

Sequence(g, c, k, r) ==
  IF k \notin Exits(g.cfg, r.em[c].node) THEN r ELSE Sequence(g, c, k + 1, DoNext(g, c, k, r))

Foreach(g, r) ==
  LET x == r.ctx[r.em["Foreach"].ctx] IN
  IF ~Typed(x, (1 :> "int") @@ (2 :> "int")) THEN Ends(r, "err")
  ELSE Loop(g, "Foreach", [k \in 1 .. (In(x, 2) - In(x, 1)) |-> In(x, 1) + k - 1], 1, r)
ForeachIntArray(g, r) ==
  LET x == r.ctx[r.em["ForeachIntArray"].ctx] IN
  IF ~Typed(x, 1 :> "array") THEN Ends(r, "err")
  ELSE Loop(g, "ForeachIntArray", [k \in DOMAIN In(x, 1) |-> In(x, 1)[k].i], 1, r)

\* CreateTimer: the timer runs, and then the map it is to be noted in is nil.
CreateTimer(r) ==
  LET x == r.ctx[r.em["CreateTimer"].ctx] IN
  IF ~Typed(x, (0 :> "int") @@ (1 :> "array")) THEN Ends(r, "err")
  ELSE Ends([r EXCEPT !.timers = Append(@, GetInPort(x, 1))], "panic")

GetVariablesNode(g, r) ==
  LET p == Variable(r, g.cfg.nodes[r.em["GetVar_int"].node].var) IN
  IF IsNil(p) THEN Ends(r, "err")
  ELSE [r EXCEPT !.ctx[r.em["GetVar_int"].ctx].out[1] = SetValue(@, p), !.next = 0]
SetVariablesNode(g, r) ==
  LET m == r.em["SetVar_int"]  p == GetInPort(r.ctx[m.ctx], 1) IN
  [SetVariable(r, g.cfg.nodes[m.node].var, p) EXCEPT !.ctx[m.ctx].out[2] = SetValue(@, p), !.next = 0]

\* AppendIntReturn, AppendStringReturn.
AppendReturn(c, r) ==
  LET x == r.ctx[r.em[c].ctx]
      old == IF IsNil(r.globals["g_Return"]) THEN <<>> ELSE r.globals["g_Return"][2]
      e == IF c = "AppendIntReturn" THEN IntElem(In(x, 1)) ELSE StrElem(In(x, 1)) IN
  IF ~Typed(x, 1 :> IF c = "AppendIntReturn" THEN "int" ELSE "string") THEN Ends(r, "err")
  ELSE [r EXCEPT !.globals["g_Return"] = ArrayP(Append(old, e)), !.next = 0]

Left(r, ctx, e) == [r EXCEPT !.ctx[ctx] = e.x, !.next = e.next, !.st = e.st]
PortsOnly(g, c, r) ==
  Left(r, r.em[c].ctx, ExecPorts(c, r.ctx[r.em[c].ctx], LAMBDA k : Default(g, r.em[c].node, k), r.rnd))

Exec(g, c, r) ==
  CASE c = "Foreach" -> [Foreach(g, r) EXCEPT !.next = -1]
    [] c = "ForeachIntArray" -> [ForeachIntArray(g, r) EXCEPT !.next = -1]
    [] c = "Sequence" -> [Sequence(g, c, 0, r) EXCEPT !.next = -1]
    [] c = "CreateTimer" -> CreateTimer(r)
    [] c = "GetVar_int" -> GetVariablesNode(g, r)
    [] c = "SetVar_int" -> SetVariablesNode(g, r)
    [] c \in {"AppendIntReturn", "AppendStringReturn"} -> AppendReturn(c, r)
    [] OTHER -> PortsOnly(g, c, r)

\* exec: the object of the class is lent to this node and given back as it was,
\* but for the graph.  (Mutant: not given back.)
Lent(c, n, r) == [r EXCEPT !.em[c] = [ctx |-> n, node |-> n, gr |-> r.gr]]
GivenBack(c, was, e) == [e EXCEPT !.em[c] = [@ EXCEPT !.ctx = was.ctx, !.node = was.node]]
KeptByLast(g, n, r) == LET c == ClassOf(g.cfg, n) IN IF Ok(r) THEN Exec(g, c, Lent(c, n, r)) ELSE r
exec(g, n, r) ==
  LET c == ClassOf(g.cfg, n) IN IF Ok(r) THEN GivenBack(c, r.em[c], Exec(g, c, Lent(c, n, r))) ELSE r

\* doSetInPort, port after port: a node without exec lines is run anew each time
\* one of its outputs is needed, one with exec lines only when it never ran.
RunAgain(g, m, r) == m \notin DOMAIN r.ctx \/ (m \notin g.connected /\ m # g.entrance)
Converted(n, k, v, r) == IF v.ok THEN [r EXCEPT !.ctx[n].in[k + 1] = v.p] ELSE Ends(r, "err")
Copied(n, k, pre, r) ==
  IF ~Ok(r) THEN r
  ELSE LET out == GetOutPort(r.ctx[pre.node], pre.port) IN
       IF IsNil(out) THEN Ends(r, "err") ELSE [r EXCEPT !.ctx[n].in[k + 1] = SetValue(@, out)]
InPort(g, n, k, pre, r) ==
  IF pre.node = None THEN Converted(n, k, setAnyVale(r.ctx[n].in[k + 1], Default(g, n, k)), r)
  ELSE Copied(n, k, pre, IF RunAgain(g, pre.node, r) THEN Do(g, pre.node, <<>>, r) ELSE r)
DoSetInPorts(g, n, k, r) ==
  LET in == Def[ClassOf(g.cfg, n)].in IN
  IF ~Ok(r) \/ k + 1 \notin DOMAIN in THEN r
  ELSE DoSetInPorts(g, n, k + 1, IF in[k + 1] = "exec" THEN r ELSE InPort(g, n, k, findPreInPortNode(g.cfg, n, k), r))

\* The arguments go to the data outputs of the entrance.
SetArgs(c, x, args) ==
  LET s == OutPortParamStartIndex(c)
      set == [k \in DOMAIN args |-> setAnyVale(GetOutPort(x, s + k - 1), args[k])] IN
  IF args = <<>> THEN [x |-> x, st |-> "ok"]
  ELSE IF s = -1 THEN [x |-> x, st |-> "panic"]
  ELSE IF s + Len(args) > Len(x.out) \/ \E k \in DOMAIN args : ~set[k].ok THEN [x |-> x, st |-> "err"]
  ELSE [x |-> [x EXCEPT !.out = [j \in DOMAIN @ |-> IF j - s \in DOMAIN args THEN set[j - s].p ELSE @[j]]], st |-> "ok"]

\* execNode.Do: fresh ports, the arguments, the in ports, Exec, the next node.
Fresh(n, a, r) == [r EXCEPT !.ctx = (n :> a.x) @@ @, !.st = a.st]
GoesOn(g, n, r) ==
  IF ~Ok(r) \/ r.next = -1 \/ n \notin g.prepared \/ Exits(g.cfg, n) = {} THEN r
  ELSE IF r.next \notin Exits(g.cfg, n) THEN Ends(r, "err")
  ELSE LET m == findOutNextNode(g.cfg, n, r.next) IN IF m = None THEN r ELSE Do(g, m, <<>>, r)
Do(g, n, args, r) ==
  IF ~Ok(r) THEN r
  ELSE LET c == ClassOf(g.cfg, n) IN
       GoesOn(g, n, exec(g, n, DoSetInPorts(g, n, 0, Fresh(n, SetArgs(c, CloneInOutPort(c), args), r))))

\* Graph.Do.  What a run that panics did to the globals is undone; what one that
\* fails did stays.
GlobalsAfter(globals, r) == IF r.st = "panic" THEN globals ELSE r.globals
Returned(r) == IF r.st = "ok" /\ ~IsNil(r.globals["g_Return"]) THEN r.globals["g_Return"][2] ELSE <<>>
Done(globals, r) ==
  [st |-> r.st, globals |-> GlobalsAfter(globals, r), em |-> r.em, timers |-> r.timers, ret |-> Returned(r)]
GraphDo(g, gr, globals, em, args, rnd) == Done(globals, Do(g, g.entrance, args, Starts(gr, globals, em, rnd)))
=============================================================================
