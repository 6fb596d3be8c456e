--------------------------- MODULE BlueprintNodes ---------------------------
(***************************************************************************)
(* Package util/blueprint, the parts that compute: ports (port.go), the    *)
(* port tables of the node classes (exec.go, execpool.go) and the Exec     *)
(* methods that only read and write ports (sysnodes.go, mathnode.go).  The *)
(* classes that run other nodes are in BlueprintGraph.                     *)
(*                                                                         *)
(* A port is its type and its value; an array element has an integer and a *)
(* string.  Floats are left out.  The layouts of the ports come from JSON  *)
(* files that are not part of the repository: Def gives those that the     *)
(* Exec methods index.                                                     *)
(***************************************************************************)
EXTENDS Integers, Sequences, TLC

CONSTANTS
  IntWidth,   \* bits of a Port_Int
  ProbRange   \* Probability draws from 0 .. ProbRange-1

ASSUME NodesAssumption == IntWidth \in Nat \ {0} /\ ProbRange \in Nat \ {0}

Wrap(n) == ((n + 2^(IntWidth - 1)) % 2^IntWidth) - 2^(IntWidth - 1)

Port(t, v) == <<t, v>>
IsNil(p) == p[1] = "nil"
NilPort == Port("nil", 0)
IntP(n) == Port("int", Wrap(n))
BoolP(b) == Port("bool", b)
StrP(s) == Port("string", s)
ArrayP(a) == Port("array", a)
IntElem(n) == [i |-> n, s |-> ""]
StrElem(s) == [i |-> 0, s |-> s]
ArrayOf(ns) == ArrayP([k \in DOMAIN ns |-> IntElem(ns[k])])

NewPortByType(t) ==
  CASE t = "int" -> IntP(0) [] t = "bool" -> BoolP(FALSE) [] t = "string" -> StrP("")
    [] t = "array" -> ArrayP(<<>>) [] OTHER -> NilPort

Good(p) == [ok |-> TRUE, p |-> p]
Bad(p) == [ok |-> FALSE, p |-> p]

\* Atoi and ParseBool, for the short strings in use.
Numbers == -9 .. 9
Truths == [b \in BOOLEAN |-> IF b THEN {"1", "t", "T", "true", "TRUE", "True"} ELSE {"0", "f", "F", "false", "FALSE", "False"}]

\* setAnyVale: what is written into a port from outside is converted; an array
\* given as Port_Array loses its strings, and one given to a port that is not an
\* array is dropped without an error.  "any" is an array as JSON gives it, which
\* is dropped too.
setAnyVale(p, x) ==
  CASE x[1] \in {"nil", "any"} -> Good(p)
    [] x[1] = "int" /\ p[1] = "int" -> Good(x)
    [] x[1] = "int" /\ p[1] = "string" -> Good(StrP(ToString(x[2])))
    [] x[1] = "int" /\ p[1] = "bool" -> Good(BoolP(x[2] # 0))
    [] x[1] = "string" /\ p[1] = "string" -> Good(x)
    [] x[1] = "string" /\ p[1] = "int" ->
         IF \E n \in Numbers : ToString(n) = x[2] THEN Good(IntP(CHOOSE n \in Numbers : ToString(n) = x[2])) ELSE Bad(p)
    [] x[1] = "string" /\ p[1] = "bool" ->
         IF \E b \in BOOLEAN : x[2] \in Truths[b] THEN Good(BoolP(x[2] \in Truths[TRUE])) ELSE Bad(p)
    [] x[1] = "bool" /\ p[1] = "bool" -> Good(x)
    [] x[1] = "array" -> Good(IF p[1] = "array" THEN ArrayP(p[2] \o [k \in DOMAIN x[2] |-> IntElem(x[2][k].i)]) ELSE p)
    [] OTHER -> Bad(p)

\* SetValue copies between ports of one type and does nothing otherwise.
SetValue(p, q) == IF p[1] = q[1] THEN q ELSE p
-----------------------------------------------------------------------------
Layout(in, out) == [in |-> in, out |-> out]
\* The classes of variables are made for each type.
regVariablesNode ==
  [GetVar_int |-> Layout(<<>>, <<"int">>), SetVar_int |-> Layout(<<"exec", "int">>, <<"exec", "int">>)]
Def == regVariablesNode @@
  [Entrance_IntParam |-> Layout(<<>>, <<"exec", "int", "int">>),
   Entrance_Timer |-> Layout(<<>>, <<"exec", "array">>),
   AddInt |-> Layout(<<"int", "int">>, <<"int">>),
   SubInt |-> Layout(<<"int", "int", "bool">>, <<"int">>),
   MulInt |-> Layout(<<"int", "int">>, <<"int">>),
   DivInt |-> Layout(<<"int", "int", "bool">>, <<"int">>),
   ModInt |-> Layout(<<"int", "int">>, <<"int">>),
   RandNumber |-> Layout(<<"int", "int", "int">>, <<"int">>),
   GetArrayInt |-> Layout(<<"array", "int">>, <<"int">>),
   GetArrayString |-> Layout(<<"array", "int">>, <<"string">>),
   GetArrayLen |-> Layout(<<"array">>, <<"int">>),
   CreateIntArray |-> Layout(<<"array">>, <<"array">>),
   CreateStringArray |-> Layout(<<"array">>, <<"array">>),
   AppendIntegerToArray |-> Layout(<<"array", "int">>, <<"array">>),
   AppendStringToArray |-> Layout(<<"array", "string">>, <<"array">>),
   CreateTimer |-> Layout(<<"int", "array">>, <<"exec", "int">>),
   DebugOutput |-> Layout(<<"exec", "int", "string", "array">>, <<"exec">>),
   BoolIf |-> Layout(<<"exec", "bool">>, <<"exec", "exec">>),
   GreaterThanInteger |-> Layout(<<"exec", "bool", "int", "int">>, <<"exec", "exec">>),
   LessThanInteger |-> Layout(<<"exec", "bool", "int", "int">>, <<"exec", "exec">>),
   EqualInteger |-> Layout(<<"exec", "int", "int">>, <<"exec", "exec">>),
   RangeCompare |-> Layout(<<"exec", "int", "array">>, <<"exec", "exec", "exec", "exec">>),
   EqualSwitch |-> Layout(<<"exec", "int", "array">>, <<"exec", "exec", "exec", "exec">>),
   Probability |-> Layout(<<"exec", "int">>, <<"exec", "exec">>),
   IntInArray |-> Layout(<<"exec", "int", "array">>, <<"exec", "bool">>),
   AppendIntReturn |-> Layout(<<"exec", "int">>, <<"exec">>),
   AppendStringReturn |-> Layout(<<"exec", "string">>, <<"exec">>),
   Sequence |-> Layout(<<"exec">>, <<"exec", "exec">>),
   Foreach |-> Layout(<<"exec", "int", "int">>, <<"exec", "exec", "int">>),
   ForeachIntArray |-> Layout(<<"exec", "array">>, <<"exec", "exec", "int", "int">>)]

\* Exec ports come first, and a node has one way in at most.
createExecFromJSON(l) ==
  /\ \A k \in DOMAIN l.in : l.in[k] = "exec" => k = 1
  /\ \A j, k \in DOMAIN l.out : l.out[k] = "exec" /\ j < k => l.out[j] = "exec"

\* CloneInOutPort: fresh ports, nothing in the place of an exec port.
CloneInOutPort(c) ==
  [in |-> [k \in DOMAIN Def[c].in |-> NewPortByType(Def[c].in[k])],
   out |-> [k \in DOMAIN Def[c].out |-> NewPortByType(Def[c].out[k])]]

OutPortParamStartIndex(c) ==
  LET data == {k \in DOMAIN Def[c].out : Def[c].out[k] # "exec"} IN
  IF data = {} THEN -1 ELSE (CHOOSE k \in data : \A j \in data : k <= j) - 1
ExecOuts(c) == {k \in DOMAIN Def[c].out : Def[c].out[k] = "exec"}

\* GetInPort, GetOutPort: nil outside the table.  Port numbers start at 0.
GetInPort(x, k) == IF k + 1 \in DOMAIN x.in THEN x.in[k + 1] ELSE NilPort
GetOutPort(x, k) == IF k + 1 \in DOMAIN x.out THEN x.out[k + 1] ELSE NilPort
SetOut(x, k, p) == IF GetOutPort(x, k)[1] = p[1] THEN [x EXCEPT !.out[k + 1] = p] ELSE x
-----------------------------------------------------------------------------
\* An Exec gets the ports and gives the index of the next node, the ports and
\* how it ended.
Next(k, x) == [next |-> k, x |-> x, st |-> "ok"]
Fails(x) == [next |-> -1, x |-> x, st |-> "err"]
Panics(x) == [next |-> -1, x |-> x, st |-> "panic"]

Typed(x, types) == \A k \in DOMAIN types : GetInPort(x, k)[1] = types[k]
In(x, k) == GetInPort(x, k)[2]
Gives(x, p) == Next(-1, SetOut(x, 0, p))
Branch(x, b) == Next(IF b THEN 1 ELSE 0, x)

\* Go's division truncates.
Quo(a, b) == LET q == (IF a < 0 THEN -a ELSE a) \div (IF b < 0 THEN -b ELSE b) IN
             IF (a < 0) = (b < 0) THEN q ELSE -q
Rem(a, b) == a - b * Quo(a, b)

II == (0 :> "int") @@ (1 :> "int")
IIB == II @@ (2 :> "bool")

AddInt(x) == IF Typed(x, II) THEN Gives(x, IntP(In(x, 0) + In(x, 1))) ELSE Fails(x)
SubInt(x) ==
  IF ~Typed(x, IIB) THEN Fails(x)
  ELSE LET r == Wrap(In(x, 0) - In(x, 1)) IN Gives(x, IntP(IF In(x, 2) /\ r < 0 THEN -r ELSE r))
MulInt(x) == IF Typed(x, II) THEN Gives(x, IntP(In(x, 0) * In(x, 1))) ELSE Fails(x)
DivInt(x) ==
  IF ~Typed(x, IIB) \/ In(x, 1) = 0 THEN Fails(x)
  ELSE LET a == In(x, 0) b == In(x, 1) IN
       Gives(x, IntP(IF In(x, 2) THEN Quo(Wrap(a + Quo(b, 2)), b) ELSE Quo(a, b)))
ModInt(x) == IF ~Typed(x, II) \/ In(x, 1) = 0 THEN Fails(x) ELSE Gives(x, IntP(Rem(In(x, 0), In(x, 1))))

\* rnd is what the generator returns; Intn panics for an empty range.
RandNumber(x, rnd) ==
  LET n == Wrap(In(x, 2) - In(x, 1) + 1) IN
  IF ~Typed(x, II @@ (2 :> "int")) THEN Fails(x)
  ELSE IF n <= 0 THEN Panics(x) ELSE Gives(x, IntP((rnd % n) + In(x, 1)))
Probability(x, rnd) == IF Typed(x, 1 :> "int") THEN Branch(x, In(x, 1) > (rnd % ProbRange)) ELSE Fails(x)

ArrayAt(x) == Typed(x, (0 :> "array") @@ (1 :> "int")) /\ In(x, 1) >= 0 /\ In(x, 1) < Len(In(x, 0))
GetArrayInt(x) == IF ArrayAt(x) THEN Gives(x, IntP(In(x, 0)[In(x, 1) + 1].i)) ELSE Fails(x)
GetArrayString(x) == IF ArrayAt(x) THEN Gives(x, StrP(In(x, 0)[In(x, 1) + 1].s)) ELSE Fails(x)
GetArrayLen(x) == IF GetInPort(x, 0)[1] = "nil" THEN Fails(x)
                  ELSE Gives(x, IntP(IF GetInPort(x, 0)[1] = "array" THEN Len(In(x, 0)) ELSE 0))

\* The default of the port, not the port: JSON gives a []any, which is no
\* []string, so that CreateStringArray panics.
CreateIntArray(x, dflt) ==
  IF dflt[1] = "nil" \/ dflt[2] = <<>> THEN Fails(x) ELSE Gives(x, ArrayP([k \in DOMAIN dflt[2] |-> IntElem(dflt[2][k].i)]))
CreateStringArray(x, dflt) == IF dflt[1] = "nil" THEN Fails(x) ELSE Panics(x)
AppendIntegerToArray(x) ==
  IF ~Typed(x, (0 :> "array") @@ (1 :> "int")) THEN Fails(x)
  ELSE Gives(x, ArrayP(Append([k \in DOMAIN In(x, 0) |-> IntElem(In(x, 0)[k].i)], IntElem(In(x, 1)))))
\* The strings of the array and not the string to append.
AppendStringToArray(x) ==
  IF ~Typed(x, 0 :> "array") THEN Fails(x)
  ELSE Gives(x, ArrayP([k \in DOMAIN In(x, 0) |-> StrElem(In(x, 0)[k].s)]))

BoolIf(x) == IF Typed(x, 1 :> "bool") THEN Branch(x, In(x, 1)) ELSE Fails(x)
Compared == (1 :> "bool") @@ (2 :> "int") @@ (3 :> "int")
GreaterThanInteger(x) ==
  IF Typed(x, Compared) THEN Branch(x, In(x, 2) > In(x, 3) \/ (In(x, 1) /\ In(x, 2) = In(x, 3))) ELSE Fails(x)
LessThanInteger(x) ==
  IF Typed(x, Compared) THEN Branch(x, In(x, 2) < In(x, 3) \/ (In(x, 1) /\ In(x, 2) = In(x, 3))) ELSE Fails(x)
EqualInteger(x) == IF Typed(x, (1 :> "int") @@ (2 :> "int")) THEN Branch(x, In(x, 1) = In(x, 2)) ELSE Fails(x)

\* The numbers of the default array that there are ports for, by their place.
SwitchValues(x, dflt) ==
  IF dflt[1] = "nil" THEN <<>>
  ELSE [k \in {j \in DOMAIN dflt[2] : j <= Len(x.out) - 2} |-> dflt[2][k].i]
\* The first of the places that fit; else port 0.
FirstOf(x, fits) ==
  Next(IF fits = {} THEN 0 ELSE (CHOOSE k \in fits : \A j \in fits : k <= j) + 1, x)
RangeCompare(x, dflt) ==
  LET v == SwitchValues(x, dflt) IN
  IF Typed(x, 1 :> "int") THEN FirstOf(x, {k \in DOMAIN v : In(x, 1) <= v[k]}) ELSE Fails(x)
EqualSwitch(x, dflt) ==
  LET v == SwitchValues(x, dflt) IN
  IF Typed(x, 1 :> "int") THEN FirstOf(x, {k \in DOMAIN v : In(x, 1) = v[k]}) ELSE Fails(x)

IntInArray(x) ==
  IF ~Typed(x, (1 :> "int") @@ (2 :> "array")) THEN Fails(x)
  ELSE Next(0, SetOut(x, 1, BoolP(\E k \in DOMAIN In(x, 2) : In(x, 2)[k].i = In(x, 1))))
DebugOutput(x) ==
  IF Typed(x, (1 :> "int") @@ (2 :> "string") @@ (3 :> "array")) THEN Next(0, x) ELSE Fails(x)

\* Exec of the classes that only look at ports.  dflt(k) is the configured
\* default of in port k.
ExecPorts(c, x, dflt(_), rnd) ==
  CASE c = "AddInt" -> AddInt(x) [] c = "SubInt" -> SubInt(x) [] c = "MulInt" -> MulInt(x)
    [] c = "DivInt" -> DivInt(x) [] c = "ModInt" -> ModInt(x)
    [] c = "RandNumber" -> RandNumber(x, rnd) [] c = "Probability" -> Probability(x, rnd)
    [] c = "GetArrayInt" -> GetArrayInt(x) [] c = "GetArrayString" -> GetArrayString(x)
    [] c = "GetArrayLen" -> GetArrayLen(x)
    [] c = "CreateIntArray" -> CreateIntArray(x, dflt(0)) [] c = "CreateStringArray" -> CreateStringArray(x, dflt(0))
    [] c = "AppendIntegerToArray" -> AppendIntegerToArray(x) [] c = "AppendStringToArray" -> AppendStringToArray(x)
    [] c = "BoolIf" -> BoolIf(x) [] c = "GreaterThanInteger" -> GreaterThanInteger(x)
    [] c = "LessThanInteger" -> LessThanInteger(x) [] c = "EqualInteger" -> EqualInteger(x)
    [] c = "RangeCompare" -> RangeCompare(x, dflt(2)) [] c = "EqualSwitch" -> EqualSwitch(x, dflt(2))
    [] c = "IntInArray" -> IntInArray(x) [] c = "DebugOutput" -> DebugOutput(x)
    [] OTHER -> Next(0, x)
=============================================================================
