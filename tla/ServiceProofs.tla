--------------------------- MODULE ServiceProofs ---------------------------
(***************************************************************************)
(* Theorems about the module Service: the tree of modules stays one tree,  *)
(* what is released is gone from it and from all listeners, a timer object *)
(* is in one place at a time and in none while it is pooled, and a timer   *)
(* that was cancelled, or whose module was released, does not fire.  They  *)
(* hold for every number of modules, timer objects, processors and timers  *)
(* and every length of the two channels.                                   *)
(***************************************************************************)
EXTENDS Service, FiniteSetTheorems, SequenceTheorems, TLAPS

\* The modules with the service above them.
Nodes == Mods \cup {Root}

\* Outside the tree a module has no children.
TreeInv ==
  /\ TreeAgrees
  /\ \A x \in Mods \ descendants : child[x] = {}

\* A timer object is in at most one of heap, tick goroutine, channel and
\* running callback, at most once in the channel, and nowhere while pooled.
PlacesInv ==
  /\ \A o \in Objs : ~tm[o].ref => o \notin heap \cup ticking \cup doing \cup ToSet(chanTimer)
  /\ heap \cap ticking = {} /\ heap \cap doing = {} /\ ticking \cap doing = {}
  /\ ToSet(chanTimer) \cap (heap \cup ticking \cup doing) = {}
  /\ \A i, j \in 1..Len(chanTimer) : chanTimer[i] = chanTimer[j] => i = j

\* Ids are given once, to modules that were added.
IdsInv ==
  /\ \A i \in Ids : owner[i] # NoMod => i <= lastId /\ state[owner[i]] # "none"
  /\ \A i \in cancelledBy : i <= lastId

\* An entry of a module's map, even a stale one, names no other timer that
\* is in use.
EntriesInv ==
  \A m \in Mods : \A i \in Ids, o \in Objs : <<i, o>> \in byId[m] =>
    i <= lastId /\ \A q \in Objs : tm[q].ref /\ tm[q].id = i => q = o

\* A timer in use has an id of its own, and its module has it in its map as
\* long as the module is in the tree; once cancelled it is marked.
UsedInv ==
  \A o \in Objs : tm[o].ref =>
    /\ tm[o].id \in 1..lastId /\ owner[tm[o].id] \in Mods
    /\ state[owner[tm[o].id]] = "in" => <<tm[o].id, o>> \in byId[owner[tm[o].id]]
    /\ tm[o].id \in cancelledBy => tm[o].cancelled
    /\ \A q \in Objs : tm[q].ref /\ tm[q].id = tm[o].id => q = o

IInv ==
  TypeOK /\ TreeInv /\ PlacesInv /\ IdsInv /\ EntriesInv /\ UsedInv /\ ListenersUnloaded
-----------------------------------------------------------------------------
(* Subtrees, for any function f from nodes to their children.              *)

Below(f, m) ==
  {x \in Nodes : \A S \in SUBSET Nodes : m \in S /\ (\A y \in S : f[y] \subseteq S) => x \in S}

(* A subtree has its root and is closed under children.                    *)
LEMMA BelowClosed ==
  ASSUME NEW f \in [Nodes -> SUBSET Nodes], NEW m \in Nodes
  PROVE  /\ m \in Below(f, m) /\ Below(f, m) \subseteq Nodes
         /\ \A y \in Below(f, m) : f[y] \subseteq Below(f, m)
<1>1. m \in Below(f, m) /\ Below(f, m) \subseteq Nodes
  BY DEF Below
<1>2. ASSUME NEW y \in Below(f, m), NEW z \in f[y] PROVE z \in Below(f, m)
  <2>1. z \in Nodes
    BY <1>1
  <2>2. ASSUME NEW S \in SUBSET Nodes, m \in S, \A x \in S : f[x] \subseteq S PROVE z \in S
    <3>1. y \in S
      BY <2>2, <1>2 DEF Below
    <3> QED
      BY <3>1, <2>2
  <2> QED
    BY <2>1, <2>2 DEF Below
<1> QED
  BY <1>1, <1>2

(* It is the least such set.                                               *)
LEMMA BelowLeast ==
  ASSUME NEW f, NEW m, NEW S \in SUBSET Nodes, m \in S, \A y \in S : f[y] \subseteq S
  PROVE  Below(f, m) \subseteq S
BY DEF Below

(* Everything below the root of a subtree has its parent in the subtree.   *)
LEMMA BelowParent ==
  ASSUME NEW f \in [Nodes -> SUBSET Nodes], NEW m \in Nodes,
         NEW z \in Below(f, m), z # m
  PROVE  \E w \in Below(f, m) : z \in f[w]
<1> DEFINE B == Below(f, m)
           S == {x \in B : x = m \/ \E w \in B : x \in f[w]}
<1>1. m \in B /\ B \subseteq Nodes /\ \A y \in B : f[y] \subseteq B
  BY BelowClosed
<1> HIDE DEF B
<1>2. m \in S /\ S \in SUBSET Nodes /\ \A y \in S : f[y] \subseteq S
  BY <1>1
<1>3. B \subseteq S
  <2> HIDE DEF S
  <2> QED
    BY <1>2, BelowLeast DEF B
<1>4. z \in B
  BY DEF B
<1> QED
  BY <1>3, <1>4 DEF B

(* The subtrees of the model.                                              *)
LEMMA SubtreeIsBelow == \A m : Subtree(m) = Below(child, m)
BY DEF Subtree, Closed, Below, Nodes

LEMMA SubtreeIsBelowNext == \A m : Subtree(m)' = Below(child', m)
BY DEF Subtree, Closed, Below, Nodes
-----------------------------------------------------------------------------
(* The tree.                                                               *)

(* The facts about a node m below p that ReleaseModule depends on: its      *)
(* subtree is in the tree, without p and without the service.              *)
LEMMA ChildSubtree ==
  ASSUME TreeType, TreeInv, NEW p \in Nodes, NEW m \in child[p], InTree(p)
  PROVE  /\ m \in Subtree(m) /\ Subtree(m) \subseteq descendants /\ p \notin Subtree(m)
         /\ \A y \in Subtree(m) : child[y] \subseteq Subtree(m)
         /\ \A y \in Nodes \ Subtree(m) : child[y] \cap Subtree(m) \subseteq {m}
<1> DEFINE B == Below(child, m)
           T == Below(child, Root)
<1>1. child \in [Nodes -> SUBSET Nodes] /\ m \in Nodes /\ m \in Mods /\ Root \in Nodes /\ Root \notin Mods
  BY ModsAssumption DEF TreeType, Nodes
<1>2. m \in B /\ B \subseteq Nodes /\ \A y \in B : child[y] \subseteq B
  BY <1>1, BelowClosed
<1>3. Root \in T /\ T \subseteq Nodes /\ \A y \in T : child[y] \subseteq T
  BY <1>1, BelowClosed
<1>4. \A z \in B : z # m => \E w \in B : z \in child[w]
  BY <1>1, BelowParent
<1>5. descendants = T \ {Root}
  BY SubtreeIsBelow DEF TreeInv, TreeAgrees
<1>6. \A x, y \in Nodes : child[x] \cap child[y] # {} => x = y
  BY DEF TreeInv, TreeAgrees, Nodes
<1>7. p \in T /\ m \in T
  BY <1>3, <1>5 DEF InTree
<1>8. B \subseteq Mods
  <2>1. Mods \in SUBSET Nodes /\ m \in Mods /\ \A y \in Mods : child[y] \subseteq Mods
    BY <1>1 DEF Nodes, TreeType
  <2> QED
    BY <2>1, BelowLeast
<1>9. B \subseteq T
  <2> HIDE DEF T
  <2> QED
    BY <1>3, <1>7, BelowLeast
<1> HIDE DEF B, T
<1>10. \A y \in Nodes \ B : child[y] \cap B \subseteq {m}
  <2> SUFFICES ASSUME NEW y \in Nodes \ B, NEW z \in child[y], z \in B, z # m PROVE FALSE
    OBVIOUS
  <2>1. PICK w \in B : z \in child[w]
    BY <1>4
  <2> QED
    BY <2>1, <1>6, <1>2
<1>11. p \notin B
  <2> SUFFICES ASSUME p \in B PROVE FALSE
    OBVIOUS
  <2> DEFINE S == T \ B
  <2>1. S \in SUBSET Nodes /\ Root \in S
    BY <1>3, <1>8, <1>1
  <2>2. ASSUME NEW y \in S, NEW z \in child[y] PROVE z \in S
    <3>1. z \in T /\ y \in Nodes \ B
      BY <1>3, <2>2
    <3>2. z # m
      BY <1>6, <3>1, <2>2
    <3> QED
      BY <3>1, <3>2, <1>10, <2>2
  <2>3. T \subseteq S
    <3> HIDE DEF S
    <3> QED
      BY <2>1, <2>2, BelowLeast DEF T
  <2> QED
    BY <2>3, <1>7, <1>2
<1>12. Subtree(m) = B
  BY SubtreeIsBelow DEF B
<1> QED
  BY <1>2, <1>5, <1>8, <1>9, <1>10, <1>11, <1>12, <1>1

LEMMA AddTree ==
  ASSUME TypeOK, TreeInv, NEW p \in Nodes, NEW m \in Mods, AddModule(p, m)
  PROVE  TreeInv'
<1> DEFINE T == Below(child, Root)
           U == Below(child', Root)
<1>1. /\ InTree(p) /\ state[m] = "none" /\ state' = [state EXCEPT ![m] = "in"]
      /\ child' = [child EXCEPT ![p] = @ \cup {m}]
      /\ descendants' = descendants \cup {m}
  BY DEF AddModule
<1>2. child \in [Nodes -> SUBSET Nodes] /\ child' \in [Nodes -> SUBSET Nodes] /\ Root \in Nodes
      /\ Root \notin Mods /\ p \in Nodes /\ m \in Nodes
  BY <1>1, ModsAssumption DEF TypeOK, TreeType, Nodes
<1>3. /\ \A x \in Nodes : x # p => child'[x] = child[x]
      /\ child'[p] = child[p] \cup {m}
  BY <1>1, <1>2
<1>4. Root \in T /\ T \subseteq Nodes /\ \A y \in T : child[y] \subseteq T
  BY <1>2, BelowClosed
<1>5. Root \in U /\ U \subseteq Nodes /\ \A y \in U : child'[y] \subseteq U
  BY <1>2, BelowClosed
<1>6. descendants = T \ {Root} /\ descendants = {x \in Mods : state[x] = "in"}
  BY SubtreeIsBelow DEF TreeInv, TreeAgrees
<1>7. m \notin descendants /\ child[m] = {}
  BY <1>6, <1>1 DEF TreeInv
<1>8. p \in T
  BY <1>1, <1>4, <1>6 DEF InTree
<1>9. p # m
  BY <1>8, <1>6, <1>7, <1>2
<1>10. \A x \in Nodes : m \notin child[x]
  <2> SUFFICES ASSUME NEW x \in Nodes, m \in child[x] PROVE FALSE
    OBVIOUS
  <2>1. x \in T
    BY <1>6, <1>4 DEF TreeInv, Nodes
  <2> QED
    BY <2>1, <1>4, <1>6, <1>7, <1>2
<1> HIDE DEF T, U
<1>11. U \subseteq T \cup {m}
  <2> DEFINE S == T \cup {m}
  <2>1. S \in SUBSET Nodes /\ Root \in S /\ \A y \in S : child'[y] \subseteq S
    BY <1>2, <1>3, <1>4, <1>7, <1>9
  <2> HIDE DEF S
  <2>2. U \subseteq S
    BY <2>1, BelowLeast DEF U
  <2> QED
    BY <2>2 DEF S
<1>12. T \subseteq U
  <2>1. U \in SUBSET Nodes /\ Root \in U /\ \A y \in U : child[y] \subseteq U
    BY <1>3, <1>5, <1>2
  <2> QED
    BY <2>1, BelowLeast DEF T
<1>13. U = T \cup {m}
  BY <1>11, <1>12, <1>3, <1>5, <1>8
<1>14. descendants' = U \ {Root}
  BY <1>1, <1>13, <1>6, <1>2
<1>15. descendants' = {x \in Mods : state'[x] = "in"}
  BY <1>1, <1>6 DEF TypeOK, TreeType
<1>16. \A x, y \in Nodes : child'[x] \cap child'[y] # {} => x = y
  <2>1. \A x, y \in Nodes : child[x] \cap child[y] # {} => x = y
    BY DEF TreeInv, TreeAgrees, Nodes
  <2> QED
    BY <2>1, <1>3, <1>10
<1>17. \A x \in Mods \ descendants' : child'[x] = {}
  <2> SUFFICES ASSUME NEW x \in Mods, x \notin descendants, x # m PROVE child'[x] = {}
    BY <1>1
  <2>1. x # p
    BY <1>1, <1>2 DEF InTree
  <2> QED
    BY <2>1, <1>3 DEF TreeInv, Nodes
<1>18. Subtree(Root)' = U
  BY SubtreeIsBelowNext DEF U
<1> QED
  BY <1>14, <1>15, <1>16, <1>17, <1>18 DEF TreeInv, TreeAgrees, Nodes

LEMMA ReleaseTree ==
  ASSUME TypeOK, TreeInv, NEW p \in Nodes, NEW m \in Mods, ReleaseModule(p, m)
  PROVE  TreeInv'
<1> DEFINE T == Below(child, Root)
           U == Below(child', Root)
           B == Subtree(m)
<1>1. InTree(p) /\ m \in child[p] /\ Release(B) /\ child' = DeleteChild(p, m)
  BY DEF ReleaseModule
<1>2. /\ m \in B /\ B \subseteq descendants /\ p \notin B
      /\ \A y \in B : child[y] \subseteq B
      /\ \A y \in Nodes \ B : child[y] \cap B \subseteq {m}
  BY <1>1, ChildSubtree DEF TypeOK
<1>3. /\ state' = [x \in Mods |-> IF x \in B THEN "released" ELSE state[x]]
      /\ descendants' = descendants \ B
      /\ child' = [x \in Nodes |-> IF x = p THEN child[x] \ {m}
                                   ELSE IF x \in B THEN {} ELSE child[x]]
  BY <1>1 DEF Release, DeleteChild, Nodes
<1> HIDE DEF B
<1>4. child \in [Nodes -> SUBSET Nodes] /\ child' \in [Nodes -> SUBSET Nodes] /\ Root \in Nodes
      /\ Root \notin Mods /\ m \in Nodes /\ B \subseteq Mods
  BY <1>2, <1>3, ModsAssumption DEF TypeOK, TreeType, Nodes
<1>5. /\ \A x \in Nodes \ B : x # p => child'[x] = child[x]
      /\ \A x \in B : child'[x] = {}
      /\ child'[p] = child[p] \ {m}
  BY <1>2, <1>3, <1>4 DEF Nodes
<1>6. Root \in T /\ T \subseteq Nodes /\ \A y \in T : child[y] \subseteq T
  BY <1>4, BelowClosed
<1>7. Root \in U /\ U \subseteq Nodes /\ \A y \in U : child'[y] \subseteq U
  BY <1>4, BelowClosed
<1>8. descendants = T \ {Root} /\ descendants = {x \in Mods : state[x] = "in"}
  BY SubtreeIsBelow DEF TreeInv, TreeAgrees
<1>9. \A x, y \in Nodes : child[x] \cap child[y] # {} => x = y
  BY DEF TreeInv, TreeAgrees, Nodes
<1> HIDE DEF T, U
<1>10. U \subseteq T \ B
  <2> DEFINE S == T \ B
  <2>1. S \in SUBSET Nodes /\ Root \in S
    BY <1>4, <1>6
  <2>2. ASSUME NEW y \in S, NEW z \in child'[y] PROVE z \in S
    <3>1. y \in Nodes \ B /\ z \in child[y] /\ z \in T
      BY <2>1, <2>2, <1>5, <1>6
    <3>2. z # m
      BY <3>1, <2>2, <1>5, <1>9, <1>1
    <3> QED
      BY <3>1, <3>2, <1>2
  <2> HIDE DEF S
  <2>3. U \subseteq S
    BY <2>1, <2>2, BelowLeast DEF U
  <2> QED
    BY <2>3 DEF S
<1>11. T \subseteq U \cup B
  <2> DEFINE S == U \cup B
  <2>1. S \in SUBSET Nodes /\ Root \in S
    BY <1>7, <1>4 DEF Nodes
  <2>2. ASSUME NEW y \in S, NEW z \in child[y] PROVE z \in S
    <3>1. CASE y \in B
      BY <3>1, <2>2, <1>2
    <3>2. CASE y \notin B
      <4>1. y \in U /\ y \in Nodes \ B
        BY <3>2, <2>1
      <4>2. z = m \/ z \in child'[y]
        BY <4>1, <1>5, <2>2
      <4> QED
        BY <4>1, <4>2, <1>2, <1>7
    <3> QED
      BY <3>1, <3>2
  <2> HIDE DEF S
  <2>3. T \subseteq S
    BY <2>1, <2>2, BelowLeast DEF T
  <2> QED
    BY <2>3 DEF S
<1>12. descendants' = U \ {Root}
  BY <1>3, <1>8, <1>10, <1>11
<1>13. descendants' = {x \in Mods : state'[x] = "in"}
  BY <1>3, <1>8
<1>14. \A x, y \in Nodes : child'[x] \cap child'[y] # {} => x = y
  <2>1. \A x \in Nodes : child'[x] \subseteq child[x]
    BY <1>3, <1>4
  <2> QED
    BY <2>1, <1>9
<1>15. \A x \in Mods \ descendants' : child'[x] = {}
  <2> SUFFICES ASSUME NEW x \in Mods, x \notin descendants' PROVE child'[x] = {}
    OBVIOUS
  <2>1. CASE x \in B
    BY <2>1, <1>5
  <2>2. CASE x \notin B
    <3>1. child[x] = {} /\ x \in Nodes
      BY <2>2, <1>3 DEF TreeInv, Nodes
    <3> QED
      BY <3>1, <1>3
  <2> QED
    BY <2>1, <2>2
<1>16. Subtree(Root)' = U
  BY SubtreeIsBelowNext DEF U
<1> QED
  BY <1>12, <1>13, <1>14, <1>15, <1>16 DEF TreeInv, TreeAgrees, Nodes

LEMMA StopTree ==
  ASSUME TypeOK, TreeInv, StopRun
  PROVE  TreeInv'
<1>1. /\ state' = [x \in Mods |-> IF x \in descendants THEN "released" ELSE state[x]]
      /\ descendants' = {}
      /\ child' = [x \in Nodes |-> {}]
  BY DEF StopRun, Release, Nodes
<1>2. Below(child', Root) = {Root}
  <2>1. {Root} \in SUBSET Nodes /\ Root \in {Root} /\ \A y \in {Root} : child'[y] \subseteq {Root}
    BY <1>1 DEF Nodes
  <2>2. Root \in Below(child', Root)
    BY DEF Below, Nodes
  <2> QED
    BY <2>1, <2>2, BelowLeast
<1>3. Subtree(Root)' = {Root}
  BY <1>2, SubtreeIsBelowNext
<1>4. descendants = {x \in Mods : state[x] = "in"}
  BY DEF TreeInv, TreeAgrees
<1>5. descendants' = {x \in Mods : state'[x] = "in"}
  BY <1>1, <1>4
<1> QED
  BY <1>1, <1>3, <1>5 DEF TreeInv, TreeAgrees, Nodes

LEMMA SameTree ==
  ASSUME TreeInv, UNCHANGED treeVars
  PROVE  TreeInv'
<1>1. Subtree(Root)' = Subtree(Root)
  BY SubtreeIsBelow, SubtreeIsBelowNext DEF treeVars
<1> QED
  BY <1>1 DEF TreeInv, TreeAgrees, treeVars

LEMMA TreeStep ==
  ASSUME TypeOK, TreeInv, [Next]_vars
  PROVE  TreeInv'
<1>1. ASSUME NEW p \in Nodes, NEW m \in Mods, AddModule(p, m) PROVE TreeInv'
  BY <1>1, AddTree
<1>2. ASSUME NEW p \in Nodes, NEW m \in Mods, ReleaseModule(p, m) PROVE TreeInv'
  BY <1>2, ReleaseTree
<1>3. CASE StopRun
  BY <1>3, StopTree
<1>4. CASE UNCHANGED treeVars
  BY <1>4, SameTree
<1> QED
  BY <1>1, <1>2, <1>3, <1>4
  DEF Next, UserStep, vars, Nodes, StartTimer, CancelTimerId, RegEventReceiverFunc,
      UnRegEventReceiverFun, Tick, AppendChannel, Do, DoEnd, DoPanics, SafeCronFuncPanics,
      CastEvent, EventHandler, Stop
-----------------------------------------------------------------------------
(* Listeners.                                                              *)

(* Destroy takes the listeners of the modules ms from every count.         *)
LEMMA ReleaseListeners ==
  ASSUME TypeOK, ListenersUnloaded, NEW ms \in SUBSET Mods, Release(ms), chanEvent' = chanEvent
  PROVE  ListenersUnloaded' /\ EventType'
<1>1. /\ regs' = [m \in Mods |-> IF m \in ms THEN {} ELSE regs[m]]
      /\ listen' = [p \in Procs |-> listen[p] - Cardinality({m \in ms : p \in regs[m]})]
      /\ bind' = bind \ ms
      /\ state' = [m \in Mods |-> IF m \in ms THEN "released" ELSE state[m]]
  BY DEF Release, Destroy
<1>2. ASSUME NEW p \in Procs
      PROVE  listen'[p] = Cardinality({m \in Mods : p \in regs'[m]}) /\ listen'[p] \in Nat
  <2> DEFINE A == {m \in Mods : p \in regs[m]}
             B == {m \in ms : p \in regs[m]}
  <2>1. IsFiniteSet(A) /\ B \subseteq A
    BY FS_Subset, ModsAssumption
  <2>2. IsFiniteSet(A \ B) /\ Cardinality(A \ B) = Cardinality(A) - Cardinality(A \cap B)
    BY <2>1, FS_Difference
  <2>3. A \cap B = B
    BY <2>1
  <2>4. {m \in Mods : p \in regs'[m]} = A \ B
    BY <1>1
  <2>5. listen[p] = Cardinality(A)
    BY DEF ListenersUnloaded
  <2>6. listen'[p] = Cardinality(A) - Cardinality(B)
    BY <1>1, <2>5
  <2>7. Cardinality(A \ B) \in Nat
    BY <2>2, FS_CardinalityType
  <2> HIDE DEF A, B
  <2> QED
    BY <2>2, <2>3, <2>4, <2>6, <2>7
<1>3. \A m \in Mods : state'[m] # "in" => m \notin bind' /\ regs'[m] = {}
  BY <1>1 DEF ListenersUnloaded
<1>4. listen' \in [Procs -> Nat]
  BY <1>1, <1>2
<1>5. regs' \in [Mods -> SUBSET Procs] /\ bind' \subseteq Mods
  BY <1>1 DEF TypeOK, EventType
<1> QED
  BY <1>2, <1>3, <1>4, <1>5 DEF ListenersUnloaded, EventType, TypeOK

LEMMA RegListeners ==
  ASSUME TypeOK, ListenersUnloaded, NEW p \in Procs, NEW m \in Mods,
         RegEventReceiverFunc(p, m)
  PROVE  ListenersUnloaded' /\ EventType'
<1>1. /\ regs' = [regs EXCEPT ![m] = @ \cup {p}] /\ bind' = bind \cup {m}
      /\ listen' = [listen EXCEPT ![p] = @ + 1]
      /\ state' = state /\ state[m] = "in" /\ p \notin regs[m] /\ chanEvent' = chanEvent
  BY DEF RegEventReceiverFunc, treeVars
<1>2. EventType'
  BY <1>1 DEF TypeOK, EventType
<1>3. \A x \in Mods : state'[x] # "in" => x \notin bind' /\ regs'[x] = {}
  BY <1>1 DEF ListenersUnloaded, TypeOK, EventType
<1>4. ASSUME NEW q \in Procs PROVE listen'[q] = Cardinality({x \in Mods : q \in regs'[x]})
  <2> DEFINE A == {x \in Mods : q \in regs[x]}
  <2>1. IsFiniteSet(A) /\ listen[q] = Cardinality(A)
    BY FS_Subset, ModsAssumption DEF ListenersUnloaded
  <2>2. CASE q = p
    <3>1. {x \in Mods : q \in regs'[x]} = A \cup {m} /\ m \notin A
      BY <1>1, <2>2 DEF TypeOK, EventType
    <3>2. Cardinality(A \cup {m}) = Cardinality(A) + 1
      BY <3>1, <2>1, FS_AddElement
    <3> QED
      BY <1>1, <2>1, <2>2, <3>1, <3>2 DEF TypeOK, EventType
  <2>3. CASE q # p
    <3>1. {x \in Mods : q \in regs'[x]} = A
      BY <1>1, <2>3 DEF TypeOK, EventType
    <3> QED
      BY <1>1, <2>1, <2>3, <3>1 DEF TypeOK, EventType
  <2> QED
    BY <2>2, <2>3
<1> QED
  BY <1>2, <1>3, <1>4 DEF ListenersUnloaded

LEMMA UnRegListeners ==
  ASSUME TypeOK, ListenersUnloaded, NEW p \in Procs, NEW m \in Mods,
         UnRegEventReceiverFun(p, m)
  PROVE  ListenersUnloaded' /\ EventType'
<1>1. /\ regs' = [regs EXCEPT ![m] = @ \ {p}] /\ bind' = bind \ {m}
      /\ listen' = [listen EXCEPT ![p] = @ - 1]
      /\ state' = state /\ state[m] = "in" /\ p \in regs[m] /\ chanEvent' = chanEvent
  BY DEF UnRegEventReceiverFun, treeVars
<1>2. \A x \in Mods : state'[x] # "in" => x \notin bind' /\ regs'[x] = {}
  BY <1>1 DEF ListenersUnloaded, TypeOK, EventType
<1>3. ASSUME NEW q \in Procs
      PROVE  listen'[q] = Cardinality({x \in Mods : q \in regs'[x]}) /\ listen'[q] \in Nat
  <2> DEFINE A == {x \in Mods : q \in regs[x]}
  <2>1. IsFiniteSet(A) /\ listen[q] = Cardinality(A) /\ Cardinality(A) \in Nat
    BY FS_Subset, FS_CardinalityType, ModsAssumption DEF ListenersUnloaded
  <2>2. CASE q = p
    <3>1. {x \in Mods : q \in regs'[x]} = A \ {m} /\ m \in A
      BY <1>1, <2>2 DEF TypeOK, EventType
    <3>2. Cardinality(A \ {m}) = Cardinality(A) - 1 /\ Cardinality(A \ {m}) \in Nat
      BY <3>1, <2>1, FS_RemoveElement, FS_CardinalityType
    <3> QED
      BY <1>1, <2>1, <2>2, <3>1, <3>2 DEF TypeOK, EventType
  <2>3. CASE q # p
    <3>1. {x \in Mods : q \in regs'[x]} = A
      BY <1>1, <2>3 DEF TypeOK, EventType
    <3> QED
      BY <1>1, <2>1, <2>3, <3>1 DEF TypeOK, EventType
  <2> QED
    BY <2>2, <2>3
<1>4. listen' \in [Procs -> Nat] /\ regs' \in [Mods -> SUBSET Procs] /\ bind' \subseteq Mods
  BY <1>1, <1>3 DEF TypeOK, EventType
<1> QED
  BY <1>1, <1>2, <1>3, <1>4 DEF ListenersUnloaded, EventType, TypeOK

LEMMA ListenersStep ==
  ASSUME TypeOK, TreeInv, ListenersUnloaded, [Next]_vars
  PROVE  ListenersUnloaded' /\ EventType'
<1>1. ASSUME NEW p \in Nodes, NEW m \in Mods, AddModule(p, m) PROVE ListenersUnloaded' /\ EventType'
  <2>1. UNCHANGED eventVars /\ state' = [state EXCEPT ![m] = "in"]
    BY <1>1 DEF AddModule
  <2> QED
    BY <2>1 DEF ListenersUnloaded, EventType, TypeOK, TreeType, eventVars
<1>2. ASSUME NEW p \in Nodes, NEW m \in Mods, ReleaseModule(p, m)
      PROVE  ListenersUnloaded' /\ EventType'
  <2>1. InTree(p) /\ m \in child[p] /\ Release(Subtree(m)) /\ chanEvent' = chanEvent
    BY <1>2 DEF ReleaseModule
  <2>2. Subtree(m) \subseteq descendants
    BY <2>1, ChildSubtree DEF TypeOK
  <2>3. Subtree(m) \in SUBSET Mods
    BY <2>2 DEF TypeOK, TreeType
  <2> QED
    BY <2>1, <2>3, ReleaseListeners
<1>3. CASE StopRun
  <2>1. Release(descendants) /\ chanEvent' = chanEvent /\ descendants \in SUBSET Mods
    BY <1>3 DEF StopRun, TypeOK, TreeType
  <2> QED
    BY <2>1, ReleaseListeners
<1>4. ASSUME NEW p \in Procs, NEW m \in Mods,
             RegEventReceiverFunc(p, m) \/ UnRegEventReceiverFun(p, m)
      PROVE  ListenersUnloaded' /\ EventType'
  BY <1>4, RegListeners, UnRegListeners
<1>5. CASE UNCHANGED <<treeVars, regs, listen, bind>> /\ chanEvent' \in 0..MaxEvent
  BY <1>5 DEF ListenersUnloaded, EventType, TypeOK, treeVars
<1>6. ASSUME NEW p \in Procs, CastEvent(p)
      PROVE UNCHANGED <<treeVars, regs, listen, bind>> /\ chanEvent' \in 0..MaxEvent
  BY <1>6, LimitsAssumption DEF CastEvent, TypeOK, EventType
<1>7. CASE EventHandler
  <2>1. UNCHANGED <<treeVars, regs, listen, bind>> /\ chanEvent' \in 0..MaxEvent
    BY <1>7, LimitsAssumption DEF EventHandler, TypeOK, EventType
  <2> QED
    BY <2>1, <1>5
<1>8. CASE UNCHANGED <<treeVars, eventVars>>
  BY <1>8 DEF ListenersUnloaded, EventType, TypeOK, treeVars, eventVars
<1> QED
  BY <1>1, <1>2, <1>3, <1>4, <1>5, <1>6, <1>7, <1>8
  DEF Next, UserStep, vars, Nodes, StartTimer, CancelTimerId, Tick, AppendChannel, Do, DoEnd, DoPanics,
      SafeCronFuncPanics, Stop
-----------------------------------------------------------------------------
(* Timers.                                                                 *)

TimerInv == TimerType /\ PlacesInv /\ IdsInv /\ EntriesInv /\ UsedInv

(* Facts about the types that the proofs below use.                        *)
LEMMA TimerFacts ==
  ASSUME TimerType
  PROVE  /\ \A o \in Objs : /\ tm[o] \in TimerObject /\ tm[o].ref \in BOOLEAN /\ tm[o].id \in 0..MaxTimers
                            /\ tm[o].cancelled \in BOOLEAN /\ tm[o].onClose \in Mods \cup {NoMod}
         /\ Fresh \in TimerObject /\ Fresh.ref = FALSE
         /\ NoMod \notin Mods /\ MaxTimers \in Nat /\ lastId \in Nat /\ lastId <= MaxTimers
         /\ \A i \in Ids : i \in Nat /\ i >= 1 /\ i <= MaxTimers
         /\ \A i \in Nat : 1 <= i /\ i <= MaxTimers => i \in Ids
BY ModsAssumption, LimitsAssumption DEF TimerType, TimerObject, Fresh, Ids

(* The elements of the channel.                                            *)
LEMMA ChannelFacts ==
  ASSUME NEW S, NEW c \in Seq(S)
  PROVE  /\ ToSet(c) = {c[i] : i \in 1..Len(c)} /\ Len(c) \in Nat
         /\ \A o \in S : /\ Append(c, o) \in Seq(S) /\ ToSet(Append(c, o)) = ToSet(c) \cup {o}
                         /\ Len(Append(c, o)) = Len(c) + 1
         /\ c # <<>> => /\ Tail(c) \in Seq(S) /\ ToSet(Tail(c)) \subseteq ToSet(c)
                        /\ Head(c) \in ToSet(c) /\ Head(c) \in S /\ Len(Tail(c)) = Len(c) - 1
                        /\ Len(c) >= 1 /\ Head(c) = c[1]
                        /\ \A i \in 1..Len(Tail(c)) : Tail(c)[i] = c[i + 1]
<1>1. ToSet(c) = {c[i] : i \in 1..Len(c)} /\ Len(c) \in Nat
  BY DEF ToSet
<1>2. ASSUME NEW o \in S
      PROVE  /\ Append(c, o) \in Seq(S) /\ ToSet(Append(c, o)) = ToSet(c) \cup {o}
             /\ Len(Append(c, o)) = Len(c) + 1
  <2> DEFINE a == Append(c, o)
  <2>1. /\ a \in Seq(S) /\ Len(a) = Len(c) + 1
        /\ \A i \in 1..Len(c) : a[i] = c[i]
        /\ a[Len(c) + 1] = o
    OBVIOUS
  <2>2. ToSet(a) = {a[i] : i \in 1..Len(a)}
    BY <2>1 DEF ToSet
  <2> HIDE DEF a
  <2>3. ASSUME NEW x \in ToSet(a) PROVE x \in ToSet(c) \cup {o}
    <3>1. PICK i \in 1..Len(a) : x = a[i]
      BY <2>2, <2>3
    <3> QED
      BY <3>1, <2>1, <1>1
  <2>4. ToSet(c) \cup {o} \subseteq ToSet(a)
    BY <2>1, <2>2, <1>1
  <2>5. ToSet(a) = ToSet(c) \cup {o}
    BY <2>3, <2>4
  <2> QED
    BY <2>1, <2>5 DEF a
<1>3. ASSUME c # <<>>
      PROVE  /\ Tail(c) \in Seq(S)
             /\ Head(c) \in S /\ Len(Tail(c)) = Len(c) - 1 /\ Len(c) >= 1 /\ Head(c) = c[1]
             /\ \A i \in 1..Len(Tail(c)) : Tail(c)[i] = c[i + 1]
  BY <1>3
<1>4. ASSUME c # <<>>
      PROVE  ToSet(Tail(c)) \subseteq ToSet(c) /\ Head(c) \in ToSet(c)
  BY <1>1, <1>3, <1>4 DEF ToSet
<1> QED
  BY <1>1, <1>2, <1>3, <1>4

LEMMA SameTimers ==
  ASSUME TimerInv, UNCHANGED <<state, timerVars>>
  PROVE  TimerInv'
BY DEF TimerInv, TimerType, PlacesInv, IdsInv, EntriesInv, UsedInv, timerVars

LEMMA AddTimers ==
  ASSUME TypeOK, TimerInv, NEW p \in Nodes, NEW m \in Mods, AddModule(p, m)
  PROVE  TimerInv'
<1>1. UNCHANGED timerVars /\ state[m] = "none" /\ state' = [state EXCEPT ![m] = "in"]
  BY DEF AddModule
<1>2. \A x \in Mods : state'[x] = (IF x = m THEN "in" ELSE state[x])
  BY <1>1 DEF TypeOK, TreeType
<1>3. NoMod \notin Mods /\ \A i \in Ids : owner[i] \in Mods \cup {NoMod}
  BY ModsAssumption DEF TimerInv, TimerType
<1>4. \A i \in Ids : owner[i] # NoMod => owner[i] # m
  BY <1>1 DEF TimerInv, IdsInv
<1>5. IdsInv'
  BY <1>1, <1>2, <1>3 DEF TimerInv, IdsInv, timerVars
<1>6. UsedInv'
  <2> SUFFICES ASSUME NEW o \in Objs, tm[o].ref
               PROVE  state'[owner[tm[o].id]] = "in" => <<tm[o].id, o>> \in byId[owner[tm[o].id]]
    BY <1>1 DEF UsedInv, TimerInv, timerVars
  <2>1. tm[o].id \in Ids /\ owner[tm[o].id] \in Mods
    <3>1. TimerType /\ UsedInv
      BY DEF TimerInv
    <3>2. tm[o].id \in 1..lastId /\ owner[tm[o].id] \in Mods
      BY <3>1 DEF UsedInv
    <3> QED
      BY <3>1, <3>2, TimerFacts
  <2>2. state'[owner[tm[o].id]] = state[owner[tm[o].id]]
    BY <2>1, <1>2, <1>3, <1>4
  <2> QED
    BY <2>2 DEF UsedInv, TimerInv
<1> QED
  BY <1>1, <1>5, <1>6 DEF TimerInv, TimerType, PlacesInv, EntriesInv, timerVars

(* Releasing modules reaches all their timers through their maps.          *)
LEMMA ReleaseTimers ==
  ASSUME TypeOK, TreeInv, TimerInv, NEW ms \in SUBSET descendants, Release(ms),
         UNCHANGED <<heap, ticking, chanTimer, doing, lastId, owner, fired, lapsed>>
  PROVE  TimerInv'
<1>1. /\ state' = [m \in Mods |-> IF m \in ms THEN "released" ELSE state[m]]
      /\ tm' = [o \in Objs |-> IF o \in Cancelled(ms) THEN Cancel(o) ELSE tm[o]]
      /\ active' = [m \in Mods |-> IF m \in ms THEN {} ELSE active[m]]
      /\ byId' = [m \in Mods |-> IF m \in ms THEN {} ELSE byId[m]]
      /\ cancelledBy' = cancelledBy \cup {i \in Ids : owner[i] \in ms}
  BY DEF Release
<1>2. TimerType /\ IdsInv /\ EntriesInv /\ UsedInv /\ PlacesInv /\ ms \subseteq Mods
      /\ NoMod \notin ms /\ \A m \in ms : state[m] = "in"
  BY ModsAssumption DEF TimerInv, TypeOK, TreeType, TreeInv, TreeAgrees
<1>3. /\ \A o \in Objs : /\ tm'[o] \in TimerObject /\ tm'[o].ref = tm[o].ref /\ tm'[o].id = tm[o].id
                         /\ tm[o].cancelled => tm'[o].cancelled
      /\ \A m \in ms, i \in Ids, o \in Objs : <<i, o>> \in byId[m] => tm'[o].cancelled
  <2>1. \A o \in Objs : tm'[o] = tm[o] \/ tm'[o] = [tm[o] EXCEPT !.cancelled = TRUE]
    BY <1>1 DEF Cancel
  <2>2. \A o \in Objs : tm[o] \in TimerObject
    BY <1>2, TimerFacts
  <2>3. ASSUME NEW m \in ms, NEW i \in Ids, NEW o \in Objs, <<i, o>> \in byId[m]
        PROVE  tm'[o].cancelled
    <3>1. o \in Cancelled(ms)
      BY <2>3 DEF Cancelled, Referred
    <3>2. tm'[o] = [tm[o] EXCEPT !.cancelled = TRUE]
      BY <1>1, <3>1 DEF Cancel
    <3> QED
      BY <3>2, <2>2 DEF TimerObject
  <2>4. ASSUME NEW o \in Objs
        PROVE  /\ tm'[o] \in TimerObject /\ tm'[o].ref = tm[o].ref /\ tm'[o].id = tm[o].id
               /\ tm[o].cancelled => tm'[o].cancelled
    <3>1. CASE tm'[o] = tm[o]
      BY <3>1, <2>2
    <3>2. CASE tm'[o] = [tm[o] EXCEPT !.cancelled = TRUE]
      BY <3>2, <2>2 DEF TimerObject
    <3> QED
      BY <3>1, <3>2, <2>1
  <2> QED
    BY <2>3, <2>4
<1>4. TimerType'
  BY <1>1, <1>2, <1>3 DEF TimerType
<1>5. PlacesInv'
  BY <1>2, <1>3 DEF PlacesInv
<1>6. IdsInv'
  BY <1>1, <1>2 DEF IdsInv, TimerType
<1>7. EntriesInv'
  BY <1>1, <1>2, <1>3 DEF EntriesInv
<1>8. UsedInv'
  <2> SUFFICES ASSUME NEW o \in Objs, tm[o].ref
               PROVE  /\ tm[o].id \in 1..lastId /\ owner[tm[o].id] \in Mods
                      /\ state'[owner[tm[o].id]] = "in" => <<tm[o].id, o>> \in byId'[owner[tm[o].id]]
                      /\ tm[o].id \in cancelledBy' => tm'[o].cancelled
                      /\ \A q \in Objs : tm[q].ref /\ tm[q].id = tm[o].id => q = o
    BY <1>3 DEF UsedInv
  <2>1. /\ tm[o].id \in 1..lastId /\ owner[tm[o].id] \in Mods /\ tm[o].id \in Ids
        /\ state[owner[tm[o].id]] = "in" => <<tm[o].id, o>> \in byId[owner[tm[o].id]]
        /\ tm[o].id \in cancelledBy => tm[o].cancelled
        /\ \A q \in Objs : tm[q].ref /\ tm[q].id = tm[o].id => q = o
    BY <1>2, TimerFacts DEF UsedInv
  <2>2. state'[owner[tm[o].id]] = "in" => <<tm[o].id, o>> \in byId'[owner[tm[o].id]]
    BY <1>1, <2>1
  <2>3. tm[o].id \in cancelledBy' => tm'[o].cancelled
    BY <1>1, <1>2, <1>3, <2>1
  <2> QED
    BY <2>1, <2>2, <2>3
<1> QED
  BY <1>4, <1>5, <1>6, <1>7, <1>8 DEF TimerInv

LEMMA StartTimers ==
  ASSUME TypeOK, TimerInv, NEW m \in Mods, NEW o \in Objs, StartTimer(m, o)
  PROVE  TimerInv'
<1> PICK n : n = lastId + 1
  OBVIOUS
<1>1. /\ state' = state /\ state[m] = "in" /\ lastId < MaxTimers /\ ~tm[o].ref
      /\ lastId' = n
      /\ owner' = [owner EXCEPT ![n] = m]
      /\ tm' = [tm EXCEPT ![o].ref = TRUE, ![o].id = n,
                          ![o].onClose = IF KeepsOnClose(o) THEN m ELSE NoMod]
      /\ heap' = heap \cup {o}
      /\ active' = [active EXCEPT ![m] = @ \cup {o}]
      /\ byId' = [byId EXCEPT ![m] = @ \cup {<<n, o>>}]
      /\ UNCHANGED <<ticking, chanTimer, doing, cancelledBy, fired, lapsed>>
  BY DEF StartTimer, GenTimerId, treeVars
<1>2. TimerType /\ IdsInv /\ EntriesInv /\ UsedInv /\ PlacesInv
  BY DEF TimerInv
<1>3. n \in Ids /\ n \in Nat /\ n = lastId + 1 /\ lastId \in Nat /\ n <= MaxTimers /\ n > lastId
      /\ MaxTimers \in Nat /\ n \in 0..MaxTimers /\ NoMod \notin Mods
  <2>1. lastId \in Nat /\ MaxTimers \in Nat /\ lastId < MaxTimers /\ NoMod \notin Mods
    BY <1>1, <1>2, TimerFacts
  <2> QED
    BY <2>1 DEF Ids
<1>4. /\ tm'[o] \in TimerObject /\ tm'[o].ref /\ tm'[o].id = n
      /\ \A q \in Objs : q # o => tm'[q] = tm[q]
      /\ tm' \in [Objs -> TimerObject]
  <2>1. tm \in [Objs -> TimerObject] /\ tm[o] \in TimerObject
    BY <1>2 DEF TimerType
  <2> PICK k \in Mods \cup {NoMod} : k = IF KeepsOnClose(o) THEN m ELSE NoMod
    OBVIOUS
  <2> DEFINE r == [[[tm[o] EXCEPT !.ref = TRUE] EXCEPT !.id = n] EXCEPT !.onClose = k]
  <2>2. r \in TimerObject /\ r.ref = TRUE /\ r.id = n
    BY <2>1, <1>3 DEF TimerObject
  <2>3. tm' = [tm EXCEPT ![o] = r]
    BY <1>1, <2>1
  <2> HIDE DEF r
  <2> QED
    BY <2>1, <2>2, <2>3
<1>5. TimerType'
  <2>1. active' \in [Mods -> SUBSET Objs] /\ byId' \in [Mods -> SUBSET (Ids \X Objs)]
        /\ owner' \in [Ids -> Mods \cup {NoMod}] /\ heap' \subseteq Objs /\ lastId' \in 0..MaxTimers
    BY <1>1, <1>2, <1>3 DEF TimerType
  <2> QED
    BY <1>1, <1>2, <1>4, <2>1 DEF TimerType
<1>6. /\ owner'[n] = m /\ \A i \in Ids : i # n => owner'[i] = owner[i]
      /\ \A x \in Mods : byId'[x] = IF x = m THEN byId[m] \cup {<<n, o>>} ELSE byId[x]
  BY <1>1, <1>2, <1>3 DEF TimerType
<1>7. PlacesInv'
  <2>1. o \notin heap \cup ticking \cup doing \cup ToSet(chanTimer)
    BY <1>1, <1>2 DEF PlacesInv
  <2>2. \A q \in Objs : ~tm'[q].ref => q # o /\ ~tm[q].ref
    BY <1>4
  <2>3. \A q \in Objs : ~tm'[q].ref => q \notin heap' \cup ticking \cup doing \cup ToSet(chanTimer)
    BY <1>1, <1>2, <2>2 DEF PlacesInv
  <2>4. /\ heap' \cap ticking = {} /\ heap' \cap doing = {} /\ ticking \cap doing = {}
        /\ ToSet(chanTimer) \cap (heap' \cup ticking \cup doing) = {}
    BY <1>1, <1>2, <2>1 DEF PlacesInv
  <2>5. \A i, j \in 1..Len(chanTimer) : chanTimer[i] = chanTimer[j] => i = j
    BY <1>2 DEF PlacesInv
  <2>6. UNCHANGED <<ticking, doing, chanTimer>> /\ ToSet(chanTimer)' = ToSet(chanTimer)
    BY <1>1
  <2> QED
    BY <2>3, <2>4, <2>5, <2>6 DEF PlacesInv
<1>8. \A i \in Ids : i <= lastId => i <= lastId' /\ i # n
  BY <1>1, <1>3 DEF Ids
<1>9. IdsInv'
  <2>1. \A i \in Ids : owner'[i] # NoMod => i <= lastId' /\ state'[owner'[i]] # "none"
    BY <1>1, <1>2, <1>3, <1>6, <1>8 DEF IdsInv
  <2>2. \A i \in cancelledBy' : i <= lastId'
    BY <1>1, <1>2, <1>8 DEF IdsInv, TimerType
  <2> QED
    BY <2>1, <2>2 DEF IdsInv
<1>10. \A q \in Objs : tm[q].ref => q # o /\ tm[q].id \in Ids /\ tm[q].id <= lastId /\ tm[q].id # n
  <2> SUFFICES ASSUME NEW q \in Objs, tm[q].ref
               PROVE  q # o /\ tm[q].id \in Ids /\ tm[q].id <= lastId /\ tm[q].id # n
    OBVIOUS
  <2>1. tm[q].id \in 1..lastId
    BY <1>2 DEF UsedInv
  <2> QED
    BY <2>1, <1>1, <1>3 DEF Ids
<1>11. EntriesInv'
  <2> SUFFICES ASSUME NEW x \in Mods, NEW i \in Ids, NEW y \in Objs, <<i, y>> \in byId'[x]
               PROVE  i <= lastId' /\ \A q \in Objs : tm'[q].ref /\ tm'[q].id = i => q = y
    BY DEF EntriesInv
  <2>1. CASE <<i, y>> \in byId[x]
    <3>1. i <= lastId /\ \A q \in Objs : tm[q].ref /\ tm[q].id = i => q = y
      BY <2>1, <1>2 DEF EntriesInv
    <3> QED
      BY <3>1, <1>4, <1>8
  <2>2. CASE i = n /\ y = o
    BY <2>2, <1>1, <1>3, <1>4, <1>10
  <2> QED
    BY <2>1, <2>2, <1>6
<1>12. UsedInv'
  <2> SUFFICES ASSUME NEW y \in Objs, tm'[y].ref
               PROVE  /\ tm'[y].id \in 1..lastId' /\ owner'[tm'[y].id] \in Mods
                      /\ state'[owner'[tm'[y].id]] = "in" => <<tm'[y].id, y>> \in byId'[owner'[tm'[y].id]]
                      /\ tm'[y].id \in cancelledBy' => tm'[y].cancelled
                      /\ \A q \in Objs : tm'[q].ref /\ tm'[q].id = tm'[y].id => q = y
    BY DEF UsedInv
  <2>1. CASE y = o
    <3>1. n \notin cancelledBy
      BY <1>2, <1>3, <1>8 DEF IdsInv
    <3> QED
      BY <2>1, <3>1, <1>1, <1>3, <1>4, <1>6, <1>10
  <2>2. CASE y # o
    <3>1. tm'[y] = tm[y] /\ tm[y].ref /\ tm[y].id \in Ids /\ tm[y].id <= lastId /\ tm[y].id # n
      BY <2>2, <1>4, <1>10
    <3>2. /\ tm[y].id \in 1..lastId /\ owner[tm[y].id] \in Mods
          /\ state[owner[tm[y].id]] = "in" => <<tm[y].id, y>> \in byId[owner[tm[y].id]]
          /\ tm[y].id \in cancelledBy => tm[y].cancelled
          /\ \A q \in Objs : tm[q].ref /\ tm[q].id = tm[y].id => q = y
      BY <3>1, <1>2 DEF UsedInv
    <3>3. tm[y].id \in 1..lastId'
      BY <3>2, <1>1, <1>3
    <3>4. \A q \in Objs : tm'[q].ref /\ tm'[q].id = tm[y].id => q = y
      BY <3>1, <3>2, <1>4
    <3>5. owner'[tm[y].id] = owner[tm[y].id]
      BY <3>1, <1>6
    <3>6. <<tm[y].id, y>> \in byId[owner[tm[y].id]] => <<tm[y].id, y>> \in byId'[owner[tm[y].id]]
      BY <3>2, <1>6
    <3>7. state' = state /\ cancelledBy' = cancelledBy
      BY <1>1
    <3> QED
      BY <3>1, <3>2, <3>3, <3>4, <3>5, <3>6, <3>7
  <2> QED
    BY <2>1, <2>2
<1> QED
  BY <1>5, <1>7, <1>9, <1>11, <1>12 DEF TimerInv

LEMMA CancelTimers ==
  ASSUME TimerInv, NEW m \in Mods, NEW o \in Objs, NEW i \in Ids, CancelTimerId(m, i, o)
  PROVE  TimerInv'
<1>1. /\ <<i, o>> \in byId[m] /\ tm' = [tm EXCEPT ![o] = [tm[o] EXCEPT !.cancelled = TRUE]]
      /\ cancelledBy' = cancelledBy \cup {i}
      /\ UNCHANGED <<state, active, byId, heap, ticking, chanTimer, doing, lastId, owner, fired, lapsed>>
  BY DEF CancelTimerId, Cancel, treeVars
<1>2. TimerType /\ IdsInv /\ EntriesInv /\ UsedInv /\ PlacesInv
  BY DEF TimerInv
<1>3. tm' \in [Objs -> TimerObject] /\ tm'[o].cancelled
      /\ \A q \in Objs : /\ tm'[q].ref = tm[q].ref /\ tm'[q].id = tm[q].id
                         /\ tm[q].cancelled => tm'[q].cancelled
  <2>1. tm \in [Objs -> TimerObject] /\ tm[o] \in TimerObject
    BY <1>2 DEF TimerType
  <2> DEFINE r == [tm[o] EXCEPT !.cancelled = TRUE]
  <2>2. r \in TimerObject /\ r.ref = tm[o].ref /\ r.id = tm[o].id /\ r.cancelled = TRUE
    BY <2>1 DEF TimerObject
  <2>3. tm' = [tm EXCEPT ![o] = r]
    BY <1>1
  <2> HIDE DEF r
  <2> QED
    BY <2>1, <2>2, <2>3
<1>4. TimerType'
  BY <1>1, <1>2, <1>3 DEF TimerType
<1>5. PlacesInv'
  BY <1>1, <1>2, <1>3 DEF PlacesInv
<1>6. i <= lastId /\ \A q \in Objs : tm[q].ref /\ tm[q].id = i => q = o
  BY <1>1, <1>2 DEF EntriesInv
<1>7. IdsInv'
  BY <1>1, <1>2, <1>6 DEF IdsInv
<1>8. EntriesInv'
  BY <1>1, <1>2, <1>3 DEF EntriesInv
<1>9. UsedInv'
  BY <1>1, <1>2, <1>3, <1>6 DEF UsedInv
<1> QED
  BY <1>4, <1>5, <1>7, <1>8, <1>9 DEF TimerInv

LEMMA TickTimers ==
  ASSUME TimerInv, NEW o \in Objs, Tick(o)
  PROVE  TimerInv'
<1>1. /\ ticking = {} /\ o \in heap /\ heap' = heap \ {o} /\ ticking' = {o}
      /\ UNCHANGED <<state, active, byId, tm, chanTimer, doing, lastId, owner, cancelledBy, fired, lapsed>>
  BY DEF Tick, treeVars
<1>2. TimerType'
  BY <1>1 DEF TimerInv, TimerType
<1>3. PlacesInv'
  BY <1>1 DEF TimerInv, PlacesInv
<1> QED
  BY <1>1, <1>2, <1>3 DEF TimerInv, IdsInv, EntriesInv, UsedInv

LEMMA AppendTimers ==
  ASSUME TimerInv, AppendChannel
  PROVE  TimerInv'
<1>1. PICK o \in ticking :
        /\ Len(chanTimer) < ChanTimerCap /\ chanTimer' = Append(chanTimer, o) /\ ticking' = {}
        /\ UNCHANGED <<state, active, byId, tm, heap, doing, lastId, owner, cancelledBy, fired, lapsed>>
  BY DEF AppendChannel, treeVars
<1>2. TimerType /\ PlacesInv /\ o \in Objs /\ chanTimer \in Seq(Objs)
  BY DEF TimerInv, TimerType
<1>3. /\ chanTimer' \in Seq(Objs) /\ Len(chanTimer') = Len(chanTimer) + 1 /\ Len(chanTimer) \in Nat
      /\ ToSet(chanTimer)' = ToSet(chanTimer) \cup {o}
      /\ ToSet(chanTimer) = {chanTimer[i] : i \in 1..Len(chanTimer)}
  <2>1. ToSet(chanTimer)' = ToSet(Append(chanTimer, o))
    BY <1>1
  <2> QED
    BY <2>1, <1>1, <1>2, ChannelFacts
<1>4. /\ \A i \in 1..Len(chanTimer) : chanTimer'[i] = chanTimer[i]
      /\ chanTimer'[Len(chanTimer) + 1] = o
  BY <1>1, <1>2
<1>5. TimerType'
  BY <1>1, <1>2, <1>3, LimitsAssumption DEF TimerType
<1>6. o \notin heap \cup doing \cup ToSet(chanTimer) /\ tm[o].ref
  BY <1>2 DEF PlacesInv
<1>7. \A i, j \in 1..Len(chanTimer') : chanTimer'[i] = chanTimer'[j] => i = j
  <2>1. \A i \in 1..Len(chanTimer) : chanTimer[i] # o
    BY <1>3, <1>6
  <2>2. \A i, j \in 1..Len(chanTimer) : chanTimer[i] = chanTimer[j] => i = j
    BY <1>2 DEF PlacesInv
  <2> QED
    BY <1>3, <1>4, <2>1, <2>2
<1>8. PlacesInv'
  <2>1. \A q \in Objs : ~tm[q].ref => q \notin heap \cup doing \cup ToSet(chanTimer)'
    BY <1>2, <1>3, <1>6 DEF PlacesInv
  <2>2. heap \cap doing = {} /\ ToSet(chanTimer)' \cap (heap \cup doing) = {}
    BY <1>2, <1>3, <1>6 DEF PlacesInv
  <2> QED
    BY <1>1, <1>7, <2>1, <2>2 DEF PlacesInv
<1> QED
  BY <1>1, <1>5, <1>8 DEF TimerInv, IdsInv, EntriesInv, UsedInv

(* CloseTimer returns an object to the pool and takes its entries from the *)
(* module it keeps in onClose; the entries of all others stay.             *)
LEMMA CloseTimers ==
  ASSUME TimerInv, NEW o \in Objs, tm[o].ref, CloseTimer(o),
         UNCHANGED <<state, lastId, owner, cancelledBy>>
  PROVE  /\ IdsInv' /\ EntriesInv' /\ UsedInv'
         /\ tm' \in [Objs -> TimerObject] /\ ~tm'[o].ref
         /\ \A q \in Objs : q # o => tm'[q] = tm[q]
         /\ active' \in [Mods -> SUBSET Objs] /\ byId' \in [Mods -> SUBSET (Ids \X Objs)]
<1>1. TimerType /\ IdsInv /\ EntriesInv /\ UsedInv
  BY DEF TimerInv
<1>2. tm' \in [Objs -> TimerObject] /\ ~tm'[o].ref /\ \A q \in Objs : q # o => tm'[q] = tm[q]
  BY <1>1, TimerFacts DEF CloseTimer, TimerType
<1>3. tm[o].onClose \in Mods \cup {NoMod} /\ NoMod \notin Mods
  BY <1>1, TimerFacts
<1>4. /\ active' \in [Mods -> SUBSET Objs] /\ byId' \in [Mods -> SUBSET (Ids \X Objs)]
      /\ \A m \in Mods : byId'[m] \subseteq byId[m]
      /\ \A m \in Mods, i \in Ids, q \in Objs :
           i # tm[o].id /\ <<i, q>> \in byId[m] => <<i, q>> \in byId'[m]
  <2>1. CASE tm[o].onClose = NoMod
    BY <2>1, <1>1 DEF CloseTimer, TimerType
  <2>2. CASE tm[o].onClose # NoMod
    <3> PICK k \in Mods : k = tm[o].onClose
      BY <2>2, <1>3
    <3>1. /\ active' = [active EXCEPT ![k] = @ \ {o}]
          /\ byId' = [byId EXCEPT ![k] = {e \in @ : e[1] # tm[o].id}]
      BY <2>2 DEF CloseTimer
    <3>2. byId' \in [Mods -> SUBSET (Ids \X Objs)] /\ active' \in [Mods -> SUBSET Objs]
      BY <3>1, <1>1 DEF TimerType
    <3>3. /\ byId'[k] = {e \in byId[k] : e[1] # tm[o].id}
          /\ \A m \in Mods : m # k => byId'[m] = byId[m]
      BY <3>1, <1>1 DEF TimerType
    <3>4. \A i \in Ids, q \in Objs : i # tm[o].id /\ <<i, q>> \in byId[k] => <<i, q>> \in byId'[k]
      BY <3>3
    <3> QED
      BY <3>2, <3>3, <3>4
  <2> QED
    BY <2>1, <2>2
<1>5. IdsInv'
  BY <1>1 DEF IdsInv
<1>6. EntriesInv'
  BY <1>1, <1>2, <1>4 DEF EntriesInv
<1>7. UsedInv'
  <2> SUFFICES ASSUME NEW y \in Objs, tm'[y].ref
               PROVE  /\ tm'[y].id \in 1..lastId /\ owner[tm'[y].id] \in Mods
                      /\ state[owner[tm'[y].id]] = "in" => <<tm'[y].id, y>> \in byId'[owner[tm'[y].id]]
                      /\ tm'[y].id \in cancelledBy => tm'[y].cancelled
                      /\ \A q \in Objs : tm'[q].ref /\ tm'[q].id = tm'[y].id => q = y
    BY DEF UsedInv
  <2>1. y # o /\ tm'[y] = tm[y] /\ tm[y].ref
    BY <1>2
  <2>2. /\ tm[y].id \in 1..lastId /\ owner[tm[y].id] \in Mods
        /\ state[owner[tm[y].id]] = "in" => <<tm[y].id, y>> \in byId[owner[tm[y].id]]
        /\ tm[y].id \in cancelledBy => tm[y].cancelled
        /\ \A q \in Objs : tm[q].ref /\ tm[q].id = tm[y].id => q = y
    BY <2>1, <1>1 DEF UsedInv
  <2>3. tm[y].id # tm[o].id /\ tm[y].id \in Ids
    BY <2>1, <2>2, <1>1, TimerFacts
  <2>4. state[owner[tm[y].id]] = "in" => <<tm[y].id, y>> \in byId'[owner[tm[y].id]]
    BY <2>2, <2>3, <1>4
  <2>5. \A q \in Objs : tm'[q].ref /\ tm'[q].id = tm[y].id => q = y
    BY <2>2, <1>2
  <2> QED
    BY <2>1, <2>2, <2>4, <2>5
<1> QED
  BY <1>2, <1>4, <1>5, <1>6, <1>7

LEMMA DoTimers ==
  ASSUME TimerInv, Do
  PROVE  TimerInv'
<1> PICK o : o = Head(chanTimer)
  OBVIOUS
<1>1. /\ doing = {} /\ chanTimer # <<>> /\ chanTimer' = Tail(chanTimer)
      /\ \/ /\ doing' = {o} /\ fired' = fired \cup {tm[o].id} /\ UNCHANGED <<tm, active, byId, lapsed>>
         \/ lapsed' = lapsed \cup {tm[o].id} /\ UNCHANGED <<doing, fired, tm, active, byId>>
         \/ CloseTimer(o) /\ UNCHANGED <<doing, fired, lapsed>>
      /\ UNCHANGED <<state, heap, ticking, lastId, owner, cancelledBy>>
  BY DEF Do, Selecting, treeVars
<1>2. TimerType /\ PlacesInv /\ IdsInv /\ EntriesInv /\ UsedInv /\ chanTimer \in Seq(Objs)
  BY DEF TimerInv, TimerType
<1>3. /\ chanTimer' \in Seq(Objs) /\ Len(chanTimer') = Len(chanTimer) - 1 /\ Len(chanTimer) \in Nat
      /\ Len(chanTimer) >= 1 /\ o = chanTimer[1] /\ o \in Objs /\ o \in ToSet(chanTimer)
      /\ \A i \in 1..Len(chanTimer') : chanTimer'[i] = chanTimer[i + 1]
      /\ ToSet(chanTimer)' \subseteq ToSet(chanTimer)
      /\ ToSet(chanTimer)' = {chanTimer'[i] : i \in 1..Len(chanTimer')}
  <2>1. ToSet(chanTimer)' = ToSet(chanTimer')
    OBVIOUS
  <2>2. ToSet(chanTimer') = {chanTimer'[i] : i \in 1..Len(chanTimer')}
    <3>1. chanTimer' \in Seq(Objs)
      BY <1>1, <1>2
    <3> QED
      BY <3>1, ChannelFacts
  <2> QED
    BY <2>1, <2>2, <1>1, <1>2, ChannelFacts
<1>4. /\ tm[o].ref /\ o \notin heap \cup ticking \cup doing
      /\ \A i, j \in 1..Len(chanTimer) : chanTimer[i] = chanTimer[j] => i = j
  BY <1>2, <1>3 DEF PlacesInv
<1>5. o \notin ToSet(chanTimer)' /\ \A i, j \in 1..Len(chanTimer') : chanTimer'[i] = chanTimer'[j] => i = j
  <2>1. \A i \in 1..Len(chanTimer') : i \in Int /\ i + 1 \in 1..Len(chanTimer) /\ i + 1 # 1
    BY <1>3
  <2>2. 1 \in 1..Len(chanTimer)
    BY <1>3
  <2>3. \A i \in 1..Len(chanTimer') : chanTimer'[i] # o
    BY <2>1, <2>2, <1>3, <1>4
  <2>4. ASSUME NEW i \in 1..Len(chanTimer'), NEW j \in 1..Len(chanTimer'), chanTimer'[i] = chanTimer'[j]
        PROVE  i = j
    <3>1. i + 1 = j + 1
      BY <2>1, <2>4, <1>3, <1>4
    <3> QED
      BY <3>1, <2>1
  <2> QED
    BY <2>3, <2>4, <1>3
<1>6. Len(chanTimer') <= ChanTimerCap
  BY <1>2, <1>3, LimitsAssumption DEF TimerType
<1>7. /\ \A q \in Objs : ~tm[q].ref => q \notin heap \cup ticking \cup ToSet(chanTimer)'
      /\ heap \cap ticking = {} /\ ToSet(chanTimer)' \cap (heap \cup ticking) = {}
  BY <1>2, <1>3 DEF PlacesInv
<1>0. tm[o].id \in Ids
  <2>1. tm[o].id \in 1..lastId
    BY <1>2, <1>3, <1>4 DEF UsedInv
  <2> QED
    BY <2>1, <1>2, TimerFacts
<1>8. CASE doing' = {o} /\ fired' = fired \cup {tm[o].id} /\ UNCHANGED <<tm, active, byId, lapsed>>
  <2>2. TimerType'
    BY <1>0, <1>1, <1>2, <1>3, <1>6, <1>8 DEF TimerType
  <2>3. PlacesInv'
    <3>1. \A q \in Objs : ~tm[q].ref => q # o
      BY <1>4
    <3>2. \A q \in Objs : ~tm'[q].ref => q \notin heap' \cup ticking' \cup doing' \cup ToSet(chanTimer)'
      BY <3>1, <1>1, <1>7, <1>8
    <3>3. /\ heap' \cap ticking' = {} /\ heap' \cap doing' = {} /\ ticking' \cap doing' = {}
          /\ ToSet(chanTimer)' \cap (heap' \cup ticking' \cup doing') = {}
      BY <1>1, <1>4, <1>5, <1>7, <1>8
    <3> QED
      BY <3>2, <3>3, <1>5 DEF PlacesInv
  <2> QED
    BY <1>1, <1>2, <1>8, <2>2, <2>3 DEF TimerInv, IdsInv, EntriesInv, UsedInv
<1>10. CASE lapsed' = lapsed \cup {tm[o].id} /\ UNCHANGED <<doing, fired, tm, active, byId>>
  <2>1. TimerType'
    BY <1>0, <1>1, <1>2, <1>3, <1>6, <1>10 DEF TimerType
  <2>2. PlacesInv'
    BY <1>1, <1>2, <1>5, <1>7, <1>10 DEF PlacesInv
  <2> QED
    BY <1>1, <1>2, <1>10, <2>1, <2>2 DEF TimerInv, IdsInv, EntriesInv, UsedInv
<1>9. CASE CloseTimer(o) /\ UNCHANGED <<doing, fired, lapsed>>
  <2>1. /\ IdsInv' /\ EntriesInv' /\ UsedInv'
        /\ tm' \in [Objs -> TimerObject] /\ ~tm'[o].ref
        /\ \A q \in Objs : q # o => tm'[q] = tm[q]
        /\ active' \in [Mods -> SUBSET Objs] /\ byId' \in [Mods -> SUBSET (Ids \X Objs)]
    BY <1>1, <1>3, <1>4, <1>9, CloseTimers
  <2>2. TimerType'
    BY <1>1, <1>2, <1>3, <1>6, <1>9, <2>1 DEF TimerType
  <2>3. PlacesInv'
    <3>1. \A q \in Objs : ~tm'[q].ref => q = o \/ ~tm[q].ref
      BY <2>1
    <3>2. \A q \in Objs : ~tm'[q].ref => q \notin heap' \cup ticking' \cup doing' \cup ToSet(chanTimer)'
      BY <3>1, <1>1, <1>4, <1>5, <1>7, <1>9
    <3>3. /\ heap' \cap ticking' = {} /\ heap' \cap doing' = {} /\ ticking' \cap doing' = {}
          /\ ToSet(chanTimer)' \cap (heap' \cup ticking' \cup doing') = {}
      BY <1>1, <1>7, <1>9
    <3> QED
      BY <3>2, <3>3, <1>5 DEF PlacesInv
  <2> QED
    BY <2>1, <2>2, <2>3 DEF TimerInv
<1> QED
  BY <1>1, <1>8, <1>9, <1>10

LEMMA DoEndTimers ==
  ASSUME TimerInv, NEW o \in Objs, DoEnd(o)
  PROVE  TimerInv'
<1>1. /\ o \in doing /\ doing' = {}
      /\ \/ heap' = heap \cup {o} /\ UNCHANGED <<tm, active, byId>>
         \/ CloseTimer(o) /\ UNCHANGED heap
      /\ UNCHANGED <<state, ticking, chanTimer, lastId, owner, cancelledBy, fired, lapsed>>
  BY DEF DoEnd, treeVars
<1>2. TimerType /\ PlacesInv /\ IdsInv /\ EntriesInv /\ UsedInv
  BY DEF TimerInv
<1>3. o \notin heap \cup ticking \cup ToSet(chanTimer) /\ tm[o].ref
  BY <1>1, <1>2 DEF PlacesInv
<1>4. CASE heap' = heap \cup {o} /\ UNCHANGED <<tm, active, byId>>
  <2>1. TimerType'
    BY <1>1, <1>2, <1>4 DEF TimerType
  <2>2. PlacesInv'
    BY <1>1, <1>2, <1>3, <1>4 DEF PlacesInv
  <2> QED
    BY <1>1, <1>2, <1>4, <2>1, <2>2 DEF TimerInv, IdsInv, EntriesInv, UsedInv
<1>5. CASE CloseTimer(o) /\ UNCHANGED heap
  <2>1. /\ IdsInv' /\ EntriesInv' /\ UsedInv'
        /\ tm' \in [Objs -> TimerObject] /\ ~tm'[o].ref
        /\ \A q \in Objs : q # o => tm'[q] = tm[q]
        /\ active' \in [Mods -> SUBSET Objs] /\ byId' \in [Mods -> SUBSET (Ids \X Objs)]
    BY <1>1, <1>3, <1>5, CloseTimers
  <2>2. TimerType'
    BY <1>1, <1>2, <1>5, <2>1 DEF TimerType
  <2>3. PlacesInv'
    BY <1>1, <1>2, <1>3, <1>5, <2>1 DEF PlacesInv
  <2> QED
    BY <2>1, <2>2, <2>3 DEF TimerInv
<1> QED
  BY <1>1, <1>4, <1>5

LEMMA DoPanicsTimers ==
  ASSUME TimerInv, NEW o \in Objs, DoPanics(o)
  PROVE  TimerInv'
<1>1. /\ doing' = {}
      /\ UNCHANGED <<state, active, byId, tm, heap, ticking, chanTimer, lastId, owner, cancelledBy,
                     fired, lapsed>>
  BY DEF DoPanics, treeVars
<1>2. TimerType' /\ PlacesInv'
  BY <1>1 DEF TimerInv, TimerType, PlacesInv
<1> QED
  BY <1>1, <1>2 DEF TimerInv, IdsInv, EntriesInv, UsedInv

LEMMA CronPanicsTimers ==
  ASSUME TimerInv, NEW m \in Mods, SafeCronFuncPanics(m)
  PROVE  TimerInv'
<1>1. /\ lastId' = lastId + 1 /\ lastId < MaxTimers
      /\ UNCHANGED <<state, active, byId, tm, heap, ticking, chanTimer, doing, owner, cancelledBy,
                     fired, lapsed>>
  BY DEF SafeCronFuncPanics, treeVars
<1>2. lastId \in Nat /\ lastId' \in 0..MaxTimers /\ \A i \in Ids : i <= lastId => i <= lastId'
  BY <1>1, LimitsAssumption DEF TimerInv, TimerType, Ids
<1>3. 1..lastId \subseteq 1..lastId'
  BY <1>1, <1>2
<1>4. TimerType' /\ PlacesInv'
  BY <1>1, <1>2 DEF TimerInv, TimerType, PlacesInv
<1>5. IdsInv' /\ EntriesInv'
  BY <1>1, <1>2 DEF TimerInv, TimerType, IdsInv, EntriesInv
<1>6. UsedInv'
  BY <1>1, <1>3 DEF TimerInv, UsedInv
<1> QED
  BY <1>4, <1>5, <1>6 DEF TimerInv

LEMMA TimersStep ==
  ASSUME TypeOK, TreeInv, TimerInv, [Next]_vars
  PROVE  TimerInv'
<1>1. ASSUME NEW p \in Nodes, NEW m \in Mods, AddModule(p, m) PROVE TimerInv'
  BY <1>1, AddTimers
<1>2. ASSUME NEW p \in Nodes, NEW m \in Mods, ReleaseModule(p, m) PROVE TimerInv'
  <2>1. /\ InTree(p) /\ m \in child[p] /\ Release(Subtree(m))
        /\ UNCHANGED <<heap, ticking, chanTimer, doing, lastId, owner, fired, lapsed>>
    BY <1>2 DEF ReleaseModule
  <2>2. Subtree(m) \in SUBSET descendants
    BY <2>1, ChildSubtree DEF TypeOK
  <2> QED
    BY <2>1, <2>2, ReleaseTimers
<1>3. CASE StopRun
  <2>1. /\ Release(descendants) /\ descendants \in SUBSET descendants
        /\ UNCHANGED <<heap, ticking, chanTimer, doing, lastId, owner, fired, lapsed>>
    BY <1>3 DEF StopRun
  <2> QED
    BY <2>1, ReleaseTimers
<1>4. ASSUME NEW m \in Mods, NEW o \in Objs, StartTimer(m, o) PROVE TimerInv'
  BY <1>4, StartTimers
<1>5. ASSUME NEW m \in Mods, NEW o \in Objs, NEW i \in Ids, CancelTimerId(m, i, o) PROVE TimerInv'
  BY <1>5, CancelTimers
<1>6. ASSUME NEW o \in Objs, Tick(o) \/ DoEnd(o) \/ DoPanics(o) PROVE TimerInv'
  BY <1>6, TickTimers, DoEndTimers, DoPanicsTimers
<1>9. ASSUME NEW m \in Mods, SafeCronFuncPanics(m) PROVE TimerInv'
  BY <1>9, CronPanicsTimers
<1>7. CASE AppendChannel \/ Do
  BY <1>7, AppendTimers, DoTimers
<1>8. CASE UNCHANGED <<state, timerVars>>
  BY <1>8, SameTimers
<1> QED
  BY <1>1, <1>2, <1>3, <1>4, <1>5, <1>6, <1>7, <1>8, <1>9
  DEF Next, UserStep, vars, Nodes, treeVars, RegEventReceiverFunc, UnRegEventReceiverFun,
      CastEvent, EventHandler, Stop
-----------------------------------------------------------------------------
(* The invariant and what follows from it.                                 *)

LEMMA InitInv == Init => IInv
<1> SUFFICES ASSUME Init PROVE IInv
  OBVIOUS
<1>1. MaxTimers \in Nat /\ ChanTimerCap \in Nat /\ MaxEvent \in Nat
  BY LimitsAssumption
<1>2. TreeType /\ EventType
  <2>1. TreeType
    BY DEF Init, TreeType
  <2>2. EventType
    BY <1>1 DEF Init, EventType
  <2> QED
    BY <2>1, <2>2
<1>0. uses \in Plans /\ svc \in {"run", "stopped"} /\ closeSig \in BOOLEAN
  BY DEF Init
<1>3. TimerType
  <2>1. Fresh \in TimerObject
    BY <1>1 DEF Fresh, TimerObject
  <2>2. <<>> \in Seq(Objs) /\ Len(<<>>) = 0
    OBVIOUS
  <2> QED
    BY <1>1, <2>1, <2>2 DEF Init, TimerType
<1>4. TreeInv
  <2>1. Below(child, Root) = {Root}
    <3>1. {Root} \in SUBSET Nodes /\ Root \in {Root} /\ \A y \in {Root} : child[y] \subseteq {Root}
      BY DEF Nodes, Init
    <3>2. Root \in Below(child, Root)
      BY DEF Below, Nodes
    <3> QED
      BY <3>1, <3>2, BelowLeast
  <2>2. Subtree(Root) = {Root}
    BY <2>1, SubtreeIsBelow
  <2> QED
    BY <2>2 DEF Init, TreeInv, TreeAgrees
<1>5. PlacesInv
  <2>1. ToSet(chanTimer) = {}
    BY DEF Init, ToSet
  <2> QED
    BY <2>1 DEF Init, PlacesInv
<1>6. \A o \in Objs : tm[o].ref = FALSE
  BY DEF Init, Fresh
<1>7. EntriesInv /\ UsedInv
  BY <1>6 DEF Init, EntriesInv, UsedInv
<1>8. IdsInv
  BY DEF Init, IdsInv
<1>9. ListenersUnloaded
  <2>1. \A p \in Procs : {m \in Mods : p \in regs[m]} = {}
    BY DEF Init
  <2> QED
    BY <2>1, FS_EmptySet DEF Init, ListenersUnloaded
<1> QED
  BY <1>0, <1>2, <1>3, <1>4, <1>5, <1>7, <1>8, <1>9 DEF IInv, TypeOK

LEMMA StepInv == IInv /\ [Next]_vars => IInv'
<1> SUFFICES ASSUME IInv, [Next]_vars PROVE IInv'
  OBVIOUS
<1>1. TypeOK /\ TreeInv /\ TimerInv /\ ListenersUnloaded
  BY DEF IInv, TypeOK, TimerInv
<1>2. TreeInv' /\ TimerInv' /\ ListenersUnloaded' /\ EventType'
  BY <1>1, TreeStep, TimersStep, ListenersStep
<1>3. uses' \in Plans /\ svc' \in {"run", "stopped"} /\ closeSig' \in BOOLEAN
  BY <1>1
  DEF TypeOK, Next, UserStep, vars, AddModule, ReleaseModule, StartTimer, CancelTimerId, Tick,
      AppendChannel, Do, DoEnd, DoPanics, SafeCronFuncPanics, RegEventReceiverFunc, UnRegEventReceiverFun, CastEvent,
      EventHandler, Stop, StopRun
<1>4. TreeType'
  <2>1. ASSUME NEW p \in Nodes, NEW m \in Mods, AddModule(p, m) PROVE TreeType'
    BY <2>1, <1>1 DEF AddModule, TypeOK, TreeType, Nodes
  <2>2. ASSUME NEW p \in Nodes, NEW m \in Mods, ReleaseModule(p, m) PROVE TreeType'
    BY <2>2, <1>1 DEF ReleaseModule, Release, DeleteChild, TypeOK, TreeType, Nodes
  <2>3. CASE StopRun
    BY <2>3, <1>1 DEF StopRun, Release, TypeOK, TreeType
  <2>4. CASE UNCHANGED treeVars
    BY <2>4, <1>1 DEF treeVars, TypeOK, TreeType
  <2> QED
    BY <2>1, <2>2, <2>3, <2>4
    DEF Next, UserStep, vars, Nodes, StartTimer, CancelTimerId, RegEventReceiverFunc,
        UnRegEventReceiverFun, Tick, AppendChannel, Do, DoEnd, DoPanics, SafeCronFuncPanics,
      CastEvent, EventHandler, Stop
<1> QED
  BY <1>2, <1>3, <1>4 DEF IInv, TypeOK, TimerInv

LEMMA Invariant == Safety => []IInv
BY InitInv, StepInv, PTL DEF Safety

(* An object is in the channel at most once, so that the places of         *)
(* PooledIsIdle add up to at most one.                                     *)
LEMMA PlacesCount == IInv => PooledIsIdle
<1> SUFFICES ASSUME IInv, NEW o \in Objs
             PROVE  /\ ~tm[o].ref => o \notin heap \cup ticking \cup doing \cup ToSet(chanTimer)
                    /\ Cardinality({i \in 1..Len(chanTimer) : chanTimer[i] = o})
                         + (IF o \in heap THEN 1 ELSE 0) + (IF o \in ticking THEN 1 ELSE 0)
                         + (IF o \in doing THEN 1 ELSE 0) <= 1
  BY DEF PooledIsIdle
<1>1. PlacesInv /\ chanTimer \in Seq(Objs)
  BY DEF IInv, TypeOK, TimerType
<1> DEFINE I == {i \in 1..Len(chanTimer) : chanTimer[i] = o}
<1>2. CASE o \in ToSet(chanTimer)
  <2>1. PICK i \in 1..Len(chanTimer) : chanTimer[i] = o
    BY <1>1, <1>2, ChannelFacts
  <2>2. I = {i}
    BY <1>1, <2>1 DEF PlacesInv
  <2>3. Cardinality(I) = 1
    BY <2>2, FS_Singleton
  <2>4. o \notin heap \cup ticking \cup doing
    BY <1>1, <1>2 DEF PlacesInv
  <2> QED
    BY <1>1, <2>3, <2>4 DEF PlacesInv
<1>3. CASE o \notin ToSet(chanTimer)
  <2>1. I = {}
    BY <1>1, <1>3, ChannelFacts
  <2>2. Cardinality(I) = 0
    BY <2>1, FS_EmptySet
  <2>3. (IF o \in heap THEN 1 ELSE 0) + (IF o \in ticking THEN 1 ELSE 0)
          + (IF o \in doing THEN 1 ELSE 0) <= 1
    BY <1>1 DEF PlacesInv
  <2> HIDE DEF I
  <2>4. 0 + (IF o \in heap THEN 1 ELSE 0) + (IF o \in ticking THEN 1 ELSE 0)
          + (IF o \in doing THEN 1 ELSE 0) <= 1
    BY <2>3
  <2> QED
    BY <1>1, <2>2, <2>4 DEF PlacesInv, I
<1> QED
  BY <1>2, <1>3

(* The types of the tree, the timer objects and the listeners hold, the    *)
(* two channels of a service keep their bounds and no count of listeners   *)
(* becomes negative (Service.run, castEvent, Destroy).                     *)
THEOREM ServiceTypeCorrect == Safety => []TypeOK
<1>1. IInv => TypeOK
  BY DEF IInv
<1> QED
  BY <1>1, Invariant, PTL

(* A timer object is in the heap, with the tick goroutine, in ChanTimer or *)
(* in its callback, in one place at a time, and in none while it is in the *)
(* pool, also when its module is released from inside the callback (tick,  *)
(* Do, ReleaseModule).                                                     *)
THEOREM TimerObjectsInOnePlace == Safety => []PooledIsIdle
BY PlacesCount, Invariant, PTL

(* A timer whose id was cancelled, or whose module was released, is marked *)
(* before it can come to Do, wherever it is on its way (CancelTimerId,     *)
(* ReleaseModule).                                                         *)
THEOREM CancelledTimersDoNotFire == Safety => []CancelledNeverFires
<1>1. IInv => CancelledNeverFires
  BY DEF IInv, UsedInv, CancelledNeverFires
<1> QED
  BY <1>1, Invariant, PTL

(* The map of all modules and the children describe one tree, and a module *)
(* that is not in it has no listener left (AddModule, ReleaseModule,       *)
(* Destroy).                                                               *)
THEOREM ReleasedModulesAreGone == Safety => []ReleasedIsGone
<1>1. IInv => ReleasedIsGone
  BY DEF IInv, TreeInv, ReleasedIsGone
<1> QED
  BY <1>1, Invariant, PTL
=============================================================================
