------------------------------ MODULE SkipList ------------------------------
(***************************************************************************)
(* The skip list of package util/algorithms/skip, which the rank service   *)
(* sorts by: forward pointers and widths on several levels, the caches a   *)
(* search leaves for the insertion or deletion that follows, and searching *)
(* by value and by position.                                               *)
(*                                                                         *)
(* A node is its entry, a number; 0 is the head, Nil no node.  Widths are  *)
(* unsigned numbers that wrap around.                                      *)
(***************************************************************************)
EXTENDS Integers, Sequences, FiniteSets, SequencesExt

CONSTANTS
  Entries,   \* the entries
  MaxLevel,  \* maxLevel
  WidthBits  \* 64 in the code

ASSUME SkipAssumption ==
  Entries \subseteq Nat \ {0} /\ MaxLevel \in Nat \ {0, 1} /\ WidthBits \in Nat

VARIABLES
  forward,   \* the pointers of every node on every level
  preNode,   \* the pointer back on level 0
  width,     \* widths
  level,     \* the levels in use
  num,       \* the number of entries
  cache,     \* predecessors found by the last search for a change
  posCache,  \* their positions
  members    \* the entries inserted and not deleted (what users expect)

skipVars == <<forward, preNode, width, level, num, cache, posCache, members>>

Nil == -1
NodeIds == Entries \cup {0}
Levels == 0..(MaxLevel - 1)
W(x) == x % (2 ^ WidthBits)

SkipInit ==
  /\ forward = [n \in NodeIds |-> [i \in Levels |-> Nil]]
  /\ preNode = [n \in NodeIds |-> Nil]
  /\ width = [n \in NodeIds |-> [i \in Levels |-> 0]]
  /\ level = 0 /\ num = 0
  /\ cache = [i \in Levels |-> Nil] /\ posCache = [i \in Levels |-> 0]
  /\ members = {}
-----------------------------------------------------------------------------
\* search: on every level, from the top one down, go right while the next entry
\* is smaller and was not looked at before.  What it returns for a level is
\* the last node there and its position.
search(cmp) ==
  LET Ahead(n, off, checked) ==
        forward[n][off] # Nil /\ forward[n][off] # checked /\ forward[n][off] < cmp
      down[off \in 0..MaxLevel] ==
        LET from == IF off >= level THEN <<0, 0>> ELSE down[off + 1]
            checked == IF off >= level THEN Nil ELSE from[1]
            right[n \in NodeIds, pos \in 0..(2 ^ WidthBits - 1)] ==
              IF Ahead(n, off, checked)
              THEN right[forward[n][off], W(pos + width[n][off])] ELSE <<n, pos>>
        IN  right[from[1], from[2]]
  IN  [off \in 0..level |-> down[off]]

\* searchByPosition: the same by widths; the node on that position.
searchByPosition(position) ==
  LET down[off \in 0..MaxLevel] ==
        LET from == IF off >= level THEN <<0, 0>> ELSE down[off + 1]
            right[n \in NodeIds, pos \in 0..(2 ^ WidthBits - 1)] ==
              IF forward[n][off] # Nil /\ W(pos + width[n][off]) <= position
              THEN right[forward[n][off], W(pos + width[n][off])] ELSE <<n, pos>>
        IN  right[from[1], from[2]]
  IN  IF num = 0 \/ position > num THEN Nil ELSE down[0][1]

FoundBy(path) == forward[path[0][1]][0]

\* In an empty list the search returns at once and leaves the caches alone.
CacheAfter(path) == [i \in Levels |-> IF num # 0 /\ i <= level THEN path[i][1] ELSE cache[i]]
PosAfter(path) == [i \in Levels |-> IF num # 0 /\ i <= level THEN path[i][2] ELSE posCache[i]]

\* The width of a new node up to its successor.  (Mutant: off by one.)
OneTooFew(former, before, pos) == IF former = 0 THEN 0 ELSE W(before + former - pos)
NewWidth(former, before, pos) == IF former = 0 THEN 0 ELSE W(before + former + 1 - pos)

\* insertNode, for an entry that is not in the list, with nodeLevel drawn at
\* random.  The levels above the old ones begin at the head.
Insert(cmp, nodeLevel) ==
  LET path == search(cmp)
      pc == PosAfter(path)
      prev == [i \in Levels |-> IF level <= i /\ i < nodeLevel THEN 0 ELSE CacheAfter(path)[i]]
      pos == IF num = 0 THEN 1 ELSE path[0][2] + 1
      top == IF nodeLevel > level THEN nodeLevel ELSE level
      linked == 0..(nodeLevel - 1)
      passed == {i \in nodeLevel..(top - 1) : forward[prev[i]][i] # Nil}
      next == forward[prev[0]][0]
  IN
  /\ cmp \notin members
  /\ num' = num + 1 /\ level' = top /\ cache' = prev /\ posCache' = pc
  /\ members' = members \cup {cmp}
  /\ forward' = [n \in NodeIds |-> [i \in Levels |->
       IF i \in linked /\ n = cmp THEN forward[prev[i]][i]
       ELSE IF i \in linked /\ n = prev[i] THEN cmp ELSE forward[n][i]]]
  /\ width' = [n \in NodeIds |-> [i \in Levels |->
       IF i \in linked /\ n = cmp THEN NewWidth(width[prev[i]][i], pc[i], pos)
       ELSE IF i \in linked /\ n = prev[i] THEN W(pos - pc[i])
       ELSE IF i \in passed /\ n = prev[i] THEN W(width[n][i] + 1) ELSE width[n][i]]]
  /\ preNode' = [n \in NodeIds |->
       IF n = cmp THEN prev[0] ELSE IF n = next THEN cmp ELSE preNode[n]]

\* insertNode of an entry that is there only replaces it.
Overwrite(cmp) ==
  /\ cmp \in members
  /\ cache' = CacheAfter(search(cmp)) /\ posCache' = PosAfter(search(cmp))
  /\ UNCHANGED <<forward, preNode, width, level, num, members>>

\* The levels that are left: the top ones go while the head has no successor
\* there.
LevelsLeft(fwd) ==
  LET drop[l \in 1..MaxLevel] == IF l > 1 /\ fwd[0][l - 1] = Nil THEN drop[l - 1] ELSE l
  IN  drop[level]

Delete(cmp) ==
  LET path == search(cmp)
      prev == CacheAfter(path)
      there == {i \in 0..level : forward[prev[i]][i] = cmp}
      passed == {i \in 0..level : forward[prev[i]][i] \notin {cmp, Nil}}
      next == forward[cmp][0]
  IN
  /\ num # 0 /\ FoundBy(path) = cmp
  /\ num' = num - 1 /\ cache' = prev /\ posCache' = PosAfter(path)
  /\ members' = members \ {cmp}
  /\ forward' = [n \in NodeIds |-> [i \in Levels |->
       IF n = cmp THEN Nil
       ELSE IF i \in there /\ n = prev[i] THEN forward[cmp][i] ELSE forward[n][i]]]
  /\ level' = LevelsLeft(forward')
  /\ width' = [n \in NodeIds |-> [i \in Levels |->
       IF n = cmp \/ (n = 0 /\ level' < i /\ i <= level) THEN 0
       ELSE IF i \in there /\ n = prev[i] THEN W(width[n][i] + width[cmp][i] - 1)
       ELSE IF i \in passed /\ n = prev[i] THEN W(width[n][i] - 1) ELSE width[n][i]]]
  /\ preNode' = [n \in NodeIds |->
       IF n = cmp THEN Nil ELSE IF n = next THEN prev[0] ELSE preNode[n]]

\* generateLevel: from 1 up to maxLevel - 1.
SkipNext ==
  \/ \E e \in Entries, l \in 1..(MaxLevel - 1) : Insert(e, l)
  \/ \E e \in Entries : Overwrite(e)
  \/ \E e \in Entries : Delete(e)
-----------------------------------------------------------------------------
GetWithPosition(cmp) == IF num = 0 THEN 0 ELSE search(cmp)[0][2]
ByPosition(p) == searchByPosition(p + 1)

(* By value, by position, forwards and backwards the list answers what the *)
(* sorted sequence of its entries would, whatever levels were drawn and    *)
(* whatever an earlier change left in the caches and in the widths of      *)
(* pointers that are nil.                                                  *)
SkipListRight ==
  LET sorted == SetToSortSeq(members, <)
      At(i) == IF i = 0 THEN 0 ELSE IF i > Len(sorted) THEN Nil ELSE sorted[i]
  IN
  /\ num = Len(sorted)
  /\ \A i \in 0..Len(sorted) : forward[At(i)][0] = At(i + 1)
  /\ \A i \in 1..Len(sorted) :
       /\ preNode[sorted[i]] = At(i - 1)
       /\ ByPosition(i - 1) = sorted[i]
       /\ GetWithPosition(sorted[i]) = i - 1
=============================================================================
