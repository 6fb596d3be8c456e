-------------------------------- MODULE Rank --------------------------------
(***************************************************************************)
(* A leaderboard of the rank service with MongoPersist as its rank module: *)
(* RankService, RankSkip, rankDataHeap and the goroutine that saves.       *)
(*                                                                         *)
(* The service goroutine changes the board; every change is noted in the   *)
(* maps of MongoPersist, which its goroutine takes and writes to the       *)
(* collection.  Removing what has expired and loading the collection are   *)
(* loops of the service goroutine, a step for each entry.  The skip list   *)
(* is a sorted sequence here (module SkipList has its pointers); the data  *)
(* that is not sorted by is left out.                                      *)
(***************************************************************************)
EXTENDS Integers, Sequences, FiniteSets, SequencesExt, Functions

CONSTANTS
  RankKeys,    \* the keys; 0 is also the key of an empty record
  Sorts,       \* the values that are sorted by
  RankId,
  IsDes,       \* isDes: the largest value comes first
  MaxLen,      \* maxLen, 0 for no limit
  ExpireMs,    \* expireMs, 0 for never
  MaxPick,     \* MaxPickExpireNum
  Starts,      \* the collections that earlier runs may have left (db), each with
               \* a bound on the requests (ops)
  MaxNow,      \* bound on the clock
  MaxFaults    \* bound on failed saves and crashes

ASSUME RankAssumption ==
  /\ RankKeys \subseteq Nat /\ Sorts \subseteq Int /\ IsDes \in BOOLEAN /\ MaxPick \in Nat \ {0}
  /\ {RankId, MaxLen, ExpireMs, MaxNow, MaxFaults} \subseteq Nat
  /\ \A st \in Starts : /\ DOMAIN st.db \subseteq RankKeys /\ st.ops \in Nat
                        /\ \A k \in DOMAIN st.db : st.db[k] \in [sort : Sorts, ts : Nat]

VARIABLES
  now,     \* the clock
  board,   \* list: skipList, map: mapRankData, exp: rankDataExpire, and the maps
           \* mapUpsertRankData (up) and mapRemoveRankData (rem) of this rank
  save,    \* the maps saveToDB has taken, and where it is
  db,      \* the collection: key to record
  svc,     \* "run", "stop" (OnStop waits), "done"
  task,    \* what the service goroutine is at: "expire" is the loop that removes
           \* what has expired, left more of them at most, before ask is answered;
           \* "load" has rest to load; "unset" waits for the board to be added
  answer,  \* the answer of the last query
  budget   \* requests left, faults so far, whether a save gave up, the records of
           \* the collection that are not on the board (orphans), and the keys
           \* last written by a save that also removed them (clashed)

rankVars == <<now, board, save, db, svc, task, answer, budget>>

Empty == [x \in {} |-> x]
With(f, k, v) == [x \in DOMAIN f \cup {k} |-> IF x = k THEN v ELSE f[x]]
Without(f, k) == Restrict(f, DOMAIN f \ {k})

NewBoard == [list |-> <<>>, map |-> Empty, exp |-> Empty, up |-> Empty, rem |-> {}]
Idle == [pc |-> "idle", up |-> Empty, rem |-> {}]
Nothing == [what |-> "nothing", key |-> 0, pos |-> 0, n |-> 0, count |-> 0, find |-> {}]
Free == [pc |-> "free", ask |-> Nothing, rest |-> {}, left |-> 0]
Unset == [Free EXCEPT !.pc = "unset"]
NoAnswer == [what |-> "nothing", key |-> 0, at |-> 0, cut |-> FALSE, list |-> <<>>]

\* An answer is looked at once, before anything else happens.
Sent == answer' = NoAnswer

\* The service loads the collection, or the board is to be added by request.
Loading(keys) == IF keys = {} THEN Free ELSE [Free EXCEPT !.pc = "load", !.rest = keys]
Started(manual, keys) == IF manual THEN Unset ELSE Loading(keys)

RankInit ==
  /\ now = 0 /\ board = NewBoard /\ save = Idle /\ svc = "run" /\ answer = NoAnswer
  /\ \E st \in Starts, manual \in BOOLEAN :
       /\ db = st.db /\ task = Started(manual, DOMAIN db)
       /\ budget = [ops |-> st.ops, faults |-> 0, gaveUp |-> FALSE, clashed |-> {},
                    orphans |-> IF manual THEN DOMAIN db ELSE {}]
-----------------------------------------------------------------------------
(* The order of the list: ascCompare and desCompare.                       *)

Before(a, b) ==
  /\ a.key # b.key
  /\ IF IsDes
     THEN a.sort > b.sort \/ (a.sort = b.sort /\ a.key > b.key)
     ELSE a.sort < b.sort \/ (a.sort = b.sort /\ a.key < b.key)

\* skip.Insert searches for the first entry that is not before e.
PlaceOf(list, e) ==
  CHOOSE p \in 1..(Len(list) + 1) :
    /\ \A i \in 1..(p - 1) : Before(list[i], e)
    /\ p <= Len(list) => ~Before(list[p], e)
Inserted(list, e) == InsertAt(list, PlaceOf(list, e), e)
PositionOf(list, k) == CHOOSE i \in 1..Len(list) : list[i].key = k
Removed(list, k) ==
  IF \E i \in 1..Len(list) : list[i].key = k THEN RemoveAt(list, PositionOf(list, k)) ELSE list

(* MongoPersist as the rank module.  Its maps are by rank and then by key, *)
(* but the entries to be replaced are deleted by key from the outer map.   *)
OnChangeRankData(b, k) ==
  [b EXCEPT !.rem = IF k = RankId THEN {} ELSE @, !.up = With(@, k, b.map[k])]
OnEnterRank(b, k) == OnChangeRankData(b, k)
OnLeaveRank(b, k) ==
  [b EXCEPT !.up = IF k = RankId THEN Empty ELSE @, !.rem = @ \cup {k}]

\* The entry of k leaves the list, the map and the heap.  (Mutant: not the heap.)
KeepsExpireKey(b, k) ==
  OnLeaveRank([b EXCEPT !.list = Removed(@, k), !.map = Without(@, k)], k)
DeleteRankData(b, k) ==
  IF k \notin DOMAIN b.map THEN b
  ELSE OnLeaveRank([b EXCEPT !.list = Removed(@, k), !.map = Without(@, k),
                             !.exp = Without(@, k)], k)

\* The entry of k is replaced, or made, with the value s and the time ts.
SetEntry(b, k, s, ts) ==
  [b EXCEPT !.list = Inserted(Removed(@, k), [key |-> k, sort |-> s]),
            !.map = With(@, k, [sort |-> s, ts |-> ts]), !.exp = With(@, k, ts)]

\* checkInsertAndReplace: a full board takes a new key only if it is better than
\* the last one, which leaves.
Better(s, t) == IF IsDes THEN s > t ELSE s < t
Full(b) == MaxLen # 0 /\ Len(b.list) >= MaxLen
checkInsertAndReplace(b, s) == ~Full(b) \/ Better(s, Last(b.list).sort)
Replaced(b) == IF Full(b) THEN DeleteRankData(b, Last(b.list).key) ELSE b

UpsetRank(b, k, s, ts, fromLoad) ==
  IF k \in DOMAIN b.map
  THEN LET c == SetEntry(b, k, s, ts) IN IF fromLoad THEN c ELSE OnChangeRankData(c, k)
  ELSE IF ~checkInsertAndReplace(b, s) THEN b
  ELSE LET c == SetEntry(Replaced(b), k, s, ts) IN IF fromLoad THEN c ELSE OnEnterRank(c, k)
-----------------------------------------------------------------------------
(* The requests.                                                           *)

\* A request ends with the changes it made, or goes on to pickExpireKey.
Request(after) ==
  /\ svc = "run" /\ task = Free /\ budget.ops > 0
  /\ budget' = [budget EXCEPT !.ops = @ - 1]
  /\ task' = after
  /\ Sent /\ UNCHANGED <<now, save, db, svc>>
Picking(ask) == [pc |-> "expire", ask |-> ask, rest |-> {}, left |-> MaxPick]
ByKey(k) == [Nothing EXCEPT !.what = "key", !.key = k]

\* RPC_ManualAddRankSkip: a board that is not in the configuration; the
\* collection is not loaded for it.
RPC_ManualAddRankSkip ==
  /\ svc = "run" /\ task = Unset /\ task' = Free
  /\ Sent /\ UNCHANGED <<now, board, save, db, svc, budget>>

\* find: the keys (one or none) whose rank is asked for too, FindNewRank here.
RPC_UpsetRank(k, s, find) ==
  /\ Request(Picking([Nothing EXCEPT !.find = find]))
  /\ board' = UpsetRank(board, k, s, now, FALSE)

\* RPC_IncreaseRankData: a changed value moves the entry; otherwise only the
\* heap learns of the refresh.  A key that is missing is inserted on demand,
\* whatever the length of the board.
InsertDataOnNonExistent(b, k, s) == OnChangeRankData(SetEntry(b, k, s, now), k)
ChangeExtendData(b, k, inc) ==
  IF inc # 0 THEN OnChangeRankData(SetEntry(b, k, b.map[k].sort + inc, now), k)
  ELSE OnChangeRankData([b EXCEPT !.exp = With(@, k, now)], k)

\* ret: ReturnRankData
RPC_IncreaseRankData(k, inc, insert, ret) ==
  /\ Request(IF ret THEN Picking(ByKey(k)) ELSE Free)
  /\ IF k \in DOMAIN board.map
     THEN board.map[k].sort + inc \in Sorts /\ board' = ChangeExtendData(board, k, inc)
     ELSE insert /\ \E s \in Sorts : board' = InsertDataOnNonExistent(board, k, s)

RPC_UpdateRankData(k) ==
  /\ Request(Free)
  /\ k \in DOMAIN board.map
  /\ board' = OnChangeRankData([board EXCEPT !.exp = With(@, k, now)], k)

RPC_DeleteRankDataByKey(k) ==
  /\ Request(Free)
  /\ k \in DOMAIN board.map
  /\ board' = DeleteRankData(board, k)

\* The queries.  GetRankNodeData takes the entry, and RPC_FindRankDataList the
\* length, before the expired ones are removed.
RPC_FindRankDataByKey(k) ==
  /\ Request(Picking(ByKey(k)))
  /\ k \in DOMAIN board.map
  /\ UNCHANGED board

RPC_FindRankDataList(startRank, n, find) ==
  /\ Request(Picking([Nothing EXCEPT !.what = "list", !.pos = startRank - 1, !.n = n,
                                     !.count = Len(board.list), !.find = find]))
  /\ board.list # <<>>
  /\ UNCHANGED board

RPC_FindRankDataByRank(rank) ==
  /\ Request(Picking([Nothing EXCEPT !.what = "rank", !.pos = rank]))
  /\ UNCHANGED board

\* pickExpireKey: the heap gives the entry that was refreshed first, if that has
\* expired, MaxPick times at most.  The key 0 reads as no key: it has left the
\* heap, the loop ends, and its entry stays on the board.
Expired == {k \in DOMAIN board.exp : ExpireMs # 0 /\ board.exp[k] + ExpireMs <= now}
PopExpireKey(k) ==
  /\ task.pc = "expire" /\ task.left > 0 /\ k \in Expired
  /\ \A j \in DOMAIN board.exp : board.exp[k] <= board.exp[j]
  /\ LET popped == [board EXCEPT !.exp = Without(@, k)]
     IN  board' = IF k = 0 THEN popped ELSE DeleteRankData(popped, k)
  /\ task' = [task EXCEPT !.left = IF k = 0 THEN 0 ELSE @ - 1]
  /\ Sent /\ UNCHANGED <<now, save, db, svc, budget>>

\* An entry removed by the loop of its own query is answered as the empty record
\* on rank 1.
GetRankNodeData(k) ==
  IF k \in DOMAIN board.map THEN <<[key |-> k, rank |-> PositionOf(board.list, k)]>>
  ELSE <<[key |-> 0, rank |-> 1]>>

GetRankDataFromToLimit(count, startPos, n) ==
  LET start == IF startPos < 0 \/ startPos > count THEN count - 1 ELSE startPos
      last == IF start + n < Len(board.list) THEN start + n ELSE Len(board.list)
  IN  [i \in 1..(last - start) |-> [key |-> board.list[start + i].key, rank |-> start + i]]

GetRankNodeDataByRank(rank) ==
  IF rank > Len(board.list) THEN <<>> ELSE <<[key |-> board.list[rank].key, rank |-> rank]>>

\* The answer, when the loop has ended.  Another loop follows if the rank of a
\* key is asked for too; a key that is not on the board has none.
Answer ==
  LET ask == task.ask IN
  /\ task.pc = "expire" /\ (Expired = {} \/ task.left = 0)
  /\ answer' = [what |-> ask.what, key |-> ask.key, at |-> now, cut |-> task.left = 0,
                list |-> CASE ask.what = "nothing" -> <<>>
                           [] ask.what = "key" -> GetRankNodeData(ask.key)
                           [] ask.what = "list" -> GetRankDataFromToLimit(ask.count, ask.pos, ask.n)
                           [] ask.what = "rank" -> GetRankNodeDataByRank(ask.pos)]
  /\ \/ ask.find \cap DOMAIN board.map = {} /\ task' = Free
     \/ \E k \in ask.find \cap DOMAIN board.map : task' = Picking(ByKey(k))
  /\ UNCHANGED <<now, board, save, db, svc, budget>>
-----------------------------------------------------------------------------
(* The goroutine that saves: persistCoroutine.                             *)

\* saveToDB takes both maps under the lock.
SaveBegins ==
  /\ save.pc = "idle"
  /\ svc = "stop" \/ DOMAIN board.up # {} \/ board.rem # {}
  /\ save' = [pc |-> IF svc = "stop" THEN "last" ELSE "saving", up |-> board.up, rem |-> board.rem]
  /\ board' = [board EXCEPT !.up = Empty, !.rem = {}]
  /\ budget' = [budget EXCEPT !.clashed =
                  (@ \ DOMAIN board.up) \cup (DOMAIN board.up \cap board.rem)]
  /\ Sent /\ UNCHANGED <<now, db, svc, task>>

\* A write is tried a number of times and then given up.
WriteAbandoned ==
  /\ budget.faults < MaxFaults
  /\ budget' = [budget EXCEPT !.faults = @ + 1, !.gaveUp = TRUE]

upsertToDB(k) ==
  /\ save.pc # "idle" /\ k \in DOMAIN save.up
  /\ \/ db' = With(db, k, save.up[k]) /\ UNCHANGED budget
     \/ WriteAbandoned /\ UNCHANGED db
  /\ save' = [save EXCEPT !.up = Without(@, k)]
  /\ Sent /\ UNCHANGED <<now, board, svc, task>>

\* The removals follow when all upserts are done.  (Mutant: they come first.)
AtOnce == TRUE
UpsertsDone == DOMAIN save.up = {}
removeToDB ==
  /\ save.pc # "idle" /\ UpsertsDone /\ save.rem # {}
  /\ \/ db' = Restrict(db, DOMAIN db \ save.rem) /\ UNCHANGED budget
     \/ WriteAbandoned /\ UNCHANGED db
  /\ save' = [save EXCEPT !.rem = {}]
  /\ Sent /\ UNCHANGED <<now, board, svc, task>>

SaveEnds ==
  /\ save.pc # "idle" /\ DOMAIN save.up = {} /\ save.rem = {}
  /\ svc' = IF save.pc = "last" THEN "done" ELSE svc
  /\ save' = [save EXCEPT !.pc = IF @ = "last" THEN "ended" ELSE "idle"]
  /\ save.pc # "ended"
  /\ Sent /\ UNCHANGED <<now, board, db, task, budget>>

\* OnStop tells the goroutine, which saves once more.
OnStop ==
  /\ svc = "run" /\ task \in {Free, Unset} /\ svc' = "stop"
  /\ Sent /\ UNCHANGED <<now, board, save, db, task, budget>>
-----------------------------------------------------------------------------
ClockTick ==
  /\ now < MaxNow /\ now' = now + 1
  /\ Sent /\ UNCHANGED <<board, save, db, svc, task, budget>>

\* The process ends, regularly or not, and is started again.
Restart(manual) ==
  /\ svc = "done" \/ budget.faults < MaxFaults
  /\ budget.ops > 0
  /\ budget' = [budget EXCEPT !.faults = IF svc = "done" THEN @ ELSE @ + 1, !.ops = @ - 1,
                              !.orphans = IF manual THEN DOMAIN db ELSE {}, !.clashed = {}]
  /\ board' = NewBoard /\ save' = Idle /\ svc' = "run"
  /\ task' = Started(manual, DOMAIN db)
  /\ Sent /\ UNCHANGED <<now, db>>

\* The records come in any order; some may find no place.
loadFromDB(k) ==
  /\ task.pc = "load" /\ k \in task.rest
  /\ board' = UpsetRank(board, k, db[k].sort, db[k].ts, TRUE)
  /\ task' = Loading(task.rest \ {k})
  /\ budget' = [budget EXCEPT !.orphans = IF k \in DOMAIN board'.map THEN @ ELSE @ \cup {k}]
  /\ Sent /\ UNCHANGED <<now, save, db, svc>>

\* An error of the cursor ends the loop like the last record: nothing asks for it.
LoadBreaks ==
  /\ task.pc = "load" /\ budget.faults < MaxFaults
  /\ task' = Free
  /\ budget' = [budget EXCEPT !.faults = @ + 1, !.orphans = @ \cup task.rest]
  /\ Sent /\ UNCHANGED <<now, board, save, db, svc>>

RankNext ==
  \/ RPC_ManualAddRankSkip
  \/ \E k \in RankKeys, s \in Sorts : \E find \in {{}, {k}} : RPC_UpsetRank(k, s, find)
  \/ \E k \in RankKeys, inc \in {0, 1}, insert \in BOOLEAN, ret \in BOOLEAN :
       RPC_IncreaseRankData(k, inc, insert, ret)
  \/ \E k \in RankKeys : RPC_UpdateRankData(k)
  \/ \E k \in RankKeys : RPC_DeleteRankDataByKey(k)
  \/ \E k \in RankKeys : RPC_FindRankDataByKey(k)
  \/ \E startRank \in 0..3, k \in RankKeys : \E find \in {{}, {k} \ {0}} :   \* the key 0 asks for none
       RPC_FindRankDataList(startRank, 2, find)
  \/ \E rank \in 1..2 : RPC_FindRankDataByRank(rank)
  \/ \E k \in RankKeys : PopExpireKey(k)
  \/ Answer
  \/ SaveBegins
  \/ \E k \in RankKeys : upsertToDB(k)
  \/ removeToDB
  \/ SaveEnds
  \/ OnStop
  \/ ClockTick
  \/ \E manual \in BOOLEAN : Restart(manual)
  \/ \E k \in RankKeys : loadFromDB(k)
  \/ LoadBreaks

RankSpec == RankInit /\ [][RankNext]_rankVars
-----------------------------------------------------------------------------
(* Properties.                                                             *)

(* The list, the map and the heap hold the same keys, and the list is      *)
(* sorted by the values in the map, after every sequence of insertions,    *)
(* moves, replacements of the last one and expiries.  Only the key 0 can   *)
(* be on the board and not in the heap: it expires once and then never.    *)
RankAgrees ==
  /\ \A i \in 1..(Len(board.list) - 1) : Before(board.list[i], board.list[i + 1])
  /\ {[key |-> k, sort |-> board.map[k].sort] : k \in DOMAIN board.map} = ToSet(board.list)
  /\ DOMAIN board.exp \subseteq DOMAIN board.map
  /\ DOMAIN board.map \subseteq DOMAIN board.exp \cup {0}

(* What a query answers is on the board with the rank the answer says, and *)
(* is what was asked for.  It had not expired, if the loop before it was   *)
(* not ended by its limit or by the key 0; the one answer that is wrong is *)
(* the empty record for an entry that the query itself removed.            *)
AnswersRight ==
  \A i \in 1..Len(answer.list) :
    LET a == answer.list[i] IN
    IF answer.what = "key" /\ answer.key \notin DOMAIN board.map
    THEN a.key = 0 /\ a.rank = 1
    ELSE /\ a.rank \in 1..Len(board.list) /\ board.list[a.rank].key = a.key
         /\ answer.what = "key" => a.key = answer.key
         /\ ExpireMs # 0 /\ ~answer.cut /\ a.key \in DOMAIN board.exp
              => board.exp[a.key] + ExpireMs > answer.at

(* The board stays one board, and answers for it are right, whatever       *)
(* requests, expiries and saves came before.                               *)
BoardRight == RankAgrees /\ AnswersRight

(* After OnStop the collection is what the board was, as                   *)
(* MongodbPersist.go:247 means it, unless a save gave up: every key with   *)
(* its value, and no other key but those not loaded.  The exception is a   *)
(* key whose last value was taken in one save with its removal, because it *)
(* left and came back in between: the removal follows, and it is lost.     *)
SavedAfterStop ==
  svc = "done" /\ ~budget.gaveUp =>
    /\ \A k \in DOMAIN board.map \ budget.clashed :
         k \in DOMAIN db /\ db[k].sort = board.map[k].sort
    /\ DOMAIN db \subseteq DOMAIN board.map \cup budget.orphans
=============================================================================
