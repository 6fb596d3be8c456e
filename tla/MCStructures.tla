---------------------------- MODULE MCStructures ----------------------------
(***************************************************************************)
(* The leaderboard, the containers it and other parts are built from, the  *)
(* frame timers, the tables of the cluster and cron expressions, one of    *)
(* them at a time.                                                         *)
(***************************************************************************)
EXTENDS Rank, SkipList, Deque, FrameTimer, Cluster, Cron

VARIABLE which

\* No collection yet, and one with more records than the board has places.
MCStarts == {[db |-> Empty, ops |-> 3],
             [db |-> [k \in RankKeys |-> [sort |-> 1, ts |-> 0]], ops |-> 1]}

\* Service lists: two services from one template, one of them also as a plain
\* service, and one that the rules keep out.
Template == "T"
MCLocalOffers == {<<"a", Template>>}
MCAnnouncements ==
  {{<<"a", Template>>}, {<<"a", NoTemplate>>, <<"b", Template>>}, {<<"x", NoTemplate>>}}
MCAllowDiscovery == {[masters |-> {}, nodes |-> {}, services |-> {"a", "b"}]}

\* Months of three and two days, and texts with every form of a field.
MCMonthDays == <<3, 2>>
Num(a) == [from |-> a, to |-> Absent, incr |-> Absent]
Span(a, b) == [from |-> a, to |-> b, incr |-> Absent]
Every(a, n) == [from |-> a, to |-> Absent, incr |-> n]
All == Num(Star)
FiveFields ==
  {<<min, hour, dom, month, dow>> :
     min \in {<<All>>, <<Num(1)>>},
     hour \in {<<All>>, <<Num(0)>>, <<Num(1)>>},
     dom \in {<<All>>, <<Num(1), Num(3)>>, <<Num(3)>>, <<Every(1, 2)>>},
     month \in {<<All>>, <<Num(2)>>},
     dow \in {<<All>>, <<Span(1, 2)>>, <<Num(0)>>}}
WrongTexts ==
  {<< <<All>> >>} \cup
  {<<field, <<All>>, <<All>>, <<All>>, <<All>> >> :
     field \in {<<All, Every(1, 0)>>, <<Span(1, 0)>>, <<Span(Star, 1)>>, <<Num(2)>>, <<Num(Bad)>>}}
MCCronTexts ==
  {<<sec>> \o five : sec \in {<<All>>, <<Num(1)>>}, five \in FiveFields} \cup FiveFields \cup WrongTexts
MCCronStarts == 70..100   \* from the last days of the year before a year that precedes a leap year

Init ==
  /\ which \in {"rank", "skip", "ring", "frame", "cluster", "cron"}
  /\ RankInit /\ SkipInit /\ DequeInit /\ FrameInit /\ ClusterInit
  /\ which # "ring" => kind = "deque"
  /\ which # "rank" => DOMAIN db = {} /\ task = Free
  /\ IF which = "cron" THEN CronInit ELSE cron = <<>>

Next ==
  \/ which = "rank" /\ RankNext /\ UNCHANGED <<which, skipVars, dequeVars, frameVars, clusterVars, cron>>
  \/ which = "skip" /\ SkipNext /\ UNCHANGED <<which, rankVars, dequeVars, frameVars, clusterVars, cron>>
  \/ which = "ring" /\ DequeNext /\ UNCHANGED <<which, rankVars, skipVars, frameVars, clusterVars, cron>>
  \/ which = "frame" /\ FrameNext /\ UNCHANGED <<which, rankVars, skipVars, dequeVars, clusterVars, cron>>
  \/ which = "cluster" /\ ClusterNext /\ UNCHANGED <<which, rankVars, skipVars, dequeVars, frameVars, cron>>
  \/ which = "cron" /\ CronNext /\ UNCHANGED <<which, rankVars, skipVars, dequeVars, frameVars, clusterVars>>
=============================================================================
