---------------------------- MODULE ThreadKills ----------------------------
(***************************************************************************)
(* The commands that are memorized for threads in one file for all groups    *)
(* (KILLTHREADS): kfile.cpp, with the hash of message-ids of rthread.cpp and *)
(* rt-process.cpp, where a command waits until its group is read.           *)
(*                                                                         *)
(* The hash has for each message-id nothing ("none"), a command with its age *)
(* that was read from the file or kept from another group ("saved"), or an   *)
(* article in memory ("mem"), whose command is old when the file has it.     *)
(***************************************************************************)
EXTENDS Integers, Sequences, FiniteSets, SequencesExt, FiniteSetsExt

CONSTANTS
  MsgIds,     \* message-ids
  GroupOf,    \* the group of each
  ThreadOf,   \* the thread of each
  KF_MAXDAYS, \* days a command is kept when nobody sees its thread
  FIFTH,      \* 5: the file is written again when a fifth of its lines are outdated
  MaxDay,     \* bound: days that pass
  MaxChanges  \* bound: commands the user memorizes or forgets, from one start to the next

VARIABLE v

None == "-"
Letters == <<"j", "+", "J">>      \* select thread and kill thread are for all its articles
Rank(c) == IF c = None THEN 0 ELSE CHOOSE i \in DOMAIN Letters : Letters[i] = c
Entry(k, c, old, age) == [k |-> k, c |-> c, old |-> old, age |-> age]
Groups == {GroupOf[i] : i \in MsgIds}

Fresh ==
  [part |-> "threads", pc |-> "down", file |-> <<>>, here |-> {CHOOSE i \in MsgIds : TRUE},
   hash |-> [i \in MsgIds |-> Entry("none", None, FALSE, 0)],
   chg |-> 0, cnt |-> 0, kday |-> 0, day |-> 0, tchg |-> FALSE, group |-> None, changes |-> 0]
Init == v = Fresh

In(pc) == v.part = "threads" /\ v.pc = pc
Up == v.part = "threads" /\ v.pc # "down"

-----------------------------------------------------------------------------
(* The file.                                                                *)

\* kfile_init: the last line of a message-id counts.
Start ==
  /\ In("down")
  /\ LET Read(x, l) ==
           LET age == x.day - l.day IN
           IF age > KF_MAXDAYS THEN [x EXCEPT !.chg = @ + 1]
           ELSE [x EXCEPT !.chg = IF x.hash[l.id].k = "none" THEN @ ELSE @ + 1, !.cnt = @ + 1,
                          !.hash[l.id] = Entry("saved", l.c, FALSE, age)]
         clean == [v EXCEPT !.pc = "list", !.chg = 0, !.cnt = 0, !.kday = v.day, !.tchg = FALSE,
                            !.group = None, !.changes = 0,
                            !.hash = [i \in MsgIds |-> Entry("none", None, FALSE, 0)]]
     IN v' = FoldLeft(Read, clean, v.file)

\* age_thread_commands
Aged(x) ==
  LET days == x.day - x.kday
      Gone(e) == e.k = "saved" /\ e.age + days > KF_MAXDAYS
      Stale(e) == e.k = "mem" /\ e.old
      Age(e) == IF Gone(e) THEN Entry("none", None, FALSE, 0)
                ELSE IF e.k = "saved" THEN [e EXCEPT !.age = @ + days] ELSE [e EXCEPT !.old = FALSE]
  IN IF days = 0 THEN x
     ELSE [x EXCEPT !.hash = [i \in MsgIds |-> Age(@[i])], !.kday = x.day,
                    !.chg = @ + Cardinality({i \in MsgIds : Gone(x.hash[i]) \/ Stale(x.hash[i])}),
                    !.tchg = @ \/ \E i \in MsgIds : Stale(x.hash[i])]

\* write_global_thread_commands, in the order of the hash.
Written(x, ids) == [k \in 1..Cardinality(ids) |->
                      LET i == SetToSortSeq(ids, <)[k]
                      IN [id |-> i, c |-> x.hash[i].c,
                          day |-> IF x.hash[i].k = "saved" THEN x.kday - x.hash[i].age ELSE x.kday]]
MarkOld(x, ids) ==
  [x EXCEPT !.hash = [i \in MsgIds |-> IF i \in ids /\ @[i].k = "mem" THEN [@[i] EXCEPT !.old = TRUE] ELSE @[i]],
            !.cnt = @ + Cardinality(ids), !.tchg = FALSE]

\* update_thread_kfile: new commands are appended, until too many lines are outdated.
Update(y) ==
  LET x == Aged(y)
      all == {i \in MsgIds : x.hash[i].c # None}
      new == {i \in all : x.hash[i].k = "mem" /\ ~x.hash[i].old}
  IN IF ~x.tchg THEN x
     ELSE IF x.chg * FIFTH > x.cnt
     THEN MarkOld([x EXCEPT !.file = Written(x, all), !.chg = 0, !.cnt = 0], all)
     ELSE MarkOld([x EXCEPT !.file = @ \o Written(x, new)], new)

-----------------------------------------------------------------------------
(* Commands of articles in memory.                                          *)

\* (mutant) A command that takes the place of an old one is taken for old.
ChangeKeepsOld(x, ids, c) ==
  LET up == {i \in ids : Rank(c) > Rank(x.hash[i].c)} IN
  [x EXCEPT !.chg = @ + Cardinality({i \in up : x.hash[i].old}), !.tchg = @ \/ up # {},
            !.hash = [i \in MsgIds |-> IF i \in up THEN [@[i] EXCEPT !.c = c] ELSE @[i]]]

\* change_auto_flags and clear_auto_flags: the line of an old command is outdated.
Change(x, ids, c) ==
  LET up == {i \in ids : Rank(c) > Rank(x.hash[i].c)} IN
  [x EXCEPT !.chg = @ + Cardinality({i \in up : x.hash[i].old}), !.tchg = @ \/ up # {},
            !.hash = [i \in MsgIds |-> IF i \in up THEN Entry("mem", c, FALSE, 0) ELSE @[i]]]
Clear(x, ids) ==
  LET set == {i \in ids : x.hash[i].c # None \/ x.hash[i].old} IN
  [x EXCEPT !.chg = @ + Cardinality({i \in set : x.hash[i].old}), !.tchg = @ \/ set # {},
            !.hash = [i \in MsgIds |-> IF i \in set THEN Entry("mem", None, FALSE, 0) ELSE @[i]]]
Thread(x, i) == {j \in MsgIds : x.hash[j].k = "mem" /\ ThreadOf[j] = ThreadOf[i]}

\* valid_article and get_article: the command that waits for an article is its own;
\* a line that is not of today will be written again.
Taken(x, i) ==
  LET e == x.hash[i] IN
  [x EXCEPT !.hash[i] = IF e.k = "mem" THEN e ELSE Entry("mem", e.c, e.k = "saved" /\ e.age = 0, 0),
            !.chg = IF e.k = "saved" /\ e.age # 0 THEN @ + 1 ELSE @]

\* thread_article: the command of its thread is carried out for all of it.
Threaded(x, i) ==
  LET y == Taken(x, i)
      cs == {y.hash[j].c : j \in Thread(y, i)}
  IN CASE "J" \in cs -> Change(y, Thread(y, i), "J")
       [] "+" \in cs -> Change(y, Thread(y, i), "+")
       [] OTHER -> y

\* cleanup_msgid_hash, when another group comes into memory.
Waiting(x) ==
  [x EXCEPT !.hash = [i \in MsgIds |-> IF @[i].k # "mem" THEN @[i]
                                       ELSE IF @[i].c = None THEN Entry("none", None, FALSE, 0)
                                       ELSE Entry("saved", @[i].c, FALSE, 0)]]

\* do_newsgroup and build_cache: changes that were not written are forgotten, and
\* what is in memory waits again if it is of another group.
Enter ==
  /\ In("list")
  /\ \E g \in Groups :
       LET x == [v EXCEPT !.pc = "group", !.tchg = FALSE]
           y == IF g = v.group THEN x ELSE [Waiting(Update(x)) EXCEPT !.group = g]
           arts == {i \in v.here : GroupOf[i] = g}
       IN v' = FoldLeft(Threaded, y, SetToSortSeq(arts, <))

\* An article comes in, or is named as a parent by one that is here.
Arrive == /\ Up
          /\ \E i \in MsgIds \ v.here :
               LET x == [v EXCEPT !.here = @ \cup {i}]
               IN v' = IF v.pc = "group" /\ GroupOf[i] = v.group THEN Threaded(x, i) ELSE x

Typed == In("group") /\ v.changes < MaxChanges
Memorize ==
  /\ Typed
  /\ \E i \in MsgIds, c \in {"j", "+", "J"} :
       /\ v.hash[i].k = "mem"
       /\ v' = [Change(v, IF c = "j" THEN {i} ELSE Thread(v, i), c) EXCEPT !.changes = @ + 1]
Forget ==
  /\ Typed
  /\ \E i \in MsgIds :
       /\ v.hash[i].k = "mem"
       /\ v' = [Clear(v, Thread(v, i)) EXCEPT !.changes = @ + 1]

\* The end of the group, and a look at the clock in the pager.
Leave == In("group") /\ v' = [Update(v) EXCEPT !.pc = "list"]
Checkpoint == In("group") /\ v' = Update(v)

\* finalize, and a crash: what was not written is gone.
Quit == In("list") /\ v' = [Update(v) EXCEPT !.pc = "down"]
Crash == Up /\ v' = [v EXCEPT !.pc = "down"]

NextDay == v.part = "threads" /\ v.day < MaxDay /\ v' = [v EXCEPT !.day = @ + 1]
\* The bound of days is reached: another user.
OtherUser == In("down") /\ v.day = MaxDay /\ v' = Fresh

Next == Start \/ Enter \/ Arrive \/ Memorize \/ Forget \/ Leave \/ Checkpoint \/ Quit \/ Crash
        \/ NextDay \/ OtherUser
Spec == Init /\ [][Next]_v

-----------------------------------------------------------------------------
Lines(i) == {k \in DOMAIN v.file : v.file[k].id = i}
LastLine(i) == v.file[Max(Lines(i))]

\* With no change pending, the last line the file has for a message-
\* id is the command that is in effect for it: what a restart would bring back.
FileIsMemory ==
  Up /\ ~v.tchg =>
    \A i \in MsgIds : v.hash[i].c # None => Lines(i) # {} /\ LastLine(i).c = v.hash[i].c
=============================================================================
