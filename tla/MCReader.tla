------------------------------ MODULE MCReader ------------------------------
(***************************************************************************)
(* Small instances of the pager, scan mode, the kill file of a group and   *)
(* the memorized commands of threads, beside that of Scores.  They share   *)
(* the variable v, whose field part tells which of them a behaviour is of. *)
(***************************************************************************)
EXTENDS MCScores

----------------------------------------------------------------------------
(* The pager: articles with a hidden header row, a form feed, two lines     *)
(* that match a search, and in one of them a line of two rows.              *)

Row(s) == [over |-> s = "over", ff |-> s = "ff", hide |-> s = "hide", hit |-> s = "hit"]
Article(s) == [i \in DOMAIN s |-> Row(s[i])]
Plain == Article(<<"", "hide", "", "hit", "ff", "", "", "", "hide", "hit", "">>)
Wide  == Article(<<"", "hide", "", "hit", "ff", "", "", "over", "hide", "hit", "">>)

P == INSTANCE Pager WITH
       PagerModes <- [erase : BOOLEAN, mark : BOOLEAN, insert : BOOLEAN,
                      initlines : {4}, rows : {Plain, Wide}],
       HeaderRows <- 3, LINES <- 4, VARYSIZE <- 4, MaxKeys <- 3

----------------------------------------------------------------------------
(* Scan mode: four articles of two subjects and one that comes later, one   *)
(* of them gone from the server, with and without summaries.                *)

S == INSTANCE ScanMode WITH
       MaxArt <- 5, Begin <- 4, SubjectOf <- <<1, 2, 1, 2, 1>>,
       ScoreOf <- <<<<1, 2, 1, 1, 3>>, <<2, 0, 2, 1, 0>>>>,
       TallOf <- <<1, 2, 1, 1, 2>>, Lost <- {3}, Matching <- {2, 4},
       Options <- {[summary |-> TRUE, stay |-> FALSE, refold |-> TRUE],
                   [summary |-> FALSE, stay |-> TRUE, refold |-> FALSE]},
       Height <- 3, CHUNK <- 100, MaxKeys <- 2

----------------------------------------------------------------------------
(* The kill file: one subject to kill, two lines that are carried out when  *)
(* the group is left, and one that looks at old articles too.               *)

Kill(t, n, c, x, i) == [t |-> t, n |-> n, c |-> c, x |-> x, i |-> i]
FirstFile  == <<Kill("pat", "p", "j", FALSE, FALSE)>>
SecondFile == <<Kill("pat", "p", "j", FALSE, FALSE), Kill("star", 0, "X", TRUE, FALSE),
                Kill("pat", "q", "+", FALSE, FALSE)>>
ThirdFile  == <<Kill("pat", "q", "j", TRUE, FALSE), Kill("pat", "p", "j", FALSE, TRUE),
                Kill("inc", 0, "", FALSE, FALSE)>>

K == INSTANCE KillFile WITH
       MaxArt <- 3, Arrivals <- {1, 3}, SubjectOf <- <<"s", "t", "s">>,
       Matching <- [p |-> {1, 3}, q |-> {2}],
       KillFiles <- {FirstFile, SecondFile, ThirdFile},
       GlobalLines <- <<Kill("pat", "q", "+", FALSE, FALSE)>>,
       Included <- <<Kill("pat", "q", "j", FALSE, FALSE)>>,
       ThreadModes <- {"none", "global"}, MaxLines <- 2, MaxTyped <- 1, MaxVisits <- 3

----------------------------------------------------------------------------
(* Memorized commands: three articles, two of them in one thread and group. *)

T == INSTANCE ThreadKills WITH
       MsgIds <- {1, 2, 3}, GroupOf <- <<"g", "g", "h">>, ThreadOf <- <<1, 1, 2>>,
       KF_MAXDAYS <- 1, FIFTH <- 3, MaxDay <- 2, MaxChanges <- 2

----------------------------------------------------------------------------
Init == P!Init \/ S!Init \/ K!Init \/ T!Init \/ C!Init
Next == P!Next \/ S!Next \/ K!Next \/ T!Next \/ C!Next
Spec == Init /\ [][Next]_v

\* What is on the screen is a part of the article, and what was marked as read was on it.
ScreenIsRun == P!ScreenIsRun /\ P!ReadIsSeen

\* The page of scan mode is a run of its list, which is in order.
PageIsRun == S!PageIsRun /\ S!OrderIsSorted

\* The kill file and the memorized commands.
KilledOnSight == K!KilledOnSight
CommandsReturn == K!CommandsReturn
RestoredStay  == K!RestoredStay
FileIsMemory  == T!FileIsMemory
=============================================================================
