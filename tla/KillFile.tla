------------------------------ MODULE KillFile ------------------------------
(***************************************************************************)
(* The kill file of a newsgroup: kfile.cpp, and art_search of artsrch.cpp,  *)
(* which carries out its lines and memorizes new ones.                      *)
(*                                                                         *)
(* A line is a record.  t says what it is: "thru" for THRU with a number n,  *)
(* "pat" for /pattern/modifiers:command, "id" for the memorized command of   *)
(* the article n, "star" for *j and *X, "inc" for I file.  x: the line is    *)
(* carried out when the group is left.  i: its modifier is I.  c: its        *)
(* command.                                                                *)
(*                                                                         *)
(* One newsgroup is entered and left again; articles are numbered from 1.   *)
(* The letters of memorized commands are those of subjects and articles: K  *)
(* kills and S selects the subject, j kills and m selects the article.       *)
(***************************************************************************)
EXTENDS Integers, Sequences, FiniteSets, SequencesExt, FiniteSetsExt

CONSTANTS
  MaxArt,      \* bound: articles of the group
  Arrivals,    \* the numbers of articles there may be when one looks
  SubjectOf,   \* the subject of each article
  Matching,    \* the articles that a pattern matches
  KillFiles,   \* the local kill files at the start
  GlobalLines, \* the lines of the global kill file
  Included,    \* the lines of the file that I lines name
  ThreadModes, \* subset of {"none", "global"}: is KILLTHREADS "none"?
  MaxLines,    \* bound: lines of the kill file that begin with `/'
  MaxTyped,    \* bound: commands in one visit to the group
  MaxVisits    \* bound: visits to it

VARIABLE v

Arts == 1..MaxArt
Letters == <<"m", "S", "j", "K">>    \* from the lowest to the highest priority
Rank(c) == IF c = "-" THEN 0 ELSE CHOOSE i \in DOMAIN Letters : Letters[i] = c

Line(t, n, c) == [t |-> t, n |-> n, c |-> c, x |-> FALSE, i |-> FALSE]
Start(f, m, a) ==
  [part |-> "kill", pc |-> "out", threads |-> m, file |-> f, lopen |-> FALSE, rc |-> {},
   arrived |-> a, last |-> 0, first |-> 1, unread |-> {}, sel |-> {},
   autofl |-> [i \in Arts |-> "-"], kf |-> {}, killfirst |-> 0, exitcmds |-> FALSE,
   typed |-> 0, visits |-> 0, want |-> [i \in Arts |-> "-"], restored |-> {}, exempt |-> {}]
Starts == {Start(f, m, a) : f \in KillFiles, m \in ThreadModes, a \in Arrivals}
Init == v \in Starts

In(pc) == v.part = "kill" /\ v.pc = pc

-----------------------------------------------------------------------------
(* Commands on articles, with the memorized ones (savemode).                *)

\* change_auto_flags: a command never takes the place of one with priority.
ChangeAutoFlags(x, arts, c) ==
  LET up == {a \in arts : Rank(c) > Rank(x.autofl[a])} IN
  [x EXCEPT !.autofl = [a \in Arts |-> IF a \in up THEN c ELSE @[a]],
            !.kf = IF up = {} THEN @ ELSE @ \cup (IF x.threads = "none" THEN {"lchg", "tchg"} ELSE {"tchg"})]
ClearAutoFlags(x, arts) ==
  LET set == {a \in arts : x.autofl[a] # "-"} IN
  [x EXCEPT !.autofl = [a \in Arts |-> IF a \in set THEN "-" ELSE @[a]],
            !.kf = IF set = {} THEN @ ELSE @ \cup (IF x.threads = "none" THEN {"lchg", "tchg"} ELSE {"tchg"})]

SetRead(x, arts) == [x EXCEPT !.unread = @ \ arts, !.sel = @ \ arts]
Subject(x, a) == {b \in 1..x.last : SubjectOf[b] = SubjectOf[a]}

\* perform: the command c on article a; save says that it is memorized.
Perform(x, a, c, save) ==
  CASE c = "j" -> LET y == SetRead(x, {a}) IN IF save THEN ChangeAutoFlags(y, {a}, "j") ELSE y
    [] c = "K" -> LET y == SetRead(x, Subject(x, a))
                  IN IF save THEN ChangeAutoFlags(y, Subject(x, a), "K") ELSE y
    [] c = "S" -> LET y == [x EXCEPT !.sel = @ \cup (Subject(x, a) \cap x.unread)]
                  IN IF save THEN ChangeAutoFlags(y, Subject(x, a), "S") ELSE y
    [] c = "m" -> IF save THEN ChangeAutoFlags(x, {a}, "m")
                  ELSE [x EXCEPT !.unread = @ \cup {a}]
    [] c = "+" -> [x EXCEPT !.sel = @ \cup ({a} \cap x.unread)]

\* art_search with a command: the articles from `from' on that match, in order.
Search(x, from, p, c) ==
  FoldLeft(LAMBDA y, a : IF a \in y.unread /\ a \in Matching[p] THEN Perform(y, a, c, FALSE) ELSE y,
           x, [k \in 1..x.last - from + 1 |-> from + k - 1])

-----------------------------------------------------------------------------
(* Carrying out a kill file.                                                *)

\* (mutant) The first article that came since is left out.
ThruLater(x, n) == [x EXCEPT !.killfirst = IF n + 2 > x.last THEN x.last + 1 ELSE n + 2]

\* (mutant) All articles are looked at again.
ThruAll(x, n) == [x EXCEPT !.killfirst = x.first]

\* THRU: the lines after it begin with the articles that came since.
Thru(x, n) == [x EXCEPT !.killfirst = IF n + 1 < x.first THEN x.first
                                      ELSE IF n + 1 > x.last THEN x.last + 1 ELSE n + 1]

\* A `/' line; + takes all articles, as does the modifier I.
Pattern(x, l) ==
  LET y == [x EXCEPT !.kf = @ \cup {"normal"}] IN
  IF x.first > x.last THEN y
  ELSE Search(y, IF l.i \/ l.c = "+" THEN x.first ELSE x.killfirst, l.n, l.c)

\* kfile_junk on every article, those selected being spared by *X.
Star(x, l) ==
  LET dead == IF l.c = "X" THEN x.unread \ x.sel ELSE x.unread IN
  [x EXCEPT !.unread = @ \ dead, !.sel = {}, !.kf = @ \cup {"normal"}]

\* The memorized command of an article, carried out the first time only.
Memorized(x, l, firsttime) ==
  [(IF firsttime /\ l.n <= x.last THEN Perform(x, l.n, l.c, TRUE) ELSE x) EXCEPT !.kf = @ \cup {"tlines"}]

RunLine(x, l, entering, firsttime) ==
  CASE l.t = "thru" -> Thru(x, l.n)
    [] l.t = "inc" -> x
    [] l.x /\ entering -> [x EXCEPT !.exitcmds = TRUE]
    [] ~l.x /\ ~entering -> x
    [] l.t = "pat" -> Pattern(x, l)
    [] l.t = "star" -> Star(x, l)
    [] l.t = "id" -> Memorized(x, l, firsttime)

\* do_kfile.  A file that is included begins with all articles, and after it the
\* lines of the file that includes it do so too.
DoFile(x, lines, entering) ==
  LET firsttime == entering /\ x.killfirst = 0
      Run(y, l) == RunLine(y, l, entering, firsttime)
      Inc(y) == FoldLeft(LAMBDA z, l : RunLine(z, l, entering, FALSE), [y EXCEPT !.killfirst = x.first], Included)
  IN FoldLeft(LAMBDA y, l : IF l.t = "inc" THEN Inc(y) ELSE Run(y, l), [x EXCEPT !.killfirst = x.first], lines)

\* Where an interrupt may stop it: before a search is over, or never.
Stops(x, entering) ==
  {Len(x.file)} \cup {k - 1 : k \in {k \in DOMAIN x.file : x.file[k].t = "pat" /\ x.file[k].x = ~entering}}

\* (mutant) The memorized commands of the last time are kept too.
KeptWithCommands(x) == IF x.lopen THEN SelectSeq(x.file, LAMBDA l : l.t # "thru") ELSE <<>>

\* rewrite_kfile: what is kept of the file, stars last, after THRU and before the
\* memorized commands; it is removed when it has nothing else.
Kept(x) == IF x.lopen THEN SelectSeq(x.file, LAMBDA l : l.t \notin {"thru", "id"}) ELSE <<>>
Commands(x) ==
  IF x.threads = "global" THEN <<>>
  ELSE [k \in 1..Cardinality({a \in 1..x.last : x.autofl[a] # "-"}) |->
          LET a == SetToSortSeq({b \in 1..x.last : x.autofl[b] # "-"}, <)[k] IN Line("id", a, x.autofl[a])]
Rewrite(x, thru) ==
  LET kept == Kept(x)
      content == kept # <<>> \/ (x.threads = "none" /\ "tlines" \in x.kf)
      new == <<Line("thru", thru, "")>>
             \o SelectSeq(kept, LAMBDA l : l.t # "star") \o SelectSeq(kept, LAMBDA l : l.t = "star")
             \o Commands(x)
  IN [x EXCEPT !.kf = @ \ ({"lchg", "normal"} \cup (IF x.threads = "none" THEN {"tchg"} ELSE {})),
               !.file = IF content THEN new ELSE <<>>, !.lopen = content]

\* kill_unwanted: the local and then the global lines, for the articles from
\* `starting' on; on the way out the file is written again.
KillUnwanted(x, starting, entering, stop) ==
  LET runs == (entering \/ x.exitcmds) /\ (x.lopen \/ GlobalLines # <<>>)
      a == [x EXCEPT !.exitcmds = FALSE, !.first = starting]
      b == IF ~x.lopen THEN a
           ELSE DoFile([a EXCEPT !.kf = IF entering THEN @ \cup {"lchg"} ELSE @],
                       SubSeq(x.file, 1, stop), entering)
      intr == x.lopen /\ stop < Len(x.file)
      c == IF intr THEN [b EXCEPT !.kf = @ \cup {"normal"}] ELSE IF GlobalLines = <<>> THEN b ELSE DoFile(b, GlobalLines, entering)
      d == IF runs THEN [c EXCEPT !.first = x.first] ELSE x
  IN IF ~entering /\ "lchg" \in d.kf /\ ~(runs /\ intr) THEN Rewrite(d, d.last) ELSE d

-----------------------------------------------------------------------------
(* Going into the group and out of it.                                      *)

\* What the ghosts record: an interrupt spares articles, a command of the file that
\* a new article inherits is wanted for it too.
Noted(x, interrupted) ==
  [x EXCEPT !.exempt = IF interrupted THEN @ \cup 1..x.last ELSE @, !.want = x.autofl]

\* Articles are threaded: one comes under the memorized command of its subject's
\* first article (perform_auto_flags), or under its own.
Threaded(x, arts) ==
  FoldLeft(LAMBDA y, a : LET s == y.autofl[Min(Subject(y, a))] IN
                         IF s \in {"K", "S"} THEN Perform(y, a, s, TRUE)
                         ELSE IF y.autofl[a] = "j" THEN SetRead(y, {a}) ELSE y,
           x, SetToSortSeq(arts, <))

\* do_newsgroup up to the first article.  The memory of the articles may have been
\* kept since the last visit; if not, only a global file brings their commands back.
Enter ==
  /\ In("out") /\ v.visits < MaxVisits
  /\ \E fresh \in BOOLEAN :
       LET un == (1..v.arrived) \ v.rc
           r == [v EXCEPT !.pc = "in", !.last = v.arrived, !.unread = un, !.sel = {}, !.visits = @ + 1,
                          !.first = Min(un \cup {v.arrived + 1}), !.kf = {}, !.killfirst = 0,
                          !.lopen = v.file # <<>>,
                          !.autofl = IF fresh /\ v.threads = "none" THEN [a \in Arts |-> "-"] ELSE @]
           x == Threaded(r, IF fresh THEN 1..r.last ELSE v.last + 1..r.last)
       IN \E stop \in Stops(x, TRUE) :
            LET y == KillUnwanted(x, x.first, TRUE, stop)
            IN v' = [y EXCEPT !.exempt = IF stop < Len(v.file) THEN @ \cup 1..y.last ELSE @,
                              !.want = [a \in Arts |-> IF stop < Len(v.file) \/ a > v.last \/ @[a] = "?" THEN y.autofl[a] ELSE @[a]]]

Arrive == In("out") /\ \E n \in Arrivals : n > v.arrived /\ v' = [v EXCEPT !.arrived = n]

\* grow_ng: articles arrive while the group is read.
Grow ==
  /\ In("in")
  /\ \E n \in Arrivals :
       /\ n > v.last
       /\ LET new == v.last + 1..n
              x == [v EXCEPT !.last = n, !.arrived = n, !.unread = @ \cup new]
              t == Threaded(x, new)
          IN \E stop \in Stops(t, TRUE) :
               IF "normal" \in t.kf
               THEN v' = Noted(KillUnwanted(t, v.last + 1, TRUE, stop), t.lopen /\ stop < Len(t.file))
               ELSE stop = Len(t.file) /\ v' = Noted(t, FALSE)

\* The end of do_newsgroup: kill_unwanted, and in another step the newsrc is written.
Leave ==
  /\ In("in")
  /\ \E stop \in Stops(v, FALSE) :
       /\ v.exitcmds \/ stop = Len(v.file)
       /\ LET x == KillUnwanted(v, v.first, FALSE, stop)
              interrupted == v.exitcmds /\ v.lopen /\ stop < Len(v.file)
          IN v' = [x EXCEPT !.pc = "left",
                            !.restored = IF interrupted THEN {} ELSE @ \cap x.unread,
                            !.want = IF interrupted /\ v.threads = "none" THEN [a \in Arts |-> "?"] ELSE @]
Save ==
  /\ In("left")
  /\ v' = [v EXCEPT !.pc = "out", !.rc = (1..v.last) \ v.unread, !.lopen = FALSE, !.sel = {},
                    !.kf = {}, !.killfirst = 0, !.first = 1, !.typed = 0, !.exitcmds = FALSE]

\* Another group, with a kill file of its own.
OtherGroup == In("out") /\ v.visits = MaxVisits /\ v' \in Starts

-----------------------------------------------------------------------------
(* What the reader does in the group, at any article of it.                *)

Typed == In("in") /\ v.typed < MaxTyped
Did(x) == v' = [x EXCEPT !.typed = @ + 1]

MarkRead == Typed /\ \E a \in v.unread : Did([SetRead(v, {a}) EXCEPT !.restored = @ \ {a}])

\* m: the article is unread again, and meant to stay so.
MarkUnread ==
  /\ Typed
  /\ \E a \in (1..v.last) \ v.unread :
       Did([v EXCEPT !.unread = @ \cup {a}, !.restored = @ \cup {a}, !.exempt = @ \cup {a}])

\* T commands and A commands on the article: memorized, or forgotten.
Memorize ==
  /\ Typed
  /\ \E a \in 1..v.last, c \in {"K", "S", "j", "m"} :
       LET x == Perform(v, a, c, TRUE) IN Did([x EXCEPT !.want = x.autofl])
Forget ==
  /\ Typed
  /\ \E a \in 1..v.last :
       LET x == ClearAutoFlags(v, Subject(v, a)) IN Did([x EXCEPT !.want = x.autofl])

Patterns(x) == Cardinality({k \in DOMAIN x.file : x.file[k].t = "pat"})

\* K: the subject goes into the kill file (kf_append), and is killed from here on.
Append_(x, l) ==
  [x EXCEPT !.file = Append(@, l), !.lopen = TRUE, !.kf = @ \cup {"normal"}]
AppendKill ==
  /\ Typed /\ Patterns(v) < MaxLines
  /\ \E p \in DOMAIN Matching, a \in 1..v.last :
       /\ a \in Matching[p]
       /\ LET x == Search(SetRead(Append_(v, Line("pat", p, "j")), {a}), a, p, "j") IN Did([x EXCEPT !.exempt = @ \cup 1..v.last])

\* ^K: the file is written as it is now, and the user changes it: a line more, or the
\* memorized commands of a subject less.
Edited(f) ==
  {f} \cup {Append(f, Line("pat", p, "j")) : p \in DOMAIN Matching}
      \cup {SelectSeq(f, LAMBDA l : l.t = "id" => SubjectOf[l.n] # s) : s \in ToSet(SubjectOf)}
EditKill ==
  /\ Typed
  /\ LET x == IF "lchg" \in v.kf THEN Rewrite(v, v.last) ELSE v
         y == IF x.threads = "none" THEN ClearAutoFlags(x, 1..x.last) ELSE x
     IN \E f \in Edited(y.file) :
          LET kinds == {f[k].t : k \in DOMAIN f}
              given == [a \in Arts |->
                          LET cs == {k \in DOMAIN f : f[k].t = "id" /\ f[k].n = a}
                          IN IF cs = {} THEN y.autofl[a]
                             ELSE LET c == f[CHOOSE k \in cs : TRUE].c
                                  IN IF Rank(c) > Rank(y.autofl[a]) THEN c ELSE y.autofl[a]]
          IN /\ Cardinality({k \in DOMAIN f : f[k].t = "pat"}) <= MaxLines
             /\ Did([y EXCEPT !.file = f, !.lopen = f # <<>>, !.autofl = given, !.want = given,
                              !.exempt = @ \cup 1..v.last,
                              !.kf = IF f = <<>> THEN @
                                     ELSE (@ \ {"normal"}) \cup (IF kinds \cap {"pat", "star"} # {} THEN {"normal"} ELSE {})])

Next == Enter \/ Arrive \/ Grow \/ Leave \/ Save \/ OtherGroup \/ MarkRead \/ MarkUnread
        \/ Memorize \/ Forget \/ AppendKill \/ EditKill

Spec == Init /\ [][Next]_v

-----------------------------------------------------------------------------
\* Is article a killed by a line of ls that is carried out on the way in?
KilledBy(ls, a) == \E k \in DOMAIN ls : ls[k].t = "pat" /\ ~ls[k].x /\ ls[k].c = "j" /\ a \in Matching[ls[k].n]

\* An article that came after the lines of the kill file were written is dead by the
\* time one can read it, unless it has been marked as unread since, or the
\* processing was interrupted.
KilledOnSight ==
  v.part = "kill" /\ v.pc = "in" =>
    \A a \in v.unread \ v.exempt : ~KilledBy(v.file, a)

\* An article that was marked as unread stays unread when the group is entered again,
\* the kill file that killed it notwithstanding (THRU): it falls only to a memorized
\* command, to a line that is to be carried out again (I, *) or to the global file.
RestoredStay ==
  [][v.part = "kill" /\ v.pc = "out" /\ v'.pc = "in" =>
       \A a \in v.restored \ v'.unread :
          \/ v'.autofl[a] \in {"K", "j"}
          \/ KilledBy(GlobalLines, a)
          \/ \E k \in DOMAIN v.file : v.file[k].t = "star" \/ v.file[k].i]_v

\* Memorized commands are in effect when the group is entered again, whether or not
\* the memory of its articles was kept in between.
CommandsReturn ==
  v.part = "kill" /\ v.pc = "in" =>
    \A a \in 1..v.last : v.autofl[a] = v.want[a]
=============================================================================
