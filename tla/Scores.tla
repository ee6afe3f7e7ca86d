------------------------------- MODULE Scores -------------------------------
(***************************************************************************)
(* Scores of articles: scorefile.cpp reads files of rules and applies them, *)
(* score.cpp scores the articles of a group a few at a time, scoresave.cpp  *)
(* keeps scores from one visit to the next.                                 *)
(*                                                                         *)
(* A line of a score file is a record: k says what it is ("rule", "kill",    *)
(* "new", "reply", "save", "inc", "exc", "header", "file"), h and p are the  *)
(* header and the pattern of a rule, n is a number and f a file.  A file     *)
(* without lines is one that does not exist.  g_absfirst is 1.              *)
(***************************************************************************)
EXTENDS Integers, Sequences, FiniteSets, SequencesExt, FiniteSetsExt

CONSTANTS
  MaxArt,     \* the last article that ever arrives
  Arrivals,   \* the numbers of articles there may be when one looks
  HoleSets,   \* sets of numbers that the list of articles may have no room for
  Lost,       \* articles that are gone from the server
  Hits,       \* pattern -> the articles it matches; no other pattern can be compiled
  WithX,      \* articles that have the header X
  Replies,    \* articles whose subject begins with Re:
  Levels,     \* the score files of the group, from the global one on
  FileSets,   \* file -> its lines, at the start
  Edited,     \* what the user may make of a file
  TypedLines, \* lines that the user adds
  Elig,       \* subset of BOOLEAN: are articles that were read eligible at first?
  SavedFirst, \* the saved scores there may be at the start
  MaxKeys,    \* bound: commands in all
  MaxVisits   \* bound: visits to the group

VARIABLE v

LOWSCORE == -999999
None == -99                 \* not scored; no threshold or bonus
Files == DOMAIN (CHOOSE d \in FileSets : TRUE)
Arts == 1..MaxArt

Data(x) == (1..x.last) \ x.holes
Avail(x, a) == a \in Data(x) \ x.gone            \* is_available
Unread(x, a) == a \in Data(x) \ (x.read \cup x.gone)
Scored(x, a) == x.score[a] # None                \* article_scored

\* article_first, article_next: existing_listnum upwards.
First(x, n) == Min({a \in Data(x) : a >= n} \cup {x.last + 1})
Next_(x, n) == First(x, n + 1)

-----------------------------------------------------------------------------
(* The score files.                                                         *)

Entry(t, l) == [t |-> t, h |-> l.h, p |-> l.p, n |-> l.n, f |-> l.f]
Mark(t, f, level) == [t |-> t, h |-> "", p |-> "", n |-> level, f |-> f]
Grown(x, e) == [x EXCEPT !.entries = Append(@, e)]

\* sf_open_file: a file is read once and kept.
Opened(x, f) == IF f \in x.known THEN x
                ELSE [x EXCEPT !.known = @ \cup {f}, !.cache[f] = x.disk[f]]
FileClear(x) == [x EXCEPT !.known = {}]

Marks(x, t, f) == {i \in DOMAIN x.entries : x.entries[i].t = t /\ x.entries[i].f = f}

\* (mutant) The mark at the end of the file stays.
ExcludeKeepsEnd(x, f) ==
  LET starts == Marks(x, "start", f)
      ends == {i \in Marks(x, "end", f) : i > Min(starts)}
  IN IF starts = {} \/ ends = {} THEN x
     ELSE [x EXCEPT !.entries = SubSeq(@, 1, Min(starts) - 1) \o SubSeq(@, Min(ends), Len(@))]

\* sf_exclude_file: from the first mark of the file to its end.
Exclude(x, f) ==
  LET starts == Marks(x, "start", f)
      ends == {i \in Marks(x, "end", f) : i > Min(starts)}
  IN IF starts = {} \/ ends = {} THEN x
     ELSE [x EXCEPT !.entries = SubSeq(@, 1, Min(starts) - 1) \o SubSeq(@, Min(ends) + 1, Len(@))]

\* Is the line right, as sf_do_line checks it?
LineOK(x, l) == l.k # "bad" /\ (l.k = "rule" /\ l.h = "x" => x.xhead)

Cmd(k, f) == [k |-> k, h |-> "", p |-> "", n |-> 0, f |-> f]

\* What is done for a line: a file that is included is opened, and if it has lines they
\* are done between two marks.  Files do not include each other.
Text(x, line) ==
  LET lines(f) == IF f \in x.known THEN x.cache[f] ELSE x.disk[f]
      T[n \in Nat, l \in {line} \cup UNION {ToSet(lines(f)) : f \in Files}] ==
        IF n = 0 \/ l.k # "inc" THEN <<l>>
        ELSE <<Cmd("open", l.f)>> \o
             IF lines(l.f) = <<>> THEN <<>>
             ELSE <<Cmd("start", l.f)>> \o FlattenSeq([i \in DOMAIN lines(l.f) |-> T[n - 1, lines(l.f)[i]]])
                  \o <<Cmd("end", l.f)>>
  IN T[Cardinality(Files), line]

\* A step of sf_do_line and sf_do_file.  A rule whose pattern cannot be compiled is
\* kept, and matches nothing.
DoStep(x, l) ==
  IF ~LineOK(x, l) THEN x
  ELSE CASE l.k \in {"rule", "kill", "new", "reply"} -> Grown(x, Entry(l.k, l))
         [] l.k = "save" -> [x EXCEPT !.savescores = l.n # 0]
         [] l.k = "header" -> [x EXCEPT !.xhead = TRUE]
         [] l.k = "file" -> [x EXCEPT !.abbr = l.f]
         [] l.k = "exc" -> Exclude(x, l.f)
         [] l.k = "open" -> Opened(x, l.f)
         [] l.k = "start" -> [Grown(x, Mark("start", l.f, x.level + 1)) EXCEPT !.level = @ + 1]
         [] l.k = "end" -> [Grown(x, Mark("end", l.f, x.level)) EXCEPT !.level = @ - 1]
DoLine(x, l) == FoldLeft(DoStep, x, Text(x, l))
DoFile(x, f) == DoLine(x, Cmd("inc", f))

\* The last entry of its kind counts.
LastOf(x, t) == LET is == {i \in DOMAIN x.entries : x.entries[i].t = t}
                IN IF is = {} THEN None ELSE x.entries[Max(is)].n

\* sf_init; the scores there are, are of the rules before.
Decided(x) == [x EXCEPT !.kill = LastOf(x, "kill"), !.new = LastOf(x, "new"), !.reply = LastOf(x, "reply")]
SfInit(x) ==
  Decided(FoldLeft(DoFile,
                   [x EXCEPT !.entries = <<>>, !.done = {}, !.level = 0, !.xhead = FALSE, !.abbr = "",
                             !.old = {a \in Arts : Scored(x, a)}],
                   Levels))

-----------------------------------------------------------------------------
(* The score of an article.                                                 *)

Matches(e, a) == e.p \in DOMAIN Hits /\ a \in Hits[e.p]
Has(e, a) == e.h = "x" => a \in WithX
Hit(x, is, a) == {i \in is : Matches(x.entries[i], a)}
SumOf(x, is) == FoldSet(LAMBDA i, s : s + x.entries[i].n, 0, is)

\* (mutant) A rule that has been applied is not marked.
ApplyAgain(y, i, a) ==
  LET x == y.x
      e == x.entries[i]
      same == {j \in i..Len(x.entries) : x.entries[j].t = "rule" /\ x.entries[j].h = e.h}
  IN IF e.t # "rule" \/ ~Has(e, a) THEN y
     ELSE [sum |-> y.sum + SumOf(x, Hit(x, same, a)),
           x |-> [x EXCEPT !.author = IF e.h = "from" /\ Hit(x, same, a) # {} THEN @ \cup {a} ELSE @]]

\* An entry of sf_score's loop: with a header, all later rules on that header are
\* applied, and marked (flag 2) to be passed over.
Apply(y, i, a) ==
  LET x == y.x
      e == x.entries[i]
      same == {j \in i..Len(x.entries) : x.entries[j].t = "rule" /\ x.entries[j].h = e.h}
  IN IF e.t # "rule" THEN y
     ELSE IF i \in x.done THEN [y EXCEPT !.x.done = @ \ {i}]
     ELSE IF ~Has(e, a) THEN y
     ELSE [sum |-> y.sum + SumOf(x, Hit(x, same, a)),
           x |-> [x EXCEPT !.done = @ \cup (same \ {i}),
                           !.author = IF e.h = "from" /\ Hit(x, same, a) # {} THEN @ \cup {a} ELSE @]]

\* The header of the article is read when a rule needs more than the overview has.
HeaderRead(x, a) ==
  IF a \in Lost /\ \E i \in DOMAIN x.entries : x.entries[i].t = "rule" /\ x.entries[i].h = "x"
  THEN [x EXCEPT !.gone = @ \cup {a}] ELSE x

\* sf_score: the score of a, and what scoring it changes.
Bonus(y, a) == [y EXCEPT !.sum = @ + (IF y.x.new # None /\ a \notin y.x.author THEN y.x.new ELSE 0)
                                   + (IF y.x.reply # None /\ a \in Replies THEN y.x.reply ELSE 0)]
SfScore(x, a) ==
  IF ~Avail(x, a) THEN [x |-> x, sum |-> LOWSCORE]
  ELSE IF x.entries = <<>> THEN [x |-> x, sum |-> 0]
  ELSE Bonus(FoldLeft(LAMBDA z, i : Apply(z, i, a), [x |-> HeaderRead(x, a), sum |-> 0],
                      [i \in DOMAIN x.entries |-> i]), a)

\* sc_set_score
SetScore(x, a, s) ==
  IF ~Avail(x, a) THEN x
  ELSE [x EXCEPT !.score[a] = s, !.old = @ \ {a},
                 !.read = IF x.kill # None /\ s <= x.kill /\ Unread(x, a) THEN @ \cup {a} ELSE @]
Settled(y, a) == SetScore(y.x, a, y.sum)
Basic(x, a) == Settled(SfScore(x, a), a)

\* sc_score_art, when scoring is initialized.
ScoreArt(x, a) == IF Avail(x, a) /\ ~Scored(x, a) THEN Basic(x, a) ELSE x

-----------------------------------------------------------------------------
(* Saved scores: tokens of a line, a score, a repetition or a gap.          *)

Tok(op, n) == [op |-> op, n |-> n]

\* sc_sv_make_line: `start' is the last article of the lines before; art is the next one
\* to look at, at the last one that this line is about, and prev the score before.  A
\* line has about 50 tokens.
MakeLine(x, start) ==
  LET T[art \in Nat, at \in Nat, prev \in Int, out \in Seq([op : STRING, n : Int])] ==
        IF art > x.last \/ Len(out) >= 50 THEN [toks |-> out, at |-> at]
        ELSE IF ~(Unread(x, art) /\ Scored(x, art)) THEN T[Next_(x, art), at, prev, out]
        ELSE LET gap == IF at = art - 1 THEN <<>> ELSE <<Tok("s", art - at - 1)>>
                 same(b) == Unread(x, b) /\ x.score[b] = x.score[art]
                 run == {b \in Data(x) : b >= art /\ \A c \in Data(x) : c \in art..b => same(c)}
             IN IF x.score[art] = prev
                THEN T[Next_(x, Max(run)), Max(run), prev, out \o gap \o <<Tok("r", Cardinality(run))>>]
                ELSE T[Next_(x, art), art, x.score[art], out \o gap \o <<Tok("n", x.score[art])>>]
  IN T[First(x, x.first), start, None, <<>>]

\* sc_sv_use_line: y.a is the article the next token is about.
Used(y) == [x |-> IF Unread(y.x, y.a) THEN SetScore(y.x, y.a, y.s) ELSE y.x, a |-> y.a + 1, s |-> y.s]

\* (mutant) After a gap, a repetition is of the score 0.
UseTokenForgets(y, t) ==
  CASE t.op = "n" -> Used([y EXCEPT !.s = t.n])
    [] t.op = "r" -> FoldLeft(LAMBDA z, i : Used(z), y, [i \in 1..t.n |-> i])
    [] t.op = "s" -> [y EXCEPT !.a = @ + t.n, !.s = 0]

UseToken(y, t) ==
  CASE t.op = "n" -> Used([y EXCEPT !.s = t.n])
    [] t.op = "r" -> FoldLeft(LAMBDA z, i : Used(z), y, [i \in 1..t.n |-> i])
    [] t.op = "s" -> [y EXCEPT !.a = @ + t.n]
UseLine(x, a, toks) == FoldLeft(UseToken, [x |-> x, a |-> a, s |-> 0], toks)

\* A gap that is negative is not digits: the loop over the line never gets past it.
Endless(lines) == \E i \in DOMAIN lines : \E j \in DOMAIN lines[i] : lines[i][j].op = "s" /\ lines[i][j].n < 0

\* sc_load_scores: the file is read once.
Loaded(x) ==
  IF ~x.mem.has THEN x
  ELSE IF Endless(x.mem.lines) THEN [x EXCEPT !.pc = "stuck"]
  ELSE FoldLeft(LAMBDA w, l : UseLine(w.x, w.a, l), [x |-> x, a |-> x.mem.start, s |-> 0], x.mem.lines).x
Load(x) == Loaded(IF x.mem.got THEN x ELSE [x EXCEPT !.mem = x.saved])

-----------------------------------------------------------------------------
(* Beginning and ending to score.                                           *)

Cleaned(x) == [x EXCEPT !.init = FALSE, !.entries = <<>>, !.done = {}]

\* sc_cleanup: to save the scores is a loop (SaveLine) if there is an article.
Cleanup(x) ==
  IF ~x.init THEN x
  ELSE IF ~x.savescores THEN Cleaned(x)
  ELSE LET y == [x EXCEPT !.mem = [got |-> TRUE, has |-> TRUE, start |-> x.first, lines |-> <<>>]]
       IN IF x.first <= x.last THEN [y EXCEPT !.pc = "saving", !.at = x.first - 1] ELSE Cleaned(y)

\* One article is scored, the last that can be, or there is nothing to score.
AnyScored(x) == \E a \in Data(x) : Scored(x, a)
OneScored(x) == FoldLeft(LAMBDA y, a : IF AnyScored(y) THEN y ELSE ScoreArt(y, a), x,
                         Reverse(SetToSortSeq(Data(x), <)))
Started(x) == IF ~AnyScored(x) THEN Cleanup(x)
              ELSE IF x.entries = <<>> THEN FoldLeft(ScoreArt, x, Reverse(SetToSortSeq(Data(x), <))) ELSE x

\* sc_init
Begun(x) == [x EXCEPT !.kill = None, !.savescores = TRUE, !.fill = 0, !.init = TRUE,
                      !.fillread = x.readelig \/ x.first > x.last,
                      !.filled = @ \/ x.readelig \/ x.first > x.last]
WithScores(x) == IF x.pc = "stuck" THEN x ELSE Started(OneScored(SfInit(x)))
ScInit(x, rescoring) ==
  IF x.last = 0 THEN x ELSE IF rescoring THEN WithScores(Begun(x)) ELSE WithScores(Load(Begun(x)))

\* sc_score_art
Asked(x, a) == IF x.pc \in {"saving", "stuck"} THEN x ELSE ScoreArt(x, a)
Demanded(x, a) == Asked(IF x.init \/ ~Avail(x, a) THEN x ELSE ScInit(x, FALSE), a)

-----------------------------------------------------------------------------
(* The steps.                                                               *)

Starts ==
  {[part |-> "scores", pc |-> "out", disk |-> d, known |-> {}, cache |-> [f \in Files |-> <<>>],
    entries |-> <<>>, done |-> {}, level |-> 0, xhead |-> FALSE, abbr |-> "",
    kill |-> None, new |-> None, reply |-> None, init |-> FALSE, savescores |-> FALSE,
    fill |-> 0, fillread |-> FALSE, filled |-> FALSE, readelig |-> r,
    arrived |-> n, last |-> 0, first |-> 1, holes |-> h, read |-> {}, gone |-> {},
    score |-> [a \in Arts |-> None], author |-> {}, old |-> {}, exempt |-> {},
    mem |-> [got |-> FALSE, has |-> FALSE, start |-> 0, lines |-> <<>>],
    saved |-> s, at |-> 0, even |-> FALSE, keys |-> 0, visits |-> 0] :
     d \in FileSets, r \in Elig, n \in Arrivals, h \in HoleSets, s \in SavedFirst}
Init == v \in Starts

In(pc) == v.part = "scores" /\ v.pc = pc
Forgotten(x) == [x EXCEPT !.score = [a \in Arts |-> None], !.author = {}, !.gone = {}, !.old = {}]

\* do_newsgroup: the articles may still be in memory.
Enter ==
  /\ In("out") /\ v.visits < MaxVisits
  /\ \E kept \in BOOLEAN :
       LET r == v.read \cup v.gone
           x == [(IF kept THEN v ELSE Forgotten(v)) EXCEPT
                   !.pc = "in", !.visits = @ + 1, !.last = v.arrived, !.filled = FALSE, !.exempt = {}, !.read = r,
                   !.first = Min(((1..v.arrived) \ (v.holes \cup r)) \cup {v.arrived + 1})]
       IN v' = ScInit(x, FALSE)

Arrive == In("out") /\ v.last > 0 /\ v.arrived < MaxArt /\ v' = [v EXCEPT !.arrived = MaxArt]

\* grow_ng: what arrives is scored.
Grow ==
  /\ In("in") /\ v.last < MaxArt
  /\ LET x == [v EXCEPT !.last = MaxArt, !.arrived = MaxArt]
     IN v' = FoldLeft(Demanded, x, SetToSortSeq((v.last + 1..MaxArt) \ v.holes, <))

\* sc_lookahead: where it begins.
LookBegins ==
  /\ In("in") /\ v.init
  /\ v' = [v EXCEPT !.pc = "ahead",
                    !.fill = IF @ < v.first /\ ~v.fillread THEN First(v, v.first) - 1 ELSE First(v, @)]

\* (mutant) Articles that are read are passed over in any case.
PassReadToo(x, a) == a < x.last /\ (Scored(x, a) \/ ~Unread(x, a))

\* Articles that are passed over.
Pass(x, a) == a < x.last /\ (Scored(x, a) \/ (~x.fillread /\ ~Unread(x, a)))

\* A round of its loop.
LookOn ==
  /\ In("ahead") /\ v.fill < v.last
  /\ LET a == Min({b \in Data(v) : b > v.fill /\ ~Pass(v, b)})
         x == [v EXCEPT !.fill = a]
     IN v' = IF Scored(v, a) \/ (~v.fillread /\ ~Unread(v, a)) THEN x ELSE ScoreArt(x, a)

\* A key is typed, or there are no more.
LookEnds == In("ahead") /\ v' = [v EXCEPT !.pc = "in"]

Typed == In("in") /\ v.keys < MaxKeys
Did(x) == v' = [x EXCEPT !.keys = @ + 1]

MarkRead == Typed /\ \E a \in Arts : Unread(v, a) /\ Did([v EXCEPT !.read = @ \cup {a}])
MarkUnread == Typed /\ \E a \in (v.read \cap Data(v)) \ v.gone :
                Did([v EXCEPT !.read = @ \ {a}, !.exempt = @ \cup {a}])

\* U in scan mode.
ToggleRead == Typed /\ Did([v EXCEPT !.readelig = ~@, !.fillread = ~v.readelig,
                                     !.filled = @ \/ ~v.readelig, !.fill = IF v.readelig THEN @ ELSE 0])

\* The selector and scan mode ask for the score of an article.
Demand == Typed /\ \E a \in Data(v) : Did(Demanded(v, a))

\* sc_rescore_arts: everything is scored, whether or not it has a score.
RescoreArts(x) == FoldLeft(Basic, x, SetToSortSeq({a \in Data(x) : a \notin x.gone}, <))

\* The menus offer the score file of all groups, that of this group and abbreviations.
OfferedFiles(x) == {Levels[1], Levels[Len(Levels)], x.abbr} \ {""}

\* sc_append and sf_append: with ! the line takes effect now; else it is checked and
\* goes to a file.
AppendNow == /\ Typed /\ v.init
             /\ \E l \in TypedLines : Did(RescoreArts(DoLine(v, l)))

AppendTo ==
  /\ Typed /\ v.init
  /\ \E l \in TypedLines, f \in OfferedFiles(v) :
       /\ LineOK(v, l)
       /\ Did(FileClear([v EXCEPT !.disk[f] = Append(@, l)]))

\* sf_edit_file
Edit == /\ Typed
        /\ \E f \in Files, e \in Edited :
             Did(FileClear([v EXCEPT !.disk[f] = e]))

\* sc_rescore
Rescore ==
  /\ Typed /\ v.init
  /\ LET x == Cleanup(v) IN Did(IF x.pc = "saving" THEN x ELSE ScInit(x, TRUE))

\* `s': the score of the article under the cursor is worked out and shown.
ShowScore == /\ Typed /\ v.init
             /\ \E a \in Data(v) : Did(ScoreArt(SfScore(v, a).x, a))

\* The end of do_newsgroup.
Leave == In("in") /\ LET x == Cleanup(v) IN v' = IF x.pc = "saving" THEN x ELSE [x EXCEPT !.pc = "out"]

\* A line of sc_save_scores.  sc_sv_make_line returns the article that it was given,
\* which is not after the last one, so that the loop goes on.  Only the first two
\* lines are kept here; all others are like the second.
SaveLine ==
  /\ In("saving")
  /\ LET l == MakeLine(v, v.at)
     IN v' = [v EXCEPT !.even = ~@, !.at = l.at,
                       !.mem.lines = IF Len(@) < 2 THEN Append(@, l.toks) ELSE @]

\* finalize: at the end, or by a signal.  Another trn is started.
Restarted(x) ==
  [Forgotten(x) EXCEPT !.pc = "out", !.init = FALSE, !.entries = <<>>, !.done = {}, !.known = {},
                       !.saved = IF x.mem.got THEN x.mem ELSE @, !.read = @ \cup x.gone, !.even = FALSE,
                       !.mem = [got |-> FALSE, has |-> FALSE, start |-> 0, lines |-> <<>>]]
Quit   == In("out") /\ v.visits > 0 /\ v' = Restarted(v)
Hangup == v.part = "scores" /\ v.pc \in {"in", "ahead", "saving", "stuck"} /\ v' = Restarted(v)

\* The bounds are reached: another user.
OtherUser == In("out") /\ v.visits = MaxVisits /\ v' \in Starts

Next == Enter \/ Arrive \/ Grow \/ LookBegins \/ LookOn \/ LookEnds \/ MarkRead \/ MarkUnread
        \/ ToggleRead \/ Demand \/ AppendNow \/ AppendTo \/ Edit \/ Rescore \/ ShowScore \/ Leave
        \/ SaveLine \/ Quit \/ Hangup \/ OtherUser

Spec == Init /\ [][Next]_v
FairSpec == Spec /\ WF_v(SaveLine)

-----------------------------------------------------------------------------
(* Correctness                                                              *)

Up == v.part = "scores" /\ v.pc \in {"in", "ahead"} /\ v.init

\* What is remembered of the score files is what they have, and the marks of the files
\* in the list of rules are nested, whatever was included, excluded, added and edited.
RulesFollowFiles ==
  /\ v.part = "scores" => \A f \in v.known : v.cache[f] = v.disk[f]
  /\ Up =>
       LET marks == SelectSeq(v.entries, LAMBDA e : e.t \in {"start", "end"}) IN
       \A i \in DOMAIN marks :
         IF marks[i].t = "start"
         THEN \E j \in i + 1..Len(marks) :
                /\ marks[j] = [marks[i] EXCEPT !.t = "end"]
                /\ \A k \in i + 1..j - 1 : marks[k].n > marks[i].n
         ELSE \E j \in 1..i - 1 : marks[j] = [marks[i] EXCEPT !.t = "start"]

\* A score is the sum of the rules that match, each once: but for scores that were
\* saved or that rules gave before they changed.  An author that was known to an
\* earlier rule is not new.
ScoresAreSums ==
  Up => \A a \in Data(v) :
          Scored(v, a) /\ Avail(v, a) /\ a \notin v.old =>
            LET rules == {i \in DOMAIN v.entries : v.entries[i].t = "rule"}
                hits == {i \in Hit(v, rules, a) : Has(v.entries[i], a)}
                new == IF v.new = None \/ \E i \in hits : v.entries[i].h = "from" THEN 0 ELSE v.new
                reply == IF v.reply # None /\ a \in Replies THEN v.reply ELSE 0
                base == SumOf(v, hits) + reply
            IN IF v.entries = <<>> THEN v.score[a] = 0
               ELSE v.score[a] = base + new \/ (v.score[a] = base /\ a \in v.author)

\* When the background has come to the last article, all that can be listed have a
\* score.  Those that were marked as unread since are left out, as is the first one
\* if articles that were read were ever to be scored, or if there is no room for its
\* number.
LookaheadScores ==
  Up /\ v.pc = "in" /\ v.fill = v.last =>
    \A a \in Data(v) \ (v.gone \cup v.exempt) :
      (v.fillread \/ (Unread(v, a) /\ a >= v.first)) =>
        \/ Scored(v, a)
        \/ v.filled /\ a = First(v, 1)
        \/ v.first \in v.holes /\ a = First(v, v.first)

\* The first line that is saved gives back every score it is about, if the list of
\* articles has no holes.
ScoresReadBack ==
  Up /\ v.holes = {} =>
    LET blank == [v EXCEPT !.score = [a \in Arts |-> None], !.kill = None]
        back == UseLine(blank, v.first, MakeLine(v, v.first - 1).toks).x.score
    IN \A a \in Data(v) : a >= v.first /\ Unread(v, a) => back[a] = v.score[a]

\* The scores are saved "for this group on exit" (score.h:22), and then the group is
\* left.
SavingEnds == [](v.part = "scores" /\ v.pc = "saving" => <>(v.pc = "out"))
=============================================================================
