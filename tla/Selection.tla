------------------------------ MODULE Selection ------------------------------
(***************************************************************************)
(* Selecting, killing and returning articles in the open group: the flags  *)
(* of articles and subjects, the count of selected articles, and the marks *)
(* on the selector's screen (rthread.cpp, bits.cpp, rt-select.cpp, ng.cpp, *)
(* ngstuff.cpp).                                                           *)
(*                                                                         *)
(* The reader and the selector change the same flags.  In the selector the *)
(* user marks items, which are articles, subjects or threads; one that is  *)
(* marked as killed loses its unread articles only when the selector is    *)
(* left.  The selector of read articles (`U') keeps its choice in flags of *)
(* its own, until it is left and the chosen articles become unread.        *)
(*                                                                         *)
(* Everything fits one page (Pages has the pages), every article is        *)
(* cached, and g_artp is any article.                                      *)
(***************************************************************************)
EXTENDS Integers, FiniteSets, FiniteSetsExt, SequencesExt

CONSTANTS
    SubjectOf,    \* the subject of each article, a sequence of numbers
    ThreadOf,     \* the thread of each subject, a sequence of numbers
    Parent,       \* the parent of each article, 0 for a root
    Late,         \* the articles that arrive while the group is open
    ReaderKeys,   \* the commands of the reader that the user types
    ItemKeys,     \* the keys that mark an item in the selector
    PageKeys,     \* its other commands, by whether it shows read articles
    Performed,    \* the commands that may follow `:' or `::', likewise
    MaxCommands   \* the bound of the model: how many commands are typed

Articles == DOMAIN SubjectOf
Subjects == DOMAIN ThreadOf
Modes == {"article", "subject", "thread"}

VARIABLES
    g,        \* the group: flags, counts and what the selector shows
    typed     \* the commands that were typed (bounded)

vars == <<g, typed>>

----------------------------------------------------------------------------
(* Articles, subjects and threads.                                         *)

SubjectsOf(X) == {SubjectOf[x] : x \in X}
In(z, SS) == {x \in z.exists : SubjectOf[x] \in SS}
Ring(s) == {u \in Subjects : ThreadOf[u] = ThreadOf[s]}

RECURSIVE Under(_, _)
Under(x, y) == y = x \/ (y # 0 /\ Under(x, Parent[y]))

Below(z, x) == {y \in z.exists : Under(x, y)}

\* g_sel_mask chooses the flags that the selector works on.
Chosen(z) == IF z.reread THEN z.delsel ELSE z.sel
Flagged(z) == IF z.reread THEN z.sdelsel ELSE z.ssel
SetChosen(z, X) == IF z.reread THEN [z EXCEPT !.delsel = X] ELSE [z EXCEPT !.sel = X]
SetFlagged(z, SS) == IF z.reread THEN [z EXCEPT !.sdelsel = SS] ELSE [z EXCEPT !.ssel = SS]

\* The articles that can be chosen: the unread ones, or the read ones in the `U' selector.
Wanted(z) == IF z.reread THEN z.exists \ z.unread ELSE z.exists \cap z.unread

----------------------------------------------------------------------------
(* Marking articles read and unread.                                       *)

Oneless(z, X) ==
    LET gone == X \cap z.unread IN
    SetChosen([z EXCEPT !.unread = @ \ gone,
                        !.count = @ - Cardinality(gone \cap Chosen(z)),
                        !.toread = Max({0, @ - Cardinality(gone)})],
              Chosen(z) \ gone)

Onemore(z, X) ==
    LET more == X \ z.unread
        follow == {x \in more : SubjectOf[x] \in Flagged(z)}
        y == [z EXCEPT !.unread = @ \cup more, !.del = @ \ more,
                       !.toread = @ + Cardinality(more)]
    IN IF z.only
       THEN SetChosen([y EXCEPT !.count = @ + Cardinality(follow)], Chosen(z) \cup follow)
       ELSE [y EXCEPT !.svisit = @ \cup SubjectsOf(more)]

----------------------------------------------------------------------------
(* Selecting.                                                              *)

SelectArticle(z, x) ==
    LET can == {x} \cap Wanted(z)
        new == can \ Chosen(z)
        s == SubjectOf[x]
        y == [z EXCEPT !.count = @ + Cardinality(new),
                       !.del = @ \ can,
                       !.sdel = @ \ {s},
                       !.svisit = @ \cup {s},
                       !.only = @ \/ z.count + Cardinality(new) # 0]
    IN SetFlagged(SetChosen(y, Chosen(z) \cup can), Flagged(z) \cup {s})

\* (mutant) A subject that is selected keeps the mark of a killed one.
SelectSubjectsStillKilled(z, SS) ==
    LET new == (Wanted(z) \cap In(z, SS)) \ Chosen(z)
        got == SubjectsOf(new)
        y == [z EXCEPT !.count = @ + Cardinality(new),
                       !.svisit = @ \cup got,
                       !.swas = @ \cup SS,
                       !.only = @ \/ new # {}]
    IN SetFlagged(SetChosen(y, Chosen(z) \cup new), Flagged(z) \cup got)

SelectSubjects(z, SS) ==
    LET new == (Wanted(z) \cap In(z, SS)) \ Chosen(z)
        got == SubjectsOf(new)
        y == [z EXCEPT !.count = @ + Cardinality(new),
                       !.sdel = @ \ got,
                       !.svisit = @ \cup got,
                       !.swas = @ \cup SS,
                       !.only = @ \/ new # {}]
    IN SetFlagged(SetChosen(y, Chosen(z) \cup new), Flagged(z) \cup got)

\* Only the subject of the article at the top is flagged.
SelectSubthread(z, x) ==
    LET new == (Wanted(z) \cap Below(z, x)) \ Chosen(z)
        s == IF new = {} THEN {} ELSE {SubjectOf[x]}
        y == [z EXCEPT !.count = @ + Cardinality(new),
                       !.sdel = @ \ s,
                       !.svisit = @ \cup s,
                       !.only = @ \/ new # {}]
    IN SetFlagged(SetChosen(y, Chosen(z) \cup new), Flagged(z) \cup s)

\* g_selected_count stops at 0 unless it is below already.
Fewer(z, n) == IF z.count < 0 THEN z.count - n ELSE Max({0, z.count - n})

\* killed is g_sel_rereading while the function runs.
DeselectArticle(z, x, killed) ==
    LET y == SetChosen([z EXCEPT !.count = Fewer(z, Cardinality({x} \cap Chosen(z)))],
                       Chosen(z) \ {x})
    IN IF killed /\ z.mode = "article" THEN [y EXCEPT !.del = @ \cup {x}] ELSE y

DeselectSubjects(z, SS, killed) ==
    LET off == In(z, SS) \cap Chosen(z)
        y == [z EXCEPT !.count = Fewer(z, Cardinality(off)),
                       !.svisit = @ \ SS,
                       !.swas = @ \ SS,
                       !.sdel = IF killed THEN @ \cup SS ELSE @ \ SS]
    IN SetFlagged(SetChosen(y, Chosen(z) \ off), Flagged(z) \ SS)

----------------------------------------------------------------------------
(* Killing, and bringing back.                                             *)

\* (mutant) AFFECT_UNSEL is not heeded.
KillSubjectsAll(z, SS, spared, return) ==
    LET X == In(z, SS)
        y == IF return THEN [z EXCEPT !.yank = @ \cup X] ELSE z
    IN [Oneless(y, X) EXCEPT !.svisit = @ \ SS, !.swas = @ \ SS]

\* spared is the flag that AFFECT_UNSEL leaves alone; with return the articles come back.
KillSubjects(z, SS, spared, return) ==
    LET X == In(z, SS)
        y == IF return THEN [z EXCEPT !.yank = @ \cup X] ELSE z
    IN [Oneless(y, X \ spared) EXCEPT !.svisit = @ \ SS, !.swas = @ \ SS]

KillSubthread(z, x, return) ==
    LET X == Below(z, x) IN
    Oneless(IF return THEN [z EXCEPT !.yank = @ \cup X] ELSE z, X)

\* unkill_subject in the `U' selector: the chosen articles become unread and selected.
UnkillChosen(z) ==
    LET back == z.delsel \cap z.exists
        new == IF z.only THEN back \ z.sel ELSE {}
        got == SubjectsOf(new) \ z.ssel
    IN [z EXCEPT !.toread = @ + Cardinality(back \ z.unread),
                 !.count = @ + Cardinality(new),
                 !.sel = @ \cup back,
                 !.unread = @ \cup back,
                 !.del = @ \cap back,
                 !.delsel = {},
                 !.ssel = @ \cup got,
                 !.svisit = @ \cup got,
                 !.swas = @ \cup got,
                 !.sdel = {},
                 !.sdelsel = {}]

\* unkill_subject from the reader.
UnkillSubjects(z, SS) ==
    LET y == Onemore(z, In(z, SS))
        new == IF z.only THEN (In(y, SS) \cap y.unread) \ y.sel ELSE {}
        got == SubjectsOf(new) \ y.ssel
    IN [y EXCEPT !.sel = @ \cup new,
                 !.del = @ \ new,
                 !.count = @ + Cardinality(new),
                 !.ssel = @ \cup got,
                 !.svisit = @ \cup got,
                 !.swas = @ \cup got,
                 !.sdel = @ \ SS,
                 !.sdelsel = @ \ SS]

UnkillSubthread(z, x) ==
    LET y == Onemore(z, Below(z, x))
        new == IF z.only THEN Below(z, x) \ y.sel ELSE {}
        s == SubjectOf[x]
    IN [y EXCEPT !.sel = @ \cup new,
                 !.count = @ + Cardinality(new),
                 !.sdel = @ \ {s},
                 !.ssel = @ \cup {s},
                 !.svisit = @ \cup {s},
                 !.only = @ \/ y.count + Cardinality(new) # 0]

\* One article that `M' put aside comes back.
Yanked(z, x) ==
    LET y == Onemore(z, {x}) IN
    [(IF y.only THEN SelectArticle(y, x) ELSE y) EXCEPT !.yank = @ \ {x}]

Yankback(z) == FoldLeft(Yanked, z, SetToSortSeq(z.yank, <))

----------------------------------------------------------------------------
(* Counting.                                                               *)

\* What the visit flags are before the subjects are counted again.
Visits(z, cs) ==
    CASE cs = "RETAIN" -> z.svisit
      [] cs = "RESELECT" -> z.sold
      [] OTHER -> {}

\* The subjects that stay flagged; kept are those whose articles are counted.
CountFlags(z, cs, kept) ==
    LET flags == IF cs \in {"UNSELECT", "UNSEL_STORE", "RESELECT"} THEN kept ELSE Flagged(z)
        y == [z EXCEPT !.count = Cardinality(In(z, kept) \cap Wanted(z) \cap Chosen(z)),
                       !.ssel = IF z.reread THEN @ \ kept ELSE @,
                       !.sdel = @ \ flags,
                       !.busy = SubjectsOf(Wanted(z)),
                       !.obj = Cardinality(Wanted(z)),
                       !.sold = IF cs = "UNSEL_STORE" THEN z.svisit ELSE @,
                       !.svisit = Visits(z, cs) \cup
                                  IF cs = "RESELECT" THEN {}
                                  ELSE SubjectsOf(Wanted(z)) \cap
                                       (IF z.only THEN flags ELSE Subjects)]
    IN SetFlagged(y, flags)

CountSubjects(z, cs) ==
    LET some == SubjectsOf(Wanted(z) \cap Chosen(z))
        y == CountFlags(z, cs, CASE cs = "RESELECT" -> z.sold
                                 [] cs = "UNSEL_STORE" -> some
                                 [] OTHER -> some \cap Flagged(z))
    IN IF cs \in {"NORM", "UNSELECT", "UNSEL_STORE"} /\ y.obj = 0 /\ ~y.only
       THEN [y EXCEPT !.svisit = Subjects] ELSE y

----------------------------------------------------------------------------
(* The selector's screen.                                                  *)

NoList == {0}       \* g_artptr_list is null

Items(z) ==
    CASE z.mode = "article" -> z.list
      [] z.mode = "subject" -> z.busy
      [] OTHER -> {ThreadOf[s] : s \in z.busy}

\* the subjects that a mark on the item changes
Marked(z, i) ==
    CASE z.mode = "article" -> {SubjectOf[i]}
      [] z.mode = "subject" -> {i}
      [] OTHER -> {s \in Subjects : ThreadOf[s] = i}

\* 0, 1, 2 and 3 are shown as ` ', `+', `-' and `*'.
SubjectStatus(z, s) ==
    CASE s \in z.sdel -> 2
      [] s \notin z.sdel /\ s \in Flagged(z) ->
            IF \E x \in In(z, {s}) : (x \in z.unread) # z.reread /\ x \notin Chosen(z)
            THEN 3 ELSE 1
      [] OTHER -> 0

ThreadStatus(z, each) ==
    CASE each = {} -> 0
      [] Cardinality(each) = 1 -> CHOOSE n \in each : TRUE
      [] OTHER -> 3

Status(z, i) ==
    CASE z.mode = "article" -> (IF i \in Chosen(z) THEN 1 ELSE 0) + (IF i \in z.del THEN 2 ELSE 0)
      [] z.mode = "subject" -> SubjectStatus(z, i)
      [] OTHER -> ThreadStatus(z, {SubjectStatus(z, s) : s \in Marked(z, i) \cap z.busy})

UpdatePage(z) == [z EXCEPT !.screen = [i \in DOMAIN z.screen |-> Status(z, i)]]

Display(z) == [z EXCEPT !.screen = [i \in Items(z) |-> Status(z, i)]]

\* What is read and not chosen starts as killed.
InitPages(z) ==
    LET y == IF z.mode = "article" THEN [z EXCEPT !.list = Wanted(z)] ELSE z IN
    IF ~z.reread THEN y
    ELSE IF z.mode = "article" THEN [y EXCEPT !.del = @ \cup (y.list \ z.delsel)]
    ELSE [y EXCEPT !.sdel = @ \cup (Subjects \ z.sdelsel)]

\* Each command that changes the list counts the subjects and shows the page again.
Redisplay(z, cs) == Display(InitPages(CountSubjects(z, cs)))

----------------------------------------------------------------------------
(* Marking items.                                                          *)

SelectItem(z, i) ==
    IF z.mode = "article" THEN SelectArticle(z, i) ELSE SelectSubjects(z, Marked(z, i))

DeselectItem(z, i, killed) ==
    IF z.mode = "article" THEN DeselectArticle(z, i, killed)
                          ELSE DeselectSubjects(z, Marked(z, i), killed)

DelayReturn(z, i) ==
    [z EXCEPT !.yank = @ \cup
        (IF z.mode = "article" THEN {i}
         ELSE {x \in In(z, Marked(z, i)) : (x \in z.unread) # z.reread})]

\* A letter, `.' and `@' turn into `+', `-' or `k' by what the screen shows.
ActionOf(z, i, key) ==
    CASE key = "y" -> IF z.screen[i] # 1 THEN "+" ELSE IF z.reread THEN "k" ELSE "-"
      [] key = "@" -> IF z.screen[i] = 2 THEN (IF z.reread THEN "+" ELSE " ")
                      ELSE IF z.reread THEN "k"
                      ELSE IF z.screen[i] = 1 THEN "-" ELSE "+"
      [] OTHER -> key

MarkItem(z, i, action) ==
    CASE action = "+" -> [SelectItem(z, i) EXCEPT !.screen[i] = 1]
      [] action = "-" -> [DeselectItem(z, i, FALSE) EXCEPT !.screen[i] = 0]
      [] action = "k" -> [DeselectItem(z, i, TRUE) EXCEPT !.screen[i] = 2]
      [] action = "M" -> [DeselectItem(DelayReturn(z, i), i, TRUE) EXCEPT !.screen[i] = 2]
      [] OTHER -> z

MarkAll(z) ==
    FoldLeft(LAMBDA y, i : MarkItem(y, i, ActionOf(y, i, "@")), z,
             SetToSortSeq(DOMAIN z.screen, <))

\* `*' in the article selector
MarkSubject(z, i) ==
    UpdatePage(IF z.screen[i] # 0 THEN DeselectSubjects(z, Marked(z, i), z.reread)
                                  ELSE SelectSubjects(z, Marked(z, i)))

----------------------------------------------------------------------------
(* Leaving the selector, and its other commands.                           *)

\* The articles of what is marked as killed are read.
KillMarked(z, SS) ==
    KillSubjects(z, IF z.mode = "thread" THEN UNION {Ring(s) : s \in SS} ELSE SS,
                 Chosen(z), FALSE)

SelCleanup(z) ==
    CASE z.reread -> UnkillChosen(z)
      [] ~z.reread /\ z.mode = "article" -> Oneless([z EXCEPT !.del = {}], z.del)
      [] OTHER -> KillMarked([z EXCEPT !.sdel = {}], z.sdel)

\* A command that keeps the selector open kills what is marked, but not among read articles.
Clean(z) == IF z.reread THEN z ELSE SelCleanup(z)

\* Only the first time (cmd is not 0) are all selected articles counted.
EnterAs(z, saved, cs) ==
    [Redisplay([z EXCEPT !.only = TRUE], cs)
     EXCEPT !.saved = saved, !.at = "selector", !.fresh = cs = "UNSEL_STORE"]

Enter(z, m, reread) ==
    EnterAs([z EXCEPT !.mode = m, !.reread = reread], z.only, "UNSEL_STORE")

Restart(z) == EnterAs(z, z.only, "NORM")

LeaveTo(z, back) ==
    LET y == [SelCleanup(z) EXCEPT !.reread = FALSE] IN
    [(IF back THEN CountSubjects([y EXCEPT !.only = z.saved], "RESELECT")
              ELSE CountSubjects([y EXCEPT !.only = y.count # 0], "UNSELECT"))
     EXCEPT !.at = "reader", !.screen = <<>>, !.saved = FALSE, !.fresh = FALSE,
            !.list = IF z.mode = "article" THEN @ ELSE NoList]

\* RETURN chooses the item if nothing is chosen.
Return(z, i) ==
    LeaveTo(IF z.count = 0 /\ (z.reread \/ z.screen[i] # 2) THEN SelectItem(z, i) ELSE z, FALSE)

\* `#' reads this item only.
OnlyThis(z, i) ==
    LeaveTo(SelectItem(DeselectItem([z EXCEPT !.ssel = {}, !.count = 0], i, z.reread), i), FALSE)

\* `X' and `D' junk what is not selected, `J' junks what is.
Junk(z, all) ==
    IF z.mode = "article"
    THEN Oneless(z, {x \in z.list : (x \in z.sel) = all \/ x \in z.del})
    ELSE KillSubjects(z, {s \in Subjects : ((s \in z.ssel) = all /\ s \in z.busy) \/ s \in z.sdel},
                      IF all THEN {} ELSE z.sel, FALSE)

JunkPage(z, key) ==
    LET y == CountSubjects(Junk(z, key = "J"), "UNSELECT") IN
    IF y.obj # 0 /\ (key = "J" \/ (key = "D" /\ y.count = 0))
    THEN Display(InitPages(y))
    ELSE LeaveTo(IF y.list # NoList /\ y.obj # 0 THEN [y EXCEPT !.list = Wanted(y)] ELSE y, FALSE)

\* `J' among the read articles kills the choice of all of them.
JunkChoice(z) == Display([DeselectSubjects(z, Subjects, TRUE) EXCEPT !.count = 0])

\* ask_catchup: all but the last n articles are read.
Catchup(z, n) ==
    LET old == {x \in z.exists : x <= Max(z.exists) - n}
        y == [SetChosen(z, Chosen(z) \ old) EXCEPT !.unread = @ \ old]
    IN IF n # 0
       THEN LET c == CountSubjects(y, "NORM") IN [c EXCEPT !.toread = c.obj]
       ELSE Yankback([y EXCEPT !.count = 0, !.only = FALSE, !.toread = 0])

CatchupPage(z, n) ==
    LET y == CountSubjects(Catchup(z, n), "UNSELECT") IN
    IF y.obj # 0 THEN Display(InitPages(y)) ELSE LeaveTo(y, FALSE)

YankPage(z) == Redisplay(Clean(Yankback(z)), "NORM")

----------------------------------------------------------------------------
(* `:command' and `::command' (thread_perform).                            *)

\* The subject where next_subj stops: in thread order only one for each thread.
Landings(z, all) ==
    LET visited == IF all THEN Subjects ELSE z.svisit IN
    IF z.mode = "thread" THEN {Min(visited \cap Ring(s)) : s \in visited} ELSE visited

\* first_art, which follows the thread whatever the selector shows
FirstArt(z, s) == Min(In(z, Ring(s)))

PerformSubject(z, c, s) ==
    LET x == FirstArt(z, s)
        SS == IF z.mode = "thread" THEN Ring(SubjectOf[x]) ELSE {SubjectOf[x]}
    IN CASE c = "++" -> SelectSubjects(z, SS)
         [] c = "--" -> DeselectSubjects(z, SS, z.reread)
         [] c = "J" -> KillSubjects(z, SS, {}, FALSE)

PerformSubjects(z, c, all) ==
    FoldLeft(LAMBDA y, s : IF (s \in Flagged(y)) = all \/ s \notin y.busy \/ In(y, Ring(s)) = {}
                           THEN y ELSE PerformSubject(y, c, s),
             z, SetToSortSeq(Landings(z, all), <))

PerformArticle(z, c, x) ==
    CASE c = "+" -> SelectArticle(z, x)
      [] c = "-" -> DeselectArticle(z, x, z.reread)
      [] c = "j" -> LET y == Oneless(z, {x}) IN
                    IF z.reread THEN DeselectArticle(y, x, TRUE) ELSE y
      [] c = "m" -> Onemore(z, {x} \cap z.exists)
      [] c = "M" -> Oneless([z EXCEPT !.yank = @ \cup {x}], {x})
      [] c = "." -> SelectSubthread(z, x)
      [] c = "," -> KillSubthread(z, x, FALSE)
      [] c = "k" -> KillSubjects(z, {SubjectOf[x]}, {}, FALSE)

PerformArticles(z, c, all) ==
    LET unread == ~z.reread /\ c # "m"
        X == IF z.list # NoList THEN z.list
             ELSE In(z, UNION {Ring(s) : s \in Landings(z, all)})
    IN FoldLeft(LAMBDA y, x : IF (x \in y.unread) = unread /\ (x \in Chosen(y)) # all
                              THEN PerformArticle(y, c, x) ELSE y,
                z, SetToSortSeq(X, <))

ThreadPerform(z, c, all) ==
    IF c \in {"++", "--", "J"} THEN PerformSubjects(z, c, all) ELSE PerformArticles(z, c, all)

\* A subject that was marked as killed loses all its flags.
KillPerformed(z) ==
    LET SS == z.sdel IN
    IF z.reread THEN z
    ELSE KillMarked([z EXCEPT !.sdel = {}, !.ssel = @ \ SS, !.sdelsel = @ \ SS,
                              !.svisit = @ \ SS, !.sold = @ \ SS, !.swas = @ \ SS], SS)

\* The page is built again unless the command only selected or deselected.
PerformPage(z, c, all, clean) ==
    LET y == CountSubjects(KillPerformed(ThreadPerform(z, c, all)),
                           IF z.reread THEN "NORM" ELSE "UNSELECT")
    IN IF clean /\ y.toread = z.toread THEN UpdatePage(y) ELSE Display(InitPages(y))

----------------------------------------------------------------------------
(* The behaviour.                                                          *)

Init == typed = 0 /\ \E unread \in SUBSET (Articles \ Late) :
    g = CountSubjects(
          [exists |-> Articles \ Late, unread |-> unread, sel |-> {}, del |-> {}, delsel |-> {},
           yank |-> {}, ssel |-> {}, sdel |-> {}, sdelsel |-> {}, svisit |-> {}, sold |-> {},
           swas |-> {}, busy |-> {}, obj |-> 0, count |-> 0, only |-> FALSE,
           toread |-> Cardinality(unread), reread |-> FALSE, mode |-> "thread", list |-> NoList,
           saved |-> FALSE, fresh |-> FALSE, at |-> "reader", screen |-> <<>>], "NORM")

Typed == typed < MaxCommands /\ typed' = typed + 1
Reading == g.at = "reader" /\ Typed
Selecting == g.at = "selector" /\ Typed
Keys == PageKeys[g.reread]

\* A command of the reader about its current article.
ReaderCommand(z, key, x) ==
    LET SS == {SubjectOf[x]}
        ring == Ring(SubjectOf[x])
    IN CASE key = "j" -> Oneless(z, {x})
         [] key = "m" -> Onemore(z, {x})
         [] key = "M" -> Oneless([z EXCEPT !.yank = @ \cup {x}], {x})
         [] key = "k" -> KillSubjects(z, SS, {}, FALSE)
         [] key = "J" -> KillSubjects(z, ring, {}, FALSE)
         [] key = "," -> KillSubthread(z, x, FALSE)
         [] key = "Ut" -> UnkillSubjects(z, ring)
         [] key = "Us" -> UnkillSubthread(z, x)
         [] key = "_+" -> SelectSubjects(z, ring)
         [] key = "_-" -> DeselectSubjects(z, IF z.mode = "thread" THEN ring ELSE SS, FALSE)
         [] key = "_m" -> KillSubthread(z, x, TRUE)
         [] key = "_M" -> KillSubjects(z, ring, {}, TRUE)

\* mark_all_unREAD
UnreadAll(z) ==
    LET c == CountSubjects([z EXCEPT !.unread = @ \cup z.exists], "NORM") IN
    [c EXCEPT !.toread = c.obj]

\* The end of the group, where the unread articles are counted again.
EndOfGroup(z) == LET c == CountSubjects(z, "RETAIN") IN [c EXCEPT !.toread = c.obj]

GroupCommand(z, key) ==
    CASE key = "Ua" -> UnreadAll(z)
      [] key = "c" -> Catchup(z, 0)
      [] key = "c1" -> Catchup(z, 1)
      [] key = "Y" -> Yankback(z)
      [] key = "end" -> EndOfGroup(z)

ReadArticle ==
    /\ Reading
    /\ \E key \in ReaderKeys \ {"Ua", "c", "c1", "Y", "end"}, x \in g.exists :
          g' = ReaderCommand(g, key, x)

ReadGroup ==
    /\ Reading
    /\ \E key \in ReaderKeys \cap {"Ua", "c", "c1", "Y", "end"} : g' = GroupCommand(g, key)

ReadPerform ==
    /\ Reading
    /\ \E c \in Performed[g.reread], all \in BOOLEAN : g' = ThreadPerform(g, c, all)

\* cache_article: an article follows its subject.
CacheArticle(z, x) ==
    LET s == SubjectOf[x] IN
    IF s \in Flagged(z) THEN SelectArticle(z, x)
    ELSE [(IF s \in z.swas THEN SelectArticle(z, x) ELSE z) EXCEPT !.svisit = @ \cup {s}]

\* grow_ng
Grow ==
    /\ Reading
    /\ \E x \in Late \ g.exists :
          LET y == CacheArticle([g EXCEPT !.exists = @ \cup {x}, !.unread = @ \cup {x},
                                          !.toread = @ + 1], x)
              c == CountSubjects(y, "NORM")
          IN g' = IF c.list = NoList THEN c ELSE [c EXCEPT !.list = Wanted(c)]

EnterSelector ==
    /\ Reading
    /\ \E m \in Modes, reread \in BOOLEAN : g' = Enter(g, m, reread)

MarkOne ==
    /\ Selecting
    /\ \E i \in DOMAIN g.screen, key \in ItemKeys \ {"@", "*"} :
          g' = MarkItem(g, i, ActionOf(g, i, key))

MarkMany ==
    /\ Selecting
    /\ \/ "@" \in ItemKeys /\ g' = MarkAll(g)
       \/ /\ "*" \in ItemKeys /\ g.mode = "article"
          /\ \E i \in DOMAIN g.screen : g' = MarkSubject(g, i)

\* `=' and `S'; `O', `R', `L' and `E' in the same mode
ChangeMode ==
    /\ Selecting
    /\ \E m \in Modes : g' = Redisplay([Clean(g) EXCEPT !.mode = m], "NORM")

\* `U', and the help that `?' shows
StartAgain ==
    /\ Selecting
    /\ \/ "U" \in Keys /\ g' = Restart([SelCleanup(g) EXCEPT !.reread = ~g.reread])
       \/ "?" \in Keys /\ g' = Restart(g)

JunkItems ==
    /\ Selecting
    /\ \E key \in Keys \cap {"X", "D", "J"} :
          \/ ~g.reread /\ g' = JunkPage(g, key)
          \/ g.reread /\ key = "J" /\ g' = JunkChoice(g)
          \/ g.reread /\ key # "J" /\ g' = LeaveTo(g, FALSE)

CatchupItems ==
    /\ Selecting
    /\ \/ "c" \in Keys /\ g' = CatchupPage(g, 0)
       \/ "c1" \in Keys /\ g' = CatchupPage(g, 1)

YankItems == Selecting /\ "Y" \in Keys /\ g.yank # {} /\ g' = YankPage(g)

PerformItems ==
    /\ Selecting
    /\ \E c \in Performed[g.reread], all, clean \in BOOLEAN : g' = PerformPage(g, c, all, clean)

\* `Z', `q', `N', `P' and `;', or ESC and `+'
LeaveSelector == Selecting /\ \E back \in BOOLEAN : g' = LeaveTo(g, back)

LeaveWith ==
    /\ Selecting
    /\ \E i \in DOMAIN g.screen :
          \/ g' = Return(g, i)
          \/ "#" \in Keys /\ g' = OnlyThis(g, i)

Next ==
    \/ ReadArticle \/ ReadGroup \/ ReadPerform \/ Grow
    \/ EnterSelector \/ MarkOne \/ MarkMany
    \/ ChangeMode \/ StartAgain \/ JunkItems \/ CatchupItems \/ YankItems \/ PerformItems
    \/ LeaveSelector \/ LeaveWith

Spec == Init /\ [][Next]_vars

----------------------------------------------------------------------------
(* Properties.                                                             *)

\* Every flag set has its type; the counts may not leave the bounds of the group.
TypeOK ==
    /\ g.at \in {"reader", "selector"}
    /\ g.unread \subseteq g.exists /\ g.sel \subseteq g.exists /\ g.yank \subseteq g.exists
    /\ UNION {g.ssel, g.sdel, g.sdelsel, g.svisit, g.swas, g.busy} \subseteq Subjects
    /\ g.count \in Int /\ g.toread \in Nat
    /\ DOMAIN g.screen \subseteq Articles \cup Subjects
    /\ \A i \in DOMAIN g.screen : g.screen[i] \in 0..3

\* g_selected_count, which the prompts show and which decides whether the reader stays
\* among the selected articles, is the number of the articles that are chosen.
CountIsRight == g.fresh /\ ~g.reread => g.count = Cardinality(Wanted(g) \cap Chosen(g))

\* The items that have articles to choose.
Live(z) ==
    CASE z.mode = "article" -> Wanted(z)
      [] z.mode = "subject" -> SubjectsOf(Wanted(z))
      [] OTHER -> {ThreadOf[s] : s \in SubjectsOf(Wanted(z))}

ArticlesOf(z, i) == IF z.mode = "article" THEN {i} ELSE In(z, Marked(z, i))

\* The marks on the screen are updated item by item and yet are those of the flags.
\* One that was killed in the article selector and unmarked is still flagged.
ScreenIsTrue ==
    g.fresh => \A i \in DOMAIN g.screen \cap Live(g) :
        \/ g.screen[i] = Status(g, i)
        \/ g.mode = "article" /\ g.screen[i] = 0 /\ i \in g.del

\* Leaving the selector of unread articles makes read all of an item that is marked as
\* killed, and among subjects and threads nothing that is selected.
MarkedAreKilled ==
    g.at = "selector" /\ ~g.reread =>
        LET lost == g.unread \ SelCleanup(g).unread IN
        /\ \A i \in Live(g) : Status(g, i) = 2 => ArticlesOf(g, i) \cap g.unread \subseteq lost
        /\ g.mode # "article" => lost \cap g.sel = {}

\* Every article that was put aside with `M' is unread after `Y', although `Y' also
\* kills what is marked as killed.
AllComeBack == g.at = "selector" /\ ~g.reread /\ g.only => g.yank \subseteq YankPage(g).unread

\* What leaving the selector of unread articles makes read is shown as killed (`k' marks
\* an item as killed and `m' unmarks it).  The article selector does not.
KilledAreShown ==
    g.at = "selector" /\ ~g.reread =>
        \A x \in g.unread \ SelCleanup(g).unread :
            \E i \in DOMAIN g.screen : x \in ArticlesOf(g, i) /\ g.screen[i] \in {2, 3}

\* To look at the selector and leave it with ESC changes nothing that is selected.  It does:
\* a subject that is selected but not to be visited is no longer counted.
EscapeChangesNothing ==
    g.at = "reader" => \A m \in {"subject", "thread"}, reread \in BOOLEAN :
        LET y == LeaveTo(Enter(g, m, reread), TRUE) IN
        y.unread = g.unread /\ y.sel = g.sel /\ y.only = g.only /\ y.count = g.count

\* g_selected_count is accurate (bits.cpp:403).  It is not after ESC in the `U' selector,
\* and can go below 0.
CountNeverNegative == g.count >= 0

=============================================================================
