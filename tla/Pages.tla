-------------------------------- MODULE Pages --------------------------------
(***************************************************************************)
(* The pages a selector shows its items on (rt-page.cpp, with the display  *)
(* and paging commands of rt-select.cpp).                                  *)
(*                                                                         *)
(* A selector walks one of four lists.  "list" stands for the groups to    *)
(* add and the items of the universal selector; "groups" for the           *)
(* newsgroups, whose number of unread articles may not be known before     *)
(* they are about to be displayed; "article" for the array of the wanted   *)
(* articles; "subject" and "thread" for the list of subjects, whose        *)
(* articles are the objects a page counts.  The article selector changes   *)
(* between the last three with `=', and keeps a page for the articles and  *)
(* one for the subjects.                                                   *)
(*                                                                         *)
(* Which items are wanted and which are selected is decided elsewhere      *)
(* (Selection): here they change as the commands let them.  The terminal   *)
(* is its height; an item of the list of subjects takes a line, or more    *)
(* with the authors shown.                                                 *)
(***************************************************************************)
EXTENDS Integers, Sequences, FiniteSets, SequencesExt, FiniteSetsExt

CONSTANTS
    NItems,    \* number of items: articles or groups
    SubjOf,    \* the subject of every article, as its place in the list
    ThreadOf,  \* the thread of every subject; those of one are adjacent
    Modes,     \* values of g_sel_mode to start in
    SModes,    \* modes that `S' may ask for
    Heights,   \* values of s_sel_max_line_cnt
    MaxItems,  \* length of g_sel_chars, the letters that pick an item
    Details,   \* values of g_sel_art_dmode: "s" or "d", "m", "l"
    Unknown,   \* newsgroups whose count may be unknown
    Pickable   \* bound: only these articles or groups are ever selected

VARIABLES
    s   \* the selector

Items == 1..NItems

Subjs == 1..Len(ThreadOf)

----------------------------------------------------------------------------
(* The items of the current list.                                          *)

BySubject(z) == z.mode \in {"subject", "thread"}

\* sp->misc: the wanted articles of a subject
Misc(z, p) == Cardinality({i \in z.live : SubjOf[i] = p})

\* the subjects an item of the list stands for, by its first one: in thread
\* mode, all of the thread
Mates == [p \in Subjs |-> {q \in Subjs : ThreadOf[q] = ThreadOf[p]}]

Members(z, p) == IF z.mode = "thread" THEN Mates[p] ELSE {p}

Heads(z) == {p \in Subjs : \A q \in Members(z, p) : p <= q}

Objects(z, p) == Cardinality({i \in z.live : SubjOf[i] \in Members(z, p)})

\* count_subject_lines and count_thread_lines
SubjectLines(z, p) ==
    LET m == Misc(z, p) IN
    CASE z.detail = "l" -> m
      [] z.detail = "m" -> IF m <= 4 THEN m ELSE (m - 4) \div 3 + 4
      [] OTHER -> IF m = 0 THEN 0 ELSE 1

LineCount(z, p) ==
    FoldSet(LAMBDA q, sum : sum + SubjectLines(z, q), 0, Members(z, p))

\* An item that is too long for the screen is trimmed to fit.
Trimmed(z, p) == IF LineCount(z, p) > z.height THEN z.height ELSE LineCount(z, p)

\* s_sel_max_per_page
PerPage(z) == IF MaxItems > z.height THEN z.height ELSE MaxItems

----------------------------------------------------------------------------
(* Turning the page.                                                       *)

Page(z) == IF BySubject(z) THEN z.pageSp ELSE z.page

\* The function that asked is told whether the page changed.
TurnTo(z, p) ==
    IF BySubject(z) THEN [z EXCEPT !.pageSp = p, !.moved = p # z.pageSp]
                    ELSE [z EXCEPT !.page = p, !.moved = p # z.page]

\* where the items are that are included in the display
Places(z) ==
    IF BySubject(z) THEN z.inclSp
    ELSE {k \in DOMAIN z.list : z.list[k] \in z.incl}

FirstPage(z) ==
    LET y == [z EXCEPT !.prior = 0, !.moved = FALSE] IN
    IF Places(z) = {} THEN y ELSE TurnTo(y, Min(Places(z)))

\* The array of articles ends at its limit, the other lists with a null pointer.
HasNext(z) ==
    CASE z.mode = "article" -> z.next <= Len(z.list)
      [] BySubject(z) -> z.nextSp # 0
      [] OTHER -> z.next # 0

\* (mutant) Adds the items of the page where it should add their articles.
NextPageItems(z) ==
    IF HasNext(z)
    THEN LET y == TurnTo(z, IF BySubject(z) THEN z.nextSp ELSE z.next)
         IN  [y EXCEPT !.prior = z.prior + Cardinality(z.shown), !.moved = TRUE]
    ELSE [z EXCEPT !.moved = FALSE]

NextPage(z) ==
    IF HasNext(z)
    THEN LET y == TurnTo(z, IF BySubject(z) THEN z.nextSp ELSE z.next)
         IN  [y EXCEPT !.prior = z.prior + z.obj, !.moved = TRUE]
    ELSE [z EXCEPT !.moved = FALSE]

\* the subjects or threads that take lines on the screen, among those of set
Visible(z, set) ==
    {p \in set \cap z.inclSp : p \in Heads(z) /\ Objects(z, p) > 0}

\* how many of a sequence of subjects or threads fit on a screen
HowMany(z, seq) ==
    Max({m \in 0..Len(seq) :
           /\ m <= PerPage(z)
           /\ FoldSeq(LAMBDA p, sum : sum + Trimmed(z, p), 0, SubSeq(seq, 1, m))
                <= z.height})

ObjectsOf(z, set) ==
    Cardinality({i \in z.live : \E p \in set : SubjOf[i] \in Members(z, p)})

\* as much of a sequence as fits
Batch(z, seq) == SubSeq(seq, 1, HowMany(z, seq))

PerPageOf(z, seq) == SubSeq(seq, 1, Min({PerPage(z), Len(seq)}))

Down(set) == SetToSortSeq(set, >)

Up(set) == SetToSortSeq(set, <)

\* the places in front of the page, or all of them when there is no page
Before(p, places) == IF p = 0 THEN places ELSE {k \in places : k < p}

BackTo(z, back) ==
    IF back = <<>> THEN [z EXCEPT !.moved = FALSE]
    ELSE [z EXCEPT !.pageSp = Last(back), !.moved = TRUE,
                   !.prior = z.prior - ObjectsOf(z, ToSet(back))]

\* (mutant) Goes back a page of items, however many lines they take.
BackByItems(z) ==
    BackTo(z, PerPageOf(z, Down(Visible(z, Before(z.pageSp, Subjs)))))

BackSubjects(z) == BackTo(z, Batch(z, Down(Visible(z, Before(z.pageSp, Subjs)))))

\* In the article selector, a page that cannot go back falls through to the
\* page of the subjects; a null page is followed.
PrevTo(z, back) ==
    IF back # <<>>
    THEN [z EXCEPT !.page = Last(back), !.moved = TRUE,
                   !.prior = z.prior - Len(back)]
    ELSE IF BySubject(z) \/ z.mode = "article" THEN BackSubjects(z)
    ELSE [z EXCEPT !.moved = FALSE]

PrevPage(z) ==
    IF z.mode = "article" /\ z.page = 0 THEN [z EXCEPT !.crashed = TRUE]
    ELSE PrevTo(z, IF BySubject(z) THEN <<>>
                   ELSE PerPageOf(z, Down(Before(z.page, Places(z)))))

\* y is the page in front of the end, if there is one
Landed(z, y) ==
    IF y.moved THEN [y EXCEPT !.moved = Page(y) # Page(z)]
               ELSE [TurnTo(y, Page(z)) EXCEPT !.moved = FALSE]

LastPage(z) ==
    LET end == IF z.mode = "article" THEN Len(z.list) + 1 ELSE 0
    IN  Landed(z, PrevPage([TurnTo(z, end) EXCEPT !.prior = z.total]))


----------------------------------------------------------------------------
(* Showing a page.                                                         *)

\* the next entry of a list of n, or none
After(k, n) == IF k < n THEN k + 1 ELSE 0

\* what the loop over the items shows, and where it stops
ShowItems(z, items) ==
    LET n == Len(z.list)
        past == IF z.mode = "article" THEN n + 1 ELSE 0
    IN  [z EXCEPT !.shown = ToSet(items), !.obj = Len(items),
                  !.next = IF items = <<>> \/ Len(items) < PerPage(z) THEN past
                           ELSE IF z.mode = "article" THEN Last(items) + 1
                           ELSE After(Last(items), n)]

FromPage(z) == IF z.page = 0 THEN <<>> ELSE Up({k \in Places(z) : k >= z.page})

FillItems(z) == ShowItems(z, PerPageOf(z, FromPage(z)))

\* A newsgroup whose count was not known is asked for when its turn comes,
\* and leaves the list when it has nothing unread.
ShowGroups(z, ahead, good, shown) ==
    LET next == IF Len(good) > Len(shown) THEN good[Len(shown) + 1] ELSE 0
        gone == {k \in z.unknown : k \in ToSet(ahead) /\ (next = 0 \/ k <= next)}
    IN  [z EXCEPT !.shown = ToSet(shown), !.obj = Len(shown), !.next = next,
                  !.unknown = @ \ gone, !.incl = @ \ (gone \ z.live),
                  !.total = @ - Cardinality(gone \ z.live)]

AskGroups(z, ahead, good) == ShowGroups(z, ahead, good, PerPageOf(z, good))

FillGroups(z) ==
    LET ahead == FromPage(z)
    IN  AskGroups(z, ahead,
                  SelectSeq(ahead, LAMBDA k : k \notin z.unknown \/ k \in z.live))

ShowSubjects(z, ahead, shown) ==
    [z EXCEPT !.shown = ToSet(shown), !.obj = ObjectsOf(z, ToSet(shown)),
              !.nextSp = IF Len(shown) = PerPage(z)
                         THEN After(Max(Members(z, Last(shown))), Len(ThreadOf))
                         ELSE IF Len(shown) < Len(ahead)
                         THEN ahead[Len(shown) + 1] ELSE 0]

FitSubjects(z, ahead) == ShowSubjects(z, ahead, Batch(z, ahead))

SubjectsFromPage(z) ==
    IF z.pageSp = 0 THEN <<>> ELSE Up(Visible(z, {p \in Subjs : p >= z.pageSp}))

FillSubjects(z) == FitSubjects(z, SubjectsFromPage(z))

Filled(z) ==
    CASE BySubject(z) -> FillSubjects(z)
      [] z.mode = "groups" -> FillGroups(z)
      [] OTHER -> FillItems(z)

\* A page with nothing on it gives way to the last page, until there is one
\* that has something or that does not change.
RECURSIVE DisplayLoop(_)
DisplayLoop(z) ==
    LET TryLast(w) == IF w.moved THEN DisplayLoop(w) ELSE w
        Try(y) == IF y.obj # 0 THEN y ELSE TryLast(LastPage(y))
    IN  IF z.total = 0 THEN [z EXCEPT !.shown = {}, !.obj = 0]
        ELSE Try(Filled(z))

AtPrompt(y) == [y EXCEPT !.atEnd = y.prior + y.obj = y.total, !.moved = FALSE]

Display(z) == AtPrompt(DisplayLoop(z))

\* The estimate of calc_page: it gives every item the whole screen.
CalcPage(z) ==
    IF BySubject(z)
    THEN ObjectsOf(z, ToSet(PerPageOf(z, SubjectsFromPage(z))))
    ELSE Len(PerPageOf(z, FromPage(z)))


----------------------------------------------------------------------------
(* Making up the list.                                                     *)

\* A page at the end of the list gives way to the last page; with
\* FILL_LAST_PAGE a page that shows the end is filled from the front.
Settle(z, fill, end) ==
    IF Page(z) = 0 THEN FirstPage(z)
    ELSE IF \/ Page(z) >= end
            \/ z.prior # 0 /\ fill /\ z.prior + CalcPage(z) = z.total
         THEN LastPage(z)
    ELSE z

\* Selected items are alone in the list, unless there are none.
Exclusively(z, set, flagged) == IF z.excl THEN set \cap flagged ELSE set

\* the number of items in front of the page
Counted(y, incl) ==
    [y EXCEPT !.incl = incl, !.total = Cardinality(incl),
              !.prior = Cardinality({k \in incl : k < y.page})]

InitList(z) ==
    LET excl == z.excl /\ z.live \cap z.chosen # {}
        y == [z EXCEPT !.excl = excl,
                       !.page = IF excl = z.excl THEN z.page ELSE 0]
    IN  Counted(y, Exclusively(y, z.live, z.chosen))

\* The newsgroups whose count is not known are asked for up to the first that
\* has something unread; the rest is taken to be unread until it is displayed.
Asked(z) ==
    LET unread == z.unknown \cap z.live
    IN  [z EXCEPT !.unknown =
           {k \in @ : unread # {} /\ k > Min(unread)}]

InitGroups(z) ==
    LET Include(y) == Counted(y, Exclusively(y, y.live \cup y.unknown \cup y.chosen,
                                                y.chosen))
        once == Asked(z)
    IN  Include(IF z.excl /\ z.chosen = {}
                THEN Asked([once EXCEPT !.excl = FALSE, !.page = 0]) ELSE once)

\* the place of an item in the list, or the place p where it is not found
PlaceOf(list, i, p) ==
    IF i \in ToSet(list) THEN CHOOSE k \in DOMAIN list : list[k] = i ELSE p

\* The array of articles is made anew, and the page moves to the first article
\* from it on that is still wanted.  The loop that looks for it runs to the
\* limit of the old array: what is left there may be the article (stale).
Resort(z, stale) ==
    LET list == Up(z.live)
        rest == {k \in z.page..Len(z.list) : z.list[k] \in z.live}
        ap == z.list[IF rest = {} THEN Len(z.list) ELSE Min(rest)]
        page == IF Len(list) < 2 THEN z.page ELSE 0
        y == [z EXCEPT !.list = list]
    IN  IF z.page = 0 THEN y
        ELSE IF z.page > Len(z.list) THEN [y EXCEPT !.page = Len(list) + 1]
        ELSE IF rest = {} /\ stale /\ Len(z.list) > Len(list)
             THEN [y EXCEPT !.page = Len(z.list)]
        ELSE [y EXCEPT !.page = PlaceOf(list, ap, page)]

\* the first subject from the page of the subjects on that has articles
WithArticles(z, p) ==
    LET q == {k \in Subjs : p # 0 /\ k >= p /\ Misc(z, k) > 0}
    IN  IF q = {} THEN 0 ELSE Min(q)

InitArticles(z, stale) ==
    LET excl == z.excl /\ z.live \cap z.chosen # {}
        Made(r, sp, page) ==
            LET same == {k \in DOMAIN r.list : SubjOf[r.list[k]] = sp}
                incl == Exclusively([r EXCEPT !.excl = excl], z.live, z.chosen)
            IN  [r EXCEPT !.excl = excl, !.pageSp = sp, !.incl = incl,
                          !.page = IF page = 0 /\ same # {} THEN Min(same) ELSE page,
                          !.total = Cardinality(incl)]
        Prior(y) == [y EXCEPT !.prior =
                        IF y.page \in DOMAIN y.list
                        THEN Cardinality({k \in Places(y) : k < y.page}) ELSE 0]
        From(r) == Prior(Made(r, WithArticles(z, z.pageSp),
                              IF excl = z.excl THEN r.page ELSE 0))
    IN  From(Resort(z, stale))

\* The items of a thread are included with any subject that is selected, and
\* the page moves to the first subject of its thread.
IncludedSubjects(z, excl) ==
    {p \in Heads(z) : excl => Members(z, p) \cap z.chosenSp # {}}

InitSubjects(z) ==
    LET Total(excl) == ObjectsOf(z, IncludedSubjects(z, excl))
        Prior(y) == [y EXCEPT !.prior =
                        ObjectsOf(y, {p \in y.inclSp : p < y.pageSp})]
        Include(excl, q) ==
            LET sp == IF z.pageSp = 0 \/ excl # z.excl THEN 0
                      ELSE IF q = 0 THEN Len(ThreadOf) ELSE q
            IN  Prior([z EXCEPT !.excl = excl, !.total = Total(excl),
                                !.inclSp = IncludedSubjects(z, excl),
                                !.pageSp = IF sp = 0 THEN 0 ELSE Min(Members(z, sp))])
    IN  Include(z.excl /\ Total(TRUE) # 0, WithArticles(z, z.pageSp))

Listed(z, stale) ==
    CASE BySubject(z) -> InitSubjects(z)
      [] z.mode = "article" -> InitArticles(z, stale)
      [] z.mode = "groups" -> InitGroups(z)
      [] OTHER -> InitList(z)

\* the last place of the list, or the limit of the array
EndOf(z) ==
    CASE BySubject(z) -> Len(ThreadOf)
      [] z.mode = "article" -> Len(z.list) + 1
      [] OTHER -> NItems

InitPages(z, fill, stale) ==
    LET Settled(y) == Settle(y, fill, EndOf(y)) IN Settled(Listed(z, stale))


----------------------------------------------------------------------------
(* The commands of the selector.                                           *)

ArticleModes == {"article", "subject", "thread"}

Init ==
    \E m \in Modes, live \in SUBSET Items, h \in Heights, d \in Details :
        LET z == [mode |-> m, tmode |-> IF m = "subject" THEN m ELSE "thread",
                  live |-> live, height |-> h, detail |-> d,
                  unknown |-> IF m = "groups" THEN Unknown ELSE {},
                  chosen |-> {}, chosenSp |-> {}, excl |-> FALSE,
                  list |-> IF m \in ArticleModes THEN <<>> ELSE Up(Items),
                  incl |-> {}, inclSp |-> {}, page |-> 0, pageSp |-> 0,
                  next |-> 0, nextSp |-> 0, prior |-> 0, total |-> 0, obj |-> 0,
                  shown |-> {}, atEnd |-> FALSE, moved |-> FALSE,
                  crashed |-> FALSE]
        IN  s = Display(InitPages(z, TRUE, FALSE))

\* A page that changed is displayed.
Turn(z) == s' = IF z.moved THEN Display(z) ELSE z

Forward == ~s.crashed /\ Turn(NextPage(s))

Backward == ~s.crashed /\ Turn(PrevPage(s))

ToFirst == ~s.crashed /\ Turn(FirstPage(s))

ToLast == ~s.crashed /\ Turn(LastPage(s))

\* the wanted articles that an entry of the screen stands for
Within(z, e) ==
    IF BySubject(z) THEN {i \in z.live : SubjOf[i] \in Members(z, e)}
    ELSE {z.list[e]}

\* An item of the page is selected or deselected: the page stays as it is.
Pick ==
    /\ ~s.crashed
    /\ \E e \in s.shown :
         LET arts == Within(s, e)
             new == {SubjOf[i] : i \in arts \ s.chosen}
         IN  \/ /\ arts \subseteq s.chosen
                /\ s' = [s EXCEPT !.chosen = @ \ arts,
                                  !.chosenSp = IF BySubject(s)
                                               THEN @ \ Members(s, e) ELSE @]
             \/ /\ ~(arts \subseteq s.chosen)
                /\ arts \subseteq Pickable
                /\ s' = [s EXCEPT !.chosen = @ \cup arts,
                                  !.chosenSp = IF s.mode \in ArticleModes
                                               THEN @ \cup new ELSE @]

\* The articles or groups that are left, as count_subjects finds them.
Left(z, live) ==
    [z EXCEPT !.live = live, !.chosen = @ \cap live,
              !.chosenSp = {p \in @ : \E i \in z.chosen \cap live : SubjOf[i] = p}]

Redo(z, fill) ==
    \E stale \in BOOLEAN :
        /\ stale => z.mode = "article"
        /\ s' = Display(InitPages(z, fill, stale))

\* A command changes an item it was given: `:', `/' and those of a newsgroup.
Perform ==
    /\ ~s.crashed
    /\ \E i \in Items \ s.unknown :
         \/ i \in s.live /\ Redo(Left(s, s.live \ {i}), FALSE)
         \/ i \notin s.live /\ Redo(Left(s, s.live \cup {i}), FALSE)

\* `D': with nothing selected, the items from the page to the next are killed.
KillPage ==
    LET dead == UNION {Within(s, e) : e \in s.shown} IN
    /\ ~s.crashed
    /\ s.chosen = {} /\ s.live \ dead # {}
    /\ Redo(Left(s, s.live \ dead), TRUE)

\* `J': the selected items are killed.
KillSelected ==
    LET dead == IF BySubject(s) THEN {i \in s.live : SubjOf[i] \in s.chosenSp}
                                ELSE s.chosen
    IN  /\ ~s.crashed
        /\ dead # {} /\ s.live \ dead # {}
        /\ Redo(Left(s, s.live \ dead), TRUE)

\* `E'
Exclusive ==
    /\ ~s.crashed
    /\ Redo([s EXCEPT !.excl = ~@, !.page = 0, !.pageSp = 0], TRUE)

\* `='
Equals ==
    /\ ~s.crashed
    /\ s.mode \in ArticleModes
    /\ IF s.mode # "article" THEN
           Redo([s EXCEPT !.mode = "article", !.page = 0], TRUE)
       ELSE IF s.page > Len(s.list) THEN s' = [s EXCEPT !.crashed = TRUE]
       ELSE Redo([s EXCEPT !.mode = s.tmode,
                           !.pageSp = IF s.page = 0 THEN 0
                                      ELSE SubjOf[s.list[s.page]]], TRUE)

\* `S'
SetMode ==
    /\ ~s.crashed
    /\ s.mode \in ArticleModes
    /\ \E m \in SModes :
         Redo([s EXCEPT !.mode = m,
                        !.tmode = IF m = "article" THEN @ ELSE m], TRUE)

\* `L'
SwitchDetail ==
    /\ ~s.crashed
    /\ s.mode \in ArticleModes
    /\ \E d \in Details : s' = Display([s EXCEPT !.detail = d])

\* The window changes its size.
Resize ==
    /\ ~s.crashed
    /\ \E h \in Heights : s' = Display([s EXCEPT !.height = h])

\* `?': the selector starts over where it was.
Restart == ~s.crashed /\ Redo(s, TRUE)

\* `U': the unread items give way to the read ones, or the other way round.
TurnOver ==
    /\ ~s.crashed
    /\ s.unknown = {}
    /\ Redo([Left(s, Items \ s.live) EXCEPT !.page = 0, !.pageSp = 0], TRUE)

Next ==
    \/ Forward \/ Backward \/ ToFirst \/ ToLast
    \/ Pick \/ Perform \/ KillPage \/ KillSelected
    \/ Exclusive \/ Equals \/ SetMode \/ SwitchDetail \/ Resize
    \/ Restart \/ TurnOver

Spec == Init /\ [][Next]_s

----------------------------------------------------------------------------
(* Properties.                                                             *)

\* A selector has the shape its record says, and shows what it includes.
TypeOK ==
    /\ s.live \subseteq Items /\ s.chosen \subseteq Items
    /\ s.incl \subseteq Items /\ s.inclSp \subseteq Subjs
    /\ s.page \in 0..NItems + 1 /\ s.pageSp \in 0..Len(ThreadOf)
    /\ s.prior \in Int /\ s.total \in Nat /\ s.obj \in Nat
    /\ s.height \in Heights /\ s.detail \in Details

ObjectsAt(z, places) ==
    IF BySubject(z) THEN ObjectsOf(z, places) ELSE Cardinality(places)

\* g_sel_prior_obj_cnt and g_sel_page_obj_cnt, from which the prompt computes
\* Top, Bot, All and the percentage, count the objects before the page and on
\* it, and the screen is at the end when nothing follows it.
CountsAreRight(z) ==
    LET shown == ObjectsAt(z, z.shown)
        before == ObjectsAt(z, {k \in Places(z) : k < Page(z)})
        follows == {k \in Places(z) : ObjectsAt(z, {k}) > 0
                                      /\ z.shown # {} /\ k > Max(z.shown)}
    IN  /\ z.obj = shown
        /\ Page(z) # 0 => z.prior = before
        /\ z.atEnd <=> follows = {}

PromptIsRight == s.mode # "article" /\ ~s.crashed => CountsAreRight(s)

\* Not in the article selector's list of articles: there a page that cannot go
\* back goes back among the subjects (prev_page), and takes them off the count.
ArticlePromptIsRight == ~s.crashed => CountsAreRight(s)

\* `>' goes on right behind the items on the screen and `<' shows all the items
\* right in front of them: paging through a list leaves nothing out.
PageTurn ==
    /\ (Forward /\ ~s.atEnd /\ s.mode # "article") =>
          {k \in Places(s') : ObjectsAt(s', {k}) > 0 /\ k > Max(s.shown)
                              /\ k < Min(s'.shown)} = {}
    /\ (Backward /\ Page(s') # Page(s) /\ Page(s) # 0 /\ s.shown # {}) =>
          {k \in Places(s') : ObjectsAt(s', {k}) > 0 /\ k < Min(s.shown)
                              /\ k >= Page(s')} \subseteq s'.shown

PagesMeet == [][PageTurn]_s

\* While there is something to show the screen shows something, and the
\* percentage of the prompt does not divide by zero.
NeverBlank ==
    ~s.crashed =>
        /\ s.total > 0 => s.shown # {}
        /\ s.total = 0 => s.atEnd

============================================================================
