----------------------------- MODULE ScanMode -----------------------------
(***************************************************************************)
(* Article scan mode: the entries of a scan context and their order         *)
(* (sorder.cpp), the page of them (spage.cpp), the commands of scmd.cpp and *)
(* sacmd.cpp, who is eligible (samisc.cpp, sathread.cpp), and coming and    *)
(* going (scanart.cpp, samain.cpp).                                        *)
(*                                                                         *)
(* Entry e is article e of the group: every number from 1 (g_absfirst) has  *)
(* an article.  An article of Lost has no file; trn finds out when it first *)
(* looks into it.  Scores come from a table; scoring itself is in Scores.   *)
(*                                                                         *)
(* The state is one record v.  A step is a command with the refill and the  *)
(* display that follow it, an article scored while a key is waited for, or   *)
(* what happens while an article is read.                                   *)
(***************************************************************************)
EXTENDS Integers, Sequences, FiniteSets, SequencesExt

CONSTANTS
  MaxArt,     \* the last article that ever arrives
  Begin,      \* the last article when the mode is entered first
  SubjectOf,  \* article -> its subject without Re:
  ScoreOf,    \* set of rules (1 or 2) -> article -> score
  TallOf,     \* article -> lines of its entry when summaries are shown
  Lost,       \* articles that are gone from the server
  Matching,   \* articles whose description the search text occurs in
  Options,    \* records [summary, stay, refold] of options
  Height,     \* g_scr_height without the bars
  CHUNK,      \* 100: entries by which the index grows
  MaxKeys     \* bound: commands

VARIABLE v

NoScore == -99      \* SFLAG_SCORED is not set
Arts == 1..MaxArt

-----------------------------------------------------------------------------
(* The order of the entries.                                                *)

Scored(w, e) == w.score[e] # NoScore

\* sa_compare(a, b) < 0
Before(w, a, b) ==
  IF w.order = "arrival" \/ ~(Scored(w, a) \/ Scored(w, b)) THEN a < b
  ELSE IF ~(Scored(w, a) /\ Scored(w, b)) THEN Scored(w, a)
  ELSE \/ w.score[a] > w.score[b]
       \/ w.score[a] = w.score[b] /\ (IF w.newfirst THEN a > b ELSE a < b)

\* The hole at j \div 2 of the heap s[1..n] moves down until t fits into it.
RECURSIVE Readjust(_, _, _, _, _)
Readjust(w, s, t, j, n) ==
  IF j > n THEN [s EXCEPT ![j \div 2] = t]
  ELSE LET k == IF j < n /\ Before(w, s[j], s[j + 1]) THEN j + 1 ELSE j IN
       IF ~Before(w, t, s[k]) THEN [s EXCEPT ![k \div 2] = t]
       ELSE Readjust(w, [s EXCEPT ![k \div 2] = s[k]], t, 2 * k, n)

RECURSIVE Heaped(_, _, _)
Heaped(w, s, i) == IF i < 1 THEN s ELSE Heaped(w, Readjust(w, s, s[i], 2 * i, Len(s)), i - 1)

RECURSIVE Emptied(_, _, _)
Emptied(w, s, i) ==
  IF i < 1 THEN s
  ELSE Emptied(w, Readjust(w, [s EXCEPT ![i + 1] = s[1]], s[i + 1], 2, i), i - 1)

SortBasic(w) == Emptied(w, Heaped(w, w.sort, Len(w.sort) \div 2), Len(w.sort) - 1)
Sort(w) == [w EXCEPT !.sort = SortBasic(w), !.sorted = TRUE, !.changed = FALSE]

\* s_first and s_last sort what has changed; so do s_next and s_prev, but only when
\* there was a sort before.
Ordered(w) == IF w.changed THEN Sort(w) ELSE w
First(w) == IF w.sort = <<>> THEN 0 ELSE w.sort[1]

\* The place the index has for e: the last one, if e is there twice.
Place(w, e) == CHOOSE i \in 1..Len(w.sort) : /\ w.sort[i] = e
                                             /\ \A j \in i + 1..Len(w.sort) : w.sort[j] # e

OrderAdd(w, e) ==
  IF e < w.imax /\ e \in ToSet(w.sort) THEN w
  ELSE [w EXCEPT !.sort = Append(@, e), !.changed = TRUE,
                 !.imax = IF e > @ THEN (e \div CHUNK + 1) * CHUNK ELSE @]

RECURSIVE AddEnts(_, _, _)
AddEnts(w, from, to) == IF from > to THEN w ELSE AddEnts(OrderAdd(w, from), from + 1, to)

-----------------------------------------------------------------------------
(* Who is eligible.                                                         *)

BasicElig(w, e) ==
  /\ w.readElig \/ e \notin w.read
  /\ w.zoom => e \in w.sel
  /\ w.order = "score" => Scored(w, e)
  /\ e \notin w.gone

\* The entries before and after e in the order.
Prior(w, e) == SubSeq(w.sort, 1, Place(w, e) - 1)
Later(w, e) == SubSeq(w.sort, Place(w, e) + 1, Len(w.sort))

Eligible(w, e) ==
  /\ BasicElig(w, e)
  /\ w.fold => \A p \in ToSet(Prior(w, e)) : BasicElig(w, p) => SubjectOf[p] # SubjectOf[e]

EligAfter(w, e)  == LET ok(x) == Eligible(w, x) IN SelectSeq(Later(w, e), ok)
EligBefore(w, e) == LET ok(x) == Eligible(w, x) IN Reverse(SelectSeq(Prior(w, e), ok))
HeadOr0(s) == IF s = <<>> THEN 0 ELSE s[1]
NextElig(w, e) == HeadOr0(EligAfter(w, e))
PrevElig(w, e) == HeadOr0(EligBefore(w, e))

\* The rest of e's subject from e on.
SubjThread(w, e) == {x \in ToSet(Later(w, e)) : BasicElig(w, x) /\ SubjectOf[x] = SubjectOf[e]}

\* The first marked entry, in the order, that could be read.
ReadMarked(w) == LET ok(x) == x \in w.mark /\ BasicElig(w, x) IN HeadOr0(SelectSeq(w.sort, ok))

-----------------------------------------------------------------------------
(* The page.                                                                *)

Lines(w, e) == IF w.opt.summary THEN TallOf[e] ELSE 1

RECURSIVE Tall(_, _)
Tall(w, s) == IF s = <<>> THEN 0 ELSE Lines(w, s[1]) + Tall(w, Tail(s))

\* As many of s as fit below line `at'.
Fitting(w, s, at) == CHOOSE n \in 0..Len(s) : /\ at + Tall(w, SubSeq(s, 1, n)) <= Height
                                              /\ n < Len(s) => at + Tall(w, SubSeq(s, 1, n + 1)) > Height

PageOf(w, s) == [i \in 1..Len(s) |-> [ent |-> s[i], at |-> Tall(w, SubSeq(s, 1, i - 1)), lines |-> Lines(w, s[i])]]
Ents(p) == [i \in 1..Len(p) |-> p[i].ent]
Bot(w) == Len(w.page) - 1      \* g_s_bot_ent
TopEnt(w) == w.page[1].ent
BotEnt(w) == w.page[Len(w.page)].ent
Under(w) == w.page[w.ptr + 1].ent

\* Articles whose lines were asked for: their headers were fetched.
Fetched(w, es) == LET g == w.gone \cup (es \cap Lost) IN [w EXCEPT !.gone = g, !.read = @ \cup g]
Looked(w, es) == IF w.opt.summary THEN Fetched(w, es) ELSE w
Clipped(w) == IF w.ptr > Bot(w) THEN [w EXCEPT !.ptr = Bot(w)] ELSE w

\* A page of the first entries of s; n of them fit, the one after was looked at too.
Filled(w, s, page) ==
  Clipped([Looked(w, {s[i] : i \in DOMAIN s \cap 1..Len(page) + 1}) EXCEPT !.page = page, !.top = page[1].ent, !.fresh = TRUE])
Stale(w) == \E i \in 1..Len(w.page) : w.page[i].ent \in w.gone

NoPage(w) == [w EXCEPT !.page = <<>>]

\* The first entry from e on, or up to e, that is eligible.
EligFrom(w, e) == IF e = 0 \/ Eligible(w, e) THEN e ELSE NextElig(w, e)
EligUpTo(w, e) == IF Eligible(w, e) THEN e ELSE PrevElig(w, e)

\* An article that turned out to be gone is off the page: it is filled again.
RECURSIVE FillForward(_, _), FillBackward(_, _)
FillForward(w, start) ==
  LET Forward(s) == Filled(w, s, PageOf(w, SubSeq(s, 1, Fitting(w, s, 0))))
      Again(x)   == IF Stale(x) THEN FillForward(x, start) ELSE x
      From(a)    == IF a = 0 THEN NoPage(w) ELSE Again(Forward(<<a>> \o EligAfter(w, a)))
  IN From(EligFrom(w, IF start < 0 THEN First(w) ELSE start))

FillBackward(w, end) ==
  LET Backward(s) == Filled(w, s, PageOf(w, Reverse(SubSeq(s, 1, Fitting(w, s, 0)))))
      Again(x)    == IF Stale(x) THEN FillBackward(x, end) ELSE x
      From(a)     == IF a = 0 THEN NoPage(w) ELSE Again(Backward(<<a>> \o EligBefore(w, a)))
  IN From(EligUpTo(w, end))

\* The entries of the page that are still where they should be: as the next eligible
\* one of the one before, with as many lines.
Good(w, s) == CHOOSE n \in 1..Len(w.page) :
  /\ \A i \in 1..n : i <= Len(s) /\ w.page[i].ent = s[i] /\ w.page[i].lines = Lines(w, s[i])
  /\ n < Len(w.page) => \/ n + 1 > Len(s)
                        \/ w.page[n + 1].ent # s[n + 1]
                        \/ w.page[n + 1].lines # Lines(w, s[n + 1])

\* The page after its first j entries is filled again.
Refilled(w, s, j) ==
  LET rest == SubSeq(s, j + 1, Len(s))
      n    == Fitting(w, rest, w.page[j].at + w.page[j].lines)
  IN Filled(w, s, SubSeq(w.page, 1, j) \o SubSeq(PageOf(w, SubSeq(s, 1, j + n)), j + 1, j + n))

RECURSIVE RefillPage(_)
RefillPage(w) ==
  LET Kept(s)  == Refilled(w, s, Good(w, s))
      Again(x) == IF Stale(x) THEN RefillPage(x) ELSE x
  IN IF \/ Bot(w) < 1 \/ w.top < 1 \/ w.top # TopEnt(w) \/ ~Eligible(w, TopEnt(w))
        \/ w.page[1].at # 0 \/ w.page[1].lines # Lines(w, TopEnt(w))
     THEN FillForward(w, w.top)
     ELSE Again(Kept(<<TopEnt(w)>> \o EligAfter(w, TopEnt(w))))

GoTopEnts(w0) ==
  LET At(w) == [w EXCEPT !.top = IF w.sort = <<>> \/ EligFrom(w, First(w)) = 0 THEN 1
                                 ELSE EligFrom(w, First(w)), !.refill = TRUE, !.ptr = 0]
  IN At(Ordered(w0))

\* s_fillpage: a page from the top entry on, or back from it, or of all when nothing
\* selected is left.  An empty page is a failure.
Topped(w) == [w EXCEPT !.refill = FALSE, !.top = IF @ < 1 THEN First(w) ELSE @]
RECURSIVE FillPage(_)
FillPage(w0) ==
  LET Backed(w)  == IF w.page = <<>> THEN FillBackward(w, w.top) ELSE w
      Settled(w) == IF w.page = <<>> /\ w.zoom
                    THEN FillPage(GoTopEnts([w EXCEPT !.zoom = FALSE, !.fold = @ \/ w.opt.refold]))
                    ELSE IF \E i \in 1..Len(w.page) : ~Eligible(w, w.page[i].ent) THEN FillPage(w)
                    ELSE w
      From(w)    == IF w.top = 0 THEN NoPage(w) ELSE Settled(Backed(RefillPage(w)))
  IN From(Topped(Ordered(w0)))

-----------------------------------------------------------------------------
(* Scoring, as far as the order of the page depends on it.                  *)

ScoreArt(w, e) ==
  IF e \in w.gone THEN w
  ELSE IF e \in Lost THEN Fetched(w, {e})
  ELSE [w EXCEPT !.score[e] = ScoreOf[w.rules][e], !.changed = TRUE]

\* sc_init: it works when one article can be scored.
RECURSIVE ScoreOne(_, _)
ScoreOne(w, e) == IF e < 1 \/ \E x \in Arts : Scored(w, x) THEN w ELSE ScoreOne(ScoreArt(w, e), e - 1)
ScInit(w) ==
  LET x == ScoreOne([w EXCEPT !.fill = 0, !.fillRead = w.readElig \/ 1..w.num \subseteq w.read], w.num)
  IN [x EXCEPT !.scoring = \E e \in Arts : Scored(x, e)]

\* What sc_lookahead scores next.
Ahead(w) == {e \in w.fill + 1..w.num : ~Scored(w, e) /\ (w.fillRead \/ e \notin w.read)}

RECURSIVE ScoreAll(_, _)
ScoreAll(w, e) == IF e > w.num THEN w ELSE ScoreAll(ScoreArt(w, e), e + 1)

-----------------------------------------------------------------------------
(* What a command does to an article and to those after it.                 *)

Oneless(w, es) == [w EXCEPT !.read = @ \cup es]
Unmarked(w, es) == [w EXCEPT !.mark = @ \ es]
Toggled(s, es) == (s \ es) \cup (es \ s)

ArtCmd(w, multiple, cmd, a) ==
  LET es == {a} \cup (IF multiple THEN SubjThread(w, a) ELSE {}) IN
  CASE cmd = "KILL_MARKED"   -> Unmarked(Oneless(w, es \cap w.mark), es)
    [] cmd = "KILL_UNMARKED" -> Oneless(w, es \ w.mark)
    [] cmd = "KILL"          -> Unmarked(Oneless(w, es), es)
    [] cmd = "MARK"          -> [w EXCEPT !.mark = Toggled(@, es)]
    [] cmd = "SELECT"        -> [w EXCEPT !.sel = Toggled(@, es),
                                          !.refill = @ \/ (w.zoom /\ es \cap w.sel # {})]

Reading(w, e) == [w EXCEPT !.pc = "article", !.art = e]
ReadNext(w) == Reading(Unmarked(w, {ReadMarked(w)}), ReadMarked(w))
Refill(w) == [w EXCEPT !.refill = TRUE]
Quit(w) == [w EXCEPT !.pc = "left"]

-----------------------------------------------------------------------------
(* The commands: each is what s_docmd or sa_docmd makes of the state.       *)

GoNextPage(w) == [FillForward(w, NextElig(w, BotEnt(w))) EXCEPT !.ptr = 0]
GoPrevPage(w) == [RefillPage(FillBackward(w, PrevElig(w, TopEnt(w)))) EXCEPT !.ptr = 0]

Down(w) == IF w.ptr < Bot(w) THEN [w EXCEPT !.ptr = @ + 1]
           ELSE IF NextElig(w, BotEnt(w)) = 0 THEN Refill(w) ELSE GoNextPage(w)
Up(w) == IF w.ptr > 0 THEN [w EXCEPT !.ptr = @ - 1]
         ELSE IF PrevElig(w, TopEnt(w)) = 0 THEN Refill(w)
         ELSE LET x == GoPrevPage(w) IN [x EXCEPT !.ptr = Bot(x)]
NextPage(w) == IF NextElig(w, BotEnt(w)) = 0 THEN w ELSE GoNextPage(w)
PrevPage(w) == IF PrevElig(w, TopEnt(w)) = 0 THEN w ELSE GoPrevPage(w)
GoBotEnts(w) == LET x == FillBackward(w, Last(w.sort)) IN
                IF x.page = <<>> THEN Quit(x) ELSE [x EXCEPT !.ptr = Bot(x)]

\* The cursor goes to entry b: on the page, or on one that is filled for it.
OnPage(w, b) == CHOOSE i \in 1..Len(w.page) : w.page[i].ent = b
GoTo(w, b, backward) ==
  IF b \in ToSet(Ents(w.page)) THEN [w EXCEPT !.ptr = OnPage(w, b) - 1]
  ELSE IF backward THEN LET x == FillBackward(w, b) IN [x EXCEPT !.ptr = Bot(x)]
  ELSE [FillForward(w, b) EXCEPT !.ptr = 0]

Hits(s) == LET ok(x) == x \in Matching IN SelectSeq(s, ok)
SearchForward(w) ==
  LET b == HeadOr0(Hits(EligAfter(w, Under(w)))) IN IF b = 0 THEN w ELSE GoTo(w, b, FALSE)
SearchBackward(w) ==
  LET b == HeadOr0(Hits(EligBefore(w, Under(w)))) IN
  IF b = 0 THEN w ELSE IF b \in ToSet(Ents(w.page)) THEN GoTo(w, b, TRUE) ELSE Refill(GoTo(w, b, TRUE))
\* The first entry is looked at although it may not be eligible.
SearchAround(w) ==
  LET f == HeadOr0(Hits(EligAfter(w, Under(w))))
      b == IF f # 0 THEN f ELSE HeadOr0(Hits(<<First(w)>> \o EligAfter(w, First(w))))
  IN IF b \in {0, Under(w)} THEN w ELSE GoTo(w, b, FALSE)

SameSubject(w, s) == LET ok(x) == SubjectOf[x] = SubjectOf[Under(w)] IN HeadOr0(SelectSeq(s, ok))
FollowDown(w) ==
  LET b == SameSubject(w, EligAfter(w, Under(w))) IN IF b = 0 THEN w ELSE GoTo(w, b, FALSE)
FollowUp(w) ==
  LET b == SameSubject(w, EligBefore(w, Under(w))) IN
  IF b = 0 THEN w ELSE IF b \in ToSet(Ents(w.page)) THEN GoTo(w, b, TRUE) ELSE RefillPage(GoTo(w, b, TRUE))

\* s_jumpnum: to item n of the page, as numbered from 1.
Jump(w, n) == IF n > Bot(w) + 1 THEN w ELSE [w EXCEPT !.ptr = n - 1]

ThenDown(w) == IF w.opt.stay THEN w ELSE [w EXCEPT !.ptr = IF @ < Bot(w) THEN @ + 1 ELSE 0]
Mark(w, many) == ThenDown(ArtCmd(w, many, "MARK", Under(w)))
Select(w, many) == LET x == ArtCmd(w, many, "SELECT", Under(w)) IN IF w.zoom THEN x ELSE ThenDown(x)
Junk(w, many) == Refill(ArtCmd(w, many, "KILL", Under(w)))

\* D, J: every entry of the page; with folding, a thread whose first article is marked
\* is spared, or is the one killed.
RECURSIVE KillUnmarked(_, _)
KillUnmarked(w, s) ==
  IF s = <<>> THEN w
  ELSE KillUnmarked(IF s[1] \in w.mark /\ w.fold THEN w ELSE ArtCmd(w, w.fold, "KILL_UNMARKED", s[1]), Tail(s))
RECURSIVE KillMarked(_, _)
KillMarked(w, s) ==
  IF s = <<>> THEN w
  ELSE KillMarked(IF ~w.fold THEN ArtCmd(w, FALSE, "KILL_MARKED", s[1])
                  ELSE IF s[1] \in w.mark THEN ArtCmd(w, TRUE, "KILL", s[1]) ELSE w, Tail(s))
ReadOrRefill(w) == IF ReadMarked(w) # 0 THEN ReadNext(w) ELSE Refill(w)

\* X: with folding, one with a marked article before it in its subject is spared.
JunkRest(w) ==
  LET spared(e) == w.fold /\ \E p \in ToSet(Prior(w, e)) \cap w.mark : BasicElig(w, p) /\ SubjectOf[p] = SubjectOf[e]
  IN Oneless(w, {e \in ToSet(w.sort) : BasicElig(w, e) /\ e \notin w.mark /\ ~spared(e)})

\* K: an article without a score has the score 0.
KillThreshold(w, n) ==
  Refill(Oneless(w, {e \in 1..w.num : BasicElig(w, e) /\ (IF Scored(w, e) THEN w.score[e] ELSE 0) <= n}))

ToggleOrder(w) ==
  LET x == [w EXCEPT !.order = IF @ = "arrival" THEN "score" ELSE "arrival"]
      y == IF x.order = "score" /\ ~x.scoring THEN ScInit(x) ELSE x
  IN GoTopEnts(Sort(IF y.scoring THEN y ELSE [y EXCEPT !.order = "arrival"]))
ToggleNewFirst(w) == IF w.order = "arrival" THEN w ELSE GoTopEnts(Sort([w EXCEPT !.newfirst = ~@]))
\* sc_rescore begins again, but what has a score keeps it.
Rescore(w) == IF ~w.scoring THEN w ELSE GoTopEnts(Sort(ScInit(w)))
\* sc_append with a rule for now: everything is scored by it.
AppendRule(w) ==
  LET x == IF w.scoring THEN w ELSE ScInit(w)
      y == ScoreAll([x EXCEPT !.rules = 3 - @], 1)
  IN IF x.scoring THEN [Refill(y) EXCEPT !.top = -1] ELSE x

AnyElig(w) == w.sort # <<>> /\ (Eligible(w, First(w)) \/ NextElig(w, First(w)) # 0)
ToggleRead(w) ==
  LET x == Ordered(AddEnts([w EXCEPT !.readElig = ~@], 1, w.num))
      y == [x EXCEPT !.fillRead = x.readElig, !.fill = IF x.readElig THEN 0 ELSE @]
  IN IF AnyElig(x) THEN GoTopEnts(y) ELSE Quit(x)
\* (mutant) The page stays as it is.
FoldAsIs(w) == [w EXCEPT !.fold = ~@]

Fold(w) == Refill([w EXCEPT !.fold = ~@])
Zoom(w) ==
  LET x == [w EXCEPT !.zoom = ~@, !.fold = @ \/ (w.zoom /\ w.opt.refold)]
  IN IF AnyElig(x) THEN GoTopEnts(x) ELSE [x EXCEPT !.zoom = w.zoom]
Zero(w) == LET x == [w EXCEPT !.sel = {}] IN IF w.zoom THEN Zoom(x) ELSE x
Catchup(w) == Refill(Oneless(w, 1..w.num))

-----------------------------------------------------------------------------
(* The loop: a command, the page it asks for, and its display.              *)

\* The descriptions of the page are fetched; the bottom bar asks what is before and
\* after the page.
Displayed(w) ==
  LET es == ToSet(Ents(w.page)) IN
  IF w.pc # "prompt" THEN w
  ELSE [Ordered(Fetched(w, es)) EXCEPT !.fresh = @ /\ es \cap Lost = {} /\ ~w.changed]
OrQuit(w) == IF w.page = <<>> THEN Quit(w) ELSE w
Looped(w) == IF w.pc # "prompt" \/ ~w.refill THEN w ELSE OrQuit(FillPage(w))

At(pc) == v.part = "scan" /\ v.pc = pc

Command(key, w) ==
  /\ At("prompt") /\ v.keys < MaxKeys
  /\ v' = [Displayed(Looped(w)) EXCEPT !.key = key, !.keys = @ + 1]

O == Ordered(v)

\* The commands that need the order, and those that do not look at it.
Ordering(key, w) ==
  CASE key = "n" -> Down(w)            [] key = "p" -> Up(w)
    [] key = ">" -> NextPage(w)        [] key = "<" -> PrevPage(w)
    [] key = "B" -> GoBotEnts(w)       [] key = "/" -> SearchForward(w)
    [] key = "?" -> SearchBackward(w)  [] key = "g" -> SearchAround(w)
    [] key = "^N" -> FollowDown(w)     [] key = "^P" -> FollowUp(w)
    [] key = "D" -> ReadOrRefill(KillUnmarked(w, Ents(w.page)))
    [] key = "J" -> Refill(KillMarked(w, Ents(w.page)))
    [] key = "X" -> ReadOrRefill(JunkRest(w))
    [] key = "z" -> Zoom(w)            [] key = "Z" -> Zero(w)
    [] key = " " -> IF ReadMarked(w) # 0 THEN ReadNext(w) ELSE Reading(w, Under(w))
Plain(key, w) ==
  CASE key = "t" -> [w EXCEPT !.ptr = 0]  [] key = "b" -> [w EXCEPT !.ptr = Bot(w)]
    [] key = "T" -> GoTopEnts(w)       [] key = "c" -> Catchup(w)
    [] key = "o" -> ToggleOrder(w)     [] key = "O" -> ToggleNewFirst(w)
    [] key = "R" -> Rescore(w)         [] key = "\"" -> AppendRule(w)
    [] key = "U" -> ToggleRead(w)      [] key = "F" -> Fold(w)
    [] key = "r" -> Reading(w, Under(w))  [] key = "q" -> Quit(w)

OrderingCommand ==
  \E key \in {"n", "p", ">", "<", "B", "/", "?", "g", "^N", "^P", "D", "J", "X", "z", "Z", " "} :
    Command(key, Ordering(key, O))
PlainCommand ==
  \E key \in {"t", "b", "T", "c", "o", "O", "R", "\"", "U", "F", "r", "q"} : Command(key, Plain(key, v))
ArticleCommand ==
  \E many \in BOOLEAN :
    \/ Command("m", Mark(O, many))
    \/ Command("s", Select(O, many))
    \/ Command("j", Junk(O, many))
NumberCommand ==
  \/ \E n \in 1..Height + 1 : Command("digit", Jump(v, n))
  \/ \E n \in {0, 1} : Command("K", KillThreshold(O, n))
  \/ \E e \in Arts : At("prompt") /\ e <= v.num /\ Command("G", Reading(v, e))

\* s_lookahead, while no key comes.
Lookahead ==
  /\ At("prompt") /\ v.scoring /\ Ahead(v) # {}
  /\ LET e == CHOOSE x \in Ahead(v) : \A y \in Ahead(v) : x <= y IN
     v' = [ScoreArt([v EXCEPT !.fill = e], e) EXCEPT !.fresh = FALSE, !.key = "idle"]

\* The article is displayed and read, or marked to be unread; more may arrive.
ReadArticle ==
  /\ At("article") /\ v.art # 0
  /\ \E unread \in BOOLEAN :
       v' = [v EXCEPT !.read = (IF unread /\ v.art \notin v.gone THEN @ \ {v.art} ELSE @ \cup {v.art}),
                      !.art = 0, !.key = "idle"]
Grow ==
  /\ At("article") /\ v.num < MaxArt
  /\ LET x == AddEnts([v EXCEPT !.num = MaxArt], v.num + 1, MaxArt)
         y == IF x.scoring THEN x ELSE ScInit(x)
     IN v' = [ScoreAll(y, v.num + 1) EXCEPT !.key = "idle"]

\* sa_main: the next marked article, unless scan mode was asked for; or the page, of
\* what was selected in the selector in between.
MainLoop(w0) ==
  LET Begun(w)  == IF w.order = "score" /\ ~w.scoring THEN ScInit(w) ELSE w
      Paged(w)  == FillPage(IF w.order = "score" /\ ~w.scoring THEN [w EXCEPT !.order = "arrival"] ELSE w)
      Shown(w)  == IF w.page = <<>> THEN Quit(w) ELSE Displayed([w EXCEPT !.pc = "prompt"])
  IN Shown(Paged(Begun(w0)))
SelThreads(w, es) ==
  Sort([w EXCEPT !.sel = es, !.zoom = TRUE, !.top = -1,
                 !.score = IF w.order = "score" THEN [e \in Arts |-> IF e \in es \ Lost THEN ScoreOf[w.rules][e] ELSE @[e]] ELSE @])
SaMain ==
  /\ At("article") /\ v.art = 0
  /\ \/ ReadMarked(O) # 0 /\ v' = [ReadNext(O) EXCEPT !.key = "idle"]
     \/ \E w \in {O} \cup {SelThreads(v, {x \in 1..v.num : SubjectOf[x] = SubjectOf[e]} \ v.read) : e \in 1..v.num} :
          v' = [MainLoop(w) EXCEPT !.key = "idle"]
Gone == v.part = "scan" /\ (v.pc = "left" \/ v.keys = MaxKeys) /\ UNCHANGED v

Next == OrderingCommand \/ PlainCommand \/ ArticleCommand \/ NumberCommand \/ Lookahead \/ ReadArticle \/ Grow \/ SaMain \/ Gone

Fresh(opt, order) ==
  [part |-> "scan", opt |-> opt, num |-> Begin, read |-> {}, gone |-> {}, mark |-> {}, sel |-> {},
   score |-> [e \in Arts |-> NoScore], rules |-> 1, scoring |-> FALSE, fill |-> 0, fillRead |-> FALSE,
   sort |-> <<>>, imax |-> -1, sorted |-> FALSE, changed |-> FALSE,
   zoom |-> FALSE, fold |-> FALSE, readElig |-> FALSE, order |-> order, newfirst |-> FALSE,
   page |-> <<>>, top |-> -1, ptr |-> 0, refill |-> TRUE, fresh |-> FALSE,
   pc |-> "article", art |-> 0, key |-> "idle", keys |-> 0]
\* The mode is entered for the first time.
Init == \E opt \in Options, order \in {"arrival", "score"} :
          v = MainLoop(Ordered(AddEnts(Fresh(opt, order), 1, Begin)))
Spec == Init /\ [][Next]_v

-----------------------------------------------------------------------------
(* Correctness                                                              *)

\* While the scores stand still, the page is a run of eligible entries, as many as
\* fit, each below the one before, and the cursor is on one of them.
PageIsRun ==
  At("prompt") =>
    /\ v.page # <<>> /\ v.ptr \in 0..Bot(v)
    /\ v.fresh /\ ~v.changed =>
         LET s == <<TopEnt(v)>> \o EligAfter(v, TopEnt(v)) IN
         /\ Eligible(v, TopEnt(v))
         /\ v.page = PageOf(v, SubSeq(s, 1, Fitting(v, s, 0)))

\* Unless it waits to be sorted, the list has every entry once, in the order that is
\* chosen, whatever was scored, toggled or added since it was sorted last.
OrderIsSorted ==
  v.part = "scan" /\ ~v.changed =>
    /\ Len(v.sort) = v.num
    /\ \A i \in 1..v.num, j \in 1..v.num : i < j => Before(v, v.sort[i], v.sort[j])
=============================================================================
