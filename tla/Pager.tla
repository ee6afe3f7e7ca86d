------------------------------- MODULE Pager -------------------------------
(***************************************************************************)
(* The pager: do_article and page_switch of art.cpp, the array of file     *)
(* positions of backpage.cpp, and the commands of the article prompt that   *)
(* go back into the article (ng.cpp).                                      *)
(*                                                                         *)
(* An article is a sequence of screen rows.  A position is the number of    *)
(* rows before it.  Rows 1..HeaderRows are the header with its empty line.  A row *)
(* with `over' goes on with the line of the row before it, which was wider  *)
(* than the screen; one with `ff' begins with a form feed; one with `hide'  *)
(* is not displayed; one with `hit' matches what the user searches for.     *)
(*                                                                         *)
(* The whole state is one record v, so that the machine can be checked      *)
(* beside others.  The steps: a page is begun, a row is dealt with at a     *)
(* time, the page ends at the prompt --MORE-- or at the end of the article. *)
(***************************************************************************)
EXTENDS Integers, Sequences, FiniteSets, SequencesExt

CONSTANTS
  PagerModes,  \* records [erase, mark, insert, initlines, rows]: -e, -m, whether the
               \* terminal inserts lines, -i, and the article, a sequence of rows
               \* [over, ff, hide, hit]
  HeaderRows,  \* the number of header rows of an article
  LINES,       \* g_tc_LINES
  VARYSIZE,    \* entries in a block of the array of positions
  MaxKeys      \* bound: commands that stay in the article, before another is begun

VARIABLE v

Rows == v.mode.rows
Size == Len(Rows)      \* g_artsize
FORMFEED == 32700      \* linenum of a page that a form feed ends

\* The first row of the line that row r belongs to, and its last.
LineEnd(r)   == CHOOSE i \in r..Size :
                  /\ \A j \in r + 1..i : Rows[j].over
                  /\ i < Size => ~Rows[i + 1].over

-----------------------------------------------------------------------------
(* The array of positions: a file seen through a window of one block.       *)

Block(i) == i \div VARYSIZE
Flushed(x) ==
  IF x.voff < 0 THEN x.vfile
  ELSE [b \in 1..(IF x.voff + 1 > Len(x.vfile) THEN x.voff + 1 ELSE Len(x.vfile)) |->
          IF b = x.voff + 1 THEN x.vbuf
          ELSE IF b <= Len(x.vfile) THEN x.vfile[b] ELSE [k \in 0..VARYSIZE - 1 |-> 0]]

\* The window is moved to the block of entry i.  A block that the file does not
\* have is not read: the window keeps what it held.
Window(x, i) ==
  IF Block(i) = x.voff THEN x
  ELSE LET f == Flushed(x) IN
       [x EXCEPT !.vfile = f, !.voff = Block(i),
                 !.vbuf = IF Block(i) < Len(f) THEN f[Block(i) + 1] ELSE @]

\* vrdary(i) is Seen(Rd(x, i), i).
Rd(x, i)   == IF i < 0 THEN x ELSE Window(x, i)
Seen(x, i) == IF i < 0 THEN 0 ELSE x.vbuf[i % VARYSIZE]
Wr(x, i, p) ==
  LET y == Window(x, i) IN
  [y EXCEPT !.vbuf[i % VARYSIZE] = p]
Abs(p) == IF p < 0 THEN -p ELSE p

-----------------------------------------------------------------------------
(* The screen shows the last LINES-1 rows that were put out since it was     *)
(* cleared; 0 is the row with the group and the number of the article.       *)
(* x.seen is the last row up to which every row has been put out.            *)

Put(x, r) ==
  LET s == Append(x.scr, r) IN
  [x EXCEPT !.scr = IF Len(s) > LINES - 1 THEN Tail(s) ELSE s,
            !.seen = IF r > @ /\ \A i \in @ + 1..r - 1 : Rows[i].hide THEN r ELSE @]
Clear(x) == [x EXCEPT !.scr = <<>>]

NoSearch == -1
Fresh(m) ==
  [part |-> "pager", pc |-> "page", mode |-> m, artline |-> 0, topline |-> -1, artpos |-> 0,
   restart |-> 0, alinebeg |-> 0, special |-> FALSE, slines |-> 0, firstpage |-> TRUE,
   inheader |-> FALSE, dofseek |-> FALSE, highlight |-> -1, innersearch |-> 0, innerlight |-> 0,
   isrchline |-> 0, gline |-> 0, hideall |-> "no", linenum |-> 0, bufpos |-> 0,
   vbuf |-> [k \in 0..VARYSIZE - 1 |-> 0], voff |-> -1, vfile |-> <<>>,
   scr |-> <<>>, seen |-> 0, jumped |-> FALSE,
   read |-> "no", keys |-> 0]
Init == v \in {Fresh(m) : m \in PagerModes}

In(pc) == v.part = "pager" /\ v.pc = pc

-----------------------------------------------------------------------------
(* The display of a page.                                                   *)

\* Back to the position of artline, in the header or in the body.
Sought(x) ==
  LET y == Rd(x, x.artline)
      p == IF x.firstpage THEN 0 ELSE Abs(Seen(y, x.artline))
  IN [y EXCEPT !.artpos = p, !.inheader = IF p < HeaderRows THEN TRUE ELSE @,
               !.bufpos = IF p < HeaderRows THEN HeaderRows ELSE p, !.dofseek = FALSE, !.restart = 0]

Titled(x) ==
  Wr([Put(x, 0) EXCEPT
        !.linenum = @ + 1, !.inheader = TRUE, !.restart = 0, !.artline = 0, !.artpos = 0], 0, 0)

\* A page is begun.
BeginPage ==
  /\ In("page")
  /\ LET a == IF v.dofseek THEN Sought(v) ELSE v
         b == [a EXCEPT !.linenum = 1, !.pc = "line"]
     IN v' = IF b.firstpage THEN Titled(b) ELSE b

\* innermore: whether the search goes on; it may set the line to highlight and
\* the line that will be the top of the screen.
Inner(x) ==
  IF x.artpos < x.innersearch THEN [x |-> x, more |-> TRUE]
  ELSE LET y == IF x.artpos # x.innersearch THEN x
                ELSE [x EXCEPT !.isrchline = x.artline,
                               !.highlight = IF x.innerlight # 0 THEN x.innerlight ELSE x.artline - 1,
                               !.topline = IF x.hideall = "no" THEN @
                                           ELSE IF x.artline - x.gline - 1 < -1 THEN -1
                                           ELSE x.artline - x.gline - 1]
       IN IF x.artpos = x.innersearch /\ x.hideall # "no" THEN [x |-> y, more |-> FALSE]
          ELSE [x |-> y, more |-> y.artline < y.isrchline + y.gline]

\* The condition of the loop over the lines of a page.
LoopTest(x) ==
  IF x.innersearch # 0 THEN (IF x.inheader THEN [x |-> x, more |-> TRUE] ELSE Inner(x))
  ELSE [x |-> x, more |-> x.linenum < (IF x.special THEN x.slines
                                       ELSE IF x.firstpage /\ ~x.inheader THEN x.mode.initlines
                                       ELSE LINES)]

\* The row at artpos, from the header, from where the last row was cut, or from
\* the file: bufpos is where the line that holds it ends.
Taken(x) ==
  IF x.restart # 0 THEN [x EXCEPT !.restart = 0, !.artpos = x.restart]
  ELSE IF x.inheader \/ x.artpos < HeaderRows THEN x
  ELSE [x EXCEPT !.bufpos = LineEnd(x.artpos + 1)]
AtEnd(x) == x.restart = 0 /\ ~x.inheader /\ x.bufpos >= Size

\* The last header row is the empty line: it ends the header.
HeaderOver(x, r) == IF x.inheader /\ r = HeaderRows THEN [x EXCEPT !.inheader = FALSE, !.bufpos = HeaderRows] ELSE x

\* artpos after row r: inside a line that is wider than the screen, in the header,
\* or where the file is.
Onward(x, r) ==
  IF r > HeaderRows /\ r < LineEnd(r) THEN [x EXCEPT !.restart = r, !.artpos = r]
  ELSE [x EXCEPT !.artpos = IF r <= HeaderRows THEN r ELSE x.bufpos]

\* Row r is put out, unless everything is hidden; a form feed ends the page.
Printed(x, r) ==
  LET y == IF x.hideall = "no" \/ x.inheader THEN Put(x, r) ELSE x
      top == x.artline + 1 - LINES + 1
  IN [y EXCEPT !.linenum = IF Rows[r].ff /\ ~x.inheader /\ x.highlight # x.artline THEN FORMFEED ELSE @,
               !.highlight = IF ~x.inheader /\ x.highlight = x.artline THEN -1 ELSE @,
               !.artline = @ + 1,
               !.topline = IF ~x.inheader /\ top > @ THEN top ELSE @]

\* One pass of the loop over the lines of a page.
ShowRow ==
  /\ In("line")
  /\ LET t == LoopTest(v) IN
     /\ t.more
     /\ ~AtEnd(t.x)
     /\ LET x == Taken(t.x)
            r == x.artpos + 1
            h == HeaderOver([x EXCEPT !.alinebeg = x.artpos], r)
            p == IF Rows[r].hide THEN h ELSE [Printed(h, r) EXCEPT !.linenum = @ + 1]
            e == Onward(p, r)
        IN v' = Wr(e, e.artline, e.artpos)

Restored(x) == [x EXCEPT !.special = FALSE, !.pc = "end"]

\* ^C between two rows: the rest of the article counts as read.
Interrupt ==
  /\ In("line") /\ LoopTest(v).more
  /\ v' = [Restored(v) EXCEPT !.read = IF @ = "no" THEN "interrupted" ELSE @]

\* Back a page or a line (b and B), and what the screen then starts with.
RECURSIVE Above(_, _)
Above(x, target) ==
  LET y == [Rd(x, x.artline - 2) EXCEPT !.artline = @ - 1] IN
  IF y.artline >= 0 /\ y.artline > target /\ Seen(y, y.artline - 1) >= 0 THEN Above(y, target) ELSE y
Back(x, target) ==
  LET a == [x EXCEPT !.dofseek = TRUE, !.artline = x.topline]
      b == IF a.artline >= 0 THEN Above(a, target) ELSE a
  IN Clear([b EXCEPT !.topline = b.artline,
                     !.artline = IF b.artline < 0 THEN 0 ELSE b.artline,
                     !.firstpage = b.artline < 0])
PageBack(x) ==
  Back([x EXCEPT !.highlight = IF x.mode.mark THEN x.topline ELSE @], x.topline - (LINES - 2))

Refreshed(x) ==
  Clear([x EXCEPT !.dofseek = TRUE, !.artline = IF x.topline < 0 THEN 0 ELSE x.topline,
                  !.firstpage = x.topline < 0])

\* The end of a page: the command that was hidden is carried out, or the end of
\* the article is recognised, or --MORE-- is put out.
EndPage ==
  /\ In("line")
  /\ LET t == LoopTest(v) IN
     /\ ~t.more \/ AtEnd(t.x)
     /\ LET i == IF t.more
                 THEN [(IF t.x.innersearch # 0 THEN Inner(t.x).x ELSE t.x) EXCEPT !.special = FALSE]
                 ELSE t.x
            x == [i EXCEPT !.innersearch = 0, !.innerlight = 0, !.isrchline = 0, !.hideall = "no"]
            f == IF x.linenum >= FORMFEED
                 THEN LET y == Rd(x, x.artline - 1)
                      IN Wr(y, x.artline - 1, -Seen(y, x.artline - 1))
                 ELSE x
            e == [f EXCEPT !.special = FALSE, !.slines = 0, !.firstpage = FALSE, !.highlight = -1]
        IN v' = [CASE i.hideall = "f" -> [Refreshed(x) EXCEPT !.pc = "page"]
                  [] i.hideall = "b" -> [PageBack(x) EXCEPT !.pc = "page"]
                  [] e.artpos = Size /\ i.hideall = "no"
                       -> [Restored(e) EXCEPT !.read = IF @ = "no" THEN "seen" ELSE @]
                  [] OTHER -> [e EXCEPT !.pc = "more"] EXCEPT !.linenum = 0]

-----------------------------------------------------------------------------
(* The commands of the prompt --MORE--.                                     *)

Paging(x) == [x EXCEPT !.pc = "page", !.keys = @ + 1]
Typed(pc) == In(pc) /\ v.keys < MaxKeys

\* Return: one more line.
LineDown == /\ Typed("more")
            /\ v' = Paging([v EXCEPT !.special = TRUE, !.slines = 2])

\* (mutant) The line put out again is not the top of the screen.
ForwardKeepsTop(x, half) ==
  IF Rows[x.alinebeg + 1].ff THEN x
  ELSE IF ~x.special \/ (x.mode.mark /\ ~half)
  THEN [x EXCEPT !.restart = x.alinebeg, !.artline = @ - 1, !.artpos = x.alinebeg,
                 !.scr = IF x.special THEN Front(@) ELSE @,
                 !.highlight = IF x.mode.mark THEN x.artline - 1 ELSE @]
  ELSE [x EXCEPT !.slines = @ - 1]

\* Going forward, the last line is put out again, or a line less is put out.
Forward(x, half) ==
  IF Rows[x.alinebeg + 1].ff THEN x
  ELSE IF ~x.special \/ (x.mode.mark /\ ~half)
  THEN [x EXCEPT !.restart = x.alinebeg, !.artline = @ - 1, !.artpos = x.alinebeg,
                 !.topline = IF x.special THEN @ ELSE x.artline - 1,
                 !.scr = IF x.special THEN Front(@) ELSE @,
                 !.highlight = IF x.mode.mark THEN x.artline - 1 ELSE @]
  ELSE [x EXCEPT !.slines = @ - 1]

\* Space: the next page, on a clear screen with -e, and scrolled without.
PageDown ==
  /\ Typed("more")
  /\ v' = Paging(Forward(IF v.mode.erase THEN Clear(v)
                         ELSE [v EXCEPT !.special = TRUE, !.slines = LINES], FALSE))

\* d: half a page; marking it is not among the areas -m marks here.
HalfDown ==
  /\ Typed("more")
  /\ LET odd == LINES > 2 /\ LINES % 2 = 1 /\ v.artline % (LINES - 2) >= LINES \div 2 - 1
     IN v' = Paging(Forward([v EXCEPT !.special = TRUE,
                                      !.slines = LINES \div 2 + 1 + IF odd THEN 1 ELSE 0], TRUE))

\* l, ^L and X.
Refresh == Typed("more") /\ v' = Paging(Refreshed(v))
PageUp  == Typed("more") /\ v' = Paging(PageBack(v))

\* B: the line above is inserted at the top when the terminal can; else as b.
LineUp ==
  /\ Typed("more") /\ v.topline >= 0
  /\ LET a == Rd(v, v.topline - 1)
         pos == Abs(Seen(a, v.topline - 1))
         b == Rd(a, v.topline)
         c == Rd(b, v.artline - 1)
         d == Rd(c, v.artline - 2)
     IN v' = IF v.mode.insert /\ pos >= HeaderRows
             THEN [d EXCEPT !.keys = @ + 1, !.topline = @ - 1, !.artline = @ - 1, !.artpos = Abs(Seen(c, v.artline - 1)),
                            !.bufpos = Abs(Seen(c, v.artline - 1)),
                            !.alinebeg = Abs(Seen(d, v.artline - 2)),
                            !.scr = <<Abs(Seen(b, v.topline))>> \o Front(@)]
             ELSE Paging(Back(v, v.topline - 1))

\* ^E: the end of the article.
ToEnd(x) == [x EXCEPT !.topline = x.artline, !.innerlight = x.artline - 1, !.innersearch = Size,
                      !.gline = 0, !.hideall = "b", !.jumped = TRUE]
End == Typed("more") /\ v' = Paging(ToEnd(v))

\* g and G: the first match after the line the last one was put on.
RECURSIVE Reached(_, _)
Reached(x, p) ==
  LET y == Rd(x, x.artline) IN
  IF Seen(y, y.artline) < p THEN Reached([y EXCEPT !.artline = @ + 1], p) ELSE y
Search(g) ==
  /\ Typed("more")
  /\ LET gl == IF g > LINES - 2 THEN LINES - 2 ELSE g
         a == Rd(v, v.topline + gl + 1)
         from == IF v.topline + gl + 1 >= v.artline THEN v.artpos ELSE Abs(Seen(a, v.topline + gl + 1))
         found == {LineEnd(r) : r \in {r \in 1..Size : /\ r > from /\ r > HeaderRows
                                                     /\ (r = from + 1 \/ ~Rows[r].over)
                                                     /\ \E i \in r..LineEnd(r) : Rows[i].hit}}
         x == [a EXCEPT !.gline = gl, !.innerlight = 0]
     IN IF found = {}
        THEN v' = [x EXCEPT !.innersearch = 0, !.bufpos = v.artpos, !.keys = @ + 1]
        ELSE LET p == CHOOSE q \in found : \A w \in found : q <= w IN
             IF p <= v.artpos
             THEN LET y == IF p < v.artpos THEN Reached([x EXCEPT !.artline = v.topline + 1], p) ELSE x
                      top == y.artline - 1 - gl
                  IN v' = Paging(Refreshed([y EXCEPT !.highlight = y.artline - 1, !.innersearch = 0,
                                                     !.topline = IF top < -1 THEN -1 ELSE top]))
             ELSE v' = Paging([x EXCEPT !.innersearch = p, !.dofseek = TRUE, !.hideall = "f",
                                        !.jumped = TRUE])

\* Commands that leave the pager, with the article marked as read or not.
Raise == /\ In("more")
         /\ \E marks \in BOOLEAN :
              v' = [v EXCEPT !.pc = "end", !.read = IF marks /\ @ = "no" THEN "command" ELSE @]

-----------------------------------------------------------------------------
(* The prompt after the article: l, b, B, ^E go back into it, and ^R and the *)
(* next article begin at the top.                                           *)

Again == /\ Typed("end")
         /\ v' = [Paging(Refreshed(v)) EXCEPT !.dofseek = TRUE]
BackIn == /\ Typed("end")
          /\ \E page \in BOOLEAN :
               v' = Paging(IF page THEN PageBack(v) ELSE Back(v, v.topline - 1))
EndIn == /\ Typed("end")
         /\ v' = Paging([Clear(ToEnd(v)) EXCEPT !.dofseek = TRUE, !.firstpage = v.artline < 0])
NextArticle == In("end") /\ v' = Fresh(v.mode)

Next == \/ BeginPage \/ ShowRow \/ EndPage \/ Interrupt
        \/ LineDown \/ PageDown \/ HalfDown \/ Refresh \/ PageUp \/ LineUp \/ End
        \/ (\E g \in {0, 3} : Search(g)) \/ Raise
        \/ Again \/ BackIn \/ EndIn \/ NextArticle

Spec == Init /\ [][Next]_v

-----------------------------------------------------------------------------
Visible(p) == SelectSeq([i \in 1..p |-> i], LAMBDA i : ~Rows[i].hide)

\* The line B inserts may be followed by rows that the end of the screen cut off a
\* line wider than it: the positions are then wrong (README).
CutByInsert == v.mode.insert /\ \E r \in 1..Size : Rows[r].over

\* The screen at a prompt: the rows on it are consecutive rows of the article and
\* the last is the one before artpos, as many as the numbers of the first line on
\* the screen and of the next line say.
ScreenIsRun ==
  v.part = "pager" /\ v.pc = "more" /\ ~CutByInsert =>
    LET rows == SelectSeq(v.scr, LAMBDA r : r # 0)
    IN /\ IsSuffix(rows, Visible(v.artpos))
       /\ Len(v.scr) = v.artline - v.topline

\* An article that is marked as read because its end was reached has been put out
\* as a whole, unless the user has jumped forward in it.
ReadIsSeen ==
  v.part = "pager" /\ v.read = "seen" /\ ~v.jumped /\ ~CutByInsert => \A i \in v.seen + 1..Size : Rows[i].hide
=============================================================================
