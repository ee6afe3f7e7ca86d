------------------------------- MODULE RcLine -------------------------------
(***************************************************************************)
(* The numbers on the line of a newsgroup in a newsrc, as src/rcln.cpp and *)
(* src/bits.cpp write, read and repair them.  A line is a sequence of      *)
(* items: a single article number `n' or a range `min-max'.  Its text is   *)
(* those items with commas between, and the operators below do to the      *)
(* items what the code does to the text.  The blank that may precede the   *)
(* first item is left out.                                                 *)
(***************************************************************************)
EXTENDS Integers, Sequences, FiniteSetsExt

Single(n)       == [range |-> FALSE, min |-> n, max |-> n]
RangeOf(lo, hi) == [range |-> TRUE,  min |-> lo, max |-> hi]

\* The items there are over the numbers in N.  The range `1-0' is how a line
\* begins when nothing from article 1 on has been read.
Item(N) == {Single(n) : n \in N} \cup {RangeOf(lo, hi) : lo \in N, hi \in N}
             \cup {RangeOf(1, 0)}

\* The article numbers a line marks as read.
Read(line) == UNION {line[i].min .. line[i].max : i \in DOMAIN line}

-----------------------------------------------------------------------------
(* addartnum: marking one more article.                                    *)

\* How many items the loop of addartnum passes: those that begin at or
\* before n.
Passed(line, n) ==
  Cardinality({i \in DOMAIN line : \A j \in 1 .. i : line[j].min <= n})

InPassed(line, n) ==
  \E i \in 1 .. Passed(line, n) : n \in line[i].min .. line[i].max

\* n put between the items before it and those after it, joined to the
\* neighbours it touches.  lastnum is where the items before it end; when that
\* is 0, at the end of the line `1-0', no comma is put before the number, which
\* makes n the end of that range.
InsertNum(line, n) ==
  LET k       == Passed(line, n)
      lastnum == IF k = 0 THEN 0 ELSE line[k].max
      morenum == k < Len(line)
      extends == lastnum # 0 /\ n = lastnum + 1
      glued   == k > 0 /\ lastnum = 0 /\ ~morenum
      joins   == morenum /\ line[k + 1].min = n + 1
      new     == IF extends \/ glued \/ joins
                 THEN RangeOf(IF extends \/ glued THEN line[k].min ELSE n,
                              IF joins THEN line[k + 1].max ELSE n)
                 ELSE Single(n)
  IN SubSeq(line, 1, IF extends \/ glued THEN k - 1 ELSE k)
       \o <<new>>
       \o SubSeq(line, IF joins THEN k + 2 ELSE k + 1, Len(line))

-----------------------------------------------------------------------------
(* checkexpired: what is before the first article of the group is read.    *)

\* (mutant) Nothing that is before a1st is deleted.
CheckExpiredKeeps(line, a1st) ==
  IF a1st <= 1 THEN line ELSE <<RangeOf(1, a1st - 1)>> \o line

\* (mutant) The first article of the group is marked as well.
CheckExpiredOneMore(line, a1st) ==
  IF a1st <= 1 THEN line
  ELSE <<RangeOf(1, a1st)>> \o SelectSeq(line, LAMBDA item : item.min > a1st)

CheckExpired(line, a1st) ==
  LET k       == Cardinality({i \in DOMAIN line :
                    /\ line[i].min <= a1st
                    /\ \A j \in 1 .. i - 1 : line[j].max <= a1st})
      inrange == k > 0 /\ line[k].max > a1st
      lastnum == IF k = 0 THEN 0 ELSE line[k].max
      rest    == SubSeq(line, k + 1, Len(line))
  IN IF a1st <= 1 THEN line
     ELSE IF ~inrange
       THEN <<RangeOf(1, IF lastnum = a1st THEN a1st ELSE a1st - 1)>> \o rest
     ELSE IF line[k].min = 1 THEN line
     ELSE <<RangeOf(1, line[k].max)>> \o rest

-----------------------------------------------------------------------------
(* set_toread: counting what a line leaves unread of ngsize articles.      *)

\* A range takes its articles off the count, and then, since the test whether
\* its last number is 0 follows for ranges too, one more.
Taken(item) ==
  (IF item.range THEN item.max - item.min + 1 ELSE 0)
    + (IF item.max # 0 THEN 1 ELSE 0)

\* unread: the count so far; ngsize: the articles there are, raised by a
\* number beyond them if lax, otherwise such a number ends the count.
CountItem(acc, item, lax) ==
  CASE acc.over -> acc
    [] ~acc.over /\ item.max <= acc.ngsize ->
         [acc EXCEPT !.unread = @ - Taken(item)]
    [] ~acc.over /\ item.max > acc.ngsize /\ lax ->
         [acc EXCEPT !.unread = @ - Taken(item) + item.max - acc.ngsize,
                     !.ngsize = item.max]
    [] OTHER -> [acc EXCEPT !.unread = -1, !.over = TRUE]

Count(line, ngsize, lax) ==
  LET acc[i \in 0 .. Len(line)] ==
        IF i = 0 THEN [unread |-> ngsize, ngsize |-> ngsize, over |-> FALSE]
        ELSE CountItem(acc[i - 1], line[i], lax)
  IN acc[Len(line)]

-----------------------------------------------------------------------------
(* rc_to_bits and bits_to_rc: a line and the unread articles of a group.   *)

HasHead(line) == line # <<>> /\ line[1].range /\ line[1].min = 1

\* (mutant) The last article of the first range is not skipped.
FirstartEarly(line, absfirst) ==
  IF HasHead(line) /\ line[1].max > absfirst THEN line[1].max ELSE absfirst

\* set_firstart: the first range, if it starts at 1, is skipped.
Firstart(line, absfirst) ==
  IF HasHead(line) /\ line[1].max + 1 > absfirst
  THEN line[1].max + 1 ELSE absfirst

\* The articles from firstart to lastart that an item behind the head marks:
\* an item before firstart is moved up to it.
Clipped(item, firstart, lastart) ==
  LET min == CASE item.min > lastart  -> lastart + 1
               [] item.min < firstart -> firstart
               [] OTHER               -> item.min
      max == IF item.range THEN item.max ELSE min
  IN min .. (IF max > lastart THEN lastart ELSE max)

\* What becomes unread of the articles that exist.
LineToBits(line, absfirst, lastart, exists) ==
  LET firstart == Firstart(line, absfirst)
      items    == IF HasHead(line) THEN Tail(line) ELSE line
      read     == UNION {Clipped(items[i], firstart, lastart) : i \in DOMAIN items}
  IN {n \in exists : n \in firstart .. lastart} \ read

\* The i-th of the numbers in S, in ascending order.
Nth(S, i) == CHOOSE n \in S : Cardinality({m \in S : m < n}) = i - 1

\* The line for what is unread from absfirst to lastart: a first range up to
\* the first unread article, then each run of others behind it.
BitsToLine(absfirst, lastart, unread) ==
  LET first  == Min({n \in unread : n >= absfirst} \cup {lastart + 1})
      starts == {n \in first + 1 .. lastart : n \notin unread /\ n - 1 \in unread}
      end(n) == Min({m \in unread : m > n} \cup {lastart + 1}) - 1
      run(n) == IF end(n) > n THEN RangeOf(n, end(n)) ELSE Single(n)
  IN <<RangeOf(1, first - 1)>>
       \o [i \in 1 .. Cardinality(starts) |-> run(Nth(starts, i))]
=============================================================================
