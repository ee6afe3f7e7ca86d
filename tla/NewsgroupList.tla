---------------------------- MODULE NewsgroupList ----------------------------
(***************************************************************************)
(* The list of newsgroups in memory, and the loop that offers them one     *)
(* after the other (rcstuff.cpp, ngdata.cpp, trn.cpp, ngsrch.cpp,          *)
(* addng.cpp and the newsgroup selector of rt-select.cpp).                 *)
(*                                                                         *)
(* The list is linked in both directions, in the order of the newsrc or in *)
(* an order the user chose; g_newsrc_hash finds a group by its name, and   *)
(* five pointers name groups of the list.  Groups are added, moved, sorted *)
(* and, once the news server has forgotten them, deleted, by commands, by  *)
(* each write of the newsrc, and by the loop itself when it meets a group  *)
(* that is bogus.                                                          *)
(*                                                                         *)
(* A group has at most one unread article.  There is one newsrc.           *)
(***************************************************************************)
EXTENDS Integers, FiniteSets, FiniteSetsExt, SequencesExt

CONSTANTS
    Names,         \* the names of newsgroups, numbers in the order of names
    Lines,         \* the names on the lines of the newsrc
    Unread,        \* the sets of groups that may have an unread article at first
    Bogus,         \* the groups that may be unknown to the server at first
    Patterns,      \* the sets of names that a pattern may match
    Orders,        \* the orders of the newsgroup selector that are tried
    Commands,      \* the commands that the user types,
    RawCommands,   \*   and those that the user types in the selector, after a `\'
    AutoSubscribe, \* what happens with each group that is new: "ask", "sub" or "unsub"
    AppendUnsub,   \* g_append_unsub
    Quick,         \* g_suppress_cn
    MaxSlots,      \* the bounds of the model: groups that fit,
    MaxCommands,   \*   commands that are typed
    MaxNews        \*   and changes on the server

Slots == 1..MaxSlots
Null == 0
Freed == 0       \* rcline is null

\* toread of a group that is not to be read
NONE == 0
UNSUB == -1
IGNORE == -2
BOGUS == -3

ASSUME NewsgroupListAssumption ==
    /\ Names \subseteq Nat \ {Freed}
    /\ \A i \in DOMAIN Lines : Lines[i] \in Names
    /\ Len(Lines) \in 1..MaxSlots

VARIABLES
    m,        \* the list, the pointers into it, and where the loop is (looked is not in
              \*   the code: it counts the groups that the loop has looked at)
    active,   \* the names that the server knows
    typed,    \* the commands that were typed (bounded)
    news      \* the changes on the server (bounded)

vars == <<m, active, typed, news>>

----------------------------------------------------------------------------
(* The list.                                                               *)

Live(z) == {s \in Slots : z.name[s] # Freed}

\* The groups from g_first_ng along the next pointers.
Path(z) ==
    LET walk[n \in 0..MaxSlots] ==
            IF n = 0 THEN <<z.first>>
            ELSE LET w == walk[n - 1] IN
                 Append(w, IF Last(w) = Null THEN Null ELSE z.next[Last(w)])
    IN SelectSeq(walk[MaxSlots], LAMBDA s : s # Null)

PlaceOf(p, s) == CHOOSE i \in DOMAIN p : p[i] = s

\* The pointers are set along the sequence p.
Linked(z, p) ==
    LET at(i) == IF i \in DOMAIN p THEN p[i] ELSE Null IN
    [z EXCEPT !.first = at(1), !.last = at(Len(p)),
              !.next = [s \in Slots |-> IF s \in ToSet(p) THEN at(PlaceOf(p, s) + 1) ELSE @[s]],
              !.prev = [s \in Slots |-> IF s \in ToSet(p) THEN at(PlaceOf(p, s) - 1) ELSE @[s]]]

\* Negative when s comes before t, as the comparisons of qsort are.
Compare(z, s, t) ==
    CASE z.by = "name" -> (z.name[s] - z.name[t]) * z.dir
      [] z.by = "count" /\ z.toread[s] # z.toread[t] -> (z.toread[s] - z.toread[t]) * z.dir
      [] z.by = "count" /\ z.toread[s] = z.toread[t] -> z.num[s] - z.num[t]
      [] OTHER -> (z.num[s] - z.num[t]) * z.dir

SortedPath(z, p) ==
    LET before(i, j) == LET c == Compare(z, p[i], p[j]) IN c < 0 \/ (c = 0 /\ i < j)
        order == SetToSortSeq(DOMAIN p, before)
    IN [i \in DOMAIN p |-> p[order[i]]]

Sort(z) == IF z.first = z.last THEN z ELSE Linked(z, SortedPath(z, Path(z)))

SortNatural(z) == Sort([z EXCEPT !.by = "natural", !.dir = 1])

IsNatural(z) == z.order = [by |-> "natural", dir |-> 1]

\* A reversed order is a negative number, which sort_newsgroups does not know.
SortAgain(z, by) ==
    IF IsNatural(z) THEN z
    ELSE [Sort([z EXCEPT !.by = IF z.order.dir = 1 THEN z.order.by ELSE "natural"])
          EXCEPT !.by = by]

\* (mutant) The list stays in the order of the newsrc.
WriteNewsrcsNatural(z) == IF IsNatural(z) THEN z ELSE [SortNatural(z) EXCEPT !.by = z.by]

WriteNewsrcs(z) == IF IsNatural(z) THEN z ELSE SortAgain(SortNatural(z), z.by)

----------------------------------------------------------------------------
(* One group.                                                              *)

SetNgname(z, n) == [z EXCEPT !.ngname = n]
SetNg(z, s) == [z EXCEPT !.here = s, !.ngname = IF s = Null THEN @ ELSE z.name[s]]

\* A group that the server does not know is unsubscribed, and makes trn paranoid.
SetToread(z, s) ==
    IF z.name[s] \notin active
    THEN [z EXCEPT !.subscribed[s] = FALSE, !.toread[s] = BOGUS, !.paranoid = TRUE]
    ELSE [z EXCEPT !.virgin[s] = FALSE,
                   !.toread[s] = IF z.subscribed[s] THEN z.left[s] ELSE UNSUB]

SetToreads(z, p) == FoldLeft(SetToread, z, p)

CatchUp(z, s) ==
    WriteNewsrcs([z EXCEPT !.left[s] = 0, !.toread[s] = NONE,
                           !.virgin[s] = @ /\ z.name[s] \notin active,
                           !.subscribed[s] = @ /\ z.name[s] \in active])

\* All but some articles
CatchUpSome(z, s) == WriteNewsrcs(SetToread(z, s))

Unsubscribe(z, s) == [z EXCEPT !.subscribed[s] = FALSE, !.toread[s] = UNSUB]

AddNewsgroup(z, n, subscribed, left) ==
    LET s == z.used + 1 IN
    [z EXCEPT !.used = s, !.cnt = @ + 1,
              !.prev[s] = z.last, !.next[s] = Null, !.last = s,
              !.next = IF z.last = Null THEN @ ELSE [@ EXCEPT ![z.last] = s],
              !.first = IF z.last = Null THEN s ELSE @,
              !.name[s] = n, !.num[s] = s - 1, !.subscribed[s] = subscribed,
              !.left[s] = left, !.toread[s] = NONE, !.virgin[s] = TRUE, !.hash[n] = s]

----------------------------------------------------------------------------
(* Moving a group.                                                         *)

Renumber(z) ==
    LET p == Path(z) IN
    [z EXCEPT !.num = [s \in Slots |-> IF s \in ToSet(p) THEN PlaceOf(p, s) - 1 ELSE @[s]]]

\* (mutant) The group after it keeps its pointer back.
ToEndOneWay(z, s) ==
    LET before == z.prev[s]
        after == z.next[s]
    IN [z EXCEPT !.first = IF before = Null THEN after ELSE @,
                 !.next = [x \in Slots |-> CASE x = before -> after
                                             [] x = z.last -> s
                                             [] x = s -> Null
                                             [] OTHER -> @[x]],
                 !.prev = [@ EXCEPT ![s] = z.last],
                 !.last = s]

ToEnd(z, s) ==
    LET before == z.prev[s]
        after == z.next[s]
    IN [z EXCEPT !.first = IF before = Null THEN after ELSE @,
                 !.next = [x \in Slots |-> CASE x = before -> after
                                             [] x = z.last -> s
                                             [] x = s -> Null
                                             [] OTHER -> @[x]],
                 !.prev = [@ EXCEPT ![after] = before, ![s] = z.last],
                 !.last = s]

MoveToEnd(z, s) == Renumber([(IF s = z.last THEN z ELSE ToEnd(z, s)) EXCEPT !.start = Null])

\* s, which is the last group, goes before t.
Cut(z, s) == [z EXCEPT !.last = z.prev[s], !.next[z.prev[s]] = Null]

Insert(z, s, t) ==
    [z EXCEPT !.prev[s] = z.prev[t], !.next[s] = t, !.prev[t] = s,
              !.next = IF z.prev[t] = Null THEN [@ EXCEPT ![s] = t]
                       ELSE [@ EXCEPT ![z.prev[t]] = s, ![s] = t],
              !.first = IF z.prev[t] = Null THEN s ELSE @]

NumberFrom(z, p, s, n) ==
    [z EXCEPT !.num = [x \in Slots |->
        IF x \in ToSet(p) /\ PlaceOf(p, x) >= PlaceOf(p, s)
        THEN n + PlaceOf(p, x) - PlaceOf(p, s) ELSE @[x]]]

\* s goes before the first group whose number is n or more.
PutBefore(z, s, n) ==
    LET put(y) == NumberFrom(y, Path(y), s, n) IN
    put(Insert(Cut(z, s), s, SelectSeq(Path(z), LAMBDA x : z.num[x] >= n)[1]))

\* (mutant) A group that goes before the last one stays at the end.
PutShort(z, s, n) == IF n < z.cnt - 2 THEN PutBefore(z, s, n) ELSE z

Put(z, s, n) == IF n < z.cnt - 1 THEN PutBefore(z, s, n) ELSE z

RelocateNewsgroup(z, s, n) ==
    LET y == IF IsNatural(z) THEN z ELSE SortNatural(z) IN
    SortAgain(Put(MoveToEnd(y, s), s, n), z.by)

\* The outcomes when the user is asked for the place, and may make the order of the list
\* that of the newsrc or stop with `q'; each other answer is a number.  The answer `.'
\* when there is no current group follows a null pointer.
PlacesFor(z, s) ==
    {[ok |-> TRUE, z |-> SortAgain(Put(z, s, n), z.by)] : n \in 0..(z.cnt - 1)}
    \cup {[ok |-> FALSE, z |-> z]}
    \cup {[ok |-> FALSE, z |-> [z EXCEPT !.at = "crashed"]] : x \in {Null} \cap {z.current}}

AskRelocate(z, s) ==
    UNION {PlacesFor(MoveToEnd(y, s), s)
           : y \in IF IsNatural(z) THEN {z}
                   ELSE {SortNatural(z),
                         [z EXCEPT !.order = [by |-> "natural", dir |-> 1],
                                   !.by = "natural", !.dir = 1]}}

----------------------------------------------------------------------------
(* Bogus groups.                                                           *)

IsBogus(z, s) == s # Null /\ z.toread[s] = BOGUS

\* From s back to the first group that is not bogus.
SkipBogus(z, s) ==
    LET back[n \in 0..MaxSlots] ==
            IF n = 0 THEN s
            ELSE LET x == back[n - 1] IN IF IsBogus(z, x) THEN z.prev[x] ELSE x
    IN back[MaxSlots]

\* Each bogus group from s back is moved to the end.
MoveBogus(z, s) ==
    LET step(w) == [z |-> IF IsBogus(w.z, w.s) THEN RelocateNewsgroup(w.z, w.s, w.z.cnt - 1) ELSE w.z,
                    s |-> w.z.prev[w.s]]
        walk[n \in 0..MaxSlots] ==
            IF n = 0 THEN [z |-> z, s |-> s]
            ELSE LET w == walk[n - 1] IN IF w.s = Null THEN w ELSE step(w)
    IN walk[MaxSlots].z

\* Bogus groups other than those after s, at the end, are moved there.  When most groups
\* are bogus cleanup_newsrc believes none of it; when it moved some it asks whether to
\* delete them.
CleanupAfter(z, s, bogus, back) ==
    LET trailing == IF s = Null THEN z.cnt ELSE z.cnt - PlaceOf(Path(z), s) IN
    IF bogus = trailing \/ (z.cnt > 5 /\ bogus - trailing > z.cnt \div 2)
    THEN [z EXCEPT !.paranoid = FALSE, !.at = back]
    ELSE [MoveBogus(z, s) EXCEPT !.at = "bogus", !.back = back]

CleanupNewsrc(z, back) ==
    LET counted(y) == CleanupAfter(y, SkipBogus(y, y.last),
                                   Cardinality({x \in ToSet(Path(y)) : IsBogus(y, x)}), back)
    IN counted(SetToreads(z, SelectSeq(Path(z), LAMBDA s : z.toread[s] >= UNSUB)))

\* Nothing looks at what is left of a group whose line is freed.
Cleared(z) ==
    LET live == Live(z) IN
    [z EXCEPT !.num = [s \in Slots |-> IF s \in live THEN @[s] ELSE 0],
              !.next = [s \in Slots |-> IF s \in live THEN @[s] ELSE Null],
              !.prev = [s \in Slots |-> IF s \in live THEN @[s] ELSE Null],
              !.subscribed = [s \in Slots |-> s \in live /\ @[s]],
              !.left = [s \in Slots |-> IF s \in live THEN @[s] ELSE 0],
              !.toread = [s \in Slots |-> IF s \in live THEN @[s] ELSE NONE],
              !.virgin = [s \in Slots |-> s \in live => @[s]]]

DeleteBogus(z) ==
    LET s == SkipBogus(z, z.last)
        gone == IF s = Null THEN ToSet(Path(z))
                ELSE {x \in ToSet(Path(z)) : PlaceOf(Path(z), x) > PlaceOf(Path(z), s)}
        first == IF s = Null THEN Null ELSE z.first
        kept(x) == IF x \in gone THEN first ELSE x
    IN Cleared([z EXCEPT !.hash = [n \in Names |-> IF \E x \in gone : z.name[x] = n THEN Null ELSE @[n]],
                         !.name = [x \in Slots |-> IF x \in gone THEN Freed ELSE @[x]],
                         !.cnt = @ - Cardinality(gone), !.last = s, !.first = first,
                         !.next = IF s = Null THEN @ ELSE [@ EXCEPT ![s] = Null],
                         !.current = kept(@), !.recent = kept(@), !.here = kept(@)])

----------------------------------------------------------------------------
(* Finding and adding a group.                                             *)

\* The last part of get_ng
Placed(z, relocate) ==
    {[ok |-> r.ok /\ z.toread[z.here] >= NONE, z |-> r.z]
     : r \in IF relocate THEN AskRelocate(z, z.here) ELSE {[ok |-> TRUE, z |-> z]}}

Got(z, relocate) == Placed(SetToread(z, z.here), relocate)

\* The new group is where g_ngptr is.
Added(z, n, subscribed) ==
    {LET y == AddNewsgroup(z, n, subscribed, left) IN [y EXCEPT !.here = y.last] : left \in {0, 1}}

Refused(z) == {[ok |-> FALSE, z |-> z]}

\* What the user may answer when asked about a new group, `Y' and `N' for all new groups
\* (addnew), or what was answered before or AUTOSUBSCRIBE and AUTOUNSUBSCRIBE say.
Answers(z) ==
    CASE z.addnew = "sub" -> {[addnew |-> "sub", subscribed |-> TRUE, relocate |-> FALSE]}
      [] z.addnew = "unsub" -> {[addnew |-> "unsub", subscribed |-> FALSE, relocate |-> FALSE]}
      [] OTHER -> {[addnew |-> "ask", subscribed |-> TRUE, relocate |-> TRUE],
                   [addnew |-> "sub", subscribed |-> TRUE, relocate |-> FALSE],
                   [addnew |-> "ask", subscribed |-> FALSE, relocate |-> FALSE],
                   [addnew |-> "unsub", subscribed |-> FALSE, relocate |-> FALSE]}

\* A group that is not in the newsrc is added, unless it is not wanted and AppendUnsub does
\* not hold; after the answer `n' get_ng returns at once.
AddNg(z, n) ==
    UNION {LET after(y) == IF a.addnew = "ask" /\ ~a.subscribed THEN Refused(y) ELSE Got(y, a.relocate)
               x == [z EXCEPT !.addnew = a.addnew]
           IN UNION {after(y) : y \in IF a.subscribed \/ AppendUnsub
                                      THEN Added(x, n, a.subscribed) ELSE {}}
              \cup (IF a.subscribed \/ AppendUnsub THEN {} ELSE Refused(x))
           : a \in Answers(z)}

\* The outcomes of get_ng(n); initializing says that trn starts.
FoundNg(z, relocate, initializing) ==
    IF initializing THEN Refused(z)
    ELSE (IF z.subscribed[z.here] THEN {} ELSE Refused(z))
         \cup Got([z EXCEPT !.subscribed[z.here] = TRUE], relocate /\ z.subscribed[z.here])

NewNg(z, n, auto) ==
    {[r EXCEPT !.z.addnew = IF auto = "ask" THEN @ ELSE z.addnew]
     : r \in AddNg([z EXCEPT !.addnew = IF auto = "ask" THEN @ ELSE auto], n)}

GetNg(z, n, relocate, initializing) ==
    LET y == [z EXCEPT !.ngname = n, !.here = z.hash[n]]
    IN CASE y.here # Null -> FoundNg(y, relocate, initializing)
         [] y.here = Null /\ n \in active ->
              IF y.used = MaxSlots THEN {}
              ELSE NewNg(y, n, IF initializing THEN AutoSubscribe[n] ELSE "ask")
         [] OTHER -> Refused(y)

\* `g': a name that is not known may be taken for another one.
GetNgFuzzy(z, n) ==
    UNION {GetNg(z, x, FALSE, FALSE)
           : x \in {n} \cup (IF z.hash[n] = Null /\ n \notin active THEN active ELSE {})}

----------------------------------------------------------------------------
(* Reading the newsrc.                                                     *)

\* Each line is a record of a name, the sign after it, and what is left to read.  With
\* Quick the groups after the first that has news are not counted yet.
AddLine(z, line) ==
    LET s == z.used + 1
        y == [AddNewsgroup([z EXCEPT !.hash[line.n] = Null], line.n, line.subscribed, line.left)
              EXCEPT !.hash[line.n] = IF z.hash[line.n] = Null THEN s ELSE z.hash[line.n]]
    IN CASE z.hash[line.n] # Null -> [y EXCEPT !.toread[s] = IGNORE]
         [] z.hash[line.n] = Null /\ ~line.subscribed -> [y EXCEPT !.toread[s] = UNSUB]
         [] OTHER ->
              LET w == IF Quick /\ z.found /\ ~z.paranoid THEN y ELSE SetToread(y, s) IN
              IF w.toread[s] > NONE /\ ~w.found THEN [w EXCEPT !.start = s, !.found = TRUE] ELSE w

Empty(z) ==
    [Cleared([z EXCEPT !.name = [s \in Slots |-> Freed]])
     EXCEPT !.hash = [n \in Names |-> Null],
              !.used = 0, !.cnt = 0, !.first = Null, !.last = Null,
              !.here = Null, !.current = Null, !.recent = Null, !.start = Null]

OpenNewsrc(z, lines, back) ==
    LET y == FoldLeft(AddLine, Empty(z), lines) IN
    IF y.paranoid THEN CleanupNewsrc(y, back) ELSE [y EXCEPT !.at = back]

\* use_next_multirc when there is one newsrc: it is written and read again.
Reopened(z, back) ==
    LET line(s) == [n |-> z.name[s], subscribed |-> z.subscribed[s], left |-> z.left[s]]
        p == Path(WriteNewsrcs(SortNatural(z)))
    IN OpenNewsrc(z, [i \in DOMAIN p |-> line(p[i])], back)

EndOnly(z) == IF z.only = Names THEN z ELSE [z EXCEPT !.only = Names, !.min = 1]

----------------------------------------------------------------------------
(* The loop of do_multirc.                                                 *)

\* The loop starts again at g_starthere or at the first group.
Outer(z) ==
    [z EXCEPT !.here = IF z.start # Null THEN z.start ELSE z.first, !.start = Null,
              !.retry = FALSE, !.looked = 0, !.at = "scan"]

Restart(z) == Outer([z EXCEPT !.current = z.first])

\* The user is asked again, about the group at g_ngptr.
Ask(z) ==
    [z EXCEPT !.at = "prompt", !.retry = @ \/ (z.here # Null /\ z.toread[z.here] > NONE)]

Prompt(z) ==
    Ask([z EXCEPT !.special = FALSE, !.looked = 0,
                  !.recent = IF z.here = z.current THEN @ ELSE z.current, !.current = z.here])

Wanted(z) == z.fits /\ z.toread[z.here] >= IF z.special THEN NONE ELSE z.min

\* (mutant) The loop does not turn round at the first group.
PassBack(z) ==
    IF z.forward THEN [z EXCEPT !.here = z.next[z.here]]
    ELSE IF z.prev[z.here] # Null THEN [z EXCEPT !.here = z.prev[z.here]]
    ELSE [z EXCEPT !.here = z.first]

Pass(z) ==
    IF z.forward THEN [z EXCEPT !.here = z.next[z.here]]
    ELSE IF z.prev[z.here] # Null THEN [z EXCEPT !.here = z.prev[z.here]]
    ELSE [z EXCEPT !.here = z.next[z.first], !.forward = TRUE]

Judge(z) ==
    CASE z.here = Null -> [z EXCEPT !.at = "crashed"]
      [] z.here # Null /\ Wanted(z) -> Prompt(z)
      [] OTHER -> [Pass(z) EXCEPT !.at = "scan", !.fits = TRUE]

\* The group is counted; a bogus one has all groups checked.
Consider(z) ==
    LET fits == z.name[z.here] \in z.only
        y == [SetNgname(z, z.name[z.here]) EXCEPT !.fits = fits]
        w == IF fits THEN SetToread(y, z.here) ELSE y
    IN CASE z.toread[z.here] < NONE -> Judge(z)
         [] z.toread[z.here] >= NONE /\ w.paranoid ->
              CleanupNewsrc([w EXCEPT !.recent = w.current, !.current = w.here], "judge")
         [] OTHER -> Judge(w)

\* After the last group a restriction without news is lifted.
AtEnd(z) == Prompt(IF z.only # Names /\ ~z.retry THEN [EndOnly(z) EXCEPT !.retry = TRUE] ELSE z)

----------------------------------------------------------------------------
(* Reading a group.                                                        *)

\* What do_newsgroup may do with the group at g_ngptr
ReadNewsgroup(z) ==
    LET s == z.here
        failed(r) == [ret |-> "error", z |-> [z EXCEPT !.toread[s] = r]]
        outcomes == [left : {0, 1}, subscribed : {z.subscribed[s]},
                     ret : {"norm", "next", "ask", "prior", "selnext", "minus"}]
                    \cup [left : {z.left[s]}, subscribed : {FALSE}, ret : {"norm"}]
    IN IF z.name[s] \notin active THEN {failed(BOGUS)}
       ELSE {failed(NONE)}
            \cup {[ret |-> o.ret,
                   z |-> WriteNewsrcs([z EXCEPT !.left[s] = o.left, !.subscribed[s] = o.subscribed,
                                                !.virgin[s] = FALSE,
                                                !.toread[s] = IF o.subscribed THEN o.left ELSE UNSUB])]
                  : o \in outcomes}

----------------------------------------------------------------------------
(* Commands about many groups.                                             *)

\* The commands `c' and `u' of ng_perform
NgPerform(z, c) == IF c = "c" THEN CatchUp(z, z.here) ELSE Unsubscribe(z, z.here)

Steps == MaxSlots * (MaxSlots + 1)

\* `:' does the command on the groups of S; a catch-up may sort the list under the loop.
NgselPerform(z, S, c) ==
    LET step(w) == LET y == IF w.toread[w.here] < w.min THEN w
                            ELSE IF w.here \in S THEN NgPerform(SetNg(w, w.here), c)
                            ELSE SetNg(w, w.here)
                   IN [y EXCEPT !.here = y.next[y.here]]
        walk[n \in 0..Steps] ==
            IF n = 0 THEN [z EXCEPT !.here = z.first]
            ELSE LET w == walk[n - 1] IN IF w.here = Null THEN w ELSE step(w)
    IN walk[Steps]

\* `/pattern/command' does it on the groups with news whose names are in N, and ends at the
\* group where it began.
NgSearchPerform(z, N, c) ==
    LET begin == IF z.here = Null THEN z.first ELSE z.here
        step(w) == LET x == IF w.toread[w.here] >= NONE /\ w.name[w.here] \in N
                            THEN (IF w.toread[w.here] = NONE THEN SetToread(w, w.here) ELSE w) ELSE w
                       y == IF w.toread[w.here] >= NONE /\ w.name[w.here] \in N /\ x.toread[w.here] > NONE
                            THEN NgPerform(SetNg(x, x.here), c) ELSE x
                   IN [y EXCEPT !.here = IF y.next[y.here] = Null THEN y.first ELSE y.next[y.here]]
        walk[n \in 0..Steps] ==
            IF n = 0 THEN [z EXCEPT !.here = begin]
            ELSE LET w == walk[n - 1] IN IF n > 1 /\ w.here = begin THEN w ELSE step(w)
    IN IF begin = Null THEN z ELSE walk[Steps]

\* `/' and `?' without a command go to the next group with news whose name is in N, or back
\* to where they began.
NgSearch(z, N, backward) ==
    LET after(s) == IF backward THEN (IF z.prev[s] = Null THEN z.last ELSE z.prev[s])
                                ELSE (IF z.next[s] = Null THEN z.first ELSE z.next[s])
        begin == IF z.here # Null THEN z.here ELSE IF backward THEN z.last ELSE z.first
        counted(y) == IF y.toread[y.here] = NONE /\ y.name[y.here] \in N THEN SetToread(y, y.here) ELSE y
        hit(y) == y.toread[y.here] > NONE /\ y.name[y.here] \in N
        try(y) == [ok |-> hit(counted(y)), end |-> hit(counted(y)), z |-> counted(y)]
        walk[n \in 0..MaxSlots] ==
            IF n = 0 THEN try([z EXCEPT !.here = IF z.here # Null THEN after(begin) ELSE begin])
            ELSE LET w == walk[n - 1]
                     y == [w.z EXCEPT !.here = after(@)]
                 IN CASE w.end -> w
                      [] ~w.end /\ y.here = begin -> [ok |-> FALSE, end |-> TRUE, z |-> y]
                      [] OTHER -> try(y)
    IN IF begin = Null THEN [ok |-> FALSE, z |-> z] ELSE walk[MaxSlots]

\* Leaving the newsgroup selector catches up the groups of D, which are marked as killed.
SelCleanup(z, D) ==
    LET step(w) == LET y == IF w.s \in w.del THEN CatchUp(w.z, w.s) ELSE w.z
                   IN [z |-> y, s |-> y.next[w.s], del |-> w.del \ {w.s}]
        walk[n \in 0..Steps] ==
            IF n = 0 THEN [z |-> z, s |-> z.first, del |-> D]
            ELSE LET w == walk[n - 1] IN IF w.s = Null THEN w ELSE step(w)
    IN walk[Steps].z

\* The groups of list that are counted: up to the first that the server does not know.
Counted(z, list) ==
    LET unknown == {i \in DOMAIN list :
                      z.paranoid \/ (z.virgin[list[i]] /\ z.name[list[i]] \notin active)}
    IN IF unknown = {} THEN list ELSE SubSeq(list, 1, Min(unknown))

\* z is the list after they were counted.
ShowGroups(z, list, last) ==
    CASE z.paranoid /\ list # <<>> ->
           CleanupNewsrc([z EXCEPT !.current = last, !.here = last], "page")
      [] (~z.paranoid \/ list = <<>>) /\ z.only # Names /\ (\A i \in DOMAIN list : z.toread[list[i]] < z.min) ->
           [EndOnly(z) EXCEPT !.at = "page"]
      [] OTHER ->
           [z EXCEPT !.at = "selector", !.shown = {s \in ToSet(list) : z.toread[s] >= z.min}]

CountGroups(z, list, counted) ==
    ShowGroups(SetToreads(z, SelectSeq(counted, LAMBDA s : z.virgin[s])), list,
               IF counted = <<>> THEN Null ELSE Last(counted))

ListGroups(z, list) == CountGroups(z, list, Counted(z, list))

\* init_pages in the newsgroup selector, which counts the groups it shows
InitGroups(z) ==
    LET sorted(y) == ListGroups(y, SelectSeq(Path(y), LAMBDA s : y.toread[s] >= NONE /\ y.name[s] \in y.only))
    IN sorted(Sort(z))

----------------------------------------------------------------------------
(* The commands of input_newsgroup, which the newsgroup selector has too.  *)

Result(ret, z) == {[ret |-> ret, z |-> z]}

Forward(z) == [z EXCEPT !.forward = TRUE]

Previous(z, ret) ==
    Result(ret, [z EXCEPT !.forward = FALSE,
                          !.here = CASE z.here = Null -> z.last
                                     [] z.here # Null /\ z.here # z.first -> z.prev[z.here]
                                     [] OTHER -> z.here])

NextGroup(z, ret) ==
    Result(IF z.here = Null THEN "break" ELSE ret,
           [Forward(z) EXCEPT !.here = IF z.here = Null THEN Null ELSE z.next[z.here]])

\* `-'
LastOne(z) ==
    LET y == [Forward(z) EXCEPT !.here = z.recent] IN
    IF z.recent = Null THEN Result("special", y)
    ELSE {[ret |-> "special",
           z |-> [IF r.ok THEN r.z ELSE SetNg(r.z, r.z.current) EXCEPT !.addnew = "ask"]]
          : r \in GetNg(y, z.name[z.recent], FALSE, FALSE)}

\* `g' with a name, or with the number of a group
GoTo(z) ==
    UNION {{[ret |-> "special",
             z |-> [r.z EXCEPT !.here = IF r.ok THEN @ ELSE r.z.current, !.addnew = "ask"]]
            : r \in GetNgFuzzy(SetNgname(Forward(z), n), n)} : n \in Names}
    \cup Result("ask", [Forward(z) EXCEPT !.here = z.current])

\* ask_catchup, which may unsubscribe as well
AskCatchUp(z) ==
    {z, CatchUpSome(z, z.here)}
    \cup {[y EXCEPT !.subscribed[z.here] = @ /\ keep] : y \in {CatchUp(z, z.here)}, keep \in BOOLEAN}

\* `a' and `o': a restriction, and with `a' the groups that may be added
Restrict2(z, N, add) ==
    LET y == [EndOnly(Forward(z)) EXCEPT !.only = N, !.here = z.first]
        new == {n \in N \cap active : z.hash[n] = Null \/ z.toread[z.hash[n]] <= UNSUB}
    IN IF ~add THEN {[ret |-> "norm", z |-> [y EXCEPT !.min = min]] : min \in {0, 1}}
       ELSE {[ret |-> "norm",
              z |-> [y EXCEPT !.min = 1, !.adds = adds, !.at = "adding",
                              !.added = IF z.at = "selector" THEN "page" ELSE "scan"]]
             : adds \in SetToSeqs(new)}

\* The outcomes of one command.
InputNewsgroup(z, c) ==
    CASE c = "P" -> Previous(z, "special")
      [] c = "p" -> Previous(z, "norm")
      [] c = "n" -> NextGroup(z, "norm")
      [] c = "N" -> NextGroup(z, "special")
      [] c = "^" -> Result("norm", [Forward(z) EXCEPT !.here = z.first])
      [] c = "1" -> Result("special", [Forward(z) EXCEPT !.here = z.first])
      [] c = "$" -> Result("norm", [Forward(z) EXCEPT !.here = Null])
      [] c = "-" -> LastOne(z)
      [] c = "g" -> GoTo(z)
      [] c = "/" ->
           {[ret |-> IF r.ok THEN "special" ELSE "ask", z |-> r.z]
            : r \in {NgSearch(Forward(z), N, backward)
                     : N \in Patterns, backward \in BOOLEAN}}
           \cup UNION {Result("ask", NgSearchPerform(Forward(z), N, d))
                       : N \in Patterns, d \in {"c", "u"}}
      [] c = ":" ->
           UNION {LET y == NgselPerform(Forward(z), S, d) IN
                  Result("ask", SetNg(y, y.current)) : S \in SUBSET Live(z), d \in {"c", "u"}}
      [] c = "c" ->
           IF z.here = Null THEN Result("norm", Forward(z))
           ELSE {[ret |-> "norm",
                  z |-> IF y.toread[y.here] = NONE THEN [y EXCEPT !.here = y.next[y.here]] ELSE y]
                 : y \in AskCatchUp(Forward(z))}
      [] c = "u" ->
           Result("norm", IF z.here # Null /\ z.toread[z.here] >= NONE
                          THEN [Unsubscribe(Forward(z), z.here) EXCEPT !.here = z.next[z.here]]
                          ELSE Forward(z))
      [] c = "A" ->
           IF z.here = Null THEN Result("norm", Forward(z))
           ELSE Result("special", Forward(z))
                \cup {[ret |-> "special",
                       z |-> SetToread([Forward(z) EXCEPT !.subscribed[z.here] = TRUE,
                                                          !.left[z.here] = left], z.here)]
                      : left \in {0, 1}}
      [] c = "a" -> UNION {Restrict2(z, N, TRUE) : N \in Patterns}
      [] c = "o" -> UNION {Restrict2(z, N, FALSE) : N \in Patterns}
                    \cup Result("norm", [EndOnly(Forward(z)) EXCEPT !.here = z.first])
      [] c = "^N" -> Result("restart", Reopened(EndOnly(Forward(z)), "restart"))
      [] c = "q" -> Result("quit", Forward(z))
      [] OTHER -> {}

\* `y', and what follows the group that was read
EnterGroup(z) ==
    IF z.here = Null THEN Result("ask", Forward(z))
    ELSE UNION {CASE r.ret \in {"norm", "next", "error"} ->
                       Result("norm", [r.z EXCEPT !.here = r.z.next[r.z.here]])
                  [] r.ret = "ask" -> Result("ask", r.z)
                  [] r.ret = "prior" -> Previous(r.z, "norm")
                  [] r.ret = "selnext" -> NextGroup(r.z, "norm")
                  [] OTHER -> Result("special", [r.z EXCEPT !.here = r.z.recent])
                : r \in ReadNewsgroup(Forward(z))}

----------------------------------------------------------------------------
(* The steps.                                                              *)

\* do_multirc after a command
After(r) ==
    CASE r.z.at # "prompt" -> r.z
      [] r.z.at = "prompt" /\ r.ret = "norm" -> [r.z EXCEPT !.at = "scan"]
      [] r.z.at = "prompt" /\ r.ret = "special" -> [r.z EXCEPT !.at = "scan", !.special = TRUE]
      [] r.z.at = "prompt" /\ r.ret = "ask" -> Ask(r.z)
      [] r.z.at = "prompt" /\ r.ret = "break" -> Outer(r.z)
      [] OTHER -> [r.z EXCEPT !.at = "quit"]

\* newsgroup_commands after one of those commands
AfterInSelector(r) ==
    CASE r.z.at # "selector" -> [r.z EXCEPT !.back = IF r.ret = "restart" THEN "page" ELSE @,
                                            !.at = IF @ = "restart" THEN "page" ELSE @]
      [] r.z.at = "selector" /\ r.ret = "quit" -> [r.z EXCEPT !.at = "quit"]
      [] OTHER -> [r.z EXCEPT !.at = "page"]

Empty0 ==
    [name |-> <<>>, num |-> [s \in Slots |-> 0], next |-> <<>>, prev |-> <<>>,
     subscribed |-> [s \in Slots |-> FALSE], left |-> [s \in Slots |-> 0],
     toread |-> [s \in Slots |-> NONE], virgin |-> [s \in Slots |-> TRUE],
     first |-> Null, last |-> Null, cnt |-> 0, used |-> 0, hash |-> <<>>,
     here |-> Null, current |-> Null, recent |-> Null, start |-> Null, ngname |-> Freed,
     paranoid |-> FALSE, order |-> [by |-> "natural", dir |-> 1], by |-> "natural", dir |-> 1,
     addnew |-> "ask", only |-> Names, min |-> 1, special |-> FALSE, forward |-> TRUE,
     retry |-> FALSE, looked |-> 0, fits |-> TRUE, found |-> FALSE, at |-> "adding", back |-> "adding",
     added |-> "start",
     adds |-> <<>>, visit |-> {}, np |-> Null, shown |-> {}]

\* The newsrc is read; then the groups that are new on the server may be added.
Init ==
    /\ active \in {Names \ gone : gone \in SUBSET Bogus}
    /\ \E unread \in Unread, subscribed \in [Names -> BOOLEAN] :
         \E adds \in SetToSeqs(active \ ToSet(Lines)), order \in Orders :
            m = OpenNewsrc([Empty0 EXCEPT !.adds = adds, !.order = order],
                           [i \in DOMAIN Lines |->
                              [n |-> Lines[i], subscribed |-> subscribed[Lines[i]],
                               left |-> IF Lines[i] \in unread THEN 1 ELSE 0]],
                           "adding")
    /\ typed = 0
    /\ news = 0

\* process_list offers the next group, at the start of trn or for the command `a'.
Adding ==
    /\ m.at = "adding"
    /\ IF m.adds # <<>>
       THEN \E r \in GetNg([m EXCEPT !.adds = Tail(@)], Head(m.adds), TRUE, m.added = "start") :
                m' = r.z
       ELSE m' = CASE m.added = "start" ->
                        Restart([m EXCEPT !.start = IF m.cnt > Len(Lines) THEN Null
                                            ELSE IF m.found THEN @ ELSE m.last])
                   [] m.added = "scan" -> [m EXCEPT !.here = m.first, !.at = "scan"]
                   [] OTHER -> [m EXCEPT !.here = m.first, !.at = "page"]
    /\ UNCHANGED <<active, typed, news>>

\* use_next_multirc done
Restarted ==
    /\ m.at = "restart"
    /\ m' = Restart(m)
    /\ UNCHANGED <<active, typed, news>>

\* "Delete bogus newsgroups?"
Answer ==
    /\ m.at = "bogus"
    /\ \E z \in {m, DeleteBogus(m)} : m' = [z EXCEPT !.paranoid = FALSE, !.at = m.back]
    /\ UNCHANGED <<active, typed, news>>

Scan ==
    /\ m.at = "scan"
    /\ m' = IF m.here = Null THEN AtEnd(m) ELSE Consider([m EXCEPT !.looked = @ + 1])
    /\ UNCHANGED <<active, typed, news>>

\* The group is judged after cleanup_newsrc.
JudgeStep ==
    /\ m.at = "judge"
    /\ m' = Judge(SetNg(m, m.current))
    /\ UNCHANGED <<active, typed, news>>

Page ==
    /\ m.at = "page"
    /\ m' = InitGroups(m)
    /\ UNCHANGED <<active, typed, news>>

Typing(at) ==
    /\ m.at = at
    /\ typed < MaxCommands
    /\ typed' = typed + 1
    /\ UNCHANGED <<active, news>>

\* input_newsgroup is called by do_multirc, and by newsgroup_commands of the selector.
Command ==
    /\ m.at \in {"prompt", "selector"} /\ Typing(m.at)
    /\ \E c \in IF m.at = "prompt" THEN Commands ELSE RawCommands :
         \E r \in InputNewsgroup(m, c) :
            m' = IF m.at = "prompt" THEN After(r) ELSE AfterInSelector(r)

Enter ==
    /\ Typing("prompt")
    /\ \E r \in EnterGroup(m) : m' = After(r)

\* '`'
EnterSelector ==
    /\ Typing("prompt")
    /\ m' = [m EXCEPT !.by = m.order.by, !.dir = m.order.dir, !.at = "page"]

----------------------------------------------------------------------------
(* The commands of the newsgroup selector.  After most of them init_pages  *)
(* runs: that is the step Page, since it may ask about bogus groups.       *)

SelOrder ==
    /\ Typing("selector")
    /\ \E D \in SUBSET m.shown, order \in Orders :
         m' = [SelCleanup(m, D) EXCEPT !.order = order, !.by = order.by, !.dir = order.dir,
                                       !.at = "page"]

SelReverse ==
    /\ Typing("selector")
    /\ \E D \in SUBSET m.shown :
         m' = LET z == SelCleanup(m, D) IN
              [z EXCEPT !.order = [by |-> z.by, dir |-> 0 - z.dir], !.dir = 0 - z.dir, !.at = "page"]

\* `='
SelRefresh ==
    /\ Typing("selector")
    /\ \E D \in SUBSET m.shown :
         m' = [SelCleanup(m, D) EXCEPT !.virgin = [s \in Slots |-> TRUE], !.at = "page"]

SelPerform ==
    /\ Typing("selector")
    /\ \E S \in SUBSET Live(m), c \in {"c", "u"} : m' = [NgselPerform(m, S, c) EXCEPT !.at = "page"]

SelSearch ==
    /\ Typing("selector")
    /\ \E N \in Patterns, c \in {"c", "u"} :
         m' = [NgSearchPerform([m EXCEPT !.here = Null], N, c)
               EXCEPT !.here = m.current, !.at = "page"]

\* `c'
SelCatchUp ==
    /\ Typing("selector")
    /\ \E s \in m.shown :
         \E z \in AskCatchUp([SetNg(m, s) EXCEPT !.recent = IF m.current = s THEN @ ELSE m.current,
                                                 !.current = s]) :
            m' = z

\* `J' catches up the groups of D, which are selected or marked as killed.
SelJunk ==
    /\ Typing("selector")
    /\ \E D \in SUBSET m.shown : m' = [SelCleanup(m, D) EXCEPT !.at = "page"]

\* ^N
SelNewsrc ==
    /\ Typing("selector")
    /\ \E D \in SUBSET m.shown : m' = Reopened(EndOnly(SelCleanup(m, D)), "page")

\* The groups of V are read one after the other.
SelVisit ==
    /\ Typing("selector")
    /\ \E V \in SUBSET m.shown : m' = [m EXCEPT !.visit = V, !.np = m.first, !.at = "visiting"]

SelLeave ==
    /\ Typing("selector")
    /\ \E D \in SUBSET m.shown :
         LET z == [EndOnly(SelCleanup(m, D)) EXCEPT !.shown = {}] IN
         m' = Ask(z) \/ m' = [z EXCEPT !.at = "quit"]

\* sel_dogroups: the next group to visit, what follows one that was read, and the end
Stop(z) == [z EXCEPT !.visit = {}, !.np = Null, !.at = "page"]

Enters(z) ==
    [SetNg(z, z.np) EXCEPT !.recent = IF z.current = z.np THEN @ ELSE z.current, !.current = z.np]

EarlierVisit(z) ==
    LET p == Path(z)
        earlier == {i \in DOMAIN p : i < PlaceOf(p, z.np) /\ p[i] \in z.visit}
    IN IF earlier = {} THEN Null ELSE p[CHOOSE i \in earlier : \A j \in earlier : j <= i]

VisitOne ==
    \E r \in ReadNewsgroup(Enters(m)) :
       m' = CASE r.ret \in {"norm", "selnext"} ->
                   [SetNg(r.z, r.z.next[m.np]) EXCEPT !.np = r.z.next[m.np]]
              [] r.ret = "next" -> Stop(SetNg(r.z, r.z.next[m.np]))
              [] r.ret \in {"error", "ask"} -> Stop(r.z)
              [] r.ret = "prior" /\ EarlierVisit(r.z) # Null -> [r.z EXCEPT !.np = EarlierVisit(r.z)]
              [] r.ret = "prior" /\ EarlierVisit(r.z) = Null -> Stop(r.z)
              [] r.ret = "minus" /\ r.z.recent = Null -> [r.z EXCEPT !.at = "crashed"]
              [] OTHER -> [r.z EXCEPT !.np = r.z.recent, !.visit = @ \cup {r.z.recent}]

Visit ==
    /\ m.at = "visiting"
    /\ CASE m.np = Null -> m' = Stop(m)
         [] m.np # Null /\ m.np \notin m.visit -> m' = [m EXCEPT !.np = m.next[m.np]]
         [] OTHER -> VisitOne
    /\ UNCHANGED <<active, typed, news>>

----------------------------------------------------------------------------
(* The server, which changes while trn waits for the user.                 *)

Server ==
    /\ m.at \in {"prompt", "selector", "bogus"}
    /\ news < MaxNews
    /\ news' = news + 1
    /\ UNCHANGED typed

Forget == Server /\ \E n \in active : active' = active \ {n} /\ UNCHANGED m

Remember == Server /\ \E n \in Names \ active : active' = active \cup {n} /\ UNCHANGED m

----------------------------------------------------------------------------

LoopStep == Adding \/ Restarted \/ Answer \/ Scan \/ JudgeStep \/ Page \/ Visit

SelectorStep ==
    \/ SelJunk \/ SelOrder \/ SelReverse \/ SelRefresh \/ SelPerform \/ SelSearch \/ SelCatchUp
    \/ SelNewsrc \/ SelVisit \/ SelLeave

Next ==
    \/ LoopStep
    \/ Command \/ Enter \/ EnterSelector
    \/ SelectorStep
    \/ Forget \/ Remember

Spec == Init /\ [][Next]_vars

----------------------------------------------------------------------------
(* Properties.                                                             *)

\* The pointers are groups or null.
TypeOK ==
    /\ m.at \in {"adding", "restart", "page", "bogus", "scan", "judge", "prompt", "selector",
                 "visiting", "quit", "crashed"}
    /\ {m.first, m.last, m.start, m.np} \subseteq Live(m) \cup {Null}
    /\ \A s \in Live(m) : m.name[s] \in Names /\ m.toread[s] \in BOGUS..1
    /\ active \subseteq Names

\* The list is whole: along the next pointers from g_first_ng, and along the prev pointers
\* from g_last_ng, each group that is in memory comes once, and g_newsgroup_cnt counts
\* them; their numbers differ, and rise along the list when that is in the newsrc's order;
\* g_newsrc_hash finds a group under its own name, and finds each that has one line.
\* No pointer outlives its group: g_ngptr, g_current_ng and g_recent_ng are null or a group
\* that is in memory, whatever was deleted.  add_newsgroup, relocate_newsgroup, sort_newsgroups and cleanup_newsrc each set these
\* pointers in their own way.
ListWhole ==
    LET p == Path(m) IN
    /\ Len(p) = Cardinality(Live(m)) /\ ToSet(p) = Live(m) /\ m.cnt = Len(p)
    /\ Linked(m, p) = m
    /\ \A i, j \in DOMAIN p :
          i < j => /\ m.num[p[i]] # m.num[p[j]]
                   /\ IsNatural(m) /\ m.by = "natural" /\ m.at # "page" => m.num[p[i]] < m.num[p[j]]
    /\ \A n \in Names : m.hash[n] # Null => m.hash[n] \in Live(m) /\ m.name[m.hash[n]] = n
    /\ \A s \in Live(m) :
          m.hash[m.name[s]] # Null \/ Cardinality({i \in DOMAIN Lines : Lines[i] = m.name[s]}) > 1
    /\ {m.here, m.current, m.recent} \subseteq Live(m) \cup {Null}

\* relocate_newsgroup puts a group at the place that was asked for in the newsrc's order,
\* and leaves the others in their order, whatever the order of the list.
MovesWhereAsked ==
    m.at = "prompt" =>
    LET p == Path(SortNatural(m)) IN
    \A s \in Live(m), k \in 0..(m.cnt - 1) :
       Path(SortNatural(RelocateNewsgroup(m, s, k))) = InsertAt(Remove(p, s), k + 1, s)

\* Leaving the selector catches up each group that was marked as killed, unless the list
\* is in a reversed order, although each catch-up may sort the list that is walked.
KillsAllMarked ==
    m.at = "selector" /\ m.order.dir = 1 =>
    \A D \in SUBSET m.shown : \A s \in D : SelCleanup(m, D).left[s] = 0

\* The loop finds a group to offer, or the end of the list, before it has looked at any
\* group a fourth time, whatever the bogus groups that it meets do to the list under it:
\* back to the first group after `p', forward again, and once more when cleanup_newsrc,
\* which sorts the list again, puts the bogus groups first.
ScanEnds == m.looked <= 3 * m.used

(* A property that does not hold.                                          *)

\* "do newsgroup pointed to by g_ngptr with name g_ngname" (ng.cpp:103): the name is that
\* of the group that is offered.  `/' may leave them apart.
PromptNamesGroup ==
    m.at = "prompt" /\ m.here # Null => m.ngname = m.name[m.here]

=============================================================================
