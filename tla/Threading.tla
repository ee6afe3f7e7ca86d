------------------------------ MODULE Threading ------------------------------
(***************************************************************************)
(* The articles of one group and the threads they are put into             *)
(* (rt-process.cpp, with the subject lists of cache.cpp and the order of   *)
(* subjects and the walks of rthread.cpp).                                 *)
(*                                                                         *)
(* An article is known by its message-id.  The references of an article    *)
(* may name articles nobody has seen: they get a fake article, which the   *)
(* real one replaces when it arrives.  Every article hangs below its       *)
(* parent, or, when it has none, in the thread of its subject; the         *)
(* subjects of one thread form a ring and point at the same first article. *)
(*                                                                         *)
(* The sibling pointers that start at an article's child1 are the sequence *)
(* kids of the article, those that start at a subject's thread pointer the *)
(* sequence thread of the subject, and subj_next the sequence articles.    *)
(* That is what the pointers say as long as no article is in two lists,    *)
(* which InOneList checks.                                                 *)
(***************************************************************************)
EXTENDS Integers, Sequences, FiniteSets, SequencesExt

CONSTANTS
    Ids,          \* message-ids
    Subjects,     \* subject lines, without Re:
    None,         \* the null pointer
    Posts,        \* articles of the group: [id, subj, date] by number
    RefLists,     \* the References: lines an article may have
    LateLists,    \* the same with the In-Reply-To: line after it
    Modes,        \* values of g_sel_mode: "thread", "subject"
    Orders,       \* orders of the subjects: "date", "lines", "count"
    Lines,        \* the Lines: header of every message-id
    Rank,         \* place of every subject in the order of strcasecmp
    Prefix,       \* first g_join_subject_len characters of a subject, or None
    JoinSubjects, \* g_join_subject_len is not zero
    MayVanish     \* articles that may turn out to be missing

ASSUME ThreadingAssumption ==
    /\ IsFiniteSet(Ids) /\ IsFiniteSet(Subjects)
    /\ None \notin Ids /\ None \notin Subjects
    /\ Posts \in Seq([id : Ids, subj : Subjects, date : Int])
    /\ RefLists \subseteq Seq(Ids) /\ LateLists \subseteq Seq(Ids)
    /\ Modes \subseteq {"thread", "subject"}
    /\ Orders \subseteq {"date", "lines", "count"}
    /\ Lines \in [Ids -> Int] /\ Rank \in [Subjects -> Int]
    /\ DOMAIN Prefix = Subjects
    /\ JoinSubjects \in BOOLEAN
    /\ MayVanish \subseteq DOMAIN Posts

VARIABLES
    mode,  \* g_sel_mode
    art,   \* what became of every article number
    t      \* articles, subjects and threads

vars == <<mode, art, t>>

Nums == DOMAIN Posts

Init ==
    /\ mode \in Modes
    /\ art = [n \in Nums |-> "new"]
    /\ t = [held |-> [m \in Ids |-> "none"],
            parent |-> [m \in Ids |-> None],
            kids |-> [m \in Ids |-> <<>>],
            subj |-> [m \in Ids |-> None],
            date |-> [m \in Ids |-> 0],
            list |-> <<>>,
            link |-> [s \in Subjects |-> s],
            thread |-> [s \in Subjects |-> <<>>],
            articles |-> [s \in Subjects |-> <<>>],
            sdate |-> [s \in Subjects |-> 0],
            short |-> [p \in {Prefix[s] : s \in Subjects} |-> None],
            hashed |-> FALSE]

-----------------------------------------------------------------------------
\* Rings, ancestors and lists

\* the subjects thread_link leads to from s, s last
RingOrder(x, s) ==
    LET at[k \in 1 .. Cardinality(Subjects)] ==
            IF k = 1 THEN x.link[s] ELSE x.link[at[k - 1]]
        size == CHOOSE k \in DOMAIN at :
                   at[k] = s /\ \A j \in 1 .. k - 1 : at[j] # s
    IN  SubSeq(at, 1, size)

Ring(x, s) == Range(RingOrder(x, s))

\* the ancestors of m, nearest first, and None from the top on
Ancestors(x, m) ==
    LET up[k \in 1 .. Cardinality(Ids)] ==
            LET below == IF k = 1 THEN m ELSE up[k - 1]
            IN  IF below = None THEN None ELSE x.parent[below]
    IN  up

\* the articles on the way up from m that are in T, up to the first one that
\* is not
ClimbWhile(x, m, T) ==
    LET up == Ancestors(x, m)
        ok == {k \in DOMAIN up : \A j \in 1 .. k : up[j] \in T}
    IN  SubSeq(up, 1, Cardinality(ok))

SetThread(x, s, lst) ==
    [x EXCEPT !.thread = [y \in Subjects |-> IF y \in Ring(x, s) THEN lst
                                             ELSE @[y]]]

\* where m goes in a list of siblings: before the first one when it is older,
\* otherwise as far on as the next one is not younger
InsertByDate(x, lst, m) ==
    IF lst = <<>> \/ x.date[m] < x.date[lst[1]] THEN <<m>> \o lst
    ELSE LET after == {k \in DOMAIN lst :
                          k = Len(lst) \/ x.date[lst[k + 1]] > x.date[m]}
             k == CHOOSE i \in after : \A j \in after : i <= j
         IN  InsertAt(lst, k + 1, m)

UnlinkChild(x, m) ==
    IF x.parent[m] # None
    THEN [x EXCEPT !.kids[x.parent[m]] = RemoveFirst(@, m)]
    ELSE SetThread(x, x.subj[m], RemoveFirst(x.thread[x.subj[m]], m))

LinkChild(x, m) ==
    IF x.parent[m] # None
    THEN [x EXCEPT !.kids[x.parent[m]] = InsertByDate(x, @, m)]
    ELSE SetThread(x, x.subj[m], InsertByDate(x, x.thread[x.subj[m]], m))

\* In thread mode the subjects around s2 that are in the thread now are taken
\* out of the list and put after s1, unless s1 is one of them.
MoveAfter(lst, s1, s2, same) ==
    LET at(s) == CHOOSE k \in DOMAIN lst : lst[k] = s
        run == {k \in DOMAIN lst :
                   \A j \in DOMAIN lst :
                      (k <= j /\ j <= at(s2)) \/ (at(s2) <= j /\ j <= k)
                         => lst[j] \in same}
        piece(from, to) == SubSeq(lst, from, to)
        lo == Min(run)
        hi == Max(run)
    IN  CASE at(s1) < lo -> piece(1, at(s1)) \o piece(lo, hi)
                              \o piece(at(s1) + 1, lo - 1) \o piece(hi + 1, Len(lst))
          [] at(s1) > hi -> piece(1, lo - 1) \o piece(hi + 1, at(s1))
                              \o piece(lo, hi) \o piece(at(s1) + 1, Len(lst))
          [] OTHER       -> lst

\* merge_threads: all of the thread of s2 goes into the thread of s1
MergeThreads(x, s1, s2) ==
    LET moved == x.thread[s2]
        pointed == SetThread(x, s2, x.thread[s1])
        joined == [pointed EXCEPT !.link[s2] = x.link[s1],
                                  !.link[s1] = x.link[s2]]
        listed == IF mode = "thread"
                  THEN [joined EXCEPT
                          !.list = MoveAfter(@, s1, s2, Ring(joined, s1))]
                  ELSE joined
    IN  FoldLeft(LinkChild, listed, moved)

JoinThreads(x, s1, s2) ==
    IF x.thread[s1] # x.thread[s2] THEN MergeThreads(x, s1, s2) ELSE x

-----------------------------------------------------------------------------
\* Subjects

\* set_subj_line: a subject nobody had before goes to the end of the list
SetSubject(x, s) ==
    IF s \in Range(x.list) THEN x ELSE [x EXCEPT !.list = Append(@, s)]

\* check_for_near_subj: join s with the subject that has its first characters
NearSubject(x, s) ==
    IF Prefix[s] = None \/ x.thread[s] = <<>> THEN x
    ELSE IF x.short[Prefix[s]] = None THEN [x EXCEPT !.short[Prefix[s]] = s]
    ELSE JoinThreads(x, x.short[Prefix[s]], s)

\* The first time every subject is looked at, later only the last of the list.
CheckForNearSubject(x, s) ==
    CASE ~x.hashed    -> FoldLeft(NearSubject, [x EXCEPT !.hashed = TRUE], x.list)
      [] x.hashed /\ Last(x.list) = s -> NearSubject(x, s)
      [] OTHER        -> x

CacheArticle(x, m) ==
    LET s == x.subj[m]
        listed == [x EXCEPT !.articles[s] = InsertByDate(x, @, m)]
    IN  IF JoinSubjects THEN CheckForNearSubject(listed, s) ELSE listed

\* uncache_article with remove_empties: the duplicate was never in the list of
\* its subject; a subject that has no article left is freed.
UncacheDuplicate(x, s) ==
    IF x.articles[s] # <<>> THEN x
    ELSE [x EXCEPT !.list = RemoveFirst(@, s),
                   !.link[s] = s,
                   !.thread[s] = <<>>]

-----------------------------------------------------------------------------
\* thread_article

\* valid_article for an article that is no duplicate: it takes the place of
\* the fake one
TakePlace(x, m, p) ==
    [x EXCEPT !.held[m] = "real", !.subj[m] = p.subj, !.date[m] = p.date]

\* A real article that had a fake one is taken out of the tree, and so are the
\* fakes above it that were made for it alone.
FreeFake(x, f) ==
    LET out == UnlinkChild(x, f)
    IN  [out EXCEPT !.date[f] = 0, !.subj[f] = None, !.parent[f] = None]

LeaveFakePlace(x, m, hadSubj) ==
    IF hadSubj = None THEN x
    ELSE LET joined == JoinThreads(x, hadSubj, x.subj[m])
             lone == {a \in Ids : joined.held[a] = "fake" /\ Len(joined.kids[a]) = 1}
             own == ClimbWhile(joined, m, lone)
             freed == FoldLeft(FreeFake, UnlinkChild(joined, m), own)
         IN  [freed EXCEPT !.parent[m] = None]

\* One reference, from the right: r.prev is the article that gets the parent,
\* r.ap the last article met.
Reference(r, ref, m, rethreading) ==
    LET x == IF r.x.held[ref] = "none" THEN [r.x EXCEPT !.held[ref] = "fake"]
             ELSE r.x
        seen == (x.date[ref] # 0 /\ x.subj[ref] = None) \/ ref = m
        loose == IF rethreading /\ x.subj[r.prev] # None
                 THEN UnlinkChild(x, r.prev) ELSE x
        linked == LinkChild([loose EXCEPT !.parent[r.prev] = ref], r.prev)
    IN  IF r.found THEN r
        ELSE IF seen
             THEN [r EXCEPT !.x = x,
                            !.ap = IF r.prev = m THEN None ELSE r.prev]
        ELSE IF x.subj[ref] # None
             THEN [r EXCEPT !.x = linked, !.ap = ref, !.found = TRUE]
        ELSE [r EXCEPT !.x = [linked EXCEPT !.date[ref] = x.date[m]],
                       !.ap = ref, !.prev = ref]

\* (mutant) the threads stay apart
AnchorUnmerged(x, m, r) ==
    IF r.found THEN x
    ELSE LinkChild([x EXCEPT !.subj[r.ap] = x.subj[m]], r.ap)

\* The references ended at an article of another thread, or the topmost fake
\* becomes the head of one.
Anchor(x, m, r) ==
    IF r.found THEN IF x.thread[x.subj[m]] # x.thread[x.subj[r.ap]]
                    THEN MergeThreads(x, x.subj[r.ap], x.subj[m]) ELSE x
    ELSE LinkChild([x EXCEPT !.subj[r.ap] = x.subj[m]], r.ap)

\* the fakes made for these references get the subject of the article
NameFakes(x, m) ==
    LET new == Range(ClimbWhile(x, m, {a \in Ids : x.subj[a] = None}))
    IN  [x EXCEPT !.subj = [a \in Ids |-> IF a \in new THEN x.subj[m] ELSE @[a]]]

\* (mutant) the child is put below the parent of the article
CutToParent(x, m) ==
    LET up == Ancestors(x, m)
        at == {k \in DOMAIN up : up[k] # None /\ x.parent[up[k]] = m}
        child == up[CHOOSE k \in at : \A j \in at : k <= j]
    IN  IF at = {} THEN x
        ELSE LinkChild([UnlinkChild(x, child) EXCEPT !.parent[child] = x.parent[m]], child)

\* The way up must not lead to the article itself: its child on that way is
\* cut off and linked to the thread.
CutCircle(x, m) ==
    LET up == Ancestors(x, m)
        at == {k \in DOMAIN up : up[k] # None /\ x.parent[up[k]] = m}
        child == up[CHOOSE k \in at : \A j \in at : k <= j]
    IN  IF at = {} THEN x
        ELSE LinkChild([UnlinkChild(x, child) EXCEPT !.parent[child] = None], child)

ThreadArticle(x, m, refs, rethreading) ==
    LET step(r, ref) == Reference(r, ref, m, rethreading)
        r == FoldLeft(step, [x |-> x, prev |-> m, ap |-> None, found |-> FALSE],
                      Reverse(refs))
    IN  IF r.ap # None
        THEN CutCircle(NameFakes(Anchor(r.x, m, r), m), m)
        ELSE IF rethreading THEN r.x ELSE LinkChild(r.x, m)

-----------------------------------------------------------------------------
\* Actions

\* ov_parse or end_header: the data of article n is there for the first time.
Arrive(n, refs) ==
    LET p == Posts[n]
        known == SetSubject(t, p.subj)
        placed == TakePlace(known, p.id, p)
        left == LeaveFakePlace(placed, p.id, t.subj[p.id])
    IN  /\ art[n] = "new"
        /\ IF t.held[p.id] = "real"
           THEN /\ art' = [art EXCEPT ![n] = "duplicate"]
                /\ t' = UncacheDuplicate(known, p.subj)
           ELSE /\ art' = [art EXCEPT ![n] = "threaded"]
                /\ t' = CacheArticle(ThreadArticle(left, p.id, refs, FALSE), p.id)
        /\ UNCHANGED mode

\* end_header: the header of a threaded article has an In-Reply-To: line, and
\* the article is threaded once more, by both lines.
Rethread(n, refs) ==
    /\ art[n] = "threaded"
    /\ t' = ThreadArticle(t, Posts[n].id, refs, TRUE)
    /\ UNCHANGED <<mode, art>>

\* uncache_article of an article that is not there any more
Vanish(n) ==
    /\ n \in MayVanish
    /\ art[n] = "threaded"
    /\ art' = [art EXCEPT ![n] = "missing"]
    /\ t' = [t EXCEPT !.articles[Posts[n].subj] = RemoveFirst(@, Posts[n].id)]
    /\ UNCHANGED mode

-----------------------------------------------------------------------------
\* sort_subjects, after count_subjects has dated them (thread_grow)

CountSubjects(x) ==
    [x EXCEPT !.sdate = [s \in Subjects |->
        IF x.articles[s] = <<>> THEN @[s] ELSE x.date[Head(x.articles[s])]]]

\* the subject that stands for a thread in a comparison: that of its first
\* article, or the next of the ring that has an article
Leader(x, s) ==
    LET lead == x.subj[x.thread[s][1]]
        ring == <<lead>> \o RingOrder(x, lead)
        full == {k \in DOMAIN ring : x.articles[ring[k]] # <<>>}
    IN  IF full = {} THEN lead ELSE ring[CHOOSE k \in full : \A j \in full : k <= j]

SubjectLines(x, s) ==
    IF x.articles[s] = <<>> THEN 0 ELSE Lines[Head(x.articles[s])]

\* the articles of all subjects of the thread: each is in one list, so that the
\* sum of the lengths is the number of articles
ThreadSize(x, s) ==
    Cardinality({m \in Ids : \E r \in Ring(x, s) : m \in Range(x.articles[r])})

\* The comparison is by the keys in turn.  Threads of the same date differ by
\* their subject; threads of the same lines and date do not differ at all.
SortKeys(x, s, order) ==
    LET lead == Leader(x, s)
    IN  CASE order = "lines" -> <<SubjectLines(x, lead), x.sdate[lead]>>
          [] order = "count" -> <<ThreadSize(x, s), x.sdate[lead], Rank[lead]>>
          [] OTHER           -> <<x.sdate[lead], Rank[lead]>>

Before(a, b) ==
    \E k \in DOMAIN a : a[k] < b[k] /\ \A j \in 1 .. k - 1 : a[j] = b[j]

\* threadorder_date, _lines, _count and, in one thread or in subject mode,
\* subjorder_date and its like
Precedes(x, s1, s2, order) ==
    IF mode = "thread" /\ x.thread[s1] # x.thread[s2]
    THEN Before(SortKeys(x, s1, order), SortKeys(x, s2, order))
    ELSE LET key(s) == (CASE mode = "thread"     -> <<>>
                          [] order = "lines"     -> <<SubjectLines(x, s)>>
                          [] order = "count"     -> <<Len(x.articles[s])>>
                          [] OTHER               -> <<>>) \o <<x.sdate[s]>>
         IN  Before(key(s1), key(s2))

\* The rings are made again from the neighbours in the sorted list.
RelinkRings(x) ==
    LET lst == x.list
        first(k) == CHOOSE i \in 1 .. k :
                       /\ \A j \in i .. k : x.thread[lst[j]] = x.thread[lst[k]]
                       /\ i = 1 \/ x.thread[lst[i - 1]] # x.thread[lst[k]]
        next(k) == IF k < Len(lst) /\ x.thread[lst[k]] = x.thread[lst[k + 1]]
                   THEN lst[k + 1] ELSE lst[first(k)]
    IN  [x EXCEPT !.link = [s \in Subjects |->
            IF s \in Range(lst) THEN next(CHOOSE k \in DOMAIN lst : lst[k] = s)
            ELSE @[s]]]

\* qsort may leave any order of the subjects that the comparison allows.
SortSubjects(order) ==
    LET x == CountSubjects(t)
    IN  /\ Len(t.list) > 1
        /\ \E lst \in SetToSeqs(Range(t.list)) :
              /\ \A i, j \in DOMAIN lst :
                    i < j => ~Precedes(x, lst[j], lst[i], order)
              /\ t' = IF mode = "thread"
                      THEN RelinkRings([x EXCEPT !.list = lst])
                      ELSE [x EXCEPT !.list = lst]
        /\ UNCHANGED <<mode, art>>

Next ==
    \/ \E n \in Nums, refs \in RefLists : Arrive(n, refs)
    \/ \E n \in Nums, refs \in LateLists : Rethread(n, refs)
    \/ \E n \in Nums : Vanish(n)
    \/ \E order \in Orders : SortSubjects(order)

Spec == Init /\ [][Next]_vars

-----------------------------------------------------------------------------
\* The walks through the threads (rthread.cpp).  A missing or fake article is
\* passed over by repeating the step.

Siblings(x, m) ==
    IF x.parent[m] # None THEN x.kids[x.parent[m]] ELSE x.thread[x.subj[m]]

Place(x, m) == CHOOSE k \in DOMAIN Siblings(x, m) : Siblings(x, m)[k] = m

NextSibling(x, m) ==
    IF Place(x, m) = Len(Siblings(x, m)) THEN None
    ELSE Siblings(x, m)[Place(x, m) + 1]

\* the article itself and those above it
WayUp(x, m) == <<m>> \o ClimbWhile(x, m, Ids)

\* up from m to the first article with a sibling to its right, and there
ClimbToSibling(x, m) ==
    LET path == WayUp(x, m)
        right == {k \in DOMAIN path : NextSibling(x, path[k]) # None}
    IN  IF right = {} THEN None
        ELSE NextSibling(x, path[CHOOSE k \in right : \A j \in right : k <= j])

\* bump_art, and next_art when articles are read depth first
BumpArt(x, m) ==
    IF x.kids[m] # <<>> THEN x.kids[m][1] ELSE ClimbToSibling(x, m)

\* next_art when g_breadth_first: the siblings, then the children of the first
\* article from there on that has some
NextBreadth(x, m) ==
    IF NextSibling(x, m) # None THEN NextSibling(x, m)
    ELSE LET on[k \in 0 .. Cardinality(Ids)] ==
                 IF k = 0 THEN Siblings(x, m)[1]
                 ELSE IF on[k - 1] = None \/ x.kids[on[k - 1]] # <<>> THEN on[k - 1]
                 ELSE ClimbToSibling(x, on[k - 1])
             stop == on[Cardinality(Ids)]
         IN  IF stop = None THEN None ELSE x.kids[stop][1]

\* the rightmost article below the last of a list
LastBelow(x, lst) ==
    LET down[k \in 0 .. Cardinality(Ids)] ==
            IF k = 0 THEN Last(lst)
            ELSE IF x.kids[down[k - 1]] = <<>> THEN down[k - 1]
            ELSE Last(x.kids[down[k - 1]])
    IN  down[Cardinality(Ids)]

PrevArt(x, m) ==
    IF Place(x, m) = 1 THEN x.parent[m]
    ELSE LastBelow(x, <<Siblings(x, m)[Place(x, m) - 1]>>)

\* first_sib: the first article depth levels below m and its right siblings
FirstSib(x, m, depth) ==
    LET first[d \in 0 .. depth, n \in Ids] ==
            LET below == IF x.kids[n] = <<>> THEN None ELSE first[d - 1, x.kids[n][1]]
            IN  IF d = 0 THEN n
                ELSE IF below # None THEN below
                ELSE IF NextSibling(x, n) = None THEN None
                ELSE first[d, NextSibling(x, n)]
    IN  first[depth, m]

\* (mutant) the limit is only looked at in the first list
LastSibBeyond(x, m, depth, limit) ==
    LET last[d \in 0 .. depth, n \in Ids] ==
            LET right == IF NextSibling(x, n) = None THEN None
                         ELSE last[d, NextSibling(x, n)]
            IN  IF right # None THEN right
                ELSE IF d = 0 THEN n
                ELSE IF x.kids[n] = <<>> THEN None
                ELSE last[d - 1, x.kids[n][1]]
    IN  IF m = limit THEN None ELSE last[depth, m]

\* last_sib: the last one below m and its right siblings up to the limit
LastSib(x, m, depth, limit) ==
    LET last[d \in 0 .. depth, n \in Ids] ==
            LET right == IF NextSibling(x, n) = None THEN None
                         ELSE last[d, NextSibling(x, n)]
            IN  IF n = limit THEN None
                ELSE IF right # None THEN right
                ELSE IF d = 0 THEN n
                ELSE IF x.kids[n] = <<>> THEN None
                ELSE last[d - 1, x.kids[n][1]]
    IN  last[depth, m]

\* the first answer on the way up
FirstAnswer(path, answer(_)) ==
    LET hit == {k \in DOMAIN path : answer(k) # None}
    IN  IF hit = {} THEN None ELSE answer(CHOOSE k \in hit : \A j \in hit : k <= j)

\* find_next_sib and find_prev_sib: the next article of the thread that is as
\* deep, found by going up, to the side, and down again
FindNextSib(x, m) ==
    LET path == WayUp(x, m)
    IN  FirstAnswer(path, LAMBDA k :
            IF NextSibling(x, path[k]) = None THEN None
            ELSE FirstSib(x, NextSibling(x, path[k]), k - 1))

FindPrevSib(x, m) ==
    LET path == WayUp(x, m)
    IN  FirstAnswer(path, LAMBDA k :
            LastSib(x, Siblings(x, path[k])[1], k - 1, path[k]))

-----------------------------------------------------------------------------
\* Properties

\* the articles that are in the tree
Placed == {m \in Ids : t.subj[m] # None}

\* Every part of the state has its type: a record of functions over the
\* message-ids and the subjects of the group (the ARTICLE and SUBJECT fields).
TypeOK ==
    /\ mode \in Modes
    /\ art \in [Nums -> {"new", "threaded", "duplicate", "missing"}]
    /\ t.held \in [Ids -> {"none", "fake", "real"}]
    /\ t.parent \in [Ids -> Ids \cup {None}]
    /\ t.subj \in [Ids -> Subjects \cup {None}]
    /\ t.date \in [Ids -> Int]
    /\ t.link \in [Subjects -> Subjects]
    /\ \A m \in Ids : Range(t.kids[m]) \subseteq Ids
    /\ \A s \in Subjects : /\ Range(t.thread[s]) \subseteq Ids
                           /\ Range(t.articles[s]) \subseteq Ids
    /\ Range(t.list) \subseteq Subjects

\* Whatever the references say, and in whatever order the articles come, no
\* article is among its own ancestors: every loop over parent pointers ends
\* (thread_article cuts circles, rt-process.cpp:326).
NoCircle == \A m \in Ids : m \notin Range(Ancestors(t, m))

\* Every article that has a subject is in the child list of its parent or,
\* without one, in the thread of its subject, once, and in no other list: an
\* article in two sibling lists would tie the lists together (link_child,
\* unlink_child and the replacement of fakes in valid_article).
InOneList ==
    \A m \in Ids :
        /\ \A p \in Ids : Cardinality({k \in DOMAIN t.kids[p] : t.kids[p][k] = m})
                             = IF m \in Placed /\ t.parent[m] = p THEN 1 ELSE 0
        /\ \A s \in Range(t.list) :
              Cardinality({k \in DOMAIN t.thread[s] : t.thread[s][k] = m})
                 = IF /\ m \in Placed
                      /\ t.parent[m] = None
                      /\ s \in Ring(t, t.subj[m])
                   THEN 1 ELSE 0

\* Two subjects point at the same thread exactly when they are in one ring
\* (thread_link): merge_threads compares the first and walks the second.
RingsAreThreads ==
    \A s1, s2 \in Range(t.list) :
        t.thread[s1] = t.thread[s2] <=> s2 \in Ring(t, s1)

\* An article and the articles above it belong to one thread: their subjects
\* are in one ring, so that the article is found from its own subject.
ThreadHoldsSubjects ==
    \A m \in Placed : \A a \in Range(Ancestors(t, m)) \ {None} :
        t.subj[a] # None /\ t.subj[a] \in Ring(t, t.subj[m])

\* The articles of a subject are in the order of their dates: cache_article
\* stops at the first younger one, and the first article dates the subject.
\* (Siblings need not be: link_child takes the list for sorted, but the list an
\* article is still in when it takes the date of the real one is not.)
OldestFirst ==
    \A s \in Subjects :
        \A i, j \in DOMAIN t.articles[s] :
            i < j => t.date[t.articles[s][i]] <= t.date[t.articles[s][j]]

\* The articles of a subject are the threaded ones with that subject, each
\* once, whether they came as new or in the place of a fake article.
ArticlesOfSubject ==
    \A s \in Subjects :
        /\ Cardinality(Range(t.articles[s])) = Len(t.articles[s])
        /\ Range(t.articles[s]) =
              {Posts[n].id : n \in {i \in Nums : art[i] = "threaded"
                                                 /\ Posts[i].subj = s}}

\* A fake article that was given up (its subject is gone) has no date, no
\* parent and no children: the next reference to it starts from nothing, as
\* the test for duplicate references takes for granted (rt-process.cpp:272).
GivenUpIsLoose ==
    \A m \in Ids \ Placed : /\ t.date[m] = 0
                            /\ t.parent[m] = None
                            /\ t.kids[m] = <<>>

\* A forest without circles, every article in one list of siblings, one ring of
\* subjects for one thread, and nothing left of the fakes that were given up.
Forest == /\ NoCircle
          /\ InOneList
          /\ RingsAreThreads
          /\ ThreadHoldsSubjects
          /\ GivenUpIsLoose

\* With -J, subjects that begin alike are joined into a common thread as soon
\* as both have one (check_for_near_subj).
NearAreJoined ==
    \A s1, s2 \in Range(t.list) :
        Prefix[s1] # None /\ Prefix[s1] = Prefix[s2]
            /\ t.thread[s1] # <<>> /\ t.thread[s2] # <<>> => s2 \in Ring(t, s1)

\* They are when subjects are what the user selects.  In thread mode
\* merge_threads may move a new subject away from the end of the list before
\* it is looked at.
NearJoinedInSubjectMode == JoinSubjects /\ mode = "subject" => NearAreJoined

\* Subjects are freed only when nothing points at them (uncache_article).
NoFreedSubject ==
    /\ \A m \in Placed : t.subj[m] \in Range(t.list)
    /\ \A s \in Range(t.list) : Ring(t, s) \subseteq Range(t.list)

\* The lists by subject agree with the articles: in the order of the dates,
\* complete, with no subject that was freed, and the like ones joined.
SubjectLists ==
    OldestFirst /\ ArticlesOfSubject /\ NoFreedSubject /\ NearJoinedInSubjectMode

\* What thread_article, merge_threads, set_subj_line and uncache_article leave
\* after every article: trees that are whole, and lists by subject that agree
\* with them.
ThreadsWhole == Forest /\ SubjectLists

\* What the theorems take for granted of a group: every article has a date (date
\* 0 is the mark of an article that was not there), no duplicate comes for a
\* subject that may lose its articles (uncache_article would free it), and the
\* comparison of threads leaves no two of them equal.
EveryArticleDated == \A n \in Nums : Posts[n].date # 0

DuplicatesHaveSubjects ==
    \A n \in MayVanish, d \in Nums :
        (\E e \in Nums \ {d} : Posts[e].id = Posts[d].id) => Posts[d].subj # Posts[n].subj

ThreadsDiffer == Orders \subseteq {"date", "count"} /\ IsInjective(Rank)

Regular == EveryArticleDated /\ DuplicatesHaveSubjects /\ ThreadsDiffer

\* While an article is threaded, every other real article stays below its
\* parent, or is cut off to stand at the top of the thread; only a given-up
\* fake may go from above it.
OthersKeepTheirParents ==
    [][\A m \in Ids :
          t.held[m] = "real" /\ t'.parent[m] # t.parent[m] =>
             \/ t'.parent[m] = None
             \/ \E n \in Nums : /\ Posts[n].id = m
                                /\ \E refs \in LateLists : Rethread(n, refs)]_vars

\* Walking a thread with next_art from its first article meets every article
\* of it once, depth first or breadth first, and prev_art is the way back.
Walk(x, top, step(_, _)) ==
    LET at[k \in 1 .. Cardinality(Ids) + 1] ==
            IF k = 1 THEN top
            ELSE IF at[k - 1] = None THEN None ELSE step(x, at[k - 1])
    IN  SelectSeq(at, LAMBDA m : m # None)

Threads == {t.thread[s] : s \in Range(t.list)} \ {<<>>}

WalksMeetAll ==
    \A thread \in Threads :
        LET deep == Walk(t, thread[1], BumpArt)
            broad == Walk(t, thread[1], NextBreadth)
            members == {m \in Placed : t.thread[t.subj[m]] = thread}
        IN  /\ Range(deep) = members /\ Len(deep) = Cardinality(members)
            /\ Range(broad) = members /\ Len(broad) = Cardinality(members)
            /\ \A k \in DOMAIN deep :
                  PrevArt(t, deep[k]) = IF k = 1 THEN None ELSE deep[k - 1]
            /\ LastBelow(t, thread) = Last(deep)

\* find_next_sib and find_prev_sib go to the next and the previous article of
\* the same depth in the thread, cousins of any degree included.
CousinsInOrder ==
    \A thread \in Threads :
        LET deep == Walk(t, thread[1], BumpArt)
            depth == [m \in Range(deep) |-> Len(WayUp(t, m))]
        IN  \A i \in DOMAIN deep :
               LET m == deep[i]
                   level(lo, hi) == SelectSeq(SubSeq(deep, lo, hi),
                                              LAMBDA y : depth[y] = depth[m])
                   after == level(i + 1, Len(deep))
                   before == level(1, i - 1)
               IN  /\ FindNextSib(t, m) = IF after = <<>> THEN None ELSE after[1]
                   /\ FindPrevSib(t, m) = IF before = <<>> THEN None ELSE Last(before)

\* The subjects of a thread are neighbours in the list when threads are what
\* the user selects: next_subj, prev_subj and the sort rely on it.
SubjectsTogether ==
    mode = "thread" =>
        \A i, j, k \in DOMAIN t.list :
            i <= j /\ j <= k /\ t.list[k] \in Ring(t, t.list[i])
                => t.list[j] \in Ring(t, t.list[i])

\* The reader's walks: the next, the previous, the next and the previous cousin
\* in a thread, and the next and previous subject of the thread.
WalksInOrder == WalksMeetAll /\ CousinsInOrder /\ SubjectsTogether

=============================================================================
