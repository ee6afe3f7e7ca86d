-------------------------- MODULE Threading_proofs --------------------------
(***************************************************************************)
(* Whatever articles come, in whatever order, with whatever references:    *)
(* the threads stay a forest in which every article is in one list of      *)
(* siblings, the subjects of a thread are one ring, and the lists by       *)
(* subject hold the articles that are there (ThreadsWhole); and no article *)
(* gets another parent but the one that is being threaded                  *)
(* (OthersKeepTheirParents).                                               *)
(*                                                                         *)
(* The way there: a fake article that a real one replaces; near subjects;  *)
(* the lists of articles; the inductive invariant IInv; one lemma for each *)
(* action that keeps it (ArriveNew, ArriveDuplicate, RethreadWhole,        *)
(* VanishWhole, SortWhole); and what it says (WholeForest, RightLists).    *)
(***************************************************************************)
EXTENDS ThreadArticle_proofs

-----------------------------------------------------------------------------
(* An article in the place of a fake one                                   *)

\* An article that comes in the place of none or of a fake one changes that
\* article only.
LEMMA TakePlaceFields ==
  ASSUME NEW x \in State, NEW m \in Ids, NEW p, p.subj \in Subjects, p.date \in Int,
         NEW y, y = TakePlace(x, m, p)
  PROVE  /\ y \in State
         /\ y.kids = x.kids /\ y.parent = x.parent
         /\ y.list = x.list /\ y.link = x.link /\ y.thread = x.thread
         /\ y.articles = x.articles /\ y.sdate = x.sdate
         /\ y.short = x.short /\ y.hashed = x.hashed
         /\ y.held[m] = "real" /\ y.subj[m] = p.subj /\ y.date[m] = p.date
         /\ \A b \in Ids \ {m} : /\ y.held[b] = x.held[b] /\ y.subj[b] = x.subj[b]
                                 /\ y.date[b] = x.date[b]
BY DEF State, TakePlace

\* What a fake that is given up loses.
GiveUp(x, f) == [x EXCEPT !.date[f] = 0, !.subj[f] = None, !.parent[f] = None]

\* A fake article that is given up has no date, subject or parent, and nobody
\* else changes.
LEMMA GiveUpFields ==
  ASSUME NEW x \in State, NEW f \in Ids, NEW y, y = GiveUp(x, f)
  PROVE  /\ y \in State
         /\ y.held = x.held /\ y.kids = x.kids
         /\ y.list = x.list /\ y.link = x.link /\ y.thread = x.thread
         /\ y.articles = x.articles /\ y.sdate = x.sdate
         /\ y.short = x.short /\ y.hashed = x.hashed
         /\ y.date[f] = 0 /\ y.subj[f] = None /\ y.parent[f] = None
         /\ \A b \in Ids \ {f} : /\ y.date[b] = x.date[b] /\ y.subj[b] = x.subj[b]
                                 /\ y.parent[b] = x.parent[b]
<1> DEFINE u == [x EXCEPT !.date[f] = 0]
           v == [u EXCEPT !.subj[f] = None]
           w == [v EXCEPT !.parent[f] = None]
<1>1. y = w
  BY DEF State, GiveUp
<1>2. /\ u \in State
      /\ u.held = x.held /\ u.kids = x.kids /\ u.subj = x.subj /\ u.parent = x.parent
      /\ u.list = x.list /\ u.link = x.link /\ u.thread = x.thread
      /\ u.articles = x.articles /\ u.sdate = x.sdate
      /\ u.short = x.short /\ u.hashed = x.hashed
      /\ \A b \in Ids : u.date[b] = IF b = f THEN 0 ELSE x.date[b]
  BY DateFields
<1> HIDE DEF u
<1>3. /\ v \in State
      /\ v.held = u.held /\ v.kids = u.kids /\ v.date = u.date /\ v.parent = u.parent
      /\ v.list = u.list /\ v.link = u.link /\ v.thread = u.thread
      /\ v.articles = u.articles /\ v.sdate = u.sdate
      /\ v.short = u.short /\ v.hashed = u.hashed
      /\ v.subj[f] = None
      /\ \A b \in Ids : b # f => v.subj[b] = u.subj[b]
  BY <1>2, SubjFields
<1> HIDE DEF v
<1>4. /\ w \in State
      /\ w.held = v.held /\ w.kids = v.kids /\ w.subj = v.subj /\ w.date = v.date
      /\ w.list = v.list /\ w.link = v.link /\ w.thread = v.thread
      /\ w.articles = v.articles /\ w.sdate = v.sdate
      /\ w.short = v.short /\ w.hashed = v.hashed
      /\ \A a \in Ids : w.parent[a] = IF a = f THEN None ELSE v.parent[a]
  BY <1>3, SetParentFields
<1> HIDE DEF w
<1> QED
  BY <1>1, <1>2, <1>3, <1>4

\* y is x after the fakes of U were given up, and nobody else moved.
GivenUp(y, x, U) ==
    /\ y \in State
    /\ y.held = x.held /\ y.list = x.list /\ y.link = x.link
    /\ y.articles = x.articles /\ y.sdate = x.sdate
    /\ y.short = x.short /\ y.hashed = x.hashed
    /\ \A b \in U : y.date[b] = 0 /\ y.subj[b] = None /\ y.parent[b] = None
    /\ \A b \in Ids \ U : /\ y.date[b] = x.date[b] /\ y.subj[b] = x.subj[b]
                          /\ y.parent[b] = x.parent[b]

\* One more fake article is given up.
LEMMA FreeFakeStep ==
  ASSUME IsFiniteSet(Subjects), None \notin Ids,
         NEW x, NEW U \in SUBSET Ids, NEW f \in Ids \ U, NEW z, GivenUp(z, x, U),
         NEW X, NEW home, Hung(z, X, home),
         x.parent[f] = None => x.subj[f] \in Subjects /\ home[f] \in Orbit(x.link, x.subj[f]),
         NEW y, y = FreeFake(z, f)
  PROVE  GivenUp(y, x, U \cup {f}) /\ Hung(y, X \ {f}, home)
<1> DEFINE out == UnlinkChild(z, f)
<1>1. /\ z \in State /\ z.link = x.link /\ z.subj[f] = x.subj[f] /\ z.parent[f] = x.parent[f]
      /\ z.held = x.held /\ z.list = x.list
      /\ z.articles = x.articles /\ z.sdate = x.sdate
      /\ z.short = x.short /\ z.hashed = x.hashed
  BY DEF GivenUp
<1>2. OtherLists(out, z) /\ Hung(out, X \ {f}, home)
  BY <1>1, UnlinkHung
<1>3. y = GiveUp(out, f)
  BY DEF FreeFake, GiveUp
<1> HIDE DEF out
<1>4. /\ out \in State /\ out.held = z.held /\ out.parent = z.parent /\ out.subj = z.subj
      /\ out.date = z.date /\ out.list = z.list /\ out.link = z.link
      /\ out.articles = z.articles /\ out.sdate = z.sdate
      /\ out.short = z.short /\ out.hashed = z.hashed
  BY <1>2 DEF OtherLists, SameArticles
<1>5. /\ y \in State
      /\ y.held = out.held /\ y.kids = out.kids
      /\ y.list = out.list /\ y.link = out.link /\ y.thread = out.thread
      /\ y.articles = out.articles /\ y.sdate = out.sdate
      /\ y.short = out.short /\ y.hashed = out.hashed
      /\ y.date[f] = 0 /\ y.subj[f] = None /\ y.parent[f] = None
      /\ \A b \in Ids \ {f} : /\ y.date[b] = out.date[b] /\ y.subj[b] = out.subj[b]
                              /\ y.parent[b] = out.parent[b]
  BY <1>3, <1>4, GiveUpFields
<1>6. GivenUp(y, x, U \cup {f})
  BY <1>1, <1>4, <1>5 DEF GivenUp
<1>7. Hung(y, X \ {f}, home)
  <2> DEFINE Y == X \ {f}
  <2>1. Y \subseteq Ids /\ Permutes(out.link)
    BY <1>2 DEF Hung
  <2>2. \A b \in Y : y.parent[b] = out.parent[b]
    BY <1>5, <2>1
  <2>3. ASSUME NEW b \in Y, out.parent[b] = None
        PROVE  home[b] \in Subjects /\ home[b] \in Orbit(out.link, home[b])
    <3>1. home[b] \in Subjects
      BY <1>2, <2>3 DEF Hung
    <3> QED
      BY <2>1, <3>1, OrbitFacts
  <2>4. Hung(out, Y, home)
    BY <1>2
  <2> HIDE DEF Y
  <2>5. Hung(y, Y, home)
    BY <1>5, <2>2, <2>3, <2>4, HungAlike
  <2> QED
    BY <2>5 DEF Y
<1> QED
  BY <1>6, <1>7

\* The folds that give up fake articles.
Freeing == INSTANCE FoldFacts WITH op <- LAMBDA x, f, a, b : FreeFake(x, f)

\* The fake articles of a list are given up.
FreeFakes(x, lst) == FoldLeft(FreeFake, x, lst)

\* They are given up one by one.
LEMMA FreeFold ==
  ASSUME NEW x, NEW lst \in Seq(Ids)
  PROVE  \E g : /\ g[0] = x
                /\ \A i \in 1 .. Len(lst) : g[i] = FreeFake(g[i - 1], lst[i])
                /\ FreeFakes(x, lst) = g[Len(lst)]
<1>1. \E g : Freeing!Goes(g, x, lst, 0, 0) /\ Freeing!Fold(x, lst, 0, 0) = g[Len(lst)]
  BY Freeing!FoldSteps
<1>2. Freeing!Fold(x, lst, 0, 0) = FreeFakes(x, lst)
  BY DEF FreeFakes, Freeing!Fold, FoldLeft, Freeing!FoldLeft, MapThenFoldSet, Freeing!MapThenFoldSet,
         Max, Freeing!Max
<1> QED
  BY <1>1, <1>2 DEF Freeing!Goes

\* All fakes of a sequence without repetitions are given up.
LEMMA FreeAll ==
  ASSUME IsFiniteSet(Subjects), None \notin Ids, NEW x \in State,
         NEW lst \in Seq(Ids), IsInjective(lst),
         NEW X, NEW home, Hung(x, X, home),
         \A f \in Range(lst) :
            x.parent[f] = None => x.subj[f] \in Subjects /\ home[f] \in Orbit(x.link, x.subj[f]),
         NEW y, y = FreeFakes(x, lst)
  PROVE  GivenUp(y, x, Range(lst)) /\ Hung(y, X \ Range(lst), home)
<1> DEFINE n == Len(lst)
           Before_(i) == {lst[j] : j \in 1 .. i}
<1>1. n \in Nat /\ DOMAIN lst = 1 .. n /\ \A i \in 1 .. n : lst[i] \in Ids
  OBVIOUS
<1>2. PICK g : /\ g[0] = x
               /\ \A i \in 1 .. n : g[i] = FreeFake(g[i - 1], lst[i])
               /\ y = g[n]
  BY FreeFold
<1>i. \A i, j \in 1 .. n : lst[i] = lst[j] => i = j
  BY <1>1 DEF IsInjective
<1> DEFINE Good == {i \in 0 .. n : GivenUp(g[i], x, Before_(i)) /\ Hung(g[i], X \ Before_(i), home)}
<1>3. 0 \in Good
  <2>1. Before_(0) = {}
    OBVIOUS
  <2>2. GivenUp(x, x, {})
    BY DEF GivenUp
  <2>3. X \ Before_(0) = X
    BY <2>1
  <2>4. GivenUp(g[0], x, Before_(0)) /\ Hung(g[0], X \ Before_(0), home)
    BY <1>2, <2>1, <2>2, <2>3
  <2>5. 0 \in 0 .. n
    BY <1>1
  <2> HIDE DEF Before_
  <2> QED
    BY <2>4, <2>5
<1>4. ASSUME NEW i \in 1 .. n, i - 1 \in Good PROVE i \in Good
  <2> DEFINE U == Before_(i - 1)
             f == lst[i]
             z == g[i - 1]
             w == g[i]
             Y == X \ U
  <2>1. f \in Ids /\ f \notin U /\ U \in SUBSET Ids /\ f \in Range(lst)
    BY <1>1, <1>i DEF Range
  <2>2. Before_(i) = U \cup {f}
    BY <1>1
  <2>3. GivenUp(z, x, U) /\ Hung(z, Y, home) /\ w = FreeFake(z, f)
    BY <1>2, <1>4
  <2>4. (X \ U) \ {f} = X \ Before_(i)
    BY <2>2
  <2>5. x.parent[f] = None => x.subj[f] \in Subjects /\ home[f] \in Orbit(x.link, x.subj[f])
    BY <2>1
  <2> HIDE DEF U, f, z, w, Y
  <2>6. GivenUp(w, x, U \cup {f}) /\ Hung(w, Y \ {f}, home)
    BY <2>1, <2>3, <2>5, FreeFakeStep
  <2>7. GivenUp(w, x, Before_(i)) /\ Hung(w, X \ Before_(i), home)
    BY <2>2, <2>4, <2>6 DEF Y
  <2> QED
    BY <1>1, <2>7 DEF w
<1>5. n \in Good
  <2> HIDE DEF Good, n
  <2>1. \A i \in 0 .. n : i \in Good
    BY <1>1, <1>3, <1>4, UpTo
  <2> QED
    BY <1>1, <2>1
<1>6. Before_(n) = Range(lst)
  BY <1>1 DEF Range
<1> QED
  BY <1>2, <1>5, <1>6

\* m is a real article, in no list; the others that are real stay as they are.
Settled(y, x, m, p) ==
    /\ y.articles = x.articles /\ y.sdate = x.sdate
    /\ y.short = x.short /\ y.hashed = x.hashed
    /\ Range(y.list) = Range(x.list)
    /\ mode # "thread" => y.list = x.list
    /\ \A s \in Subjects : Orbit(x.link, s) \subseteq Orbit(y.link, s)
    /\ y.held[m] = "real" /\ y.subj[m] = p.subj /\ y.date[m] = p.date
    /\ \A a \in Ids \ {m} :
          /\ y.held[a] = "real" <=> x.held[a] = "real"
          /\ x.held[a] = "real" =>
                y.subj[a] = x.subj[a] /\ y.date[a] = x.date[a] /\ y.parent[a] = x.parent[a]

\* Nobody knew m.
LEMMA SettleNew ==
  ASSUME IsFiniteSet(Subjects), None \notin Ids, None \notin Subjects,
         NEW x, Whole(x), NEW m \in Ids, x.held[m] # "real", x.subj[m] = None,
         NEW p, p.subj \in Range(x.list), p.date \in Int \ {0},
         NEW y, y = TakePlace(x, m, p)
  PROVE  Start(y, m, FALSE) /\ Settled(y, x, m, p)
<1>1. /\ x \in State /\ Hung(x, PlacedIn(x), x.subj) /\ Acyclic(x) /\ Bare(x)
      /\ \A a \in Ids : Kin(x, a)
      /\ Listed(x)
  BY DEF Whole, Sound
<1>2. p.subj \in Subjects /\ Permutes(x.link) /\ x.subj \in [Ids -> Subjects \cup {None}]
      /\ x.parent \in [Ids -> Ids \cup {None}]
  <2>1. x.list \in Seq(Subjects)
    BY <1>1 DEF State
  <2> QED
    BY <1>1, <2>1 DEF Hung, Range, State
<1>3. /\ y \in State
      /\ y.kids = x.kids /\ y.parent = x.parent
      /\ y.list = x.list /\ y.link = x.link /\ y.thread = x.thread
      /\ y.articles = x.articles /\ y.sdate = x.sdate
      /\ y.short = x.short /\ y.hashed = x.hashed
      /\ y.held[m] = "real" /\ y.subj[m] = p.subj /\ y.date[m] = p.date
      /\ \A b \in Ids \ {m} : /\ y.held[b] = x.held[b] /\ y.subj[b] = x.subj[b]
                              /\ y.date[b] = x.date[b]
  BY <1>1, <1>2, TakePlaceFields
<1>4. PlacedIn(y) \ {m} = PlacedIn(x) /\ m \in PlacedIn(y)
  BY <1>2, <1>3 DEF PlacedIn
<1>5. Hung(y, PlacedIn(x), y.subj)
  <2>1. ASSUME NEW a \in PlacedIn(x), x.parent[a] = None
        PROVE  y.subj[a] \in Subjects /\ y.subj[a] \in Orbit(x.link, x.subj[a])
    <3>1. a \in Ids \ {m} /\ x.subj[a] \in Subjects
      BY <1>2, <2>1 DEF PlacedIn
    <3> QED
      BY <1>2, <1>3, <3>1, OrbitFacts
  <2>2. \A a \in PlacedIn(x) : y.parent[a] = x.parent[a]
    BY <1>3
  <2> QED
    BY <1>1, <1>3, <2>1, <2>2, HungAlike
<1>6. Acyclic(y) /\ Bare(y)
  BY <1>1, <1>2, <1>3 DEF Acyclic, Bare
<1>7. ASSUME NEW a \in Ids, y.parent[a] # None PROVE Kin(y, a)
  <2>1. /\ x.subj[a] \in Subjects /\ x.subj[x.parent[a]] \in Subjects
        /\ x.subj[x.parent[a]] \in Orbit(x.link, x.subj[a]) /\ x.parent[a] \in Ids
    BY <1>1, <1>2, <1>3, <1>7 DEF Kin
  <2>2. a # m /\ x.parent[a] # m
    BY <2>1
  <2> QED
    BY <1>3, <2>1, <2>2 DEF Kin
<1>8. \A a \in Ids : Kin(y, a)
  BY <1>7 DEF Kin
<1>9. Listed(y)
  BY <1>1, <1>3 DEF Listed
<1>10. y.parent[m] = None
  BY <1>1, <1>3 DEF Bare
<1>11. y.date[m] # 0
  BY <1>3
<1>12. Sound(y, PlacedIn(y) \ {m})
  BY <1>3, <1>4, <1>5, <1>6, <1>8, <1>9 DEF Sound
<1>13. Start(y, m, FALSE)
  BY <1>4, <1>10, <1>11, <1>12 DEF Start
<1>14. Settled(y, x, m, p)
  BY <1>3 DEF Settled
<1> QED
  BY <1>13, <1>14

\* The fakes above m that have but one child.
LoneFakes(x) == {a \in Ids : x.held[a] = "fake" /\ Len(x.kids[a]) = 1}

\* What LeaveFakePlace does when there was a fake.
LEMMA LeaveIs ==
  ASSUME IsFiniteSet(Ids), None \notin Ids, NEW x, NEW m \in Ids, NEW had, had # None,
         NEW j, j = JoinThreads(x, had, x.subj[m]), j.parent \in [Ids -> Ids \cup {None}]
  PROVE  LeaveFakePlace(x, m, had) =
           [FreeFakes(UnlinkChild(j, m), ClimbWhile(j, m, LoneFakes(j))) EXCEPT !.parent[m] = None]
BY DEF LeaveFakePlace, FreeFakes, LoneFakes

\* The real article stands where its fake stood, and the threads of the two
\* subjects are one.
Replaced(j, x, m, p) ==
    /\ j \in State
    /\ j.parent = x.parent
    /\ Range(j.list) = Range(x.list) /\ IsInjective(j.list)
    /\ mode # "thread" => j.list = x.list
    /\ j.articles = x.articles /\ j.sdate = x.sdate
    /\ j.short = x.short /\ j.hashed = x.hashed
    /\ j.held[m] = "real" /\ j.subj[m] = p.subj /\ j.date[m] = p.date
    /\ \A b \in Ids \ {m} : /\ j.held[b] = x.held[b] /\ j.subj[b] = x.subj[b]
                            /\ j.date[b] = x.date[b]
    /\ Permutes(x.link) /\ Permutes(j.link)
    /\ \A s \in Subjects : Orbit(x.link, s) \subseteq Orbit(j.link, s)
    /\ \A s \in Subjects \ Range(x.list) : j.link[s] = x.link[s]
    /\ p.subj \in Subjects /\ p.subj \in Orbit(j.link, x.subj[m])
    /\ Hung(j, PlacedIn(x), x.subj)

\* A real article that takes the place of a fake one keeps its children, and
\* the threads of the old and of the new subject are one.
LEMMA ReplaceFake ==
  ASSUME IsFiniteSet(Subjects), None \notin Ids, None \notin Subjects,
         NEW x, Whole(x), NEW m \in Ids, NEW had \in Subjects, had = x.subj[m],
         NEW p, p.subj \in Range(x.list), p.date \in Int \ {0},
         NEW y, y = TakePlace(x, m, p),
         NEW j, j = JoinThreads(y, had, y.subj[m])
  PROVE  Replaced(j, x, m, p)
<1> DEFINE X == PlacedIn(x)
           home == x.subj
<1>1. /\ x \in State /\ Hung(x, X, home) /\ Acyclic(x)
      /\ \A a \in Ids : Kin(x, a)
      /\ Listed(x)
  BY DEF Whole, Sound
<1>2. p.subj \in Subjects /\ Permutes(x.link) /\ x.subj \in [Ids -> Subjects \cup {None}]
      /\ x.parent \in [Ids -> Ids \cup {None}] /\ IsInjective(x.list)
      /\ had \in Range(x.list)
  <2>1. /\ x.list \in Seq(Subjects) /\ x.subj \in [Ids -> Subjects \cup {None}]
        /\ x.parent \in [Ids -> Ids \cup {None}]
    BY <1>1 DEF State
  <2>2. p.subj \in Subjects
    BY <2>1 DEF Range
  <2>3. had \in Range(x.list) /\ IsInjective(x.list)
    BY <1>1 DEF Listed
  <2>4. Permutes(x.link)
    BY <1>1 DEF Hung
  <2> QED
    BY <2>1, <2>2, <2>3, <2>4
<1>3. /\ y \in State
      /\ y.kids = x.kids /\ y.parent = x.parent
      /\ y.list = x.list /\ y.link = x.link /\ y.thread = x.thread
      /\ y.articles = x.articles /\ y.sdate = x.sdate
      /\ y.short = x.short /\ y.hashed = x.hashed
      /\ y.held[m] = "real" /\ y.subj[m] = p.subj /\ y.date[m] = p.date
      /\ \A b \in Ids \ {m} : /\ y.held[b] = x.held[b] /\ y.subj[b] = x.subj[b]
                              /\ y.date[b] = x.date[b]
  BY <1>1, <1>2, TakePlaceFields
<1>4. Hung(y, X, home)
  BY <1>1, <1>3, HungSame
<1>5. y.thread[had] # <<>>
  <2> DEFINE T == {a \in X : home[a] \in Orbit(x.link, had)}
  <2>1. m \in T
    <3>1. had \in Orbit(x.link, had)
      BY <1>2, OrbitFacts
    <3> QED
      BY <3>1 DEF PlacedIn
  <2>2. \A a \in T : x.parent[a] # None => x.parent[a] \in T
    <3> SUFFICES ASSUME NEW a \in T, x.parent[a] # None PROVE x.parent[a] \in T
      OBVIOUS
    <3>1. a \in Ids /\ x.parent[a] \in Ids /\ home[a] \in Subjects
      BY <1>2 DEF PlacedIn
    <3>2. home[x.parent[a]] \in Orbit(x.link, home[a]) /\ home[x.parent[a]] \in Subjects
      BY <1>1, <3>1 DEF Kin
    <3>3. Orbit(x.link, home[a]) = Orbit(x.link, had)
      BY <1>2, OrbitClass
    <3> QED
      BY <3>1, <3>2, <3>3 DEF PlacedIn
  <2> HIDE DEF T, X, home
  <2>3. T \in SUBSET X /\ T # {} /\ \A a \in T : home[a] \in Orbit(x.link, had)
    BY <2>1 DEF T
  <2>4. x.thread[had] # <<>>
    BY <1>1, <2>2, <2>3, ThreadNotEmpty
  <2> QED
    BY <1>3, <2>4
<1>6. /\ Joins(j, y) /\ Hung(j, X, home) /\ p.subj \in Orbit(j.link, had)
  <2>1. p.subj \notin Orbit(y.link, had) =>
           \A a \in Range(y.thread[p.subj]) :
              y.subj[a] \in Orbit(y.link, had) \cup Orbit(y.link, p.subj)
    <3> SUFFICES ASSUME NEW a \in Range(y.thread[p.subj])
                 PROVE  y.subj[a] \in Orbit(y.link, p.subj)
      OBVIOUS
    <3>1. a \in X /\ home[a] \in Orbit(x.link, p.subj)
      BY <1>2, <1>3, <1>4 DEF Hung
    <3>2. p.subj \in Orbit(x.link, p.subj) /\ a \in Ids
      BY <1>2, <3>1, OrbitFacts DEF PlacedIn
    <3> QED
      BY <1>3, <3>1, <3>2
  <2>2. j = JoinThreads(y, had, p.subj)
    BY <1>3
  <2>3. had \in Range(y.list) /\ p.subj \in Range(y.list) /\ IsInjective(y.list)
    BY <1>2, <1>3
  <2> HIDE DEF X, home
  <2> DEFINE s2 == p.subj
  <2>4. /\ s2 \in Range(y.list) /\ j = JoinThreads(y, had, s2)
        /\ s2 \notin Orbit(y.link, had) =>
           \A a \in Range(y.thread[s2]) :
              y.subj[a] \in Orbit(y.link, had) \cup Orbit(y.link, s2)
    BY <2>1, <2>2, <2>3
  <2> HIDE DEF s2
  <2>5. Joins(j, y) /\ Hung(j, X, home) /\ s2 \in Orbit(j.link, had)
    BY <1>3, <1>4, <1>5, <2>3, <2>4, JoinHung
  <2> QED
    BY <2>5 DEF s2
<1>7. /\ j \in State /\ SameArticles(j, y) /\ Permutes(j.link)
      /\ \A s \in Subjects : Orbit(y.link, s) \subseteq Orbit(j.link, s)
      /\ IsInjective(j.list) /\ Range(j.list) = Range(y.list)
      /\ mode # "thread" => j.list = y.list
      /\ \A s \in Subjects \ Range(y.list) : j.link[s] = y.link[s]
  BY <1>6 DEF Joins
<1>8. j.held = y.held /\ j.parent = y.parent /\ j.subj = y.subj /\ j.date = y.date
      /\ j.articles = y.articles /\ j.sdate = y.sdate
      /\ j.short = y.short /\ j.hashed = y.hashed
  BY <1>7 DEF SameArticles
<1> QED
  BY <1>2, <1>3, <1>6, <1>7, <1>8 DEF Replaced

\* The fakes that are given up: each has but one child, and that one goes too.
LEMMA LoneChildren ==
  ASSUME IsFiniteSet(Ids), None \notin Ids, None \notin Subjects,
         NEW x, Whole(x), NEW m \in Ids, x.subj[m] # None, NEW p, NEW j, Replaced(j, x, m, p),
         NEW own, own = ClimbWhile(j, m, LoneFakes(j))
  PROVE  /\ own \in Seq(Ids) /\ IsInjective(own)
         /\ \A f \in Range(own) : f \in PlacedIn(x) \ {m} /\ x.held[f] = "fake"
         /\ \A a \in Ids : x.parent[a] \in Range(own) => a \in Range(own) \cup {m}
<1> DEFINE X == PlacedIn(x)
<1>1. /\ x \in State /\ Acyclic(x) /\ Bare(x)
      /\ \A a \in Ids : Kin(x, a)
  BY DEF Whole, Sound
<1>2. /\ j \in State /\ j.parent = x.parent /\ j.held[m] = "real"
      /\ \A b \in Ids \ {m} : j.held[b] = x.held[b]
      /\ Hung(j, X, x.subj)
  BY DEF Replaced
<1>t. /\ j.kids \in [Ids -> Seq(Ids)] /\ j.parent \in [Ids -> Ids \cup {None}]
      /\ x.subj \in [Ids -> Subjects \cup {None}]
  BY <1>1, <1>2 DEF State
<1> DEFINE T == LoneFakes(j)
<1>3. T \in SUBSET (Ids \ {m}) /\ T \in SUBSET Ids
  BY <1>2 DEF LoneFakes
<1>4. AcyclicBut(j, m)
  BY <1>1, <1>2 DEF Acyclic, AcyclicBut
<1> HIDE DEF T
<1>5. own = ClimbWhile(j, m, T)
  BY DEF T
<1>6. /\ own \in Seq(T) /\ IsWayUp(j, m, own)
  BY <1>3, <1>5, <1>t, ClimbFacts
<1>7. IsInjective(own)
  BY <1>3, <1>4, <1>5, <1>t, ClimbInjective
<1>8. /\ DOMAIN own = 1 .. Len(own) /\ Len(own) \in Nat
      /\ \A i \in 1 .. Len(own) : own[i] \in T
      /\ \A i \in 1 .. Len(own) : own[i] = IF i = 1 THEN x.parent[m] ELSE x.parent[own[i - 1]]
  BY <1>2, <1>6 DEF IsWayUp
<1>9. own \in Seq(Ids)
  BY <1>3, <1>6
<1>10. ASSUME NEW i \in 1 .. Len(own)
       PROVE  \E c \in Range(own) \cup {m} : c \in Ids /\ x.parent[c] = own[i]
  <2>1. CASE i = 1
    BY <1>8, <2>1
  <2>2. CASE i # 1
    <3>1. i - 1 \in 1 .. Len(own)
      BY <1>8, <2>2
    <3>2. own[i - 1] \in Range(own) /\ own[i - 1] \in Ids
      BY <1>3, <1>8, <3>1 DEF Range
    <3> QED
      BY <1>8, <2>2, <3>2
  <2> QED
    BY <2>1, <2>2
<1>11. \A f \in Range(own) : \E i \in 1 .. Len(own) : own[i] = f
  BY <1>8 DEF Range
<1>12. ASSUME NEW c \in Ids, x.parent[c] # None
       PROVE  c \in X /\ x.parent[c] \in X
  BY <1>1, <1>2, <1>t, <1>12 DEF Kin, PlacedIn
<1>13. ASSUME NEW f \in Range(own)
       PROVE  /\ f \in X \ {m} /\ x.held[f] = "fake"
              /\ \A a \in Ids : x.parent[a] = f => a \in Range(own) \cup {m}
  <2>1. PICK c \in Range(own) \cup {m} : c \in Ids /\ x.parent[c] = f
    BY <1>10, <1>11
  <2>2. f \in T /\ f \in Ids \ {m} /\ f # None
    BY <1>3, <1>8, <1>11
  <2>3. x.held[f] = "fake" /\ Len(j.kids[f]) = 1
    BY <1>2, <2>2 DEF T, LoneFakes
  <2>4. c \in X /\ f \in X
    BY <1>12, <2>1, <2>2
  <2>5. Range(j.kids[f]) = {a \in X : x.parent[a] = f}
    BY <1>2, <2>2 DEF Hung
  <2>6. j.kids[f] \in Seq(Ids)
    BY <1>t, <2>2
  <2>7. \A a, b \in Range(j.kids[f]) : a = b
    BY <2>3, <2>6 DEF Range
  <2>8. ASSUME NEW a \in Ids, x.parent[a] = f PROVE a = c
    BY <1>12, <2>1, <2>2, <2>4, <2>5, <2>7, <2>8
  <2> QED
    BY <2>2, <2>3, <2>4, <2>8
<1> QED
  BY <1>7, <1>9, <1>13

\* The fakes of U have been given up, and m, which is in no list, has no parent.
Cleared(y, j, m, U) ==
    /\ y \in State
    /\ y.held = j.held /\ y.list = j.list /\ y.link = j.link
    /\ y.articles = j.articles /\ y.sdate = j.sdate
    /\ y.short = j.short /\ y.hashed = j.hashed
    /\ \A b \in U : y.date[b] = 0 /\ y.subj[b] = None /\ y.parent[b] = None
    /\ \A b \in Ids \ U : /\ y.date[b] = j.date[b] /\ y.subj[b] = j.subj[b]
                          /\ b # m => y.parent[b] = j.parent[b]
    /\ y.parent[m] = None

\* The article and the fakes above it that had no other child are out of all
\* lists.
LEMMA ClearFakes ==
  ASSUME IsFiniteSet(Ids), IsFiniteSet(Subjects), None \notin Ids, None \notin Subjects,
         NEW x, Whole(x), NEW m \in Ids, x.subj[m] # None, NEW p, NEW j, Replaced(j, x, m, p),
         NEW own, own \in Seq(Ids), IsInjective(own),
         \A f \in Range(own) : f \in PlacedIn(x) \ {m},
         NEW y, y = [FreeFakes(UnlinkChild(j, m), own) EXCEPT !.parent[m] = None]
  PROVE  /\ Cleared(y, j, m, Range(own))
         /\ Hung(y, (PlacedIn(x) \ {m}) \ Range(own), x.subj)
<1> DEFINE X == PlacedIn(x)
           home == x.subj
           U == Range(own)
           u == UnlinkChild(j, m)
           v == FreeFakes(u, own)
<1>1. /\ j \in State /\ j.parent = x.parent /\ Permutes(j.link)
      /\ j.subj[m] = p.subj
      /\ \A b \in Ids \ {m} : j.subj[b] = x.subj[b]
      /\ p.subj \in Subjects /\ p.subj \in Orbit(j.link, x.subj[m])
      /\ Hung(j, X, home)
  BY DEF Replaced
<1>t. x.subj \in [Ids -> Subjects \cup {None}] /\ x \in State
  BY DEF Whole, Sound, State
<1>2. home[m] \in Subjects /\ home[m] \in Orbit(j.link, j.subj[m])
  <2>1. home[m] \in Subjects
    BY <1>t
  <2>2. Orbit(j.link, p.subj) = Orbit(j.link, home[m]) /\ home[m] \in Orbit(j.link, home[m])
    BY <1>1, <2>1, OrbitClass, OrbitFacts
  <2> QED
    BY <1>1, <2>1, <2>2
<1> HIDE DEF home, X
<1>3. OtherLists(u, j) /\ Hung(u, X \ {m}, home)
  BY <1>1, <1>2, UnlinkHung
<1> HIDE DEF u
<1>4. /\ u \in State /\ u.held = j.held /\ u.parent = j.parent /\ u.subj = j.subj
      /\ u.date = j.date /\ u.list = j.list /\ u.link = j.link
      /\ u.articles = j.articles /\ u.sdate = j.sdate
      /\ u.short = j.short /\ u.hashed = j.hashed
  BY <1>3 DEF OtherLists, SameArticles
<1>5. \A f \in U : u.parent[f] = None => u.subj[f] \in Subjects /\ home[f] \in Orbit(u.link, u.subj[f])
  <2> SUFFICES ASSUME NEW f \in U
               PROVE  u.subj[f] \in Subjects /\ home[f] \in Orbit(u.link, u.subj[f])
    OBVIOUS
  <2>1. f \in Ids \ {m} /\ x.subj[f] \in Subjects
    BY <1>t DEF PlacedIn
  <2> QED
    BY <1>1, <1>4, <2>1, OrbitFacts DEF home
<1>6. GivenUp(v, u, U) /\ Hung(v, (X \ {m}) \ U, home)
  <2> DEFINE Y == X \ {m}
  <2>1. Hung(u, Y, home)
    BY <1>3
  <2> HIDE DEF Y, v
  <2>2. v = FreeFakes(u, own)
    BY DEF v
  <2>3. GivenUp(v, u, U) /\ Hung(v, Y \ U, home)
    BY <1>4, <1>5, <2>1, <2>2, FreeAll
  <2> QED
    BY <2>3 DEF Y
<1>7. y = [v EXCEPT !.parent[m] = None]
  BY DEF u
<1> HIDE DEF v
<1>8. /\ v \in State
      /\ v.held = u.held /\ v.list = u.list /\ v.link = u.link
      /\ v.articles = u.articles /\ v.sdate = u.sdate
      /\ v.short = u.short /\ v.hashed = u.hashed
      /\ \A b \in U : v.date[b] = 0 /\ v.subj[b] = None /\ v.parent[b] = None
      /\ \A b \in Ids \ U : /\ v.date[b] = u.date[b] /\ v.subj[b] = u.subj[b]
                            /\ v.parent[b] = u.parent[b]
  BY <1>6 DEF GivenUp
<1>9. /\ y \in State
      /\ y.held = v.held /\ y.kids = v.kids /\ y.subj = v.subj /\ y.date = v.date
      /\ y.list = v.list /\ y.link = v.link /\ y.thread = v.thread
      /\ y.articles = v.articles /\ y.sdate = v.sdate
      /\ y.short = v.short /\ y.hashed = v.hashed
      /\ \A a \in Ids : y.parent[a] = IF a = m THEN None ELSE v.parent[a]
  <2>1. v \in State /\ m \in Ids
    BY <1>8
  <2> QED
    BY ONLY <1>7, <2>1, SetParentFields
<1>u. U \subseteq Ids
  BY DEF PlacedIn
<1> HIDE DEF U
<1>10. Cleared(y, j, m, U)
  BY <1>4, <1>8, <1>9, <1>u DEF Cleared
<1>11. Hung(y, (X \ {m}) \ U, home)
  <2> DEFINE Y == (X \ {m}) \ U
  <2>1. Hung(v, Y, home)
    BY <1>6
  <2>2. \A b \in Y : y.parent[b] = v.parent[b]
    BY <1>9 DEF X, PlacedIn
  <2> HIDE DEF Y
  <2>3. Permutes(v.link) /\ \A b \in Y : v.parent[b] = None => home[b] \in Subjects
    BY <2>1 DEF Hung
  <2>4. \A b \in Y : v.parent[b] = None =>
           home[b] \in Subjects /\ home[b] \in Orbit(v.link, home[b])
    BY <2>3, OrbitFacts
  <2>5. Hung(y, Y, home)
    BY <1>9, <2>1, <2>2, <2>4, HungAlike
  <2> QED
    BY <2>5 DEF Y
<1> QED
  BY <1>10, <1>11 DEF X, U, home

\* m stood in the place of a fake, and leaves it with the fakes above.
LEMMA SettleOld ==
  ASSUME IsFiniteSet(Ids), IsFiniteSet(Subjects), None \notin Ids, None \notin Subjects,
         NEW x, Whole(x), NEW m \in Ids, x.held[m] # "real", NEW had \in Subjects, had = x.subj[m],
         NEW p, p.subj \in Range(x.list), p.date \in Int \ {0},
         NEW z, z = TakePlace(x, m, p),
         NEW y, y = LeaveFakePlace(z, m, had)
  PROVE  Start(y, m, FALSE) /\ Settled(y, x, m, p)
<1> DEFINE j == JoinThreads(z, had, z.subj[m])
           own == ClimbWhile(j, m, LoneFakes(j))
           U == Range(own)
           X == PlacedIn(x)
<1>1. Replaced(j, x, m, p)
  <2> DEFINE jj == j
  <2>1. jj = JoinThreads(z, had, z.subj[m])
    OBVIOUS
  <2> HIDE DEF jj
  <2>2. Replaced(jj, x, m, p)
    BY <2>1, ReplaceFake
  <2> QED
    BY <2>2 DEF jj
<1>j. j = JoinThreads(z, had, z.subj[m])
  OBVIOUS
<1> HIDE DEF j
<1>2. /\ j \in State /\ j.parent = x.parent /\ Permutes(x.link) /\ Permutes(j.link)
      /\ j.held[m] = "real" /\ j.subj[m] = p.subj /\ j.date[m] = p.date
      /\ \A b \in Ids \ {m} : /\ j.held[b] = x.held[b] /\ j.subj[b] = x.subj[b]
                              /\ j.date[b] = x.date[b]
      /\ p.subj \in Subjects /\ p.subj \in Orbit(j.link, x.subj[m])
      /\ \A s \in Subjects : Orbit(x.link, s) \subseteq Orbit(j.link, s)
      /\ Range(j.list) = Range(x.list) /\ IsInjective(j.list)
      /\ mode # "thread" => j.list = x.list
      /\ \A s \in Subjects \ Range(x.list) : j.link[s] = x.link[s]
      /\ j.articles = x.articles /\ j.sdate = x.sdate
      /\ j.short = x.short /\ j.hashed = x.hashed
  BY <1>1 DEF Replaced
<1>3. x.subj[m] # None
  OBVIOUS
<1>4. /\ own \in Seq(Ids) /\ IsInjective(own)
      /\ \A f \in U : f \in X \ {m} /\ x.held[f] = "fake"
      /\ \A a \in Ids : x.parent[a] \in U => a \in U \cup {m}
  <2> DEFINE o == own
  <2>1. o = ClimbWhile(j, m, LoneFakes(j))
    OBVIOUS
  <2> HIDE DEF o
  <2>2. /\ o \in Seq(Ids) /\ IsInjective(o)
        /\ \A f \in Range(o) : f \in PlacedIn(x) \ {m} /\ x.held[f] = "fake"
        /\ \A a \in Ids : x.parent[a] \in Range(o) => a \in Range(o) \cup {m}
    BY <1>1, <1>3, <2>1, LoneChildren
  <2> QED
    BY <2>2 DEF o
<1>5. y = [FreeFakes(UnlinkChild(j, m), own) EXCEPT !.parent[m] = None]
  <2>1. j.parent \in [Ids -> Ids \cup {None}] /\ had # None
    BY <1>2 DEF State
  <2> QED
    BY <1>j, <2>1, LeaveIs
<1> HIDE DEF own
<1>6. Cleared(y, j, m, U) /\ Hung(y, (X \ {m}) \ U, x.subj)
  BY <1>1, <1>3, <1>4, <1>5, ClearFakes
<1>x. /\ x \in State /\ Acyclic(x) /\ Bare(x) /\ Listed(x)
      /\ \A a \in Ids : Kin(x, a)
      /\ x.subj \in [Ids -> Subjects \cup {None}] /\ x.parent \in [Ids -> Ids \cup {None}]
  BY DEF Whole, Sound, State
<1> HIDE DEF U, X
<1>7. /\ y \in State
      /\ y.held = j.held /\ y.list = j.list /\ y.link = j.link
      /\ y.articles = j.articles /\ y.sdate = j.sdate
      /\ y.short = j.short /\ y.hashed = j.hashed
      /\ \A b \in U : y.date[b] = 0 /\ y.subj[b] = None /\ y.parent[b] = None
      /\ \A b \in Ids \ U : /\ y.date[b] = j.date[b] /\ y.subj[b] = j.subj[b]
                            /\ b # m => y.parent[b] = x.parent[b]
      /\ y.parent[m] = None
  BY <1>2, <1>6 DEF Cleared
<1>s. X \subseteq Ids /\ U \subseteq X /\ m \in X /\ m \notin U
      /\ \A a \in Ids : a \in X <=> x.subj[a] # None
  BY <1>3, <1>4 DEF X, PlacedIn
<1>8. /\ y.subj[m] = p.subj /\ y.date[m] = p.date /\ y.held[m] = "real"
      /\ \A b \in (Ids \ {m}) \ U : /\ y.subj[b] = x.subj[b] /\ y.date[b] = x.date[b]
                                    /\ y.parent[b] = x.parent[b]
      /\ \A b \in Ids \ {m} : y.held[b] = x.held[b]
  BY <1>2, <1>7, <1>s
<1>9. PlacedIn(y) \ {m} = (X \ {m}) \ U /\ m \in PlacedIn(y)
  <2>1. \A a \in Ids \ {m} : y.subj[a] # None <=> a \in X /\ a \notin U
    BY <1>7, <1>8, <1>s
  <2>2. y.subj[m] # None
    BY <1>2, <1>8
  <2> QED
    BY <1>s, <2>1, <2>2 DEF PlacedIn
<1>10. Hung(y, PlacedIn(y) \ {m}, y.subj)
  <2> DEFINE Y == (X \ {m}) \ U
  <2>1. Hung(y, Y, x.subj) /\ Y \subseteq Ids
    BY <1>6, <1>s
  <2>2. \A a \in Y : y.subj[a] \in Subjects /\ y.subj[a] \in Orbit(y.link, x.subj[a])
    <3> SUFFICES ASSUME NEW a \in Y
                 PROVE y.subj[a] \in Subjects /\ y.subj[a] \in Orbit(y.link, x.subj[a])
      OBVIOUS
    <3>1. y.subj[a] = x.subj[a] /\ x.subj[a] \in Subjects
      BY <1>8, <1>s, <1>x
    <3> QED
      BY <1>2, <1>7, <3>1, OrbitFacts
  <2> HIDE DEF Y
  <2>3. Hung(y, Y, y.subj)
    BY <2>1, <2>2, HungAlike
  <2> QED
    BY <1>9, <2>3 DEF Y
<1>11. Acyclic(y)
  <2> SUFFICES ASSUME NEW S \in SUBSET Ids, S # {}, \A a \in S : y.parent[a] \in S
               PROVE  FALSE
    BY DEF Acyclic
  <2>1. \A a \in S : x.parent[a] \in S
    BY <1>7, <1>8
  <2> QED
    BY <1>x, <2>1 DEF Acyclic
<1>12. Bare(y)
  <2> SUFFICES ASSUME NEW a \in Ids, y.subj[a] = None
               PROVE  y.parent[a] = None /\ y.date[a] = 0 /\ y.held[a] # "real"
    BY DEF Bare
  <2>1. a # m
    BY <1>2, <1>8
  <2>2. CASE a \in U
    BY <1>4, <1>7, <1>8, <2>1, <2>2
  <2>3. CASE a \notin U
    BY <1>8, <1>x, <2>1, <2>3 DEF Bare
  <2> QED
    BY <2>2, <2>3
<1>13. ASSUME NEW a \in Ids, y.parent[a] # None PROVE Kin(y, a)
  <2>1. a # m /\ a \notin U /\ y.parent[a] = x.parent[a] /\ y.subj[a] = x.subj[a]
    BY <1>7, <1>8, <1>13
  <2>2. /\ x.subj[a] \in Subjects /\ x.subj[x.parent[a]] \in Subjects
        /\ x.subj[x.parent[a]] \in Orbit(x.link, x.subj[a]) /\ x.parent[a] \in Ids
    BY <1>13, <1>x, <2>1 DEF Kin
  <2>3. x.parent[a] \notin U
    BY <1>4, <2>1
  <2>4. x.subj[x.parent[a]] \in Orbit(y.link, x.subj[a])
    BY <1>2, <1>7, <2>2
  <2>5. CASE x.parent[a] # m
    BY <1>8, <2>1, <2>2, <2>3, <2>4, <2>5 DEF Kin
  <2>6. CASE x.parent[a] = m
    <3>1. Orbit(y.link, had) = Orbit(y.link, x.subj[a])
      BY <1>2, <1>7, <2>2, <2>4, <2>6, OrbitClass
    <3> QED
      BY <1>2, <1>7, <1>8, <2>1, <2>2, <2>6, <3>1 DEF Kin
  <2> QED
    BY <2>5, <2>6
<1>14. \A a \in Ids : Kin(y, a)
  BY <1>13 DEF Kin
<1>15. Listed(y)
  <2>1. \A a \in Ids : y.subj[a] # None => y.subj[a] \in Range(x.list)
    BY <1>7, <1>8, <1>x DEF Listed
  <2>2. \A q \in DOMAIN y.short : y.short[q] # None => y.short[q] \in Range(x.list)
    BY <1>2, <1>7, <1>x DEF Listed
  <2>3. \A s \in Subjects \ Range(x.list) : y.link[s] = s
    BY <1>2, <1>7, <1>x DEF Listed
  <2> QED
    BY <1>2, <1>7, <2>1, <2>2, <2>3 DEF Listed
<1>16. Sound(y, PlacedIn(y) \ {m})
  BY <1>7, <1>10, <1>11, <1>12, <1>14, <1>15 DEF Sound
<1>17. Start(y, m, FALSE)
  BY <1>7, <1>8, <1>9, <1>16 DEF Start
<1>18. Settled(y, x, m, p)
  <2>1. \A a \in Ids \ {m} :
          /\ y.held[a] = "real" <=> x.held[a] = "real"
          /\ x.held[a] = "real" =>
                y.subj[a] = x.subj[a] /\ y.date[a] = x.date[a] /\ y.parent[a] = x.parent[a]
    BY <1>4, <1>8
  <2> QED
    BY <1>2, <1>7, <1>8, <2>1 DEF Settled
<1> QED
  BY <1>17, <1>18

-----------------------------------------------------------------------------
(* Near subjects (-J)                                                      *)

\* Every subject of the list has an article in the tree.
Peopled(x) == \A s \in Range(x.list) : \E a \in Ids : x.subj[a] = s

\* A subject with an article has a thread.
LEMMA PeopledThreads ==
  ASSUME IsFiniteSet(Subjects), None \notin Ids, None \notin Subjects,
         NEW x, Whole(x), Peopled(x), NEW s \in Range(x.list)
  PROVE  s \in Subjects /\ x.thread[s] # <<>>
<1> DEFINE X == PlacedIn(x)
           home == x.subj
           T == {a \in X : home[a] \in Orbit(x.link, s)}
<1>1. /\ x \in State /\ Hung(x, X, home) /\ Acyclic(x)
      /\ \A a \in Ids : Kin(x, a)
      /\ x.parent \in [Ids -> Ids \cup {None}] /\ x.subj \in [Ids -> Subjects \cup {None}]
      /\ x.list \in Seq(Subjects)
  BY DEF Whole, Sound, State
<1>2. s \in Subjects
  BY <1>1 DEF Range
<1>3. Permutes(x.link)
  BY <1>1 DEF Hung
<1>4. PICK b \in Ids : home[b] = s
  BY DEF Peopled
<1>5. b \in T
  BY <1>2, <1>3, <1>4, OrbitFacts DEF PlacedIn
<1>6. \A a \in T : x.parent[a] # None => x.parent[a] \in T
  <2> SUFFICES ASSUME NEW a \in T, x.parent[a] # None PROVE x.parent[a] \in T
    OBVIOUS
  <2>1. a \in Ids /\ x.parent[a] \in Ids /\ home[a] \in Subjects
    BY <1>1 DEF PlacedIn
  <2>2. home[x.parent[a]] \in Orbit(x.link, home[a]) /\ home[x.parent[a]] \in Subjects
    BY <1>1, <2>1 DEF Kin
  <2>3. Orbit(x.link, home[a]) = Orbit(x.link, s)
    BY <1>2, <1>3, OrbitClass
  <2> QED
    BY <2>1, <2>2, <2>3 DEF PlacedIn
<1>7. T \in SUBSET X /\ T # {} /\ \A a \in T : home[a] \in Orbit(x.link, s)
  BY <1>5
<1> HIDE DEF T, X, home
<1>8. x.thread[s] # <<>>
  BY <1>1, <1>2, <1>6, <1>7, ThreadNotEmpty
<1> QED
  BY <1>2, <1>8

\* s is in the ring of the subject that has its first characters.
IsNear(x, s) ==
    Prefix[s] # None => x.short[Prefix[s]] # None
                        /\ s \in Orbit(x.link, x.short[Prefix[s]])

\* What looking at subjects leaves alone.
Nearing(y, x) ==
    /\ y.held = x.held /\ y.parent = x.parent /\ y.subj = x.subj /\ y.date = x.date
    /\ y.articles = x.articles /\ y.sdate = x.sdate /\ y.hashed = x.hashed
    /\ Range(y.list) = Range(x.list)
    /\ mode # "thread" => y.list = x.list
    /\ \A s \in Subjects : Orbit(x.link, s) \subseteq Orbit(y.link, s)
    /\ \A p \in DOMAIN x.short : x.short[p] # None => y.short[p] = x.short[p]
    /\ DOMAIN y.short = DOMAIN x.short

\* Two steps nearer are a step nearer.
LEMMA NearingTrans ==
  ASSUME NEW x, NEW y, NEW z, Nearing(z, y), Nearing(y, x)
  PROVE  Nearing(z, x)
BY DEF Nearing

\* What was near stays near.
LEMMA NearingKeeps ==
  ASSUME NEW x, NEW y, x \in State, Nearing(y, x), NEW s \in Subjects, IsNear(x, s)
  PROVE  IsNear(y, s)
<1> SUFFICES ASSUME Prefix[s] # None
             PROVE  y.short[Prefix[s]] # None /\ s \in Orbit(y.link, y.short[Prefix[s]])
  BY DEF IsNear
<1> DEFINE p == Prefix[s]
<1>1. x.short \in [{Prefix[r] : r \in Subjects} -> Subjects \cup {None}]
  BY DEF State
<1>2. p \in DOMAIN x.short /\ x.short[p] # None /\ x.short[p] \in Subjects
      /\ s \in Orbit(x.link, x.short[p])
  BY <1>1 DEF IsNear
<1> HIDE DEF p
<1>3. y.short[p] = x.short[p] /\ s \in Orbit(y.link, x.short[p])
  BY <1>2 DEF Nearing
<1> QED
  BY <1>2, <1>3 DEF p

\* A subject remembered for a prefix changes nothing else.
LEMMA ShortFields ==
  ASSUME NEW x \in State, NEW p \in {Prefix[r] : r \in Subjects}, NEW s \in Subjects,
         NEW y, y = [x EXCEPT !.short[p] = s]
  PROVE  /\ y \in State
         /\ y.held = x.held /\ y.kids = x.kids /\ y.subj = x.subj /\ y.date = x.date
         /\ y.parent = x.parent
         /\ y.list = x.list /\ y.link = x.link /\ y.thread = x.thread
         /\ y.articles = x.articles /\ y.sdate = x.sdate /\ y.hashed = x.hashed
         /\ y.short[p] = s /\ DOMAIN y.short = DOMAIN x.short
         /\ \A q \in DOMAIN x.short : q # p => y.short[q] = x.short[q]
BY DEF State

\* check_for_near_subj joins the subject with the one of the same prefix (-J).
LEMMA NearStep ==
  ASSUME IsFiniteSet(Subjects), None \notin Ids, None \notin Subjects,
         NEW x, Whole(x), Peopled(x), NEW s \in Range(x.list), NEW y, y = NearSubject(x, s)
  PROVE  Whole(y) /\ Peopled(y) /\ Nearing(y, x) /\ IsNear(y, s)
<1>1. /\ x \in State /\ Hung(x, PlacedIn(x), x.subj) /\ Acyclic(x) /\ Bare(x)
      /\ \A a \in Ids : Kin(x, a)
      /\ Listed(x) /\ Permutes(x.link)
      /\ x.short \in [{Prefix[r] : r \in Subjects} -> Subjects \cup {None}]
  BY DEF Whole, Sound, State, Hung
<1>2. s \in Subjects /\ x.thread[s] # <<>>
  BY PeopledThreads
<1>3. CASE Prefix[s] = None
  <2>1. y = x
    BY <1>3 DEF NearSubject
  <2> QED
    BY <1>3, <2>1 DEF Nearing, IsNear
<1>4. CASE Prefix[s] # None /\ x.short[Prefix[s]] = None
  <2> DEFINE p == Prefix[s]
  <2>1. y = [x EXCEPT !.short[p] = s]
    BY <1>2, <1>4 DEF NearSubject
  <2>2. p \in {Prefix[r] : r \in Subjects} /\ x.short[p] = None
    BY <1>2, <1>4
  <2>p. p = Prefix[s]
    OBVIOUS
  <2> HIDE DEF p
  <2>3. /\ y \in State
        /\ y.held = x.held /\ y.kids = x.kids /\ y.subj = x.subj /\ y.date = x.date
        /\ y.parent = x.parent
        /\ y.list = x.list /\ y.link = x.link /\ y.thread = x.thread
        /\ y.articles = x.articles /\ y.sdate = x.sdate /\ y.hashed = x.hashed
        /\ y.short[p] = s /\ DOMAIN y.short = DOMAIN x.short
        /\ \A q \in DOMAIN x.short : q # p => y.short[q] = x.short[q]
    BY <1>1, <1>2, <2>1, <2>2, ShortFields
  <2>4. PlacedIn(y) = PlacedIn(x)
    BY <2>3 DEF PlacedIn
  <2>5. Hung(y, PlacedIn(y), y.subj)
    BY <1>1, <2>3, <2>4, HungSame
  <2>6. Acyclic(y) /\ Bare(y)
    BY <1>1, <2>3 DEF Acyclic, Bare
  <2>7. \A a \in Ids : Kin(y, a)
    BY <1>1, <2>3 DEF Kin
  <2>8. Listed(y)
    BY <1>1, <2>3 DEF Listed
  <2>9. Nearing(y, x)
    BY <2>2, <2>3 DEF Nearing
  <2>10. IsNear(y, s)
    BY <1>1, <1>2, <2>3, <2>p, None \notin Subjects, OrbitFacts DEF IsNear
  <2>11. Peopled(y)
    BY <2>3 DEF Peopled
  <2> QED
    BY <2>3, <2>5, <2>6, <2>7, <2>8, <2>9, <2>10, <2>11 DEF Whole, Sound
<1>5. CASE Prefix[s] # None /\ x.short[Prefix[s]] # None
  <2> DEFINE s1 == x.short[Prefix[s]]
             X == PlacedIn(x)
             home == x.subj
  <2>1. y = JoinThreads(x, s1, s)
    BY <1>2, <1>5 DEF NearSubject
  <2>2. s1 \in Range(x.list) /\ IsInjective(x.list)
    BY <1>1, <1>2, <1>5 DEF Listed
  <2>3. \A a \in Range(x.thread[s]) : x.subj[a] \in Orbit(x.link, s1) \cup Orbit(x.link, s)
    BY <1>1, <1>2 DEF Hung
  <2>4. Hung(x, X, home)
    BY <1>1
  <2> HIDE DEF s1, X, home
  <2>5. Joins(y, x) /\ Hung(y, X, home) /\ s \in Orbit(y.link, s1)
    BY <1>1, <1>2, <2>1, <2>2, <2>3, <2>4, JoinHung
  <2>6. /\ y \in State /\ y.held = x.held /\ y.parent = x.parent /\ y.subj = x.subj
        /\ y.date = x.date /\ y.articles = x.articles /\ y.sdate = x.sdate
        /\ y.short = x.short /\ y.hashed = x.hashed
        /\ Range(y.list) = Range(x.list)
        /\ mode # "thread" => y.list = x.list
        /\ \A r \in Subjects : Orbit(x.link, r) \subseteq Orbit(y.link, r)
    BY <2>5 DEF Joins, SameArticles
  <2>7. PlacedIn(y) = X /\ y.subj = home
    BY <2>6 DEF PlacedIn, X, home
  <2>8. Hung(y, PlacedIn(y), y.subj)
    BY <2>5, <2>7
  <2>9. Whole(y)
    BY <2>5, <2>8, JoinsSound DEF Whole
  <2>10. Nearing(y, x)
    BY <2>6 DEF Nearing
  <2>11. IsNear(y, s)
    BY <1>5, <2>5, <2>6 DEF IsNear, s1
  <2>12. Peopled(y)
    BY <2>6 DEF Peopled
  <2> QED
    BY <2>9, <2>10, <2>11, <2>12
<1> QED
  BY <1>3, <1>4, <1>5

\* The fold over all subjects, of the first cache_article with -J.
Near == INSTANCE FoldFacts WITH op <- LAMBDA x, s, a, b : NearSubject(x, s)

\* All subjects of a list are looked at.
NearSubjects(x, lst) == FoldLeft(NearSubject, x, lst)

\* They are looked at one by one.
LEMMA NearFold ==
  ASSUME NEW x, NEW lst \in Seq(Subjects)
  PROVE  \E g : /\ g[0] = x
                /\ \A i \in 1 .. Len(lst) : g[i] = NearSubject(g[i - 1], lst[i])
                /\ NearSubjects(x, lst) = g[Len(lst)]
<1>1. \E g : Near!Goes(g, x, lst, 0, 0) /\ Near!Fold(x, lst, 0, 0) = g[Len(lst)]
  BY Near!FoldSteps
<1>2. Near!Fold(x, lst, 0, 0) = NearSubjects(x, lst)
  BY DEF NearSubjects, Near!Fold, FoldLeft, Near!FoldLeft, MapThenFoldSet, Near!MapThenFoldSet,
         Max, Near!Max
<1> QED
  BY <1>1, <1>2 DEF Near!Goes

\* All subjects of the list are looked at.
LEMMA NearAll ==
  ASSUME IsFiniteSet(Subjects), None \notin Ids, None \notin Subjects,
         NEW x, Whole(x), Peopled(x), NEW lst \in Seq(Subjects), Range(lst) \subseteq Range(x.list),
         NEW y, y = NearSubjects(x, lst)
  PROVE  Whole(y) /\ Peopled(y) /\ Nearing(y, x) /\ \A s \in Range(lst) : IsNear(y, s)
<1> DEFINE n == Len(lst)
<1>1. n \in Nat /\ DOMAIN lst = 1 .. n /\ \A i \in 1 .. n : lst[i] \in Subjects
  OBVIOUS
<1>2. PICK g : /\ g[0] = x
               /\ \A i \in 1 .. n : g[i] = NearSubject(g[i - 1], lst[i])
               /\ y = g[n]
  BY NearFold
<1> DEFINE Ok(z, i) == /\ Whole(z) /\ Peopled(z) /\ Nearing(z, x)
                       /\ \A k \in 1 .. i : IsNear(z, lst[k])
           Good == {i \in 0 .. n : Ok(g[i], i)}
<1>3. 0 \in Good
  <2>1. Nearing(x, x)
    BY DEF Nearing
  <2>2. Ok(g[0], 0)
    BY <1>2, <2>1
  <2>3. 0 \in 0 .. n
    BY <1>1
  <2> HIDE DEF Ok
  <2> QED
    BY <2>2, <2>3
<1>4. ASSUME NEW i \in 1 .. n, i - 1 \in Good PROVE i \in Good
  <2> DEFINE z == g[i - 1]
             w == g[i]
             s == lst[i]
  <2>1. Ok(z, i - 1) /\ w = NearSubject(z, s) /\ s \in Subjects
    BY <1>1, <1>2, <1>4
  <2>2. s \in Range(lst)
    BY <1>1 DEF Range
  <2>c. \A k \in 1 .. i : k = i \/ k \in 1 .. i - 1
    BY <1>1
  <2> HIDE DEF z, w
  <2>3. s \in Range(z.list) /\ z \in State
    BY <2>1, <2>2 DEF Nearing, Whole, Sound
  <2>p. Whole(z) /\ Peopled(z) /\ Nearing(z, x) /\ \A k \in 1 .. i - 1 : IsNear(z, lst[k])
    BY <2>1
  <2>4. Whole(w) /\ Peopled(w) /\ Nearing(w, z) /\ IsNear(w, s)
    <3> HIDE DEF s
    <3> QED
      BY <2>1, <2>3, <2>p, NearStep
  <2>5. Nearing(w, x)
    BY <2>4, <2>p, NearingTrans
  <2>6. ASSUME NEW k \in 1 .. i - 1 PROVE IsNear(w, lst[k])
    <3>1. lst[k] \in Subjects
      BY <1>1
    <3> QED
      BY <2>3, <2>4, <2>p, <3>1, NearingKeeps
  <2>7. Ok(w, i)
    BY <2>4, <2>5, <2>6, <2>c
  <2>8. i \in 0 .. n
    BY <1>1
  <2> HIDE DEF Ok
  <2> QED
    BY <2>7, <2>8 DEF w
<1>5. n \in Good
  <2> HIDE DEF Good, n
  <2>1. \A i \in 0 .. n : i \in Good
    BY <1>1, <1>3, <1>4, UpTo
  <2> QED
    BY <1>1, <2>1
<1>6. \A s \in Range(lst) : \E k \in 1 .. n : lst[k] = s
  BY <1>1 DEF Range
<1> QED
  BY <1>2, <1>5, <1>6

-----------------------------------------------------------------------------
(* The lists of articles by date                                           *)

\* The oldest first.
Sorted(x, lst) ==
    \A i, j \in DOMAIN lst : i < j => x.date[lst[i]] <= x.date[lst[j]]

\* Where an article goes: behind the articles that are not younger, before the
\* younger ones, when the list is sorted.
LEMMA InsertSorted ==
  ASSUME NEW x \in State, NEW lst \in Seq(Ids), NEW m \in Ids, Sorted(x, lst)
  PROVE  Sorted(x, InsertByDate(x, lst, m))
<1> DEFINE L == Len(lst)
           new == InsertByDate(x, lst, m)
<1>1. DOMAIN lst = 1 .. L /\ L \in Nat /\ \A i \in 1 .. L : lst[i] \in Ids
  OBVIOUS
<1>2. x.date \in [Ids -> Int]
  BY DEF State
<1>3. \E k \in 1 .. L + 1 :
         /\ new = InsertAt(lst, k, m)
         /\ k > 1 => k - 1 \in 1 .. L /\ x.date[lst[k - 1]] <= x.date[m]
         /\ k <= L => x.date[m] <= x.date[lst[k]]
  <2>2. CASE lst = <<>> \/ x.date[m] < x.date[lst[1]]
    <3>1. new = <<m>> \o lst
      BY <2>2 DEF InsertByDate
    <3>2. InsertAt(lst, 1, m) = <<m>> \o lst
      <4>1. SubSeq(lst, 1, 1 - 1) = <<>> /\ SubSeq(lst, 1, Len(lst)) = lst
        BY <1>1
      <4>2. <<>> \o <<m>> = <<m>>
        OBVIOUS
      <4> QED
        BY <4>1, <4>2 DEF InsertAt
    <3>3. 1 \in 1 .. L + 1
      BY <1>1
    <3>4. 1 <= L => x.date[m] <= x.date[lst[1]]
      <4>1. 1 <= L => lst # <<>>
        OBVIOUS
      <4> QED
        BY <1>1, <1>2, <2>2, <4>1
    <3> HIDE DEF new, L
    <3> QED
      BY <3>1, <3>2, <3>3, <3>4
  <2>3. CASE ~(lst = <<>> \/ x.date[m] < x.date[lst[1]])
    <3> DEFINE after == {k \in DOMAIN lst : k = Len(lst) \/ x.date[lst[k + 1]] > x.date[m]}
               k == CHOOSE i \in after : \A j \in after : i <= j
    <3>1. new = InsertAt(lst, k + 1, m)
      BY <2>3 DEF InsertByDate
    <3>2. after \in SUBSET Nat /\ after # {}
      <4>1. Len(lst) \in after
        BY <1>1, <2>3
      <4> QED
        BY <1>1, <4>1
    <3>3. k \in after /\ \A j \in after : k <= j
      <4> HIDE DEF after
      <4> QED
        BY <3>2, LeastNat
    <3>4. k \in 1 .. L /\ (k = L \/ x.date[lst[k + 1]] > x.date[m])
      <4> HIDE DEF k
      <4> QED
        BY <1>1, <3>3
    <3> HIDE DEF k
    <3>k. k \in 1 .. L /\ L \in Nat
      BY <1>1, <3>4
    <3>n. /\ k # 1 => k - 1 \in 1 .. L /\ k - 1 # L /\ (k - 1) + 1 = k
          /\ k + 1 \in 1 .. L + 1 /\ (k + 1) - 1 = k
          /\ k + 1 <= L => k + 1 \in 1 .. L /\ k # L
      <4> HIDE DEF L
      <4> QED
        BY ONLY <3>k
    <3>5. k = 1 \/ x.date[lst[k]] <= x.date[m]
      <4> SUFFICES ASSUME k # 1 PROVE x.date[lst[k]] <= x.date[m]
        OBVIOUS
      <4>1. k - 1 \in 1 .. L /\ k - 1 # L /\ (k - 1) + 1 = k
        BY <3>n
      <4>2. ~(x.date[lst[k]] > x.date[m])
        <5>1. k - 1 \notin after
          BY <3>3, <3>4
        <5> QED
          BY <1>1, <4>1, <5>1
      <4>3. x.date[lst[k]] \in Int /\ x.date[m] \in Int
        BY <1>1, <1>2, <3>4
      <4> QED
        BY <4>2, <4>3
    <3>6. x.date[lst[k]] <= x.date[m]
      <4>1. CASE k = 1
        <5>1. x.date[lst[1]] \in Int /\ x.date[m] \in Int
          BY <1>1, <1>2, <3>4, <4>1
        <5> QED
          BY <2>3, <4>1, <5>1
      <4> QED
        BY <3>5, <4>1
    <3>7. k + 1 \in 1 .. L + 1 /\ (k + 1) - 1 = k
      BY <3>n
    <3>8. k + 1 <= L => x.date[m] <= x.date[lst[k + 1]]
      <4> SUFFICES ASSUME k + 1 <= L PROVE x.date[m] <= x.date[lst[k + 1]]
        OBVIOUS
      <4>1. k + 1 \in 1 .. L
        BY <3>n
      <4>2. x.date[lst[k + 1]] \in Int /\ x.date[m] \in Int
        BY <1>1, <1>2, <4>1
      <4>3. k # L
        BY <3>n
      <4> QED
        BY <3>4, <4>2, <4>3
    <3>9. k \in 1 .. L
      BY <3>4
    <3> HIDE DEF after, new, L
    <3> QED
      BY <3>1, <3>6, <3>7, <3>8, <3>9
  <2> QED
    BY <2>2, <2>3
<1>4. PICK k \in 1 .. L + 1 :
         /\ new = InsertAt(lst, k, m)
         /\ k > 1 => k - 1 \in 1 .. L /\ x.date[lst[k - 1]] <= x.date[m]
         /\ k <= L => x.date[m] <= x.date[lst[k]]
  BY <1>3
<1>5. /\ new \in Seq(Ids) /\ Len(new) = L + 1
      /\ \A i \in 1 .. L + 1 :
            new[i] = IF i < k THEN lst[i] ELSE IF i = k THEN m ELSE lst[i - 1]
  <2>1. /\ InsertAt(lst, k, m) \in Seq(Ids)
        /\ Len(InsertAt(lst, k, m)) = Len(lst) + 1
        /\ \A i \in 1 .. Len(lst) + 1 :
               InsertAt(lst, k, m)[i] = IF i < k THEN lst[i]
                                        ELSE IF i = k THEN m ELSE lst[i - 1]
    BY InsertAtFacts
  <2>2. new = InsertAt(lst, k, m)
    BY <1>4
  <2> HIDE DEF new
  <2> QED
    BY ONLY <2>1, <2>2
<1> DEFINE d(i) == x.date[lst[i]]
           e(i) == x.date[new[i]]
<1>6. \A i, j \in 1 .. L : i <= j => d(i) <= d(j)
  BY <1>1, <1>2 DEF Sorted
<1>7. \A i \in 1 .. L + 1 :
         /\ i < k => e(i) = d(i) /\ i \in 1 .. L
         /\ i = k => e(i) = x.date[m]
         /\ i > k => e(i) = d(i - 1) /\ i - 1 \in 1 .. L
  <2> HIDE DEF new, L
  <2>1. L \in Nat
    BY <1>1
  <2> QED
    BY <1>5, <2>1
<1>8. /\ k > 1 => k - 1 \in 1 .. L /\ d(k - 1) <= x.date[m]
      /\ k <= L => x.date[m] <= d(k) /\ k \in 1 .. L
  BY <1>1, <1>4
<1>9. x.date[m] \in Int /\ \A i \in 1 .. L : d(i) \in Int
  BY <1>1, <1>2
<1>10. L \in Nat /\ k \in 1 .. L + 1
  BY <1>1
<1> HIDE DEF d, e, L
<1>11. ASSUME NEW i \in 1 .. L + 1, NEW j \in 1 .. L + 1, i < j PROVE e(i) <= e(j)
  <2>1. CASE j < k
    BY <1>6, <1>7, <1>10, <1>11, <2>1
  <2>2. CASE j = k
    <3>1. d(i) <= d(k - 1) /\ e(i) = d(i) /\ i \in 1 .. L /\ k - 1 \in 1 .. L
      BY <1>6, <1>7, <1>8, <1>10, <1>11, <2>2
    <3> QED
      BY <1>7, <1>8, <1>9, <1>10, <1>11, <2>2, <3>1
  <2>3. CASE j > k /\ i = k
    <3>1. e(j) = d(j - 1) /\ j - 1 \in 1 .. L /\ k <= j - 1 /\ k <= L
      BY <1>7, <1>10, <1>11, <2>3
    <3>2. d(k) <= d(j - 1) /\ k \in 1 .. L
      BY <1>6, <1>8, <1>10, <3>1
    <3> QED
      BY <1>7, <1>8, <1>9, <1>10, <2>3, <3>1, <3>2
  <2>4. CASE j > k /\ i # k
    BY <1>6, <1>7, <1>10, <1>11, <2>4
  <2> QED
    BY <1>10, <2>1, <2>2, <2>3, <2>4
<1>12. DOMAIN new = 1 .. L + 1
  BY <1>5
<1> QED
  BY <1>11, <1>12 DEF Sorted, e

\* A sorted list stays sorted without one of its articles.
LEMMA RemoveSorted ==
  ASSUME NEW x \in State, NEW lst \in Seq(Ids), NEW m, Sorted(x, lst), IsInjective(lst)
  PROVE  Sorted(x, RemoveFirst(lst, m))
<1> DEFINE L == Len(lst)
           new == RemoveFirst(lst, m)
<1>1. CASE m \notin Range(lst)
  <2>1. new = lst
    BY <1>1, RemoveFirstFacts
  <2> QED
    BY <2>1
<1>2. CASE m \in Range(lst)
  <2>1. new \in Seq(Ids)
    BY RemoveFirstFacts
  <2>2. PICK k \in 1 .. L : /\ Len(new) = L - 1
                            /\ \A i \in 1 .. L - 1 : new[i] = IF i < k THEN lst[i] ELSE lst[i + 1]
    BY <1>2, RemoveFirstFacts
  <2>3. DOMAIN lst = 1 .. L /\ L \in Nat
    OBVIOUS
  <2>4. DOMAIN new = 1 .. L - 1
    BY <2>1, <2>2
  <2> HIDE DEF new, L
  <2>5. ASSUME NEW i \in 1 .. L - 1, NEW j \in 1 .. L - 1, i < j
        PROVE  x.date[new[i]] <= x.date[new[j]]
    <3> DEFINE ii == IF i < k THEN i ELSE i + 1
               jj == IF j < k THEN j ELSE j + 1
    <3>1. new[i] = lst[ii] /\ new[j] = lst[jj] /\ ii \in 1 .. L /\ jj \in 1 .. L /\ ii < jj
      BY <2>2, <2>3, <2>5
    <3> HIDE DEF ii, jj
    <3> QED
      BY <2>3, <3>1 DEF Sorted
  <2> QED
    BY <2>4, <2>5 DEF Sorted, new
<1> QED
  BY <1>1, <1>2

-----------------------------------------------------------------------------
(* The inductive invariant                                                 *)

\* The numbers whose article is, or was, in the group.
There(a) == {n \in Nums : a[n] \in {"threaded", "missing"}}

\* The real articles are those of the numbers, each of one number, and every
\* subject of the list has had an article.
ArtsRight(x, a) ==
    /\ \A n \in There(a) : /\ x.held[Posts[n].id] = "real"
                           /\ x.subj[Posts[n].id] = Posts[n].subj
                           /\ x.date[Posts[n].id] = Posts[n].date
    /\ \A n, d \in There(a) : Posts[n].id = Posts[d].id => n = d
    /\ \A m \in Ids : x.held[m] = "real" => \E n \in There(a) : Posts[n].id = m
    /\ \A n \in Nums : a[n] = "missing" => n \in MayVanish
    /\ \A s \in Range(x.list) : \E n \in There(a) : Posts[n].subj = s

\* The articles of every subject, once each, the oldest first.
ArticlesRight(x, a) ==
    \A s \in Subjects :
        /\ IsInjective(x.articles[s])
        /\ Range(x.articles[s]) =
              {Posts[n].id : n \in {i \in Nums : a[i] = "threaded" /\ Posts[i].subj = s}}
        /\ Sorted(x, x.articles[s])

\* With -J, all subjects were looked at.
NearRight(x) ==
    JoinSubjects => /\ x.hashed \/ x.list = <<>>
                    /\ mode # "thread" => \A s \in Range(x.list) : IsNear(x, s)

\* The inductive invariant.
IInv ==
    /\ mode \in Modes
    /\ art \in [Nums -> {"new", "threaded", "duplicate", "missing"}]
    /\ Whole(t)
    /\ ArtsRight(t, art)
    /\ ArticlesRight(t, art)
    /\ NearRight(t)

-----------------------------------------------------------------------------
(* Caching an article                                                      *)

\* Another list of subjects changes nothing else.
LEMMA ListFields ==
  ASSUME NEW x \in State, NEW lst \in Seq(Subjects), NEW y, y = [x EXCEPT !.list = lst]
  PROVE  /\ y \in State
         /\ y.held = x.held /\ y.kids = x.kids /\ y.subj = x.subj /\ y.date = x.date
         /\ y.parent = x.parent
         /\ y.list = lst /\ y.link = x.link /\ y.thread = x.thread
         /\ y.articles = x.articles /\ y.sdate = x.sdate /\ y.hashed = x.hashed
         /\ y.short = x.short
BY DEF State

\* What is appended is the last element, and the others stay.
LEMMA AppendFacts ==
  ASSUME NEW D, NEW lst \in Seq(D), NEW e \in D
  PROVE  /\ Append(lst, e) \in Seq(D) /\ Range(Append(lst, e)) = Range(lst) \cup {e}
         /\ Last(Append(lst, e)) = e
         /\ IsInjective(lst) /\ e \notin Range(lst) => IsInjective(Append(lst, e))
<1> DEFINE new == Append(lst, e)
           L == Len(lst)
<1>1. /\ new \in Seq(D) /\ Len(new) = L + 1 /\ L \in Nat
      /\ \A i \in 1 .. L : new[i] = lst[i]
      /\ new[L + 1] = e
      /\ DOMAIN lst = 1 .. L
  OBVIOUS
<1>2. DOMAIN new = 1 .. L + 1
  BY <1>1
<1> HIDE DEF new, L
<1>3. Range(new) = Range(lst) \cup {e}
  <2>1. ASSUME NEW i \in DOMAIN new PROVE new[i] \in Range(lst) \cup {e}
    <3>1. i \in 1 .. L \/ i = L + 1
      BY <1>1, <1>2
    <3> QED
      BY <1>1, <3>1 DEF Range
  <2>2. ASSUME NEW i \in DOMAIN lst PROVE lst[i] \in Range(new)
    <3>1. i \in DOMAIN new /\ new[i] = lst[i]
      BY <1>1, <1>2
    <3> QED
      BY <3>1 DEF Range
  <2>3. e \in Range(new)
    <3>1. L + 1 \in DOMAIN new
      BY <1>1, <1>2
    <3> QED
      BY <1>1, <3>1 DEF Range
  <2> QED
    BY <2>1, <2>2, <2>3 DEF Range
<1>4. Last(new) = e
  BY <1>1 DEF Last
<1>5. ASSUME IsInjective(lst), e \notin Range(lst) PROVE IsInjective(new)
  <2>1. \A i, j \in 1 .. L : lst[i] = lst[j] => i = j
    BY <1>1, <1>5 DEF IsInjective
  <2>2. \A i \in 1 .. L : lst[i] # e
    BY <1>1, <1>5 DEF Range
  <2>3. ASSUME NEW i \in 1 .. L + 1, NEW j \in 1 .. L + 1, new[i] = new[j] PROVE i = j
    <3>1. /\ i \in 1 .. L \/ i = L + 1
          /\ j \in 1 .. L \/ j = L + 1
      BY <1>1
    <3> QED
      BY <1>1, <2>1, <2>2, <2>3, <3>1
  <2> QED
    BY <1>2, <2>3 DEF IsInjective
<1> QED
  BY <1>1, <1>3, <1>4, <1>5 DEF new

\* A new subject at the end of the list.
LEMMA KnownWhole ==
  ASSUME NEW x, Whole(x), NEW s \in Subjects, NEW y, y = SetSubject(x, s)
  PROVE  /\ Whole(y) /\ Range(y.list) = Range(x.list) \cup {s}
         /\ s \in Range(x.list) => y = x
         /\ s \notin Range(x.list) => Last(y.list) = s
         /\ y.held = x.held /\ y.subj = x.subj /\ y.date = x.date /\ y.parent = x.parent
         /\ y.link = x.link /\ y.articles = x.articles /\ y.sdate = x.sdate
         /\ y.hashed = x.hashed /\ y.short = x.short
<1>1. CASE s \in Range(x.list)
  BY <1>1 DEF SetSubject
<1>2. CASE s \notin Range(x.list)
  <2>1. /\ x \in State /\ Hung(x, PlacedIn(x), x.subj) /\ Acyclic(x) /\ Bare(x)
        /\ \A a \in Ids : Kin(x, a)
        /\ Listed(x)
    BY DEF Whole, Sound
  <2>2. x.list \in Seq(Subjects) /\ IsInjective(x.list)
    BY <2>1 DEF State, Listed
  <2> DEFINE new == Append(x.list, s)
  <2>3. /\ new \in Seq(Subjects) /\ Range(new) = Range(x.list) \cup {s}
        /\ Last(new) = s /\ IsInjective(new)
    BY <1>2, <2>2, AppendFacts
  <2>4. y = [x EXCEPT !.list = new]
    BY <1>2 DEF SetSubject
  <2> HIDE DEF new
  <2>5. /\ y \in State
        /\ y.held = x.held /\ y.kids = x.kids /\ y.subj = x.subj /\ y.date = x.date
        /\ y.parent = x.parent
        /\ y.list = new /\ y.link = x.link /\ y.thread = x.thread
        /\ y.articles = x.articles /\ y.sdate = x.sdate /\ y.hashed = x.hashed
        /\ y.short = x.short
    BY <2>1, <2>3, <2>4, ListFields
  <2>6. PlacedIn(y) = PlacedIn(x)
    BY <2>5 DEF PlacedIn
  <2>7. Hung(y, PlacedIn(y), y.subj)
    BY <2>1, <2>5, <2>6, HungSame
  <2>8. Acyclic(y) /\ Bare(y)
    BY <2>1, <2>5 DEF Acyclic, Bare
  <2>9. \A a \in Ids : Kin(y, a)
    BY <2>1, <2>5 DEF Kin
  <2>10. Listed(y)
    BY <2>1, <2>3, <2>5 DEF Listed
  <2> QED
    BY <1>2, <2>3, <2>5, <2>7, <2>8, <2>9, <2>10 DEF Whole, Sound
<1> QED
  BY <1>1, <1>2

\* What cache_article changes.
Cached(y, x, m) ==
    /\ y.held = x.held /\ y.parent = x.parent /\ y.subj = x.subj /\ y.date = x.date
    /\ y.articles = [x.articles EXCEPT ![x.subj[m]] = InsertByDate(x, @, m)]
    /\ Range(y.list) = Range(x.list)
    /\ JoinSubjects => y.hashed
    /\ JoinSubjects /\ mode # "thread" => \A s \in Range(y.list) : IsNear(y, s)

\* A subject's list of articles is another.
Listing(x, s, lst, h) == [x EXCEPT !.articles[s] = lst, !.hashed = h]

\* Another list of articles changes nothing else.
LEMMA ArticlesFields ==
  ASSUME NEW x \in State, NEW s \in Subjects, NEW lst \in Seq(Ids), NEW h \in BOOLEAN,
         NEW y, y = Listing(x, s, lst, h)
  PROVE  /\ y \in State
         /\ y.held = x.held /\ y.kids = x.kids /\ y.subj = x.subj /\ y.date = x.date
         /\ y.parent = x.parent
         /\ y.list = x.list /\ y.link = x.link /\ y.thread = x.thread
         /\ y.articles = [x.articles EXCEPT ![s] = lst]
         /\ y.sdate = x.sdate /\ y.hashed = h
         /\ y.short = x.short
BY DEF State, Listing

\* The parts of x that say it is whole are those of y.
LEMMA SameWhole ==
  ASSUME NEW x, NEW y, Whole(x), y \in State,
         y.held = x.held, y.kids = x.kids, y.subj = x.subj, y.date = x.date,
         y.parent = x.parent, y.list = x.list, y.link = x.link, y.thread = x.thread,
         y.short = x.short
  PROVE  Whole(y)
<1>1. /\ x \in State /\ Hung(x, PlacedIn(x), x.subj) /\ Acyclic(x) /\ Bare(x)
      /\ \A a \in Ids : Kin(x, a)
      /\ Listed(x)
  BY DEF Whole, Sound
<1>2. PlacedIn(y) = PlacedIn(x)
  BY DEF PlacedIn
<1>3. Hung(y, PlacedIn(y), y.subj)
  BY <1>1, <1>2, HungSame
<1>4. Acyclic(y) /\ Bare(y)
  BY <1>1 DEF Acyclic, Bare
<1>5. \A a \in Ids : Kin(y, a)
  BY <1>1 DEF Kin
<1>6. Listed(y)
  BY <1>1 DEF Listed
<1> QED
  BY <1>3, <1>4, <1>5, <1>6 DEF Whole, Sound

\* cache_article puts the article in its subject's list, and joins near
\* subjects with -J.
LEMMA CacheWhole ==
  ASSUME IsFiniteSet(Subjects), None \notin Ids, None \notin Subjects,
         NEW x, Whole(x), Peopled(x), NEW m \in PlacedIn(x),
         JoinSubjects /\ mode # "thread" /\ x.hashed =>
            \A s \in Range(x.list) :
               IsNear(x, s) \/ (s = x.subj[m] /\ Last(x.list) = s),
         NEW y, y = CacheArticle(x, m)
  PROVE  Whole(y) /\ Cached(y, x, m) /\ y.link \in [Subjects -> Subjects]
<1> DEFINE s == x.subj[m]
           lst == InsertByDate(x, x.articles[s], m)
           listed == [x EXCEPT !.articles[s] = InsertByDate(x, @, m)]
<1>1. /\ x \in State /\ Listed(x) /\ m \in Ids
      /\ x.subj \in [Ids -> Subjects \cup {None}]
      /\ x.articles \in [Subjects -> Seq(Ids)] /\ x.list \in Seq(Subjects)
      /\ x.hashed \in BOOLEAN
  BY DEF Whole, Sound, State, PlacedIn
<1>2. s \in Subjects /\ s \in Range(x.list)
  BY <1>1 DEF PlacedIn, Listed
<1>3. lst \in Seq(Ids)
  BY <1>1, <1>2, InsertByDateFacts
<1> HIDE DEF lst
<1>h. ASSUME NEW h \in BOOLEAN, NEW w, w = Listing(x, s, lst, h)
      PROVE  /\ Whole(w) /\ Peopled(w) /\ w \in State
             /\ w.held = x.held /\ w.parent = x.parent /\ w.subj = x.subj /\ w.date = x.date
             /\ w.articles = [x.articles EXCEPT ![s] = lst]
             /\ w.list = x.list /\ w.hashed = h /\ w.short = x.short /\ w.link = x.link
  <2> HIDE DEF s
  <2>0. x \in State /\ s \in Subjects /\ lst \in Seq(Ids)
    BY <1>1, <1>2, <1>3
  <2>1. /\ w \in State
        /\ w.held = x.held /\ w.kids = x.kids /\ w.subj = x.subj /\ w.date = x.date
        /\ w.parent = x.parent
        /\ w.list = x.list /\ w.link = x.link /\ w.thread = x.thread
        /\ w.articles = [x.articles EXCEPT ![s] = lst]
        /\ w.sdate = x.sdate /\ w.hashed = h
        /\ w.short = x.short
    BY ONLY <2>0, <1>h, ArticlesFields
  <2>2. Whole(w)
    BY <2>1, SameWhole
  <2>3. Peopled(w)
    BY <2>1 DEF Peopled
  <2> QED
    BY <2>1, <2>2, <2>3
<1>4. listed = Listing(x, s, lst, x.hashed)
  BY <1>1 DEF State, lst, Listing
<1>5. y = IF JoinSubjects THEN CheckForNearSubject(listed, s) ELSE listed
  BY DEF CacheArticle
<1> HIDE DEF listed
<1>6. /\ Whole(listed) /\ Peopled(listed) /\ listed \in State
      /\ listed.held = x.held /\ listed.parent = x.parent /\ listed.subj = x.subj
      /\ listed.date = x.date
      /\ listed.articles = [x.articles EXCEPT ![s] = lst]
      /\ listed.list = x.list /\ listed.hashed = x.hashed /\ listed.short = x.short
      /\ listed.link = x.link
  BY <1>1, <1>4, <1>h
<1>7. [x.articles EXCEPT ![s] = lst] = [x.articles EXCEPT ![s] = InsertByDate(x, @, m)]
  BY DEF lst
<1>8. CASE ~JoinSubjects
  <2>1. y = listed
    BY <1>5, <1>8
  <2> QED
    BY <1>6, <1>7, <1>8, <2>1 DEF Cached, State
<1>9. CASE JoinSubjects /\ ~x.hashed
  <2> DEFINE w == [listed EXCEPT !.hashed = TRUE]
  <2>1. w = Listing(x, s, lst, TRUE)
    BY <1>4 DEF Listing
  <2>2. y = NearSubjects(w, listed.list)
    BY <1>5, <1>6, <1>9 DEF CheckForNearSubject, NearSubjects
  <2> HIDE DEF w
  <2>3. /\ Whole(w) /\ Peopled(w) /\ w \in State
        /\ w.held = x.held /\ w.parent = x.parent /\ w.subj = x.subj /\ w.date = x.date
        /\ w.articles = [x.articles EXCEPT ![s] = lst]
        /\ w.list = x.list /\ w.hashed = TRUE /\ w.short = x.short
    BY <1>h, <2>1
  <2>4. /\ Whole(y) /\ Nearing(y, w) /\ \A r \in Range(x.list) : IsNear(y, r)
    BY <1>1, <1>6, <2>2, <2>3, NearAll
  <2> QED
    BY <1>7, <2>3, <2>4 DEF Cached, Nearing, Whole, Sound, State
<1>10. CASE JoinSubjects /\ x.hashed /\ Last(x.list) = s
  <2>1. y = NearSubject(listed, s)
    BY <1>5, <1>6, <1>10 DEF CheckForNearSubject
  <2>2. Whole(y) /\ Peopled(y) /\ Nearing(y, listed) /\ IsNear(y, s)
    <3>1. s \in Range(listed.list)
      BY <1>2, <1>6
    <3> HIDE DEF s
    <3> QED
      BY <1>6, <2>1, <3>1, NearStep
  <2>3. ASSUME mode # "thread" PROVE \A r \in Range(y.list) : IsNear(y, r)
    <3> SUFFICES ASSUME NEW r \in Range(y.list) PROVE IsNear(y, r)
      OBVIOUS
    <3>0. Range(x.list) \subseteq Subjects
      BY <1>1 DEF Range
    <3>1. r \in Range(x.list) /\ r \in Subjects
      BY <1>6, <2>2, <3>0 DEF Nearing
    <3>2. CASE r = s
      BY <2>2, <3>2
    <3>3. CASE r # s
      <4>1. IsNear(x, r)
        BY <1>10, <2>3, <3>1, <3>3
      <4>2. IsNear(listed, r)
        BY <1>6, <4>1 DEF IsNear
      <4> QED
        BY <1>6, <2>2, <3>1, <4>2, NearingKeeps
    <3> QED
      BY <3>2, <3>3
  <2> QED
    BY <1>6, <1>7, <1>10, <2>2, <2>3 DEF Cached, Nearing, Whole, Sound, State
<1>11. CASE JoinSubjects /\ x.hashed /\ Last(x.list) # s
  <2>1. y = listed
    BY <1>5, <1>6, <1>11 DEF CheckForNearSubject
  <2>2. mode # "thread" => \A r \in Range(y.list) : IsNear(y, r)
    BY <1>6, <1>11, <2>1 DEF IsNear
  <2> QED
    BY <1>6, <1>7, <1>11, <2>1, <2>2 DEF Cached, State
<1> QED
  BY <1>8, <1>9, <1>10, <1>11

-----------------------------------------------------------------------------
(* A new article                                                           *)

\* A real article m with the data p was added, nobody else got or lost data,
\* and no real article but m got a parent.
Grown(y, x, m, p) ==
    /\ y.articles = x.articles /\ y.short = x.short /\ y.hashed = x.hashed
    /\ Range(y.list) = Range(x.list) \cup {p.subj}
    /\ mode # "thread" /\ p.subj \in Range(x.list) => y.list = x.list
    /\ mode # "thread" /\ p.subj \notin Range(x.list) => Last(y.list) = p.subj
    /\ \A s \in Subjects : Orbit(x.link, s) \subseteq Orbit(y.link, s)
    /\ y.held[m] = "real" /\ y.subj[m] = p.subj /\ y.date[m] = p.date
    /\ \A a \in Ids \ {m} :
          /\ y.held[a] = "real" <=> x.held[a] = "real"
          /\ x.held[a] = "real" => /\ y.subj[a] = x.subj[a] /\ y.date[a] = x.date[a]
                                   /\ y.parent[a] \in {x.parent[a], None}

\* A new article, with or without a fake one in its place, is threaded:
\* everything has its place, the article has its subject and date, and no other
\* real article moved but to the top.
LEMMA ArticleThreaded ==
  ASSUME IsFiniteSet(Ids), IsFiniteSet(Subjects), None \notin Ids, None \notin Subjects,
         NEW x, Whole(x), NEW m \in Ids, x.held[m] # "real",
         NEW p, p.subj \in Subjects, p.date \in Int \ {0},
         NEW refs \in Seq(Ids),
         NEW placed, placed = TakePlace(SetSubject(x, p.subj), m, p),
         NEW left, left = LeaveFakePlace(placed, m, x.subj[m]),
         NEW y, y = ThreadArticle(left, m, refs, FALSE)
  PROVE  Whole(y) /\ Grown(y, x, m, p)
<1> DEFINE known == SetSubject(x, p.subj)
<1>1. /\ Whole(known) /\ Range(known.list) = Range(x.list) \cup {p.subj}
      /\ p.subj \in Range(x.list) => known = x
      /\ p.subj \notin Range(x.list) => Last(known.list) = p.subj
      /\ known.held = x.held /\ known.subj = x.subj /\ known.date = x.date
      /\ known.parent = x.parent
      /\ known.link = x.link /\ known.articles = x.articles /\ known.sdate = x.sdate
      /\ known.hashed = x.hashed /\ known.short = x.short
  <2> DEFINE s == p.subj
  <2>1. s \in Subjects /\ known = SetSubject(x, s)
    OBVIOUS
  <2> HIDE DEF s, known
  <2>2. /\ Whole(known) /\ Range(known.list) = Range(x.list) \cup {s}
        /\ s \in Range(x.list) => known = x
        /\ s \notin Range(x.list) => Last(known.list) = s
        /\ known.held = x.held /\ known.subj = x.subj /\ known.date = x.date
        /\ known.parent = x.parent
        /\ known.link = x.link /\ known.articles = x.articles /\ known.sdate = x.sdate
        /\ known.hashed = x.hashed /\ known.short = x.short
    BY ONLY Whole(x), <2>1, KnownWhole
  <2> QED
    BY <2>2 DEF s
<1>2. placed = TakePlace(known, m, p) /\ left = LeaveFakePlace(placed, m, known.subj[m])
  BY <1>1
<1> HIDE DEF known
<1>3. known.held[m] # "real" /\ p.subj \in Range(known.list)
  BY <1>1
<1>4. known.subj[m] \in Subjects \cup {None}
  BY <1>1 DEF Whole, Sound, State
<1>5. Start(left, m, FALSE) /\ Settled(left, known, m, p)
  <2>1. CASE known.subj[m] = None
    <3>1. left = placed
      BY <1>2, <2>1 DEF LeaveFakePlace
    <3> QED
      BY <1>1, <1>2, <1>3, <2>1, <3>1, SettleNew
  <2>2. CASE known.subj[m] # None
    <3> DEFINE had == known.subj[m]
    <3>1. had \in Subjects /\ had = known.subj[m]
      BY <1>4, <2>2
    <3>2. left = LeaveFakePlace(placed, m, had)
      BY <1>2
    <3> HIDE DEF had
    <3> QED
      BY <1>1, <1>2, <1>3, <3>1, <3>2, SettleOld
  <2> QED
    BY <2>1, <2>2
<1>6. Whole(y) /\ Onward(y, left, m)
  BY <1>5, ThreadArticleWhole
<1>7. /\ y.articles = x.articles /\ y.short = x.short /\ y.hashed = x.hashed
      /\ Range(y.list) = Range(x.list) \cup {p.subj}
      /\ mode # "thread" => y.list = known.list
      /\ \A s \in Subjects : Orbit(x.link, s) \subseteq Orbit(y.link, s)
  BY <1>1, <1>5, <1>6 DEF Onward, Settled
<1>8. y.held[m] = "real" /\ y.subj[m] = p.subj /\ y.date[m] = p.date
  BY <1>5, <1>6 DEF Onward, Settled
<1>9. ASSUME NEW a \in Ids \ {m}
      PROVE  /\ y.held[a] = "real" <=> x.held[a] = "real"
             /\ x.held[a] = "real" => /\ y.subj[a] = x.subj[a] /\ y.date[a] = x.date[a]
                                      /\ y.parent[a] \in {x.parent[a], None}
  <2>1. /\ left.held[a] = "real" <=> known.held[a] = "real"
        /\ known.held[a] = "real" => /\ left.subj[a] = known.subj[a]
                                     /\ left.date[a] = known.date[a]
                                     /\ left.parent[a] = known.parent[a]
    BY <1>5 DEF Settled
  <2>2. /\ y.held[a] = "real" <=> left.held[a] = "real"
        /\ left.held[a] = "real" => /\ y.subj[a] = left.subj[a] /\ y.date[a] = left.date[a]
                                    /\ y.parent[a] \in {left.parent[a], None}
    BY <1>6 DEF Onward
  <2> QED
    BY <1>1, <2>1, <2>2
<1> QED
  BY <1>1, <1>6, <1>7, <1>8, <1>9 DEF Grown

\* The threads of subjects that are in one ring still are after the rings grew.
LEMMA GrownNear ==
  ASSUME NEW x, NEW y, NEW m, NEW p, x \in State, Grown(y, x, m, p),
         NEW s \in Subjects, IsNear(x, s)
  PROVE  IsNear(y, s)
<1> SUFFICES ASSUME Prefix[s] # None
             PROVE  y.short[Prefix[s]] # None /\ s \in Orbit(y.link, y.short[Prefix[s]])
  BY DEF IsNear
<1> DEFINE q == Prefix[s]
<1>1. x.short \in [{Prefix[r] : r \in Subjects} -> Subjects \cup {None}]
  BY DEF State
<1>2. q \in DOMAIN x.short /\ x.short[q] # None /\ x.short[q] \in Subjects
      /\ s \in Orbit(x.link, x.short[q])
  BY <1>1 DEF IsNear
<1> HIDE DEF q
<1>3. y.short[q] = x.short[q] /\ s \in Orbit(y.link, x.short[q])
  BY <1>2 DEF Grown
<1> QED
  BY <1>2, <1>3 DEF q

\* All subjects have an article when one more came.
LEMMA GrownPeopled ==
  ASSUME NEW x, NEW y, NEW m \in Ids, NEW p, Grown(y, x, m, p), x.held[m] # "real",
         NEW a, ArtsRight(x, a), \A n \in Nums : Posts[n].id \in Ids
  PROVE  Peopled(y)
<1> SUFFICES ASSUME NEW s \in Range(y.list) PROVE \E b \in Ids : y.subj[b] = s
  BY DEF Peopled
<1>1. CASE s = p.subj
  BY <1>1 DEF Grown
<1>2. CASE s # p.subj
  <2>1. PICK n \in There(a) : Posts[n].subj = s
    BY <1>2 DEF Grown, ArtsRight
  <2>2. /\ n \in Nums /\ Posts[n].id \in Ids /\ x.held[Posts[n].id] = "real"
        /\ x.subj[Posts[n].id] = s
    BY <2>1 DEF ArtsRight, There
  <2>3. y.subj[Posts[n].id] = s
    BY <2>2 DEF Grown
  <2> QED
    BY <2>2, <2>3
<1> QED
  BY <1>1, <1>2

\* The articles that came are the real ones when one more came.
LEMMA GrownArts ==
  ASSUME NEW x, NEW b, ArtsRight(x, b),
         b \in [Nums -> {"new", "threaded", "duplicate", "missing"}],
         NEW n \in Nums, b[n] = "new", \A i \in Nums : Posts[i].id \in Ids,
         NEW m, m = Posts[n].id, x.held[m] # "real",
         NEW z, Grown(z, x, m, Posts[n]),
         NEW y, y.held = z.held, y.subj = z.subj, y.date = z.date, Range(y.list) = Range(z.list),
         NEW a, a = [b EXCEPT ![n] = "threaded"]
  PROVE  ArtsRight(y, a)
<1>1. There(a) = There(b) \cup {n} /\ n \notin There(b)
  BY DEF There
<1>2. ASSUME NEW i \in There(b)
      PROVE  /\ i \in Nums /\ Posts[i].id \in Ids \ {m}
             /\ y.held[Posts[i].id] = "real"
             /\ y.subj[Posts[i].id] = Posts[i].subj
             /\ y.date[Posts[i].id] = Posts[i].date
  <2>1. /\ i \in Nums /\ Posts[i].id \in Ids
        /\ x.held[Posts[i].id] = "real"
        /\ x.subj[Posts[i].id] = Posts[i].subj
        /\ x.date[Posts[i].id] = Posts[i].date
    BY DEF ArtsRight, There
  <2>2. Posts[i].id \in Ids \ {m}
    BY <2>1
  <2> QED
    BY <2>1, <2>2 DEF Grown
<1>3. y.held[m] = "real" /\ y.subj[m] = Posts[n].subj /\ y.date[m] = Posts[n].date
  BY DEF Grown
<1>4. \A i \in There(a) : /\ y.held[Posts[i].id] = "real"
                          /\ y.subj[Posts[i].id] = Posts[i].subj
                          /\ y.date[Posts[i].id] = Posts[i].date
  BY <1>1, <1>2, <1>3
<1>5. \A i, d \in There(b) : Posts[i].id = Posts[d].id => i = d
  BY DEF ArtsRight
<1>6. \A i, d \in There(a) : Posts[i].id = Posts[d].id => i = d
  BY <1>1, <1>2, <1>5
<1>7. ASSUME NEW c \in Ids, y.held[c] = "real" PROVE \E d \in There(a) : Posts[d].id = c
  <2>1. CASE c = m
    BY <1>1, <2>1
  <2>2. CASE c # m
    <3>1. x.held[c] = "real"
      BY <1>7, <2>2 DEF Grown
    <3> QED
      BY <1>1, <3>1 DEF ArtsRight
  <2> QED
    BY <2>1, <2>2
<1>8. \A i \in Nums : a[i] = "missing" => i \in MayVanish
  BY DEF ArtsRight
<1>9. \A s \in Range(y.list) : \E i \in There(a) : Posts[i].subj = s
  <2>1. Range(y.list) = Range(x.list) \cup {Posts[n].subj}
    BY DEF Grown
  <2>2. \A s \in Range(x.list) : \E i \in There(b) : Posts[i].subj = s
    BY DEF ArtsRight
  <2> QED
    BY <1>1, <2>1, <2>2
<1> QED
  BY <1>4, <1>6, <1>7, <1>8, <1>9 DEF ArtsRight

\* The articles of the numbers that are in the group and have the subject.
ThreadedIds(a, s) == {Posts[n].id : n \in {i \in Nums : a[i] = "threaded" /\ Posts[i].subj = s}}

\* The subjects' lists hold the threaded articles when one more came.
LEMMA GrownArticles ==
  ASSUME NEW x, NEW b, x \in State, ArtsRight(x, b), ArticlesRight(x, b),
         b \in [Nums -> {"new", "threaded", "duplicate", "missing"}],
         NEW n \in Nums, b[n] = "new", \A i \in Nums : Posts[i].id \in Ids,
         NEW m, m = Posts[n].id, x.held[m] # "real", Posts[n].subj \in Subjects,
         NEW z, z \in State, Grown(z, x, m, Posts[n]),
         NEW y, y.date = z.date,
         y.articles = [x.articles EXCEPT ![Posts[n].subj] = InsertByDate(z, @, m)],
         NEW a, a = [b EXCEPT ![n] = "threaded"]
  PROVE  ArticlesRight(y, a)
<1> SUFFICES ASSUME NEW s \in Subjects
             PROVE  /\ IsInjective(y.articles[s])
                    /\ Range(y.articles[s]) = ThreadedIds(a, s)
                    /\ Sorted(y, y.articles[s])
  BY DEF ArticlesRight, ThreadedIds
<1> DEFINE old == x.articles[s]
           new == y.articles[s]
<1>0. x.articles \in [Subjects -> Seq(Ids)] /\ m \in Ids
  BY DEF State
<1>1. old \in Seq(Ids) /\ IsInjective(old) /\ Range(old) = ThreadedIds(b, s) /\ Sorted(x, old)
  BY <1>0 DEF ArticlesRight, ThreadedIds
<1>2. ASSUME NEW c \in Range(old) PROVE c \in Ids \ {m} /\ x.held[c] = "real"
  <2>1. PICK i \in Nums : b[i] = "threaded" /\ Posts[i].id = c
    BY <1>1 DEF ThreadedIds
  <2>2. i \in There(b)
    BY <2>1 DEF There
  <2> QED
    BY <2>1, <2>2 DEF ArtsRight
<1>3. \A c \in Range(old) : z.date[c] = x.date[c]
  BY <1>2 DEF Grown
<1>5. Sorted(z, old)
  BY <1>1, <1>3 DEF Sorted, Range
<1>6. ThreadedIds(a, s) = IF s = Posts[n].subj THEN ThreadedIds(b, s) \cup {m}
                          ELSE ThreadedIds(b, s)
  <2>1. CASE s = Posts[n].subj
    <3>1. {j \in Nums : a[j] = "threaded" /\ Posts[j].subj = s}
             = {j \in Nums : b[j] = "threaded" /\ Posts[j].subj = s} \cup {n}
      BY <2>1
    <3> QED
      BY <2>1, <3>1 DEF ThreadedIds
  <2>2. CASE s # Posts[n].subj
    <3>1. {j \in Nums : a[j] = "threaded" /\ Posts[j].subj = s}
             = {j \in Nums : b[j] = "threaded" /\ Posts[j].subj = s}
      BY <2>2
    <3> QED
      BY <2>2, <3>1 DEF ThreadedIds
  <2> QED
    BY <2>1, <2>2
<1>7. new = IF s = Posts[n].subj THEN InsertByDate(z, old, m) ELSE old
  BY <1>0
<1>8. y.date = z.date /\ m \in Ids /\ m \notin Range(old) /\ z \in State
  BY <1>0, <1>2
<1> DEFINE same == s = Posts[n].subj
<1> HIDE DEF old, new, same
<1>9. CASE same
  <2>1. /\ Range(InsertByDate(z, old, m)) = Range(old) \cup {m}
        /\ IsInjective(InsertByDate(z, old, m))
    BY ONLY <1>1, <1>8, InsertByDateFacts
  <2>2. Sorted(z, InsertByDate(z, old, m))
    BY ONLY <1>1, <1>5, <1>8, InsertSorted
  <2>3. new = InsertByDate(z, old, m) /\ ThreadedIds(a, s) = ThreadedIds(b, s) \cup {m}
    BY <1>6, <1>7, <1>9 DEF same
  <2>4. IsInjective(new) /\ Range(new) = ThreadedIds(a, s) /\ Sorted(z, new)
    BY ONLY <1>1, <2>1, <2>2, <2>3
  <2> QED
    BY <1>8, <2>4 DEF Sorted, new
<1>10. CASE ~same
  <2>1. new = old /\ ThreadedIds(a, s) = ThreadedIds(b, s)
    BY <1>6, <1>7, <1>10 DEF same
  <2>2. IsInjective(new) /\ Range(new) = ThreadedIds(a, s) /\ Sorted(z, new)
    BY ONLY <1>1, <1>5, <2>1
  <2> QED
    BY <1>8, <2>2 DEF Sorted, new
<1> QED
  BY <1>9, <1>10

\* A new article is there.
LEMMA ArriveNew ==
  ASSUME IsFiniteSet(Ids), IsFiniteSet(Subjects), None \notin Ids, None \notin Subjects,
         \A n \in Nums : Posts[n].id \in Ids /\ Posts[n].subj \in Subjects
                         /\ Posts[n].date \in Int \ {0},
         IInv, NEW n \in Nums, art[n] = "new",
         NEW p, p = Posts[n], NEW m, m = p.id, t.held[m] # "real",
         NEW refs \in Seq(Ids),
         NEW placed, placed = TakePlace(SetSubject(t, p.subj), m, p),
         NEW left, left = LeaveFakePlace(placed, m, t.subj[m]),
         NEW y, y = CacheArticle(ThreadArticle(left, m, refs, FALSE), m),
         NEW a, a = [art EXCEPT ![n] = "threaded"]
  PROVE  /\ Whole(y) /\ ArtsRight(y, a) /\ ArticlesRight(y, a) /\ NearRight(y)
         /\ \A b \in Ids : t.held[b] = "real" => y.parent[b] \in {t.parent[b], None}
<1> DEFINE z == ThreadArticle(left, m, refs, FALSE)
<1>1. Whole(t) /\ ArtsRight(t, art) /\ ArticlesRight(t, art) /\ NearRight(t)
      /\ art \in [Nums -> {"new", "threaded", "duplicate", "missing"}]
  BY DEF IInv
<1>2. m \in Ids /\ p.subj \in Subjects /\ p.date \in Int \ {0}
  OBVIOUS
<1>3. Whole(z) /\ Grown(z, t, m, p)
  BY <1>1, <1>2, ArticleThreaded
<1>y. y = CacheArticle(z, m)
  OBVIOUS
<1> HIDE DEF z
<1>4. Peopled(z)
  BY <1>1, <1>2, <1>3, GrownPeopled
<1>5. m \in PlacedIn(z) /\ z.subj[m] = p.subj
  BY <1>2, <1>3 DEF PlacedIn, Grown
<1>6. t \in State /\ t.list \in Seq(Subjects) /\ z \in State
  BY <1>1, <1>3 DEF Whole, Sound, State
<1>7. ASSUME JoinSubjects, mode # "thread", z.hashed, NEW s \in Range(z.list)
      PROVE  IsNear(z, s) \/ (s = z.subj[m] /\ Last(z.list) = s)
  <2>1. CASE s \in Range(t.list)
    <3>1. IsNear(t, s)
      BY <1>1, <1>7, <2>1 DEF NearRight
    <3>2. s \in Subjects
      BY <1>6, <2>1 DEF Range
    <3> QED
      BY <1>3, <1>6, <3>1, <3>2, GrownNear
  <2>2. CASE s \notin Range(t.list)
    <3>1. s = p.subj /\ Last(z.list) = p.subj
      BY <1>3, <1>7, <2>2 DEF Grown
    <3> QED
      BY <1>5, <3>1
  <2> QED
    BY <2>1, <2>2
<1>8. Whole(y) /\ Cached(y, z, m)
  <2>1. JoinSubjects /\ mode # "thread" /\ z.hashed =>
            \A s \in Range(z.list) :
               IsNear(z, s) \/ (s = z.subj[m] /\ Last(z.list) = s)
    BY <1>7
  <2> QED
    BY <1>3, <1>4, <1>5, <1>y, <2>1, CacheWhole
<1>9. /\ y.held = z.held /\ y.parent = z.parent /\ y.subj = z.subj /\ y.date = z.date
      /\ y.articles = [t.articles EXCEPT ![p.subj] = InsertByDate(z, @, m)]
      /\ Range(y.list) = Range(z.list)
      /\ JoinSubjects => y.hashed
      /\ JoinSubjects /\ mode # "thread" => \A s \in Range(y.list) : IsNear(y, s)
  BY <1>3, <1>5, <1>8 DEF Cached, Grown
<1>10. NearRight(y)
  BY <1>9 DEF NearRight
<1>11. Grown(z, t, m, Posts[n]) /\ m = Posts[n].id /\ Posts[n].subj \in Subjects
  BY <1>3
<1>12. ArtsRight(y, a)
  BY <1>1, <1>9, <1>11, GrownArts
<1>13. ArticlesRight(y, a)
  BY <1>1, <1>6, <1>9, <1>11, GrownArticles
<1>14. \A b \in Ids : t.held[b] = "real" => y.parent[b] \in {t.parent[b], None}
  BY <1>3, <1>9 DEF Grown
<1> QED
  BY <1>8, <1>10, <1>12, <1>13, <1>14

-----------------------------------------------------------------------------
(* Duplicates, articles threaded once more, articles that vanish           *)

\* Taking the new last element away again.
LEMMA AppendRemove ==
  ASSUME NEW D, NEW lst \in Seq(D), NEW e \in D, IsInjective(lst), e \notin Range(lst)
  PROVE  RemoveFirst(Append(lst, e), e) = lst
<1> DEFINE new == Append(lst, e)
           L == Len(lst)
           got == RemoveFirst(new, e)
<1>1. new \in Seq(D) /\ Range(new) = Range(lst) \cup {e} /\ IsInjective(new)
  BY AppendFacts
<1>2. /\ Len(new) = L + 1 /\ L \in Nat
      /\ \A i \in 1 .. L : new[i] = lst[i]
      /\ new[L + 1] = e /\ DOMAIN lst = 1 .. L /\ DOMAIN new = 1 .. L + 1
  OBVIOUS
<1>3. lst \in Seq(D) /\ e \in Range(new)
  BY <1>1
<1> HIDE DEF new
<1>4. got \in Seq(D)
  BY <1>1, RemoveFirstFacts
<1>5. PICK k \in 1 .. Len(new) :
         /\ new[k] = e
         /\ Len(got) = Len(new) - 1
         /\ \A i \in 1 .. Len(new) - 1 : got[i] = IF i < k THEN new[i] ELSE new[i + 1]
  BY <1>1, <1>3, RemoveFirstFacts
<1>6. k = L + 1
  <2>1. k \in 1 .. L + 1 /\ L + 1 \in 1 .. L + 1
    BY <1>2
  <2> QED
    BY <1>1, <1>2, <1>5, <2>1 DEF IsInjective
<1>7. Len(got) = L
  <2> HIDE DEF L, got
  <2> QED
    BY <1>2, <1>5
<1>8. \A i \in 1 .. L : got[i] = lst[i]
  <2> HIDE DEF L, got
  <2> SUFFICES ASSUME NEW i \in 1 .. L PROVE got[i] = lst[i]
    OBVIOUS
  <2>1. i < k /\ i \in 1 .. Len(new) - 1
    BY <1>2, <1>6
  <2> QED
    BY <1>2, <1>5, <2>1
<1> HIDE DEF got
<1>9. got = lst
  BY <1>3, <1>4, <1>7, <1>8
<1> QED
  BY <1>9 DEF got, new

\* The ring of a subject nobody has.
LEMMA AloneOrbit ==
  ASSUME IsFiniteSet(Subjects), NEW link, Permutes(link), NEW s \in Subjects, link[s] = s
  PROVE  Orbit(link, s) = {s}
<1>1. {s} \in SUBSET Subjects /\ Closed(link, {s})
  BY DEF Closed
<1>2. \A T \in SUBSET {s} : T # {} /\ Closed(link, T) => T = {s}
  OBVIOUS
<1> QED
  BY <1>1, <1>2, OrbitIs

\* What uncache_article leaves of the subject of a duplicate that nobody else has.
Freed(x, s) ==
    [x EXCEPT !.list = RemoveFirst(Append(@, s), s), !.link[s] = s, !.thread[s] = <<>>]

\* A subject that is made and freed at once leaves nothing.
LEMMA FreedSame ==
  ASSUME NEW x \in State, NEW s \in Subjects, RemoveFirst(Append(x.list, s), s) = x.list,
         x.link[s] = s, x.thread[s] = <<>>
  PROVE  Freed(x, s) = x
BY DEF Freed, State

\* The articles of a subject come from numbers.
LEMMA ArticleOfNumber ==
  ASSUME NEW x, NEW a, ArticlesRight(x, a), NEW s \in Subjects, NEW c \in Range(x.articles[s])
  PROVE  \E i \in Nums : a[i] = "threaded" /\ Posts[i].subj = s /\ Posts[i].id = c
<1>1. Range(x.articles[s]) = ThreadedIds(a, s)
  BY DEF ArticlesRight, ThreadedIds
<1>2. c \in ThreadedIds(a, s)
  BY <1>1
<1> QED
  BY <1>2 DEF ThreadedIds

\* The right articles depend on little of the state.
LEMMA ArtsSame ==
  ASSUME NEW x, NEW y, NEW a, NEW b, ArtsRight(x, a), There(b) = There(a),
         \A i \in There(a) : y.subj[Posts[i].id] = x.subj[Posts[i].id]
                             /\ y.date[Posts[i].id] = x.date[Posts[i].id]
                             /\ y.held[Posts[i].id] = "real",
         \A c \in Ids : y.held[c] = "real" => x.held[c] = "real",
         \A i \in Nums : b[i] = "missing" => i \in MayVanish,
         Range(y.list) = Range(x.list)
  PROVE  ArtsRight(y, b)
<1>1. \A i \in There(b) : /\ y.held[Posts[i].id] = "real"
                          /\ y.subj[Posts[i].id] = Posts[i].subj
                          /\ y.date[Posts[i].id] = Posts[i].date
  BY DEF ArtsRight
<1>2. \A i, d \in There(b) : Posts[i].id = Posts[d].id => i = d
  BY DEF ArtsRight
<1>3. \A c \in Ids : y.held[c] = "real" => \E d \in There(b) : Posts[d].id = c
  BY DEF ArtsRight
<1>4. \A s \in Range(y.list) : \E i \in There(b) : Posts[i].subj = s
  BY DEF ArtsRight
<1> QED
  BY <1>1, <1>2, <1>3, <1>4 DEF ArtsRight

\* A duplicate changes nothing.
LEMMA ArriveDuplicate ==
  ASSUME IsFiniteSet(Ids), IsFiniteSet(Subjects), None \notin Ids, None \notin Subjects,
         \A n \in Nums : Posts[n].id \in Ids /\ Posts[n].subj \in Subjects,
         Regular, IInv, NEW n \in Nums, art[n] = "new", t.held[Posts[n].id] = "real",
         NEW s, s = Posts[n].subj,
         NEW y, y = UncacheDuplicate(SetSubject(t, s), s)
  PROVE  y = t
<1>1. Whole(t) /\ ArtsRight(t, art) /\ ArticlesRight(t, art)
      /\ art \in [Nums -> {"new", "threaded", "duplicate", "missing"}]
  BY DEF IInv
<1>2. /\ t \in State /\ Listed(t) /\ Hung(t, PlacedIn(t), t.subj) /\ s \in Subjects
      /\ t.articles \in [Subjects -> Seq(Ids)] /\ t.list \in Seq(Subjects)
      /\ t.thread \in [Subjects -> Seq(Ids)]
  BY <1>1 DEF Whole, Sound, State
<1>3. CASE s \in Range(t.list)
  <2>1. PICK d \in There(art) : Posts[d].subj = s
    BY <1>1, <1>3 DEF ArtsRight
  <2>2. PICK e \in There(art) : Posts[e].id = Posts[n].id
    BY <1>1 DEF ArtsRight
  <2>3. e \in Nums \ {n} /\ d \in Nums /\ art[d] \in {"threaded", "missing"}
    BY <2>1, <2>2 DEF There
  <2>4. art[d] # "missing"
    <3> SUFFICES ASSUME art[d] = "missing" PROVE FALSE
      OBVIOUS
    <3>1. d \in MayVanish
      BY <1>1, <2>3 DEF ArtsRight
    <3> QED
      BY <2>1, <2>2, <2>3, <3>1 DEF Regular, DuplicatesHaveSubjects
  <2>5. Posts[d].id \in Range(t.articles[s])
    BY <1>1, <1>2, <2>1, <2>3, <2>4 DEF ArticlesRight
  <2>6. t.articles[s] # <<>>
    BY <1>2, <2>5, EmptyRange
  <2> QED
    BY <1>3, <2>6 DEF SetSubject, UncacheDuplicate
<1>4. CASE s \notin Range(t.list)
  <2>1. \A a \in Ids : t.subj[a] # s
    BY <1>2, <1>4, None \notin Subjects DEF Listed
  <2>2. t.articles[s] = <<>>
    <3>1. Range(t.articles[s]) = {}
      <4> SUFFICES ASSUME NEW c \in Range(t.articles[s]) PROVE FALSE
        OBVIOUS
      <4>1. PICK i \in Nums : art[i] = "threaded" /\ Posts[i].subj = s
        <5>1. ArticlesRight(t, art) /\ s \in Subjects /\ c \in Range(t.articles[s])
          BY <1>1, <1>2
        <5> QED
          BY ONLY <5>1, ArticleOfNumber
      <4>2. i \in There(art)
        BY <4>1 DEF There
      <4> QED
        BY <1>1, <2>1, <4>1, <4>2 DEF ArtsRight
    <3> QED
      BY <1>2, <3>1, EmptyRange
  <2>3. t.link[s] = s
    BY <1>2, <1>4 DEF Listed
  <2>4. t.thread[s] = <<>>
    <3>1. Permutes(t.link)
      BY <1>2 DEF Hung
    <3>2. Orbit(t.link, s) = {s}
      BY <1>2, <2>3, <3>1, AloneOrbit
    <3>3. Range(t.thread[s]) = {}
      BY <1>2, <2>1, <3>2 DEF Hung, PlacedIn
    <3> QED
      BY <1>2, <3>3, EmptyRange
  <2>5. RemoveFirst(Append(t.list, s), s) = t.list
    <3>1. IsInjective(t.list)
      BY <1>2 DEF Listed
    <3> QED
      BY <1>2, <1>4, <3>1, AppendRemove
  <2>6. y = Freed(t, s)
    <3>1. SetSubject(t, s) = [t EXCEPT !.list = Append(@, s)]
      BY <1>4 DEF SetSubject
    <3>2. [t EXCEPT !.list = Append(@, s)].articles[s] = <<>>
      BY <1>2, <2>2 DEF State
    <3>3. y = [[t EXCEPT !.list = Append(@, s)] EXCEPT
                  !.list = RemoveFirst(@, s), !.link[s] = s, !.thread[s] = <<>>]
      BY <3>1, <3>2 DEF UncacheDuplicate
    <3> QED
      BY <1>2, <3>3 DEF Freed, State
  <2> QED
    BY <1>2, <2>3, <2>4, <2>5, <2>6, FreedSame
<1> QED
  BY <1>3, <1>4

\* An article that is threaded once more.
LEMMA RethreadWhole ==
  ASSUME IsFiniteSet(Ids), IsFiniteSet(Subjects), None \notin Ids, None \notin Subjects,
         \A n \in Nums : Posts[n].id \in Ids /\ Posts[n].subj \in Subjects
                         /\ Posts[n].date \in Int \ {0},
         IInv, NEW n \in Nums, art[n] = "threaded", NEW refs \in Seq(Ids),
         NEW y, y = ThreadArticle(t, Posts[n].id, refs, TRUE)
  PROVE  /\ Whole(y) /\ ArtsRight(y, art) /\ ArticlesRight(y, art) /\ NearRight(y)
         /\ \A b \in Ids \ {Posts[n].id} : t.held[b] = "real" => y.parent[b] \in {t.parent[b], None}
<1> DEFINE m == Posts[n].id
<1>1. Whole(t) /\ ArtsRight(t, art) /\ ArticlesRight(t, art) /\ NearRight(t)
      /\ art \in [Nums -> {"new", "threaded", "duplicate", "missing"}]
  BY DEF IInv
<1>2. m \in Ids /\ t.subj[m] \in Subjects /\ t.date[m] # 0
  <2>1. n \in There(art)
    BY DEF There
  <2> QED
    BY <1>1, <2>1 DEF ArtsRight
<1>3. Start(t, m, TRUE)
  BY <1>1, <1>2 DEF Start, Whole, PlacedIn
<1>y. y = ThreadArticle(t, m, refs, TRUE)
  OBVIOUS
<1> HIDE DEF m
<1>4. Whole(y) /\ Onward(y, t, m)
  BY <1>2, <1>3, <1>y, ThreadArticleWhole
<1>5. /\ y.articles = t.articles /\ y.short = t.short /\ y.hashed = t.hashed
      /\ Range(y.list) = Range(t.list)
      /\ mode # "thread" => y.list = t.list
      /\ \A s \in Subjects : Orbit(t.link, s) \subseteq Orbit(y.link, s)
      /\ \A a \in Ids :
            /\ y.held[a] = "real" <=> t.held[a] = "real"
            /\ t.held[a] = "real" => y.subj[a] = t.subj[a] /\ y.date[a] = t.date[a]
            /\ t.held[a] = "real" /\ a # m => y.parent[a] \in {t.parent[a], None}
  BY <1>4 DEF Onward
<1>6. \A i \in There(art) : i \in Nums /\ Posts[i].id \in Ids /\ t.held[Posts[i].id] = "real"
  BY <1>1 DEF There, ArtsRight
<1>7. ArtsRight(y, art)
  <2>1. \A i \in Nums : art[i] = "missing" => i \in MayVanish
    BY <1>1 DEF ArtsRight
  <2>2. \A i \in There(art) : y.subj[Posts[i].id] = t.subj[Posts[i].id]
                             /\ y.date[Posts[i].id] = t.date[Posts[i].id]
                             /\ y.held[Posts[i].id] = "real"
    BY <1>5, <1>6
  <2>3. \A c \in Ids : y.held[c] = "real" => t.held[c] = "real"
    BY <1>5
  <2>4. ArtsRight(t, art) /\ Range(y.list) = Range(t.list)
    BY <1>1, <1>5
  <2> QED
    BY ONLY <2>1, <2>2, <2>3, <2>4, ArtsSame
<1>8. ArticlesRight(y, art)
  <2> SUFFICES ASSUME NEW s \in Subjects PROVE Sorted(y, t.articles[s])
    BY <1>1, <1>5 DEF ArticlesRight
  <2>1. ASSUME NEW c \in Range(t.articles[s]) PROVE y.date[c] = t.date[c]
    <3>1. PICK i \in Nums : art[i] = "threaded" /\ Posts[i].id = c
      <4>1. ArticlesRight(t, art) /\ c \in Range(t.articles[s])
        BY <1>1
      <4> QED
        BY ONLY <4>1, s \in Subjects, ArticleOfNumber
    <3>2. i \in There(art)
      BY <3>1 DEF There
    <3> QED
      BY <1>5, <1>6, <3>1, <3>2
  <2>2. Sorted(t, t.articles[s])
    BY <1>1 DEF ArticlesRight
  <2> QED
    BY <2>1, <2>2 DEF Sorted, Range
<1>9. t \in State /\ Range(t.list) \subseteq Subjects
  BY <1>1 DEF Whole, Sound, State, Range
<1>10. ASSUME NEW s \in Subjects, IsNear(t, s) PROVE IsNear(y, s)
  <2> SUFFICES ASSUME Prefix[s] # None
               PROVE  y.short[Prefix[s]] # None /\ s \in Orbit(y.link, y.short[Prefix[s]])
    BY DEF IsNear
  <2>1. t.short[Prefix[s]] \in Subjects /\ s \in Orbit(t.link, t.short[Prefix[s]])
        /\ t.short[Prefix[s]] # None
    BY <1>9, <1>10 DEF IsNear, State
  <2> QED
    BY <1>5, <2>1
<1>11. NearRight(y)
  <2>1. t.list = <<>> => y.list = <<>>
    <3>1. t.list \in Seq(Subjects) /\ y.list \in Seq(Subjects)
      BY <1>1, <1>4 DEF Whole, Sound, State
    <3> QED
      BY <1>5, <3>1, EmptyRange
  <2> QED
    BY <1>1, <1>5, <1>9, <1>10, <2>1 DEF NearRight
<1> QED
  BY <1>4, <1>5, <1>7, <1>8, <1>11 DEF m

\* An article that turns out to be missing.
LEMMA VanishWhole ==
  ASSUME IsFiniteSet(Ids), IsFiniteSet(Subjects), None \notin Ids, None \notin Subjects,
         \A n \in Nums : Posts[n].id \in Ids /\ Posts[n].subj \in Subjects,
         IInv, NEW n \in Nums, n \in MayVanish, art[n] = "threaded",
         NEW y, y = [t EXCEPT !.articles[Posts[n].subj] = RemoveFirst(@, Posts[n].id)],
         NEW a, a = [art EXCEPT ![n] = "missing"]
  PROVE  /\ Whole(y) /\ ArtsRight(y, a) /\ ArticlesRight(y, a) /\ NearRight(y)
         /\ y.parent = t.parent
<1> DEFINE m == Posts[n].id
           r == Posts[n].subj
           lst == RemoveFirst(t.articles[r], m)
<1>1. Whole(t) /\ ArtsRight(t, art) /\ ArticlesRight(t, art) /\ NearRight(t)
      /\ art \in [Nums -> {"new", "threaded", "duplicate", "missing"}]
  BY DEF IInv
<1>2. /\ t \in State /\ t.articles \in [Subjects -> Seq(Ids)] /\ t.hashed \in BOOLEAN
      /\ r \in Subjects /\ m \in Ids
  BY <1>1 DEF Whole, Sound, State
<1>3. IsInjective(t.articles[r]) /\ t.articles[r] \in Seq(Ids) /\ Sorted(t, t.articles[r])
  BY <1>1, <1>2 DEF ArticlesRight
<1>4. lst \in Seq(Ids) /\ IsInjective(lst) /\ Range(lst) = Range(t.articles[r]) \ {m}
  BY <1>3, RemoveFirstFacts
<1>5. Sorted(t, lst)
  BY <1>2, <1>3, RemoveSorted
<1>6. y = Listing(t, r, lst, t.hashed)
  BY <1>2 DEF State, Listing
<1> HIDE DEF lst
<1>r. r = Posts[n].subj /\ m = Posts[n].id
  OBVIOUS
<1> HIDE DEF r, m
<1>7. /\ y \in State
      /\ y.held = t.held /\ y.kids = t.kids /\ y.subj = t.subj /\ y.date = t.date
      /\ y.parent = t.parent
      /\ y.list = t.list /\ y.link = t.link /\ y.thread = t.thread
      /\ y.articles = [t.articles EXCEPT ![r] = lst]
      /\ y.sdate = t.sdate /\ y.hashed = t.hashed
      /\ y.short = t.short
  BY ONLY <1>2, <1>4, <1>6, ArticlesFields
<1>8. Whole(y)
  BY <1>1, <1>7, SameWhole
<1>9. There(a) = There(art)
  BY <1>1 DEF There
<1>10. ArtsRight(y, a)
  <2>1. \A i \in Nums : a[i] = "missing" => i \in MayVanish
    BY <1>1 DEF ArtsRight
  <2>2. \A i \in There(art) : t.held[Posts[i].id] = "real"
    BY <1>1 DEF ArtsRight
  <2>3. ArtsRight(t, art) /\ Range(y.list) = Range(t.list)
    BY <1>1, <1>7
  <2>4. \A i \in There(art) : y.subj[Posts[i].id] = t.subj[Posts[i].id]
                             /\ y.date[Posts[i].id] = t.date[Posts[i].id]
                             /\ y.held[Posts[i].id] = "real"
    BY <1>7, <2>2
  <2>5. \A c \in Ids : y.held[c] = "real" => t.held[c] = "real"
    BY <1>7
  <2> QED
    BY ONLY <1>9, <2>1, <2>3, <2>4, <2>5, ArtsSame
<1>11. ArticlesRight(y, a)
  <2> SUFFICES ASSUME NEW s \in Subjects
               PROVE  /\ IsInjective(y.articles[s])
                      /\ Range(y.articles[s]) = ThreadedIds(a, s)
                      /\ Sorted(y, y.articles[s])
    BY DEF ArticlesRight, ThreadedIds
  <2>1. /\ IsInjective(t.articles[s]) /\ Range(t.articles[s]) = ThreadedIds(art, s)
        /\ Sorted(t, t.articles[s])
    BY <1>1 DEF ArticlesRight, ThreadedIds
  <2>2. Sorted(y, t.articles[s]) /\ Sorted(y, lst)
    BY <1>5, <1>7, <2>1 DEF Sorted
  <2>3. CASE s # r
    <3>1. y.articles[s] = t.articles[s]
      BY <1>2, <1>7, <2>3
    <3>2. {i \in Nums : a[i] = "threaded" /\ Posts[i].subj = s}
             = {i \in Nums : art[i] = "threaded" /\ Posts[i].subj = s}
      BY <1>1, <1>r, <2>3
    <3> QED
      BY <2>1, <2>2, <3>1, <3>2 DEF ThreadedIds
  <2>4. CASE s = r
    <3>1. y.articles[s] = lst
      BY <1>2, <1>7, <2>4
    <3>2. {i \in Nums : a[i] = "threaded" /\ Posts[i].subj = s}
             = {i \in Nums : art[i] = "threaded" /\ Posts[i].subj = s} \ {n}
      BY <1>1
    <3>3. \A i \in Nums : art[i] = "threaded" /\ Posts[i].id = m => i = n
      <4>1. \A i \in Nums : art[i] = "threaded" => i \in There(art)
        BY DEF There
      <4> QED
        BY <1>1, <1>r, <4>1 DEF ArtsRight
    <3>4. ThreadedIds(a, s) = ThreadedIds(art, s) \ {m}
      BY <1>r, <2>4, <3>2, <3>3 DEF ThreadedIds
    <3> QED
      BY <1>4, <2>1, <2>2, <2>4, <3>1, <3>4
  <2> QED
    BY <2>3, <2>4
<1>12. NearRight(y)
  BY <1>1, <1>7 DEF NearRight, IsNear
<1> QED
  BY <1>7, <1>8, <1>10, <1>11, <1>12

-----------------------------------------------------------------------------
(* Sorting the subjects                                                    *)

\* The sequences of all elements of a set.
LEMMA SeqsOfSet ==
  ASSUME NEW D, IsFiniteSet(D), NEW lst \in SetToSeqs(D)
  PROVE  lst \in Seq(D) /\ IsInjective(lst) /\ Range(lst) = D
<1> DEFINE n == Cardinality(D)
<1>1. n \in Nat
  BY FS_CardinalityType
<1>2. lst \in [1 .. n -> D] /\ \A i, j \in 1 .. n : i # j => lst[i] # lst[j]
  BY DEF SetToSeqs
<1>3. lst \in Seq(D) /\ IsInjective(lst) /\ DOMAIN lst = 1 .. n
  BY <1>1, <1>2 DEF IsInjective
<1>4. lst \in Injection(1 .. n, D)
  BY <1>2, <1>3 DEF Injection
<1>5. Cardinality(1 .. n) = n
  BY <1>1, FS_Interval
<1>6. lst \in Surjection(1 .. n, D)
  BY <1>4, <1>5, FS_Injection
<1>7. Range(lst) = D
  BY <1>2, <1>3, <1>6 DEF Surjection, Range
<1> QED
  BY <1>3, <1>7

\* Two subjects of the list have the same thread when they are in one ring,
\* and only then.
LEMMA ThreadIsRing ==
  ASSUME IsFiniteSet(Subjects), None \notin Ids, None \notin Subjects,
         NEW x, Whole(x), Peopled(x), NEW r \in Range(x.list), NEW s \in Range(x.list)
  PROVE  x.thread[r] = x.thread[s] <=> r \in Orbit(x.link, s)
<1>1. /\ x \in State /\ Hung(x, PlacedIn(x), x.subj) /\ Permutes(x.link)
      /\ x.thread \in [Subjects -> Seq(Ids)]
  BY DEF Whole, Sound, State, Hung
<1>2. r \in Subjects /\ s \in Subjects /\ x.thread[s] # <<>>
  BY PeopledThreads
<1>3. r \in Orbit(x.link, s) => x.thread[r] = x.thread[s]
  BY <1>1, <1>2 DEF Hung
<1>4. ASSUME x.thread[r] = x.thread[s] PROVE r \in Orbit(x.link, s)
  <2>1. PICK a \in Range(x.thread[s]) : TRUE
    <3>1. x.thread[s] \in Seq(Ids) /\ x.thread[s] # <<>>
      BY <1>1, <1>2
    <3>2. Range(x.thread[s]) # {}
      BY ONLY <3>1, EmptyRange
    <3> QED
      BY <3>2
  <2>2. x.subj[a] \in Orbit(x.link, s) /\ x.subj[a] \in Orbit(x.link, r)
    BY <1>1, <1>2, <1>4, <2>1 DEF Hung
  <2>3. Orbit(x.link, r) = Orbit(x.link, s)
    BY <1>1, <1>2, <2>2, OrbitsApart
  <2> QED
    BY <1>1, <1>2, <2>3, OrbitFacts
<1> QED
  BY <1>3, <1>4

\* The list of subjects in another order, with other dates and links but the
\* same rings.
LEMMA RelistWhole ==
  ASSUME IsFiniteSet(Subjects), NEW x, Whole(x), NEW y \in State,
         y.held = x.held, y.kids = x.kids, y.subj = x.subj, y.date = x.date,
         y.parent = x.parent, y.thread = x.thread, y.short = x.short,
         IsInjective(y.list), Range(y.list) = Range(x.list), Permutes(y.link),
         \A s \in Subjects : Orbit(y.link, s) = Orbit(x.link, s),
         \A s \in Subjects \ Range(x.list) : y.link[s] = s
  PROVE  Whole(y)
<1>1. /\ x \in State /\ Hung(x, PlacedIn(x), x.subj) /\ Acyclic(x) /\ Bare(x)
      /\ \A a \in Ids : Kin(x, a)
      /\ Listed(x)
  BY DEF Whole, Sound
<1>2. PlacedIn(y) = PlacedIn(x)
  BY DEF PlacedIn
<1>3. Hung(y, PlacedIn(y), y.subj)
  BY <1>1, <1>2 DEF Hung
<1>4. Acyclic(y) /\ Bare(y)
  BY <1>1 DEF Acyclic, Bare
<1>5. \A a \in Ids : Kin(y, a)
  BY <1>1 DEF Kin
<1>6. Listed(y)
  BY <1>1 DEF Listed
<1> QED
  BY <1>3, <1>4, <1>5, <1>6 DEF Whole, Sound

\* What is true of the articles does not depend on the order of the subjects.
LEMMA RelistRight ==
  ASSUME NEW x, NEW y, NEW a, ArtsRight(x, a), ArticlesRight(x, a),
         y.held = x.held, y.subj = x.subj, y.date = x.date, y.articles = x.articles,
         Range(y.list) = Range(x.list)
  PROVE  ArtsRight(y, a) /\ ArticlesRight(y, a)
<1>1. \A i \in There(a) : x.held[Posts[i].id] = "real"
  BY DEF ArtsRight
<1>2. \A i \in Nums : a[i] = "missing" => i \in MayVanish
  BY DEF ArtsRight
<1>3. ArtsRight(y, a)
  BY <1>1, <1>2, ArtsSame
<1>4. ArticlesRight(y, a)
  BY DEF ArticlesRight, Sorted
<1> QED
  BY <1>3, <1>4

\* Counting the articles of the subjects changes their dates only.
LEMMA CountFields ==
  ASSUME NEW x \in State, NEW y, y = CountSubjects(x)
  PROVE  /\ y \in State
         /\ y.held = x.held /\ y.kids = x.kids /\ y.subj = x.subj /\ y.date = x.date
         /\ y.parent = x.parent
         /\ y.list = x.list /\ y.link = x.link /\ y.thread = x.thread
         /\ y.articles = x.articles /\ y.hashed = x.hashed /\ y.short = x.short
<1> DEFINE d == [s \in Subjects |->
                   IF x.articles[s] = <<>> THEN x.sdate[s] ELSE x.date[Head(x.articles[s])]]
<1>1. x.articles \in [Subjects -> Seq(Ids)] /\ x.date \in [Ids -> Int]
      /\ x.sdate \in [Subjects -> Int]
  BY DEF State
<1>2. \A s \in Subjects : x.articles[s] # <<>> => Head(x.articles[s]) \in Ids
  BY <1>1
<1>3. d \in [Subjects -> Int]
  BY <1>1, <1>2
<1>4. y = [x EXCEPT !.sdate = d]
  BY DEF CountSubjects
<1> HIDE DEF d
<1> QED
  BY <1>3, <1>4 DEF State

\* Keys and their order

\* Keys are numbers one after the other; of two keys as long as each other that
\* are not the same, one comes before the other.
LEMMA BeforeTotal ==
  ASSUME NEW a1 \in Int, NEW a2 \in Int, NEW b1 \in Int, NEW b2 \in Int,
         ~Before(<<a1, a2>>, <<b1, b2>>), ~Before(<<b1, b2>>, <<a1, a2>>)
  PROVE  a2 = b2
<1>1. ~(a1 < b1) /\ ~(b1 < a1)
  <2>1. 1 \in DOMAIN <<a1, a2>> /\ 1 \in DOMAIN <<b1, b2>>
    OBVIOUS
  <2>2. \A j \in 1 .. 1 - 1 : FALSE
    OBVIOUS
  <2> QED
    BY <2>1, <2>2 DEF Before
<1>2. a1 = b1
  BY <1>1
<1>3. ~(a2 < b2) /\ ~(b2 < a2)
  <2>1. 2 \in DOMAIN <<a1, a2>> /\ 2 \in DOMAIN <<b1, b2>>
    OBVIOUS
  <2>2. \A j \in 1 .. 2 - 1 : j = 1
    OBVIOUS
  <2> QED
    BY <1>2, <2>1, <2>2 DEF Before
<1> QED
  BY <1>3

\* Keys of three numbers that are neither before the other end with the same
\* number.
LEMMA BeforeTotalThree ==
  ASSUME NEW a1 \in Int, NEW a2 \in Int, NEW a3 \in Int,
         NEW b1 \in Int, NEW b2 \in Int, NEW b3 \in Int,
         ~Before(<<a1, a2, a3>>, <<b1, b2, b3>>), ~Before(<<b1, b2, b3>>, <<a1, a2, a3>>)
  PROVE  a3 = b3
<1>1. ~(a1 < b1) /\ ~(b1 < a1)
  <2>1. 1 \in DOMAIN <<a1, a2, a3>> /\ 1 \in DOMAIN <<b1, b2, b3>>
    OBVIOUS
  <2>2. \A j \in 1 .. 1 - 1 : FALSE
    OBVIOUS
  <2> QED
    BY <2>1, <2>2 DEF Before
<1>2. a1 = b1
  BY <1>1
<1>3. ~(a2 < b2) /\ ~(b2 < a2)
  <2>1. 2 \in DOMAIN <<a1, a2, a3>> /\ 2 \in DOMAIN <<b1, b2, b3>>
    OBVIOUS
  <2>2. \A j \in 1 .. 2 - 1 : j = 1
    OBVIOUS
  <2> QED
    BY <1>2, <2>1, <2>2 DEF Before
<1>4. a2 = b2
  BY <1>3
<1>5. ~(a3 < b3) /\ ~(b3 < a3)
  <2>1. 3 \in DOMAIN <<a1, a2, a3>> /\ 3 \in DOMAIN <<b1, b2, b3>>
    OBVIOUS
  <2>2. \A j \in 1 .. 3 - 1 : j = 1 \/ j = 2
    OBVIOUS
  <2> QED
    BY <1>2, <1>4, <2>1, <2>2 DEF Before
<1> QED
  BY <1>5

\* The leader of a thread is one of its subjects.
LEMMA LeaderInRing ==
  ASSUME IsFiniteSet(Subjects), None \notin Ids, None \notin Subjects,
         NEW x, Whole(x), Peopled(x), NEW s \in Range(x.list),
         NEW y, y.thread = x.thread, y.link = x.link, y.subj = x.subj, y.articles = x.articles
  PROVE  Leader(y, s) \in Orbit(x.link, s)
<1> DEFINE lead == y.subj[y.thread[s][1]]
           ring == <<lead>> \o RingOrder(y, lead)
           full == {k \in DOMAIN ring : y.articles[ring[k]] # <<>>}
           k0 == CHOOSE k \in full : \A j \in full : k <= j
<1>1. /\ x \in State /\ Hung(x, PlacedIn(x), x.subj) /\ Permutes(x.link)
      /\ x.thread \in [Subjects -> Seq(Ids)]
  BY DEF Whole, Sound, State, Hung
<1>2. s \in Subjects /\ x.thread[s] # <<>>
  BY PeopledThreads
<1>3. lead \in Orbit(x.link, s)
  <2>1. x.thread[s][1] \in Range(x.thread[s])
    <3>1. 1 \in DOMAIN x.thread[s]
      BY <1>1, <1>2
    <3> QED
      BY <3>1 DEF Range
  <2> QED
    BY <1>1, <1>2, <2>1 DEF Hung
<1>4. Leader(y, s) = IF full = {} THEN lead ELSE ring[k0]
  BY DEF Leader
<1> HIDE DEF lead
<1>5. lead \in Subjects /\ Orbit(x.link, lead) = Orbit(x.link, s)
  BY <1>1, <1>2, <1>3, OrbitClass
<1> DEFINE os == OrbitSeq(x.link, lead)
<1>6. os \in Seq(Subjects) /\ Range(os) = Orbit(x.link, s) /\ ring = <<lead>> \o os
  <2>1. os \in Seq(Subjects) /\ Range(os) = Orbit(x.link, lead)
    BY <1>1, <1>5, OrbitFacts DEF Orbit
  <2>2. RingOrder(y, lead) = os
    BY RingIsOrbit
  <2> QED
    BY <1>5, <2>1, <2>2
<1> HIDE DEF os, ring
<1>7. \A k \in DOMAIN ring : k \in Nat /\ ring[k] \in Orbit(x.link, s)
  <2> SUFFICES ASSUME NEW k \in DOMAIN ring PROVE k \in Nat /\ ring[k] \in Orbit(x.link, s)
    OBVIOUS
  <2>1. k = 1 \/ (k - 1 \in DOMAIN os /\ ring[k] = os[k - 1])
    BY <1>6
  <2>2. ring[1] = lead /\ DOMAIN ring \subseteq Nat
    BY <1>6
  <2> QED
    BY <1>3, <1>6, <2>1, <2>2 DEF Range
<1>8. full # {} => k0 \in full
  <2>1. full \in SUBSET Nat
    BY <1>7
  <2> HIDE DEF full
  <2> QED
    BY <2>1, LeastNat
<1> QED
  BY <1>3, <1>4, <1>7, <1>8

\* The leader of a thread, and the number of its articles, by the thread.
LeaderOf(x, thread) ==
    LET lead == x.subj[thread[1]]
        ring == <<lead>> \o RingOrder(x, lead)
        full == {k \in DOMAIN ring : x.articles[ring[k]] # <<>>}
    IN  IF full = {} THEN lead ELSE ring[CHOOSE k \in full : \A j \in full : k <= j]

\* The number of articles of a ring.
SizeOf(x, ring) == Cardinality({m \in Ids : \E r \in ring : m \in Range(x.articles[r])})

\* A state with the dates, and perhaps the list, of a sort.
Dated(y, x) ==
    /\ y \in State
    /\ y.held = x.held /\ y.kids = x.kids /\ y.subj = x.subj /\ y.date = x.date
    /\ y.parent = x.parent
    /\ y.link = x.link /\ y.thread = x.thread
    /\ y.articles = x.articles /\ y.hashed = x.hashed /\ y.short = x.short

\* Two subjects of one thread have the same keys.
LEMMA SameKeys ==
  ASSUME IsFiniteSet(Subjects), None \notin Ids, None \notin Subjects,
         NEW x, Whole(x), Peopled(x), NEW y, Dated(y, x),
         NEW r \in Range(x.list), NEW s \in Range(x.list), x.thread[r] = x.thread[s],
         NEW order \in {"date", "count"}
  PROVE  SortKeys(y, r, order) = SortKeys(y, s, order)
<1>1. Leader(y, r) = LeaderOf(y, y.thread[r]) /\ Leader(y, s) = LeaderOf(y, y.thread[s])
  BY DEF Leader, LeaderOf
<1>2. Leader(y, r) = Leader(y, s)
  BY <1>1 DEF Dated
<1>3. Orbit(x.link, r) = Orbit(x.link, s)
  <2>1. r \in Orbit(x.link, s) /\ s \in Subjects
    BY ThreadIsRing, PeopledThreads
  <2>2. Permutes(x.link)
    BY DEF Whole, Sound, Hung
  <2> QED
    BY <2>1, <2>2, OrbitClass
<1>4. Ring(y, r) = Orbit(x.link, r) /\ Ring(y, s) = Orbit(x.link, s)
  <2>1. y.link = x.link
    BY DEF Dated
  <2>2. Ring(y, r) = Orbit(y.link, r) /\ Ring(y, s) = Orbit(y.link, s)
    BY RingIsOrbit
  <2> QED
    BY <2>1, <2>2
<1>5. ThreadSize(y, r) = SizeOf(y, Ring(y, r)) /\ ThreadSize(y, s) = SizeOf(y, Ring(y, s))
  BY DEF ThreadSize, SizeOf
<1>6. ThreadSize(y, r) = ThreadSize(y, s)
  BY <1>3, <1>4, <1>5
<1>7. CASE order = "date"
  BY <1>2, <1>7 DEF SortKeys
<1>8. CASE order = "count"
  BY <1>2, <1>6, <1>8 DEF SortKeys
<1> QED
  BY <1>7, <1>8

\* Of two threads, one comes before the other.
LEMMA KeysApart ==
  ASSUME IsFiniteSet(Ids), IsFiniteSet(Subjects), None \notin Ids, None \notin Subjects,
         Rank \in [Subjects -> Int], IsInjective(Rank),
         NEW x, Whole(x), Peopled(x), NEW y, Dated(y, x),
         NEW r \in Range(x.list), NEW s \in Range(x.list),
         NEW order \in {"date", "count"},
         ~Before(SortKeys(y, r, order), SortKeys(y, s, order)),
         ~Before(SortKeys(y, s, order), SortKeys(y, r, order))
  PROVE  x.thread[r] = x.thread[s]
<1> DEFINE lr == Leader(y, r)
           ls == Leader(y, s)
<1>1. lr \in Orbit(x.link, r) /\ ls \in Orbit(x.link, s)
  BY LeaderInRing DEF Dated
<1>2. r \in Subjects /\ s \in Subjects
  BY PeopledThreads
<1>3. Permutes(x.link) /\ Hung(x, PlacedIn(x), x.subj)
  BY DEF Whole, Sound, Hung
<1>4. lr \in Subjects /\ ls \in Subjects
  BY <1>1, <1>2, <1>3, OrbitClass
<1>5. y.sdate \in [Subjects -> Int]
  BY DEF Dated, State
<1>6. y.sdate[lr] \in Int /\ y.sdate[ls] \in Int /\ Rank[lr] \in Int /\ Rank[ls] \in Int
  BY <1>4, <1>5
<1>7. ThreadSize(y, r) \in Int /\ ThreadSize(y, s) \in Int
  <2>1. ASSUME NEW c PROVE ThreadSize(y, c) \in Int
    <3> DEFINE A == {m \in Ids : \E d \in Ring(y, c) : m \in Range(y.articles[d])}
    <3>1. A \in SUBSET Ids
      OBVIOUS
    <3>2. IsFiniteSet(A)
      <4> HIDE DEF A
      <4> QED
        BY <3>1, FS_Subset
    <3>3. Cardinality(A) \in Nat
      BY <3>2, FS_CardinalityType
    <3>4. ThreadSize(y, c) = Cardinality(A)
      BY DEF ThreadSize
    <3> QED
      BY <3>3, <3>4
  <2> QED
    BY <2>1
<1>8. Rank[lr] = Rank[ls]
  <2>1. CASE order = "date"
    <3>1. /\ SortKeys(y, r, order) = <<y.sdate[lr], Rank[lr]>>
          /\ SortKeys(y, s, order) = <<y.sdate[ls], Rank[ls]>>
      BY <2>1 DEF SortKeys
    <3> HIDE DEF lr, ls
    <3> QED
      BY <1>6, <3>1, BeforeTotal
  <2>2. CASE order = "count"
    <3>1. /\ SortKeys(y, r, order) = <<ThreadSize(y, r), y.sdate[lr], Rank[lr]>>
          /\ SortKeys(y, s, order) = <<ThreadSize(y, s), y.sdate[ls], Rank[ls]>>
      BY <2>2 DEF SortKeys
    <3> HIDE DEF lr, ls
    <3> QED
      BY <1>6, <1>7, <3>1, BeforeTotalThree
  <2> QED
    BY <2>1, <2>2
<1>9. lr = ls
  <2> HIDE DEF lr, ls
  <2> QED
    BY <1>4, <1>8 DEF IsInjective
<1>10. x.thread[lr] = x.thread[r] /\ x.thread[ls] = x.thread[s]
  BY <1>1, <1>2, <1>3 DEF Hung
<1> QED
  BY <1>9, <1>10

\* The subjects of a thread are neighbours.
Together(x, lst) ==
    \A i, j, k \in DOMAIN lst :
       i <= j /\ j <= k /\ x.thread[lst[i]] = x.thread[lst[k]]
          => x.thread[lst[j]] = x.thread[lst[i]]

\* In a sorted list the subjects of a thread are neighbours: a comparison of
\* subjects of two threads depends on the threads only, and never finds them
\* equal.
LEMMA SortedTogether ==
  ASSUME IsFiniteSet(Ids), IsFiniteSet(Subjects), None \notin Ids, None \notin Subjects,
         Rank \in [Subjects -> Int], IsInjective(Rank), mode = "thread",
         NEW x, Whole(x), Peopled(x), NEW y, Dated(y, x),
         NEW order \in {"date", "count"},
         NEW lst \in Seq(Subjects), Range(lst) = Range(x.list),
         \A i, j \in DOMAIN lst : i < j => ~Precedes(y, lst[j], lst[i], order)
  PROVE  Together(x, lst)
<1> SUFFICES ASSUME NEW i \in DOMAIN lst, NEW j \in DOMAIN lst, NEW k \in DOMAIN lst,
                    i <= j, j <= k, x.thread[lst[i]] = x.thread[lst[k]],
                    x.thread[lst[j]] # x.thread[lst[i]]
             PROVE  FALSE
  BY DEF Together
<1> DEFINE a == lst[i]
           b == lst[j]
           c == lst[k]
<1>1. i < j /\ j < k
  <2>1. i # j /\ j # k
    OBVIOUS
  <2>2. i \in Int /\ j \in Int /\ k \in Int
    OBVIOUS
  <2> QED
    BY <2>1, <2>2
<1>2. ~Precedes(y, b, a, order) /\ ~Precedes(y, c, b, order)
  BY <1>1
<1>3. a \in Range(x.list) /\ b \in Range(x.list) /\ c \in Range(x.list)
  <2>1. a \in Range(lst) /\ b \in Range(lst) /\ c \in Range(lst)
    BY DEF Range
  <2> QED
    BY <2>1
<1>4. y.thread = x.thread
  BY DEF Dated
<1>5. /\ x.thread[a] = x.thread[c] /\ x.thread[b] # x.thread[a]
  OBVIOUS
<1> HIDE DEF a, b, c
<1>6. /\ ~Before(SortKeys(y, b, order), SortKeys(y, a, order))
      /\ ~Before(SortKeys(y, c, order), SortKeys(y, b, order))
  BY <1>2, <1>4, <1>5 DEF Precedes
<1>7. SortKeys(y, a, order) = SortKeys(y, c, order)
  BY <1>3, <1>5, SameKeys
<1>8. x.thread[b] = x.thread[a]
  BY <1>3, <1>6, <1>7, KeysApart
<1> QED
  BY <1>5, <1>8

\* Rings from neighbours

\* nx leads from every number of a run of equal keys to the next, and from the
\* last one to the first.
Follows(nx, key, L, k) ==
    /\ nx[k] \in 1 .. L
    /\ k < L /\ key[k] = key[k + 1] => nx[k] = k + 1
    /\ ~(k < L /\ key[k] = key[k + 1]) =>
          /\ nx[k] <= k /\ \A j \in nx[k] .. k : key[j] = key[k]
          /\ nx[k] = 1 \/ key[nx[k] - 1] # key[k]

\* Equal keys are neighbours.
Runs(key, L) ==
    \A i, j, k \in 1 .. L : i <= j /\ j <= k /\ key[i] = key[k] => key[j] = key[i]

\* What follows has the same key.
LEMMA FollowsKey ==
  ASSUME NEW L \in Nat, NEW key, NEW nx, NEW k \in 1 .. L, Follows(nx, key, L, k)
  PROVE  key[nx[k]] = key[k] /\ nx[k] \in 1 .. L
<1>1. CASE k < L /\ key[k] = key[k + 1]
  BY <1>1 DEF Follows
<1>2. CASE ~(k < L /\ key[k] = key[k + 1])
  <2>1. nx[k] \in nx[k] .. k
    BY <1>2 DEF Follows
  <2> QED
    BY <1>2, <2>1 DEF Follows
<1> QED
  BY <1>1, <1>2

\* No two places are followed by the same one.
LEMMA FollowsInjective ==
  ASSUME NEW L \in Nat, NEW key, NEW nx, Runs(key, L),
         \A k \in 1 .. L : Follows(nx, key, L, k),
         NEW k \in 1 .. L, NEW l \in 1 .. L, nx[k] = nx[l]
  PROVE  k = l
<1> DEFINE On(i) == i < L /\ key[i] = key[i + 1]
<1>1. key[k] = key[l]
  BY FollowsKey
<1>2. \A i, j \in 1 .. L : i < j /\ key[i] = key[j] => On(i)
  <2> SUFFICES ASSUME NEW i \in 1 .. L, NEW j \in 1 .. L, i < j, key[i] = key[j] PROVE On(i)
    OBVIOUS
  <2>1. i + 1 \in 1 .. L /\ i <= i + 1 /\ i + 1 <= j /\ i < L
    OBVIOUS
  <2> QED
    BY <2>1 DEF Runs
<1>3. \A i \in 1 .. L : On(i) => nx[i] = i + 1
  BY DEF Follows
<1>4. \A i \in 1 .. L : ~On(i) => nx[i] \in 1 .. L /\ (nx[i] = 1 \/ key[nx[i] - 1] # key[i])
  BY DEF Follows
<1>5. \A i, j \in 1 .. L : key[i] = key[j] /\ On(i) /\ ~On(j) => nx[i] # nx[j]
  <2> SUFFICES ASSUME NEW i \in 1 .. L, NEW j \in 1 .. L, key[i] = key[j], On(i), ~On(j),
                      nx[i] = nx[j]
               PROVE  FALSE
    OBVIOUS
  <2>1. nx[j] = i + 1
    BY <1>3
  <2>2. nx[j] # 1 /\ nx[j] - 1 = i
    BY <2>1
  <2> HIDE DEF On
  <2> QED
    BY <1>4, <2>2
<1>6. CASE On(k) /\ On(l)
  <2> HIDE DEF On
  <2>1. nx[k] = k + 1 /\ nx[l] = l + 1
    BY <1>3, <1>6
  <2>2. k + 1 = l + 1
    BY <2>1
  <2>3. k \in Int /\ l \in Int
    OBVIOUS
  <2> QED
    BY ONLY <2>2, <2>3
<1>7. CASE ~On(k) /\ ~On(l)
  <2> HIDE DEF On
  <2>1. ~(k < l) /\ ~(l < k)
    BY <1>1, <1>2, <1>7
  <2> QED
    BY <2>1
<1> HIDE DEF On
<1> QED
  BY <1>1, <1>5, <1>6, <1>7

\* Following goes through all places of a key.
LEMMA FollowsAll ==
  ASSUME NEW L \in Nat, NEW key, NEW nx, Runs(key, L),
         \A k \in 1 .. L : Follows(nx, key, L, k),
         NEW K \in SUBSET (1 .. L), \A j \in K : nx[j] \in K, NEW k \in K,
         NEW j \in 1 .. L, key[j] = key[k]
  PROVE  j \in K
<1> DEFINE C == {i \in 1 .. L : key[i] = key[k]}
           T == K \cap C
<1>1. \A i \in T : nx[i] \in T
  BY FollowsKey
<1>2. T \in SUBSET (0 .. L) /\ T # {}
  OBVIOUS
<1>3. PICK h \in T : \A i \in T : i <= h
  <2> HIDE DEF T
  <2> QED
    BY <1>2, GreatestNat
<1> DEFINE f == nx[h]
<1>4. h \in 1 .. L /\ key[h] = key[k] /\ f \in T
  BY <1>1, <1>3
<1>5. ~(h < L /\ key[h] = key[h + 1])
  <2> SUFFICES ASSUME h < L, key[h] = key[h + 1] PROVE FALSE
    OBVIOUS
  <2>1. f = h + 1
    BY <1>4 DEF Follows
  <2> HIDE DEF f, T
  <2> QED
    BY <1>3, <1>4, <2>1
<1>6. f \in 1 .. L /\ (f = 1 \/ key[f - 1] # key[k])
  BY <1>4, <1>5 DEF Follows
<1> HIDE DEF f
<1>7. \A i \in C : i >= f
  <2> SUFFICES ASSUME NEW i \in C, i < f PROVE FALSE
    BY <1>6
  <2>1. f - 1 \in 1 .. L /\ i <= f - 1 /\ f - 1 <= f /\ f # 1
    BY <1>6
  <2>2. key[i] = key[f] /\ key[f] = key[k]
    BY <1>4
  <2>3. key[f - 1] = key[i]
    BY <1>6, <2>1, <2>2 DEF Runs
  <2> QED
    BY <1>6, <2>1, <2>2, <2>3
<1> DEFINE Bad == C \ K
<1>8. Bad = {}
  <2> SUFFICES ASSUME Bad # {} PROVE FALSE
    OBVIOUS
  <2>1. Bad \in SUBSET Nat
    OBVIOUS
  <2>2. PICK b \in Bad : \A i \in Bad : b <= i
    <3> HIDE DEF Bad
    <3> QED
      BY <2>1, LeastNat
  <2>3. b \in C /\ b # f /\ b \in 1 .. L
    BY <1>4, <2>2
  <2>4. b - 1 \in 1 .. L /\ f <= b - 1 /\ b - 1 <= b /\ (b - 1) + 1 = b /\ b - 1 < L /\ ~(b <= b - 1)
    BY <1>6, <1>7, <2>3
  <2>5. key[b - 1] = key[k] /\ key[b] = key[k]
    <3>1. key[f] = key[k] /\ key[b] = key[k]
      BY <1>4, <2>3
    <3> QED
      BY <1>6, <2>3, <2>4, <3>1 DEF Runs
  <2>6. b - 1 \in K
    BY <2>2, <2>4, <2>5
  <2>7. nx[b - 1] = b
    <3>1. Follows(nx, key, L, b - 1)
      BY <2>4
    <3> QED
      BY <2>4, <2>5, <3>1 DEF Follows
  <2>8. nx[b - 1] \in K
    BY <2>6
  <2> QED
    BY <2>2, <2>7, <2>8
<1> QED
  BY <1>8

\* The ring of a subject of the list is in the list.
LEMMA RingListed ==
  ASSUME IsFiniteSet(Subjects), NEW link, Permutes(link), NEW T \in SUBSET Subjects,
         \A s \in Subjects \ T : link[s] = s, NEW s \in T
  PROVE  Orbit(link, s) \subseteq T
<1>1. Closed(link, T)
  <2> SUFFICES ASSUME NEW r \in T, link[r] \notin T PROVE FALSE
    BY DEF Closed
  <2>1. link[r] \in Subjects /\ link[link[r]] = link[r]
    BY DEF Permutes
  <2>2. link[r] = r
    BY <2>1 DEF Permutes, IsInjective
  <2> QED
    BY <2>2
<1>2. s \in Orbit(link, s)
  BY OrbitFacts
<1> QED
  BY <1>1, <1>2, OrbitInside

\* Where a subject stands, the first of its run, and what its link becomes.
PosOf(x, s) == CHOOSE k \in DOMAIN x.list : x.list[k] = s

\* The first place of the run of subjects of one thread that ends at k or
\* later.
FirstAlike(x, k) ==
    CHOOSE i \in 1 .. k :
       /\ \A j \in i .. k : x.thread[x.list[j]] = x.thread[x.list[k]]
       /\ i = 1 \/ x.thread[x.list[i - 1]] # x.thread[x.list[k]]

\* The subject after place k in its thread, the first one after the last.
NextAlike(x, k) ==
    IF k < Len(x.list) /\ x.thread[x.list[k]] = x.thread[x.list[k + 1]]
    THEN x.list[k + 1] ELSE x.list[FirstAlike(x, k)]

\* The links of the sorted list.
NewLink(x) ==
    [s \in Subjects |-> IF s \in Range(x.list) THEN NextAlike(x, PosOf(x, s)) ELSE x.link[s]]

\* sort_subjects gives every subject a new link and changes nothing else.
LEMMA RelinkIs ==
  ASSUME NEW x \in State, NEW y, y = RelinkRings(x)
  PROVE  y = [x EXCEPT !.link = NewLink(x)]
BY DEF RelinkRings, NewLink, NextAlike, FirstAlike, PosOf, State

\* The first place of a run is where it starts.
LEMMA FirstAlikeFacts ==
  ASSUME NEW x, x.list \in Seq(Subjects), NEW k \in DOMAIN x.list
  PROVE  LET i == FirstAlike(x, k)
         IN  /\ i \in 1 .. k
             /\ \A j \in i .. k : x.thread[x.list[j]] = x.thread[x.list[k]]
             /\ i = 1 \/ x.thread[x.list[i - 1]] # x.thread[x.list[k]]
<1> DEFINE key(j) == x.thread[x.list[j]]
           S == {i \in 1 .. k : \A j \in i .. k : key(j) = key(k)}
<1>1. k \in Nat /\ k >= 1
  OBVIOUS
<1> HIDE DEF key
<1>2. k \in S /\ S \in SUBSET Nat
  <2>1. k \in 1 .. k /\ \A j \in k .. k : j = k
    BY <1>1
  <2> QED
    BY <2>1
<1>3. PICK i \in S : \A j \in S : i <= j
  <2> HIDE DEF S
  <2> QED
    BY <1>2, LeastNat
<1>4. i = 1 \/ key(i - 1) # key(k)
  <2> SUFFICES ASSUME i # 1, key(i - 1) = key(k) PROVE FALSE
    OBVIOUS
  <2>1. i - 1 \in 1 .. k /\ ~(i <= i - 1) /\ \A j \in (i - 1) .. k : j = i - 1 \/ j \in i .. k
    BY <1>1, <1>3
  <2>2. i - 1 \in S
    BY <1>3, <2>1
  <2> QED
    BY <1>3, <2>1, <2>2
<1>5. \E n \in 1 .. k : /\ \A j \in n .. k : x.thread[x.list[j]] = x.thread[x.list[k]]
                        /\ n = 1 \/ x.thread[x.list[n - 1]] # x.thread[x.list[k]]
  BY <1>3, <1>4 DEF key
<1> QED
  BY <1>5 DEF FirstAlike

\* The rings made from a list in which the subjects of a thread are neighbours
\* are the rings there were.
LEMMA RelinkOrbits ==
  ASSUME IsFiniteSet(Subjects), NEW x \in State, IsInjective(x.list), Together(x, x.list),
         Permutes(x.link), \A s \in Subjects \ Range(x.list) : x.link[s] = s,
         \A r, s \in Range(x.list) : x.thread[r] = x.thread[s] <=> r \in Orbit(x.link, s),
         NEW link, link = NewLink(x)
  PROVE  /\ Permutes(link)
         /\ \A s \in Subjects : Orbit(link, s) = Orbit(x.link, s)
         /\ \A s \in Subjects \ Range(x.list) : link[s] = s
<1> DEFINE lst == x.list
           L == Len(lst)
           key == [k \in 1 .. L |-> x.thread[lst[k]]]
           nx == [k \in 1 .. L |-> IF k < L /\ key[k] = key[k + 1] THEN k + 1
                                   ELSE FirstAlike(x, k)]
<1>1. lst \in Seq(Subjects) /\ x.link \in [Subjects -> Subjects]
  BY DEF State
<1>2. L \in Nat /\ DOMAIN lst = 1 .. L /\ \A k \in 1 .. L : lst[k] \in Subjects
  BY <1>1
<1>3. \A i, j \in 1 .. L : lst[i] = lst[j] => i = j
  BY <1>2 DEF IsInjective
<1>4. Range(lst) = {lst[k] : k \in 1 .. L} /\ Range(lst) \subseteq Subjects
  BY <1>2 DEF Range
<1>5. Runs(key, L)
  BY <1>2 DEF Runs, Together
<1>6. ASSUME NEW k \in 1 .. L PROVE Follows(nx, key, L, k)
  <2> DEFINE i == FirstAlike(x, k)
  <2>1. /\ i \in 1 .. k
        /\ \A j \in i .. k : x.thread[lst[j]] = x.thread[lst[k]]
        /\ i = 1 \/ x.thread[lst[i - 1]] # x.thread[lst[k]]
    BY <1>1, <1>2, FirstAlikeFacts
  <2> HIDE DEF i
  <2>2. i \in 1 .. L /\ i <= k /\ (\A j \in i .. k : j \in 1 .. L)
        /\ (i # 1 => i - 1 \in 1 .. L)
    BY <1>2, <2>1
  <2>3. (\A j \in i .. k : key[j] = key[k]) /\ (i = 1 \/ key[i - 1] # key[k])
    BY <2>1, <2>2
  <2>4. nx[k] = IF k < L /\ key[k] = key[k + 1] THEN k + 1 ELSE i
    BY DEF i
  <2> HIDE DEF key, nx
  <2>5. CASE k < L /\ key[k] = key[k + 1]
    <3>1. nx[k] = k + 1 /\ k + 1 \in 1 .. L
      BY <1>2, <2>4, <2>5
    <3> QED
      BY <2>5, <3>1 DEF Follows
  <2>6. CASE ~(k < L /\ key[k] = key[k + 1])
    <3>1. nx[k] = i
      BY <2>4, <2>6
    <3> QED
      BY <2>2, <2>3, <2>6, <3>1 DEF Follows
  <2> QED
    BY <2>5, <2>6
<1>7. \A k \in 1 .. L : link[lst[k]] = lst[nx[k]]
  <2> SUFFICES ASSUME NEW k \in 1 .. L PROVE link[lst[k]] = lst[nx[k]]
    OBVIOUS
  <2>1. PosOf(x, lst[k]) = k
    BY <1>2, <1>3 DEF PosOf
  <2>2. link[lst[k]] = NextAlike(x, k)
    BY <1>2, <1>4, <2>1 DEF NewLink
  <2>3. CASE k < L /\ key[k] = key[k + 1]
    <3>1. k + 1 \in 1 .. L
      BY <1>2, <2>3
    <3>2. x.thread[lst[k]] = x.thread[lst[k + 1]] /\ k < Len(x.list)
      BY <2>3, <3>1
    <3>3. NextAlike(x, k) = lst[k + 1] /\ nx[k] = k + 1
      BY <2>3, <3>2 DEF NextAlike
    <3> QED
      BY <2>2, <3>3
  <2>4. CASE ~(k < L /\ key[k] = key[k + 1])
    <3>1. k < L => k + 1 \in 1 .. L
      BY <1>2
    <3>2. ~(k < Len(x.list) /\ x.thread[lst[k]] = x.thread[lst[k + 1]])
      BY <2>4, <3>1
    <3>3. NextAlike(x, k) = lst[FirstAlike(x, k)] /\ nx[k] = FirstAlike(x, k)
      BY <2>4, <3>2 DEF NextAlike
    <3> QED
      BY <2>2, <3>3
  <2> QED
    BY <2>3, <2>4
<1> HIDE DEF nx
<1>8. \A k \in 1 .. L : nx[k] \in 1 .. L /\ key[nx[k]] = key[k]
  <2> HIDE DEF key, L
  <2> QED
    BY <1>2, <1>6, FollowsKey
<1>9. \A k, l \in 1 .. L : nx[k] = nx[l] => k = l
  <2> HIDE DEF key, L
  <2> QED
    BY <1>2, <1>5, <1>6, FollowsInjective
<1>10. \A s \in Subjects \ Range(lst) : link[s] = s
  <2>1. \A s \in Subjects : s \notin Range(x.list) => NewLink(x)[s] = x.link[s]
    BY ONLY DEF NewLink
  <2> QED
    BY <2>1
<1>11. \A s \in Range(lst) : link[s] \in Range(lst)
  <2> SUFFICES ASSUME NEW s \in Range(lst) PROVE link[s] \in Range(lst)
    OBVIOUS
  <2>1. PICK k \in 1 .. L : s = lst[k]
    BY <1>4
  <2>2. link[s] = lst[nx[k]] /\ nx[k] \in 1 .. L
    BY <1>7, <1>8, <2>1
  <2> QED
    BY <1>4, <2>2
<1>12. link \in [Subjects -> Subjects]
  <2>1. \A s \in Subjects : link[s] \in Subjects
    BY <1>4, <1>10, <1>11
  <2>2. link = [s \in Subjects |-> link[s]]
    BY DEF NewLink
  <2> QED
    BY <2>1, <2>2
<1>13. Permutes(link)
  <2> SUFFICES ASSUME NEW r \in Subjects, NEW s \in Subjects, link[r] = link[s] PROVE r = s
    BY <1>12 DEF Permutes, IsInjective
  <2>1. CASE r \in Range(lst) /\ s \in Range(lst)
    <3>1. PICK k \in 1 .. L, l \in 1 .. L : r = lst[k] /\ s = lst[l]
      BY <1>4, <2>1
    <3>2. lst[nx[k]] = lst[nx[l]]
      BY <1>7, <3>1
    <3>3. nx[k] = nx[l]
      BY <1>3, <1>8, <3>2
    <3> QED
      BY <1>9, <3>1, <3>3
  <2>2. CASE r \notin Range(lst) \/ s \notin Range(lst)
    BY <1>10, <1>11, <2>2
  <2> QED
    BY <2>1, <2>2
<1>14. ASSUME NEW s \in Subjects PROVE Orbit(link, s) = Orbit(x.link, s)
  <2>1. CASE s \notin Range(lst)
    <3>1. link[s] = s /\ x.link[s] = s
      BY <1>10, <2>1
    <3> QED
      BY <1>13, <3>1, AloneOrbit
  <2>2. CASE s \in Range(lst)
    <3> DEFINE C == Orbit(x.link, s)
    <3>1. s \in C /\ C \subseteq Range(lst)
      BY <1>4, <2>2, OrbitFacts, RingListed
    <3>2. \A r \in Range(lst) : r \in C <=> x.thread[r] = x.thread[s]
      BY <2>2
    <3> HIDE DEF C
    <3>3. C \in SUBSET Subjects
      BY <1>4, <3>1
    <3>4. Closed(link, C)
      <4> SUFFICES ASSUME NEW r \in C PROVE link[r] \in C
        BY DEF Closed
      <4>1. PICK k \in 1 .. L : r = lst[k]
        BY <1>4, <3>1
      <4>2. link[r] = lst[nx[k]] /\ nx[k] \in 1 .. L /\ x.thread[lst[nx[k]]] = x.thread[lst[k]]
        BY <1>7, <1>8, <4>1
      <4> QED
        BY <1>4, <3>1, <3>2, <4>1, <4>2
    <3>5. ASSUME NEW T \in SUBSET C, T # {}, Closed(link, T) PROVE T = C
      <4> DEFINE K == {k \in 1 .. L : lst[k] \in T}
      <4>1. \A k \in K : nx[k] \in K
        BY <1>7, <1>8, <3>5 DEF Closed
      <4>2. PICK k \in K : TRUE
        BY <1>4, <3>1, <3>5
      <4>3. ASSUME NEW r \in C PROVE r \in T
        <5>1. PICK j \in 1 .. L : r = lst[j]
          BY <1>4, <3>1
        <5>2. lst[k] \in C /\ lst[k] \in Range(lst) /\ r \in Range(lst)
          BY <3>1, <4>2
        <5>3. key[j] = key[k]
          BY <3>2, <5>1, <5>2
        <5>4. K \in SUBSET (1 .. L)
          OBVIOUS
        <5>5. j \in K
          <6> HIDE DEF K, key, L
          <6> QED
            BY ONLY <1>2, <1>5, <1>6, <4>1, <4>2, <5>3, <5>4, j \in 1 .. L, k \in K, FollowsAll
        <5> QED
          BY <5>1, <5>5
      <4> QED
        BY <4>3
    <3>6. Orbit(link, s) = C
      BY <1>13, <3>1, <3>3, <3>4, <3>5, OrbitIs
    <3> QED
      BY <3>6 DEF C
  <2> QED
    BY <2>1, <2>2
<1> QED
  BY <1>10, <1>13, <1>14

\* The subjects have been sorted.
LEMMA SortWhole ==
  ASSUME IsFiniteSet(Ids), IsFiniteSet(Subjects), None \notin Ids, None \notin Subjects,
         Rank \in [Subjects -> Int], IsInjective(Rank),
         IInv, Peopled(t), NEW order \in {"date", "count"}, Len(t.list) > 1,
         NEW x, x = CountSubjects(t), NEW lst \in SetToSeqs(Range(t.list)),
         \A i, j \in DOMAIN lst : i < j => ~Precedes(x, lst[j], lst[i], order),
         NEW y, y = IF mode = "thread" THEN RelinkRings([x EXCEPT !.list = lst])
                    ELSE [x EXCEPT !.list = lst]
  PROVE  /\ Whole(y) /\ ArtsRight(y, art) /\ ArticlesRight(y, art) /\ NearRight(y)
         /\ y.parent = t.parent
<1> DEFINE z == [x EXCEPT !.list = lst]
<1>1. Whole(t) /\ ArtsRight(t, art) /\ ArticlesRight(t, art) /\ NearRight(t)
  BY DEF IInv
<1>2. t \in State /\ Listed(t) /\ Permutes(t.link) /\ t.list \in Seq(Subjects)
  BY <1>1 DEF Whole, Sound, Hung, State
<1>3. /\ x \in State
      /\ x.held = t.held /\ x.kids = t.kids /\ x.subj = t.subj /\ x.date = t.date
      /\ x.parent = t.parent
      /\ x.list = t.list /\ x.link = t.link /\ x.thread = t.thread
      /\ x.articles = t.articles /\ x.hashed = t.hashed /\ x.short = t.short
  BY <1>2, CountFields
<1>4. lst \in Seq(Subjects) /\ IsInjective(lst) /\ Range(lst) = Range(t.list)
  <2>1. Range(t.list) \subseteq Subjects
    BY <1>2 DEF Range
  <2>2. IsFiniteSet(Range(t.list))
    BY <2>1, FS_Subset
  <2>3. lst \in Seq(Range(t.list)) /\ IsInjective(lst) /\ Range(lst) = Range(t.list)
    BY <2>2, SeqsOfSet
  <2> QED
    BY <2>1, <2>3
<1>5. /\ z \in State
      /\ z.held = t.held /\ z.kids = t.kids /\ z.subj = t.subj /\ z.date = t.date
      /\ z.parent = t.parent
      /\ z.list = lst /\ z.link = t.link /\ z.thread = t.thread
      /\ z.articles = t.articles /\ z.hashed = t.hashed /\ z.short = t.short
  <2> HIDE DEF z
  <2>1. z = [x EXCEPT !.list = lst]
    BY DEF z
  <2>2. /\ z \in State
        /\ z.held = x.held /\ z.kids = x.kids /\ z.subj = x.subj /\ z.date = x.date
        /\ z.parent = x.parent
        /\ z.list = lst /\ z.link = x.link /\ z.thread = x.thread
        /\ z.articles = x.articles /\ z.hashed = x.hashed /\ z.short = x.short
    BY ONLY <1>3, <1>4, <2>1, ListFields
  <2> QED
    BY <1>3, <2>2
<1>6. Range(z.list) = Range(t.list) /\ IsInjective(z.list)
  BY <1>4, <1>5
<1>7. \A s \in Subjects \ Range(t.list) : t.link[s] = s
  BY <1>2 DEF Listed
<1>8. CASE mode # "thread"
  <2>1. y = z
    BY <1>8
  <2> HIDE DEF z
  <2>2. Whole(y)
    BY <1>1, <1>2, <1>5, <1>6, <1>7, <2>1, RelistWhole
  <2>3. ArtsRight(y, art) /\ ArticlesRight(y, art)
    <3>1. /\ y.held = t.held /\ y.subj = t.subj /\ y.date = t.date /\ y.articles = t.articles
          /\ Range(y.list) = Range(t.list)
      BY <1>5, <1>6, <2>1
    <3> QED
      BY ONLY <1>1, <3>1, RelistRight
  <2>4. NearRight(y)
    <3>1. t.list # <<>>
      BY <1>2
    <3>2. y.link = t.link /\ y.short = t.short /\ y.hashed = t.hashed
          /\ Range(y.list) = Range(t.list)
      BY <1>5, <1>6, <2>1
    <3> QED
      BY ONLY <1>1, <3>1, <3>2 DEF NearRight, IsNear
  <2> QED
    BY <1>5, <2>1, <2>2, <2>3, <2>4
<1>9. CASE mode = "thread"
  <2> DEFINE link == NewLink(z)
  <2>1. y = RelinkRings(z)
    BY <1>9
  <2> HIDE DEF z
  <2>2. Dated(x, t)
    BY <1>3 DEF Dated
  <2>3. Together(t, lst)
    BY <1>1, <1>4, <1>9, <2>2, SortedTogether
  <2>4. Together(z, z.list)
    BY <1>5, <2>3 DEF Together
  <2>5. \A r, s \in Range(z.list) : z.thread[r] = z.thread[s] <=> r \in Orbit(z.link, s)
    <3>1. \A r, s \in Range(t.list) : t.thread[r] = t.thread[s] <=> r \in Orbit(t.link, s)
      BY <1>1, ThreadIsRing
    <3> QED
      BY <1>5, <1>6, <3>1
  <2>6. Permutes(z.link) /\ \A s \in Subjects \ Range(z.list) : z.link[s] = s
    BY <1>2, <1>5, <1>6, <1>7
  <2>7. /\ Permutes(link)
        /\ \A s \in Subjects : Orbit(link, s) = Orbit(z.link, s)
        /\ \A s \in Subjects \ Range(z.list) : link[s] = s
    BY <1>5, <1>6, <2>4, <2>5, <2>6, RelinkOrbits
  <2>8. y = [z EXCEPT !.link = link]
    BY <1>5, <2>1, RelinkIs
  <2> HIDE DEF link
  <2>9. link \in [Subjects -> Subjects]
    BY <2>7 DEF Permutes
  <2>10. /\ y \in State
         /\ y.held = z.held /\ y.kids = z.kids /\ y.subj = z.subj /\ y.date = z.date
         /\ y.parent = z.parent
         /\ y.list = z.list /\ y.link = link /\ y.thread = z.thread
         /\ y.articles = z.articles /\ y.hashed = z.hashed /\ y.short = z.short
    BY ONLY <1>5, <2>8, <2>9 DEF State
  <2>11. Whole(y)
    <3>1. /\ y.held = t.held /\ y.kids = t.kids /\ y.subj = t.subj /\ y.date = t.date
          /\ y.parent = t.parent /\ y.thread = t.thread /\ y.short = t.short
          /\ IsInjective(y.list) /\ Range(y.list) = Range(t.list) /\ Permutes(y.link)
          /\ \A s \in Subjects : Orbit(y.link, s) = Orbit(t.link, s)
          /\ \A s \in Subjects \ Range(t.list) : y.link[s] = s
          /\ y \in State
      BY <1>5, <1>6, <2>7, <2>10
    <3> QED
      BY ONLY <1>1, <3>1, IsFiniteSet(Subjects), RelistWhole
  <2>12. ArtsRight(y, art) /\ ArticlesRight(y, art)
    <3>1. /\ y.held = t.held /\ y.subj = t.subj /\ y.date = t.date /\ y.articles = t.articles
          /\ Range(y.list) = Range(t.list)
      BY <1>5, <1>6, <2>10
    <3> QED
      BY ONLY <1>1, <3>1, RelistRight
  <2>13. NearRight(y)
    <3>1. t.list # <<>>
      BY <1>2
    <3> QED
      BY <1>1, <1>5, <1>9, <2>10, <3>1 DEF NearRight
  <2> QED
    BY <1>5, <2>10, <2>11, <2>12, <2>13
<1> QED
  BY <1>8, <1>9

-----------------------------------------------------------------------------
\* What the invariant says

\* An element of a sequence without repetitions is at one place.
LEMMA CountOnce ==
  ASSUME NEW lst, IsInjective(lst), NEW m
  PROVE  Cardinality({k \in DOMAIN lst : lst[k] = m}) = IF m \in Range(lst) THEN 1 ELSE 0
<1> DEFINE at == {k \in DOMAIN lst : lst[k] = m}
<1>1. CASE m \in Range(lst)
  <2>1. PICK k \in DOMAIN lst : lst[k] = m
    BY <1>1 DEF Range
  <2>2. at = {k}
    BY <2>1 DEF IsInjective
  <2>3. Cardinality({k}) = 1
    BY FS_Singleton
  <2> QED
    BY <1>1, <2>2, <2>3
<1>2. CASE m \notin Range(lst)
  <2>1. at = {}
    BY <1>2 DEF Range
  <2>2. Cardinality({}) = 0
    BY FS_EmptySet
  <2> QED
    BY <1>2, <2>1, <2>2
<1> QED
  BY <1>1, <1>2

\* It has as many elements as places.
LEMMA CountAll ==
  ASSUME NEW D, NEW lst \in Seq(D), IsInjective(lst)
  PROVE  Cardinality(Range(lst)) = Len(lst)
<1>1. Len(lst) \in Nat /\ lst \in [1 .. Len(lst) -> Range(lst)]
  BY DEF Range
<1>2. lst \in Bijection(1 .. Len(lst), Range(lst))
  BY <1>1 DEF Bijection, Injection, Surjection, Range
<1> QED
  BY <1>1, <1>2, FS_CountingElements DEF ExistsBijection

\* No article is among its own ancestors.
LEMMA WholeNoCircle ==
  ASSUME IsFiniteSet(Ids), None \notin Ids, NEW x, Whole(x), NEW m \in Ids
  PROVE  m \notin Range(Ancestors(x, m))
<1> DEFINE up == Ancestors(x, m)
           N == Cardinality(Ids)
<1>1. x.parent \in [Ids -> Ids \cup {None}] /\ Acyclic(x)
  BY DEF Whole, Sound, State
<1>2. /\ N \in Nat /\ up \in [1 .. N -> Ids \cup {None}]
      /\ \A k \in 1 .. N :
            up[k] = IF k = 1 THEN x.parent[m]
                    ELSE IF up[k - 1] = None THEN None ELSE x.parent[up[k - 1]]
  BY <1>1, AncestorFacts
<1> HIDE DEF up, N
<1>d. DOMAIN up = 1 .. N
  BY <1>2
<1> SUFFICES ASSUME NEW k \in 1 .. N, up[k] = m PROVE FALSE
  BY <1>d DEF Range, up
<1>3. ASSUME NEW j \in 1 .. k PROVE up[j] # None
  <2> SUFFICES ASSUME up[j] = None PROVE FALSE
    OBVIOUS
  <2> DEFINE T == {i \in 0 .. N : i < j \/ up[i] = None}
  <2>1. 0 \in T
    BY <1>2
  <2>2. ASSUME NEW i \in 1 .. N, i - 1 \in T PROVE i \in T
    <3>1. i < j \/ i = j \/ (i - 1 >= j /\ i # 1)
      OBVIOUS
    <3>2. i - 1 >= j => up[i - 1] = None
      BY <2>2
    <3>3. i \in 0 .. N
      OBVIOUS
    <3> QED
      BY <1>2, <3>1, <3>2, <3>3
  <2>3. \A i \in 0 .. N : i \in T
    <3> HIDE DEF T
    <3> QED
      BY <1>2, <2>1, <2>2, UpTo
  <2>4. k \in 0 .. N /\ ~(k < j)
    BY <1>2
  <2>5. up[k] = None
    BY <2>3, <2>4
  <2> QED
    BY <2>5
<1> DEFINE S == {up[j] : j \in 1 .. k}
<1>4. \A j \in 1 .. k : j \in 1 .. N /\ up[j] \in Ids
  BY <1>2, <1>3
<1>5. S \in SUBSET Ids /\ S # {}
  BY <1>4
<1>6. ASSUME NEW a \in S PROVE x.parent[a] \in S
  <2>1. PICK j \in 1 .. k : a = up[j]
    OBVIOUS
  <2>2. CASE j < k
    <3>1. j + 1 \in 1 .. k /\ j + 1 \in 1 .. N /\ j + 1 # 1 /\ (j + 1) - 1 = j
      BY <1>2, <2>2
    <3>2. up[j + 1] = x.parent[up[j]]
      BY <1>2, <1>3, <3>1
    <3> QED
      BY <2>1, <3>1, <3>2
  <2>3. CASE j = k
    <3>1. 1 \in 1 .. k /\ 1 \in 1 .. N /\ up[1] = x.parent[m]
      BY <1>2
    <3> QED
      BY <2>1, <2>3, <3>1
  <2> QED
    BY <1>2, <2>1, <2>2, <2>3
<1> HIDE DEF S
<1> QED
  BY <1>1, <1>5, <1>6 DEF Acyclic

\* The ancestors of an article have subjects of its ring.
LEMMA AncestorsInRing ==
  ASSUME IsFiniteSet(Ids), IsFiniteSet(Subjects), None \notin Ids, None \notin Subjects,
         NEW x, Whole(x), NEW m \in PlacedIn(x),
         NEW a \in Range(Ancestors(x, m)) \ {None}
  PROVE  x.subj[a] # None /\ x.subj[a] \in Ring(x, x.subj[m])
<1> DEFINE up == Ancestors(x, m)
           N == Cardinality(Ids)
           s == x.subj[m]
           Ok(b) == x.subj[b] \in Subjects /\ x.subj[b] \in Orbit(x.link, s)
<1>1. /\ x.parent \in [Ids -> Ids \cup {None}] /\ x.subj \in [Ids -> Subjects \cup {None}]
      /\ Permutes(x.link) /\ \A b \in Ids : Kin(x, b)
  BY DEF Whole, Sound, State, Hung
<1>2. m \in Ids /\ s \in Subjects
  BY <1>1 DEF PlacedIn
<1>3. /\ N \in Nat /\ up \in [1 .. N -> Ids \cup {None}]
      /\ \A k \in 1 .. N :
            up[k] = IF k = 1 THEN x.parent[m]
                    ELSE IF up[k - 1] = None THEN None ELSE x.parent[up[k - 1]]
  BY <1>1, <1>2, AncestorFacts
<1>4. ASSUME NEW b \in Ids, Ok(b), x.parent[b] # None PROVE Ok(x.parent[b])
  <2>1. x.subj[x.parent[b]] \in Subjects /\ x.subj[x.parent[b]] \in Orbit(x.link, x.subj[b])
    BY <1>1, <1>4 DEF Kin
  <2>2. Orbit(x.link, x.subj[b]) = Orbit(x.link, s)
    BY <1>1, <1>2, <1>4, OrbitClass
  <2> QED
    BY <2>1, <2>2
<1>5. Ok(m)
  BY <1>1, <1>2, OrbitFacts
<1> HIDE DEF up, N, Ok
<1> DEFINE T == {i \in 0 .. N : i = 0 \/ up[i] = None \/ (up[i] \in Ids /\ Ok(up[i]))}
<1>6. 0 \in T
  BY <1>3
<1>7. ASSUME NEW i \in 1 .. N, i - 1 \in T PROVE i \in T
  <2>1. i \in 0 .. N
    OBVIOUS
  <2>2. up[i] \in Ids \cup {None}
    BY <1>3
  <2>3. CASE i = 1
    BY <1>2, <1>3, <1>4, <1>5, <2>1, <2>2, <2>3
  <2>4. CASE i # 1
    <3>1. i - 1 # 0 /\ i - 1 \in 1 .. N
      BY ONLY <1>3, <2>4, i \in 1 .. N
    <3>2. up[i - 1] = None \/ (up[i - 1] \in Ids /\ Ok(up[i - 1]))
      BY <1>7, <3>1
    <3> QED
      BY <1>3, <1>4, <2>1, <2>2, <2>4, <3>2
  <2> QED
    BY <2>3, <2>4
<1>8. \A i \in 0 .. N : i \in T
  <2> HIDE DEF T
  <2> QED
    BY <1>3, <1>6, <1>7, UpTo
<1>9. PICK k \in 1 .. N : up[k] = a
  <2>1. DOMAIN up = 1 .. N
    BY <1>3
  <2> QED
    BY <2>1 DEF Range, up
<1>10. Ok(a)
  <2>1. k \in 0 .. N /\ k # 0
    OBVIOUS
  <2> QED
    BY <1>8, <1>9, <2>1
<1> QED
  BY <1>10, RingIsOrbit, None \notin Subjects DEF Ok

\* The parts of ThreadsWhole, one after the other.
LEMMA WholeForest ==
  ASSUME IsFiniteSet(Ids), IsFiniteSet(Subjects), None \notin Ids, None \notin Subjects,
         Whole(t), Peopled(t)
  PROVE  Forest
<1>1. /\ t \in State /\ Hung(t, PlacedIn(t), t.subj) /\ Bare(t) /\ \A a \in Ids : Kin(t, a)
      /\ Permutes(t.link) /\ t.kids \in [Ids -> Seq(Ids)]
      /\ t.subj \in [Ids -> Subjects \cup {None}] /\ t.list \in Seq(Subjects)
  BY DEF Whole, Sound, State, Hung
<1>2. Placed = PlacedIn(t) /\ Range(t.list) \subseteq Subjects
  BY <1>1 DEF Placed, PlacedIn, Range
<1>3. NoCircle
  BY WholeNoCircle DEF NoCircle
<1>4. InOneList
  <2>1. ASSUME NEW m \in Ids, NEW p \in Ids
        PROVE  Cardinality({k \in DOMAIN t.kids[p] : t.kids[p][k] = m})
                  = IF m \in Placed /\ t.parent[m] = p THEN 1 ELSE 0
    <3>1. IsInjective(t.kids[p]) /\ Range(t.kids[p]) = {c \in Placed : t.parent[c] = p}
      BY <1>1, <1>2 DEF Hung
    <3> QED
      BY <3>1, CountOnce
  <2>2. ASSUME NEW m \in Ids, NEW s \in Range(t.list)
        PROVE  Cardinality({k \in DOMAIN t.thread[s] : t.thread[s][k] = m})
                  = IF m \in Placed /\ t.parent[m] = None /\ s \in Ring(t, t.subj[m])
                    THEN 1 ELSE 0
    <3>1. s \in Subjects
      BY <1>2
    <3>2. IsInjective(t.thread[s])
          /\ Range(t.thread[s]) = {c \in Placed : t.parent[c] = None
                                                  /\ t.subj[c] \in Orbit(t.link, s)}
      BY <1>1, <1>2, <3>1 DEF Hung
    <3>3. m \in Placed => (t.subj[m] \in Orbit(t.link, s) <=> s \in Ring(t, t.subj[m]))
      <4> SUFFICES ASSUME m \in Placed
                   PROVE  t.subj[m] \in Orbit(t.link, s) <=> s \in Ring(t, t.subj[m])
        OBVIOUS
      <4> DEFINE r == t.subj[m]
      <4>1. r \in Subjects /\ Ring(t, r) = Orbit(t.link, r)
        BY <1>1, RingIsOrbit DEF Placed
      <4> HIDE DEF r
      <4>2. r \in Orbit(t.link, s) => s \in Orbit(t.link, r)
        BY <1>1, <3>1, OrbitClass, OrbitFacts
      <4>3. s \in Orbit(t.link, r) => r \in Orbit(t.link, s)
        BY <1>1, <4>1, OrbitClass, OrbitFacts
      <4> QED
        BY <4>1, <4>2, <4>3 DEF r
    <3>4. m \in Range(t.thread[s])
             <=> (m \in Placed /\ t.parent[m] = None /\ s \in Ring(t, t.subj[m]))
      BY <3>2, <3>3
    <3> QED
      BY ONLY <3>2, <3>4, CountOnce
  <2> QED
    BY <2>1, <2>2 DEF InOneList
<1>5. RingsAreThreads
  <2> SUFFICES ASSUME NEW r \in Range(t.list), NEW s \in Range(t.list)
               PROVE  t.thread[r] = t.thread[s] <=> s \in Ring(t, r)
    BY DEF RingsAreThreads
  <2>1. t.thread[s] = t.thread[r] <=> s \in Orbit(t.link, r)
    BY ThreadIsRing
  <2> QED
    BY <2>1, RingIsOrbit
<1>6. ThreadHoldsSubjects
  BY <1>2, AncestorsInRing DEF ThreadHoldsSubjects
<1>7. GivenUpIsLoose
  <2> SUFFICES ASSUME NEW m \in Ids \ Placed
               PROVE  t.date[m] = 0 /\ t.parent[m] = None /\ t.kids[m] = <<>>
    BY DEF GivenUpIsLoose
  <2>1. t.subj[m] = None
    BY DEF Placed
  <2>2. t.date[m] = 0 /\ t.parent[m] = None
    BY <1>1, <2>1 DEF Bare
  <2>3. Range(t.kids[m]) = {}
    <3> SUFFICES ASSUME NEW a \in Range(t.kids[m]) PROVE FALSE
      OBVIOUS
    <3>1. a \in Ids /\ t.parent[a] = m
      BY <1>1 DEF Hung
    <3>2. t.subj[m] \in Subjects
      BY <1>1, <3>1 DEF Kin
    <3> QED
      BY <2>1, <3>2
  <2>4. t.kids[m] = <<>>
    <3>1. t.kids[m] \in Seq(Ids)
      BY <1>1
    <3> QED
      BY ONLY <2>3, <3>1, EmptyRange
  <2> QED
    BY <2>2, <2>4
<1> QED
  BY <1>3, <1>4, <1>5, <1>6, <1>7 DEF Forest

\* The parts of ThreadsWhole about the lists by subject.
LEMMA RightLists ==
  ASSUME IsFiniteSet(Ids), IsFiniteSet(Subjects), None \notin Ids, None \notin Subjects,
         IInv
  PROVE  SubjectLists
<1>1. Whole(t) /\ ArticlesRight(t, art) /\ NearRight(t)
  BY DEF IInv
<1>2. /\ t \in State /\ Listed(t) /\ Permutes(t.link)
      /\ t.articles \in [Subjects -> Seq(Ids)] /\ t.list \in Seq(Subjects)
      /\ t.short \in [{Prefix[s] : s \in Subjects} -> Subjects \cup {None}]
  BY <1>1 DEF Whole, Sound, State, Hung
<1>3. Range(t.list) \subseteq Subjects
  BY <1>2 DEF Range
<1>4. OldestFirst
  BY <1>1 DEF ArticlesRight, Sorted, OldestFirst
<1>5. ArticlesOfSubject
  <2> SUFFICES ASSUME NEW s \in Subjects
               PROVE  /\ Cardinality(Range(t.articles[s])) = Len(t.articles[s])
                      /\ Range(t.articles[s]) = ThreadedIds(art, s)
    BY DEF ArticlesOfSubject, ThreadedIds
  <2>1. IsInjective(t.articles[s]) /\ Range(t.articles[s]) = ThreadedIds(art, s)
    BY <1>1 DEF ArticlesRight, ThreadedIds
  <2>2. t.articles[s] \in Seq(Ids)
    BY <1>2
  <2> QED
    BY ONLY <2>1, <2>2, CountAll
<1>6. NoFreedSubject
  <2>1. \A m \in Placed : t.subj[m] \in Range(t.list)
    BY <1>2 DEF Listed, Placed
  <2>2. ASSUME NEW s \in Range(t.list) PROVE Ring(t, s) \subseteq Range(t.list)
    <3>1. \A r \in Subjects \ Range(t.list) : t.link[r] = r
      BY <1>2 DEF Listed
    <3>2. Orbit(t.link, s) \subseteq Range(t.list)
      BY <1>2, <1>3, <3>1, RingListed
    <3> QED
      BY <3>2, RingIsOrbit
  <2> QED
    BY <2>1, <2>2 DEF NoFreedSubject
<1>7. NearJoinedInSubjectMode
  <2> SUFFICES ASSUME JoinSubjects, mode = "subject",
                      NEW r \in Range(t.list), NEW s \in Range(t.list),
                      Prefix[r] # None, Prefix[r] = Prefix[s]
               PROVE  s \in Ring(t, r)
    BY DEF NearJoinedInSubjectMode, NearAreJoined
  <2>1. IsNear(t, r) /\ IsNear(t, s)
    BY <1>1 DEF NearRight
  <2> DEFINE c == t.short[Prefix[r]]
  <2>2. c \in Subjects /\ r \in Orbit(t.link, c) /\ s \in Orbit(t.link, c)
    <3>1. r \in Subjects
      BY <1>3
    <3> QED
      BY <1>2, <2>1, <3>1 DEF IsNear
  <2> HIDE DEF c
  <2>3. Orbit(t.link, r) = Orbit(t.link, c)
    BY <1>2, <2>2, OrbitClass
  <2> QED
    BY <2>2, <2>3, RingIsOrbit
<1> QED
  BY <1>4, <1>5, <1>6, <1>7 DEF SubjectLists

-----------------------------------------------------------------------------
\* The invariant

\* The articles that come, with what the assumption says of them.
LEMMA PostFacts ==
  ASSUME ThreadingAssumption
  PROVE  \A n \in Nums : /\ Posts[n].id \in Ids /\ Posts[n].subj \in Subjects
                         /\ Posts[n].date \in Int
<1> DEFINE R == [id : Ids, subj : Subjects, date : Int]
<1>1. Posts \in Seq(R)
  BY DEF ThreadingAssumption
<1>2. ASSUME NEW n \in Nums PROVE Posts[n] \in R
  <2> HIDE DEF R
  <2>1. n \in DOMAIN Posts
    BY DEF Nums
  <2> QED
    BY ONLY <1>1, <2>1
<1> QED
  BY <1>2

\* Every subject of the list has an article.
LEMMA SubjectsPeopled ==
  ASSUME ThreadingAssumption, IInv
  PROVE  Peopled(t)
<1>1. ArtsRight(t, art)
  BY DEF IInv
<1>2. \A n \in Nums : Posts[n].id \in Ids
  BY PostFacts
<1> SUFFICES ASSUME NEW s \in Range(t.list) PROVE \E a \in Ids : t.subj[a] = s
  BY DEF Peopled
<1>3. PICK n \in There(art) : Posts[n].subj = s
  BY <1>1 DEF ArtsRight
<1>4. n \in Nums /\ t.subj[Posts[n].id] = s
  BY <1>1, <1>3 DEF ArtsRight, There
<1> QED
  BY <1>2, <1>4

\* Nothing has come: the invariant holds.
LEMMA InitRight ==
  ASSUME ThreadingAssumption, Init
  PROVE  IInv
<1>0. None \notin Ids
  BY DEF ThreadingAssumption
<1>1. /\ IsFiniteSet(Subjects) /\ None \notin Subjects
  BY DEF ThreadingAssumption
<1>2. /\ t.held = [m \in Ids |-> "none"] /\ t.parent = [m \in Ids |-> None]
      /\ t.kids = [m \in Ids |-> <<>>] /\ t.subj = [m \in Ids |-> None]
      /\ t.date = [m \in Ids |-> 0] /\ t.list = <<>>
      /\ t.link = [s \in Subjects |-> s] /\ t.thread = [s \in Subjects |-> <<>>]
      /\ t.articles = [s \in Subjects |-> <<>>]
      /\ t.short = [p \in {Prefix[s] : s \in Subjects} |-> None]
      /\ art = [n \in Nums |-> "new"] /\ mode \in Modes
  BY DEF Init
<1>3. t \in State
  BY DEF Init, State
<1>4. IsInjective(<<>>) /\ Range(<<>>) = {} /\ \A x : Sorted(x, <<>>)
  BY DEF IsInjective, Range, Sorted
<1>5. PlacedIn(t) = {}
  BY <1>2 DEF PlacedIn
<1>6. Hung(t, {}, t.subj)
  <2>1. Permutes(t.link)
    BY <1>2 DEF Permutes, IsInjective
  <2>2. \A s \in Subjects : Orbit(t.link, s) \subseteq Subjects
    BY <1>1, <2>1, OrbitFacts
  <2> QED
    BY <1>2, <1>4, <2>1, <2>2 DEF Hung
<1>7. Acyclic(t)
  <2> SUFFICES ASSUME NEW S \in SUBSET Ids, S # {} PROVE \E a \in S : t.parent[a] \notin S
    BY DEF Acyclic
  <2>1. \A a \in S : t.parent[a] = None
    BY <1>2
  <2> QED
    <3>1. PICK a \in S : a \in Ids
      OBVIOUS
    <3>2. t.parent[a] = None /\ None \notin S
      BY <1>0, <2>1
    <3> QED
      BY <3>1, <3>2
<1>8. Bare(t) /\ \A a \in Ids : Kin(t, a)
  BY <1>2 DEF Bare, Kin
<1>9. Listed(t)
  BY <1>2, <1>4 DEF Listed
<1>10. Whole(t)
  BY <1>3, <1>5, <1>6, <1>7, <1>8, <1>9 DEF Whole, Sound
<1>11. There(art) = {}
  BY <1>2 DEF There
<1>12. ArtsRight(t, art)
  BY <1>2, <1>4, <1>11 DEF ArtsRight
<1>13. ArticlesRight(t, art)
  <2>1. \A s \in Subjects : {i \in Nums : art[i] = "threaded" /\ Posts[i].subj = s} = {}
    BY <1>2
  <2> QED
    BY <1>2, <1>4, <2>1 DEF ArticlesRight
<1>14. NearRight(t)
  BY <1>2, <1>4 DEF NearRight
<1> QED
  BY <1>2, <1>10, <1>12, <1>13, <1>14 DEF IInv

\* No real article but the one that is threaded once more gets a parent.
ParentsKept ==
    \A m \in Ids :
       t.held[m] = "real" /\ t'.parent[m] # t.parent[m] =>
          \/ t'.parent[m] = None
          \/ \E n \in Nums : /\ Posts[n].id = m
                             /\ \E refs \in LateLists : Rethread(n, refs)

\* Every action keeps the invariant, and moves no article that is not its own.
LEMMA NextRight ==
  ASSUME ThreadingAssumption, Regular, IInv, Next
  PROVE  IInv' /\ ParentsKept
<1>1. /\ IsFiniteSet(Ids) /\ IsFiniteSet(Subjects) /\ None \notin Ids /\ None \notin Subjects
      /\ RefLists \subseteq Seq(Ids) /\ LateLists \subseteq Seq(Ids)
      /\ Rank \in [Subjects -> Int]
  BY DEF ThreadingAssumption
<1>2. \A n \in Nums : Posts[n].id \in Ids /\ Posts[n].subj \in Subjects
                      /\ Posts[n].date \in Int \ {0}
  BY PostFacts DEF Regular, EveryArticleDated
<1>3. mode \in Modes /\ art \in [Nums -> {"new", "threaded", "duplicate", "missing"}]
  BY DEF IInv
<1>4. ASSUME NEW n \in Nums, NEW refs \in RefLists, Arrive(n, refs) PROVE IInv' /\ ParentsKept
  <2> DEFINE p == Posts[n]
  <2>1. art[n] = "new" /\ mode' = mode
    BY <1>4 DEF Arrive
  <2>2. CASE t.held[p.id] = "real"
    <3>1. t' = UncacheDuplicate(SetSubject(t, p.subj), p.subj)
          /\ art' = [art EXCEPT ![n] = "duplicate"]
      BY <1>4, <2>2 DEF Arrive
    <3>2. t' = t
      <4> DEFINE s == p.subj
                 y == UncacheDuplicate(SetSubject(t, s), s)
      <4>1. s = Posts[n].subj /\ y = UncacheDuplicate(SetSubject(t, s), s) /\ t' = y
        BY <3>1
      <4> HIDE DEF s, y
      <4>2. \A i \in Nums : Posts[i].id \in Ids /\ Posts[i].subj \in Subjects
        BY <1>2
      <4>3. y = t
        BY ONLY <1>1, <2>1, <2>2, <4>1, <4>2, Regular, IInv, n \in Nums, ArriveDuplicate DEF p
      <4> QED
        BY <4>1, <4>3
    <3>3. There(art') = There(art)
      BY <1>3, <2>1, <3>1 DEF There
    <3>4. ArtsRight(t', art')
      <4>1. ArtsRight(t, art)
        BY DEF IInv
      <4>2. \A i \in Nums : art'[i] = "missing" => art[i] = "missing"
        BY <1>3, <3>1
      <4> QED
        BY <3>2, <3>3, <4>1, <4>2 DEF ArtsRight
    <3>5. ArticlesRight(t', art')
      <4>1. ArticlesRight(t, art)
        BY DEF IInv
      <4>2. \A s \in Subjects : {i \in Nums : art'[i] = "threaded" /\ Posts[i].subj = s}
                                   = {i \in Nums : art[i] = "threaded" /\ Posts[i].subj = s}
        BY <1>3, <2>1, <3>1
      <4> QED
        BY <3>2, <4>1, <4>2 DEF ArticlesRight
    <3>6. art' \in [Nums -> {"new", "threaded", "duplicate", "missing"}]
      BY <1>3, <3>1
    <3>7. IInv'
      BY <1>3, <2>1, <3>2, <3>4, <3>5, <3>6 DEF IInv, NearRight
    <3> QED
      BY <3>2, <3>7 DEF ParentsKept
  <2>3. CASE t.held[p.id] # "real"
    <3> DEFINE m == p.id
               placed == TakePlace(SetSubject(t, p.subj), m, p)
               left == LeaveFakePlace(placed, m, t.subj[m])
               y == CacheArticle(ThreadArticle(left, m, refs, FALSE), m)
               a == [art EXCEPT ![n] = "threaded"]
    <3>1. t' = y /\ art' = a
      BY <1>4, <2>3 DEF Arrive
    <3>2. /\ Whole(y) /\ ArtsRight(y, a) /\ ArticlesRight(y, a) /\ NearRight(y)
          /\ \A b \in Ids : t.held[b] = "real" => y.parent[b] \in {t.parent[b], None}
      <4>1. /\ refs \in Seq(Ids) /\ m = p.id /\ p = Posts[n]
            /\ placed = TakePlace(SetSubject(t, p.subj), m, p)
            /\ left = LeaveFakePlace(placed, m, t.subj[m])
            /\ y = CacheArticle(ThreadArticle(left, m, refs, FALSE), m)
            /\ a = [art EXCEPT ![n] = "threaded"]
        BY <1>1
      <4>2. t.held[m] # "real" /\ art[n] = "new"
        BY <2>1, <2>3
      <4> HIDE DEF y, a, left, placed, m, p
      <4> QED
        BY ONLY <1>1, <1>2, <4>1, <4>2, IInv, n \in Nums, ArriveNew
    <3>3. a \in [Nums -> {"new", "threaded", "duplicate", "missing"}]
      BY <1>3
    <3> HIDE DEF y, a
    <3>4. Whole(t') /\ ArtsRight(t', art') /\ ArticlesRight(t', art')
          /\ \A b \in Ids : t.held[b] = "real" => t'.parent[b] \in {t.parent[b], None}
      BY <3>1, <3>2
    <3>5. IInv'
      BY <1>3, <2>1, <3>1, <3>2, <3>3, <3>4 DEF IInv, NearRight
    <3> QED
      BY <3>4, <3>5 DEF ParentsKept
  <2> QED
    BY <2>2, <2>3
<1>5. ASSUME NEW n \in Nums, NEW refs \in LateLists, Rethread(n, refs) PROVE IInv' /\ ParentsKept
  <2> DEFINE y == ThreadArticle(t, Posts[n].id, refs, TRUE)
  <2>1. art[n] = "threaded" /\ t' = y /\ mode' = mode /\ art' = art
    BY <1>5 DEF Rethread
  <2>2. /\ Whole(y) /\ ArtsRight(y, art) /\ ArticlesRight(y, art) /\ NearRight(y)
        /\ \A b \in Ids \ {Posts[n].id} : t.held[b] = "real" => y.parent[b] \in {t.parent[b], None}
    <3>1. refs \in Seq(Ids)
      BY <1>1
    <3> QED
      BY <1>1, <1>2, <2>1, <3>1, RethreadWhole
  <2> HIDE DEF y
  <2>3. IInv'
    BY <1>3, <2>1, <2>2 DEF IInv, NearRight
  <2>4. ParentsKept
    BY <1>5, <2>1, <2>2 DEF ParentsKept
  <2> QED
    BY <2>3, <2>4
<1>6. ASSUME NEW n \in Nums, Vanish(n) PROVE IInv' /\ ParentsKept
  <2> DEFINE y == [t EXCEPT !.articles[Posts[n].subj] = RemoveFirst(@, Posts[n].id)]
             a == [art EXCEPT ![n] = "missing"]
  <2>1. n \in MayVanish /\ art[n] = "threaded" /\ t' = y /\ art' = a /\ mode' = mode
    BY <1>6 DEF Vanish
  <2>2. /\ Whole(y) /\ ArtsRight(y, a) /\ ArticlesRight(y, a) /\ NearRight(y)
        /\ y.parent = t.parent
    BY <1>1, <1>2, <2>1, VanishWhole
  <2>3. a \in [Nums -> {"new", "threaded", "duplicate", "missing"}]
    BY <1>3
  <2> HIDE DEF y, a
  <2>4. IInv'
    BY <1>3, <2>1, <2>2, <2>3 DEF IInv, NearRight
  <2> QED
    BY <2>1, <2>2, <2>4 DEF ParentsKept
<1>7. ASSUME NEW order \in Orders, SortSubjects(order) PROVE IInv' /\ ParentsKept
  <2> DEFINE x == CountSubjects(t)
  <2>1. PICK lst \in SetToSeqs(Range(t.list)) :
           /\ \A i, j \in DOMAIN lst : i < j => ~Precedes(x, lst[j], lst[i], order)
           /\ t' = IF mode = "thread" THEN RelinkRings([x EXCEPT !.list = lst])
                   ELSE [x EXCEPT !.list = lst]
    BY <1>7 DEF SortSubjects
  <2>2. Len(t.list) > 1 /\ mode' = mode /\ art' = art
    BY <1>7 DEF SortSubjects
  <2>3. order \in {"date", "count"} /\ IsInjective(Rank)
    BY DEF Regular, ThreadsDiffer
  <2>4. Peopled(t)
    BY SubjectsPeopled
  <2> DEFINE y == IF mode = "thread" THEN RelinkRings([x EXCEPT !.list = lst])
                  ELSE [x EXCEPT !.list = lst]
  <2>5. t' = y
    BY <2>1
  <2>6. /\ Whole(y) /\ ArtsRight(y, art) /\ ArticlesRight(y, art) /\ NearRight(y)
        /\ y.parent = t.parent
    <3>1. \A i, j \in DOMAIN lst : i < j => ~Precedes(x, lst[j], lst[i], order)
      BY <2>1
    <3>2. x = CountSubjects(t) /\ y = IF mode = "thread" THEN RelinkRings([x EXCEPT !.list = lst])
                                      ELSE [x EXCEPT !.list = lst]
      OBVIOUS
    <3> HIDE DEF x, y
    <3> QED
      BY ONLY <1>1, <2>2, <2>3, <2>4, <3>1, <3>2, IInv, lst \in SetToSeqs(Range(t.list)), SortWhole
  <2> HIDE DEF y
  <2>7. IInv'
    BY <1>3, <2>2, <2>5, <2>6 DEF IInv, NearRight
  <2> QED
    BY <2>5, <2>6, <2>7 DEF ParentsKept
<1> QED
  BY <1>4, <1>5, <1>6, <1>7 DEF Next

-----------------------------------------------------------------------------
\* The theorems

\* Whatever articles come, in whatever order and with whatever references, the
\* parts of the invariant hold (thread_article, cache_article, sort_subjects).
THEOREM ThreadsInvariant ==
  ASSUME Regular
  PROVE  Spec => []IInv
<1>1. Init => IInv
  BY ThreadingAssumption, InitRight
<1>2. IInv /\ [Next]_vars => IInv'
  <2> SUFFICES ASSUME IInv, [Next]_vars PROVE IInv'
    OBVIOUS
  <2>1. CASE Next
    BY <2>1, ThreadingAssumption, NextRight
  <2>2. CASE UNCHANGED vars
    BY <2>2 DEF vars, IInv, NearRight
  <2> QED
    BY <2>1, <2>2
<1> QED
  BY <1>1, <1>2, PTL DEF Spec

\* The threads stay a forest whose trees are the rings of subjects, and the
\* lists by subject agree with them.
THEOREM ThreadsAreWhole ==
  ASSUME Regular
  PROVE  Spec => []ThreadsWhole
<1>1. IInv => ThreadsWhole
  <2> SUFFICES ASSUME IInv PROVE ThreadsWhole
    OBVIOUS
  <2>1. IsFiniteSet(Ids) /\ IsFiniteSet(Subjects) /\ None \notin Ids /\ None \notin Subjects
    BY ThreadingAssumption DEF ThreadingAssumption
  <2>2. Whole(t) /\ Peopled(t)
    BY ThreadingAssumption, SubjectsPeopled DEF IInv
  <2>3. Forest /\ SubjectLists
    BY <2>1, <2>2, WholeForest, RightLists
  <2> QED
    BY <2>3 DEF ThreadsWhole
<1> QED
  BY <1>1, ThreadsInvariant, PTL

\* No step moves a real article to another parent but the one that threads it
\* once more.
THEOREM OthersStay ==
  ASSUME Regular
  PROVE  Spec => OthersKeepTheirParents
<1>1. IInv /\ [Next]_vars => [ParentsKept]_vars
  <2> SUFFICES ASSUME IInv, Next PROVE ParentsKept
    BY DEF vars
  <2> QED
    BY ThreadingAssumption, NextRight
<1>2. OthersKeepTheirParents <=> [][ParentsKept]_vars
  BY PTL DEF OthersKeepTheirParents, ParentsKept
<1> QED
  BY <1>1, <1>2, ThreadsInvariant, PTL DEF Spec

=============================================================================
