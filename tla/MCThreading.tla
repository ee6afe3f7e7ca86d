---------------------------- MODULE MCThreading ----------------------------
(***************************************************************************)
(* Instances of Threading for TLC.                                         *)
(***************************************************************************)
EXTENDS Threading, TLC

CONSTANTS a, b, c, d, u, v, w

MCIds == {a, b, c, d}
MCSubjects == {u, v, w}

Post(id, subj, date) == [id |-> id, subj |-> subj, date |-> date]

\* Three articles and a second one with the id of the first; d is only ever a
\* reference.  b is as old as c.
MCPosts == <<Post(a, u, 1), Post(b, v, 2), Post(c, u, 2), Post(a, w, 3)>>

\* Lines of up to three references: none, one, an ancestor before or after a
\* descendant, an unknown one at every place, and one named twice.
MCRefLists == {<<>>, <<d, d>>, <<a, d, b>>, <<d, c, a>>}
              \cup {<<m>> : m \in MCIds}
              \cup {<<a, b>>, <<b, a>>, <<b, c>>, <<c, a>>, <<d, b>>, <<d, c>>, <<c, d>>}

MCLateLists == {<<b>>, <<d, a>>}

MCLines == [m \in MCIds |-> 1]
MCRank == u :> 1 @@ v :> 2 @@ w :> 3
MCPrefix == u :> u @@ v :> None @@ w :> u

\* The theorems about Threading speak of this instance too.
ASSUME RegularInstance == Regular
=============================================================================
