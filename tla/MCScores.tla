------------------------------ MODULE MCScores ------------------------------
(* A small instance of Scores: three articles and one that comes later.     *)
EXTENDS Integers, Sequences

VARIABLE v

Line(k, h, p, n, f) == [k |-> k, h |-> h, p |-> p, n |-> n, f |-> f]
Rule(h, p, n) == Line("rule", h, p, n, "")
Number(k, n) == Line(k, "", "", n, "")
Of(k, f) == Line(k, "", "", 0, f)
NoFiles == [f \in {"global", "group", "more"} |-> <<>>]
NoScores == [got |-> FALSE, has |-> FALSE, start |-> 0, lines |-> <<>>]

C == INSTANCE Scores WITH
       MaxArt <- 4, Arrivals <- {0, 3}, HoleSets <- {{}, {1}}, Lost <- {3},
       Hits <- [p |-> {1, 2, 4}, q |-> {2, 3}], WithX <- {2, 3}, Replies <- {1},
       Levels <- <<"global", "group">>,
       FileSets <-
         {[NoFiles EXCEPT !["global"] = <<Number("new", 2), Rule("from", "p", -1), Of("inc", "more"), Number("save", 0)>>,
                          !["group"] = <<Rule("from", "q", -1), Number("kill", -2), Of("file", "more")>>,
                          !["more"] = <<Rule("subj", "p", 1), Rule("from", "p", 1)>>],
          [NoFiles EXCEPT !["global"] = <<Number("header", 0), Of("inc", "more"), Rule("x", "q", 3)>>,
                          !["group"] = <<Of("exc", "more"), Rule("from", "bad", 1), Number("reply", 1), Number("save", 0)>>,
                          !["more"] = <<Rule("subj", "q", 2), Rule("x", "p", 1)>>]},
       Edited <- {<<>>}, TypedLines <- {Rule("x", "q", -2), Of("exc", "global")},
       Elig <- {FALSE},
       SavedFirst <- {NoScores, [got |-> TRUE, has |-> TRUE, start |-> 1,
                                 lines |-> <<<<[op |-> "n", n |-> -3], [op |-> "r", n |-> 1]>>>>]},
       MaxKeys <- 2, MaxVisits <- 2

RulesFollowFiles == C!RulesFollowFiles
ScoresAreSums    == C!ScoresAreSums
LookaheadScores  == C!LookaheadScores
ScoresReadBack   == C!ScoresReadBack
SavingEnds       == C!SavingEnds

ScoresSpec == C!Init /\ [][C!Next]_v /\ WF_v(C!SaveLine)
=============================================================================
