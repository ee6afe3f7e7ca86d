---------------------------- MODULE MCSelectors ----------------------------
(***************************************************************************)
(* Small instances of the selectors: of their pages (s) and of what they   *)
(* select and kill (g and typed).  part tells which of the two a behaviour *)
(* is of; the variables of the other do not change.                        *)
(***************************************************************************)
EXTENDS Integers, Sequences

VARIABLES part, s, g, typed

\* Four articles in three subjects, two of them in one thread.
P == INSTANCE Pages WITH
       NItems <- 4, SubjOf <- <<1, 2, 2, 3>>, ThreadOf <- <<1, 1, 2>>,
       Modes <- {"list", "groups", "subject"}, SModes <- {"article", "subject", "thread"},
       Heights <- {2, 3}, MaxItems <- 2, Details <- {"s", "l"},
       Unknown <- {2, 3}, Pickable <- {4}

\* Articles 1 and 2 have one subject, 3 another; the subjects are one thread,
\* and 2 answers 1.  No command makes articles read among the read ones.
S == INSTANCE Selection WITH
       SubjectOf <- <<1, 1, 2>>, ThreadOf <- <<1, 1>>, Parent <- <<0, 1, 0>>, Late <- {2},
       ReaderKeys <- {"j", "m", "M", "k", "J", ",", "Ut", "Us", "Ua", "_+", "_-", "_m", "_M",
                      "c", "c1", "Y", "end"},
       ItemKeys <- {"+", "-", "k", "M", "y", "@", "*"},
       PageKeys <- [reread \in BOOLEAN |->
                      {"U", "?", "X", "D", "J", "Y"} \cup IF reread THEN {} ELSE {"c", "c1", "#"}],
       Performed <- [reread \in BOOLEAN |->
                       {"+", "-", "++", "--", "m"} \cup IF reread THEN {} ELSE {"j", "M", ".", ",", "J"}],
       MaxCommands <- 5

vars == <<part, s, g, typed>>

Init ==
    \/ part = "pages" /\ P!Init /\ g = <<>> /\ typed = 0
    \/ part = "selection" /\ S!Init /\ s = <<>>

Next ==
    \/ part = "pages" /\ P!Next /\ UNCHANGED <<part, g, typed>>
    \/ part = "selection" /\ S!Next /\ UNCHANGED <<part, s>>

Spec == Init /\ [][Next]_vars

\* The numbers of the prompt are those of the page, and it is blank only when there
\* is nothing to show.
PromptIsRight == part = "pages" => P!PromptIsRight /\ P!NeverBlank

\* Pages read forwards and backwards meet.
PagesMeet == [][part = "pages" => P!PageTurn]_vars

\* The marks on the screen are those of the items, and so is the count.
ScreenIsTrue == part = "selection" => S!CountIsRight /\ S!ScreenIsTrue

\* When the selector is left, what is marked as killed is read, nothing that is selected
\* is, and what was put aside comes back.
MarkedAreKilled == part = "selection" => S!MarkedAreKilled /\ S!AllComeBack
=============================================================================
