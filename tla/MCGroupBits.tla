----------------------------- MODULE MCGroupBits -----------------------------
(***************************************************************************)
(* GroupBits with two groups and a few posts, some of them to both.        *)
(***************************************************************************)
EXTENDS GroupBits, TLC

CONSTANTS g, h, rc1

MCPosts      == <<{g}, {g, h}, {g, h}>>
MCThreePosts == <<{g}, {g}, {g}>>
MCTwoPosts   == <<{g, h}, {g, h}>>
MCSymmetry   == Permutations({g, h})
MCOneRc      == [x \in Group |-> rc1]
=============================================================================
