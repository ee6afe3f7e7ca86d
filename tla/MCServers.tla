------------------------------ MODULE MCServers ------------------------------
(***************************************************************************)
(* The list of newsgroups (NewsgroupList) and the client that asks news    *)
(* servers about groups (NntpClient).  They have no state in common: the   *)
(* variable part tells which of them a behaviour is of, and the other      *)
(* stands still.                                                           *)
(***************************************************************************)
EXTENDS MCNewsgroupList

\* Two servers and two groups, of which the second server has the second only.
CONSTANTS Home, Others, Groups, Articles, ListAct, AuthNeeded, ForceAuth
Carried == [s \in {Home} \cup Others |-> IF s = Home THEN Groups ELSE {"g2"}]

VARIABLES part, w

C == INSTANCE NntpClient WITH
       Held <- Articles, HeadLen <- 1, BodyLen <- 1, Slots <- 1,
       LostSignon <- FALSE, HalfTyped <- FALSE, MaxFaults <- 1

ASSUME ClientAssumption == C!NntpAssumption

\* While the servers are asked, the list is one that has just been opened.
Opened == /\ active = Names /\ typed = 0 /\ news = 0
          /\ m = OpenNewsrc(Empty0, [i \in DOMAIN Lines |->
                                      [n |-> Lines[i], subscribed |-> TRUE, left |-> 0]], "adding")

ServersInit == C!Init /\ \/ part = "nntp" /\ Opened
                         \/ part = "list" /\ Init

ServersNext ==
  \/ part = "nntp" /\ C!Next /\ UNCHANGED <<part, vars>>
  \/ part = "list" /\ Next /\ UNCHANGED <<part, w>>
  \/ part = "list" /\ UNCHANGED <<part, w, vars>>   \* the bounds may be reached

ServersSpec == ServersInit /\ [][ServersNext]_<<part, w, vars>>

\* Each line that is read answers the command it is taken to answer (nntp_check), and trn
\* never waits for a line that nothing will send.
RepliesPaired == C!RepliesPaired

\* What has been received of an article is what the server has (nntp_readart, nntp_seekart).
BodyIsArticle == C!BodyIsArticle
=============================================================================
