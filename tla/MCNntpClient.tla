----------------------------- MODULE MCNntpClient -----------------------------
(* Small instances of NntpClient. *)
EXTENDS NntpClient

\* The second server has the second group only.
Have == [s \in Sources |-> IF s = Home THEN Groups ELSE {"g2"}]

=============================================================================
