----------------------------- MODULE NewsrcStore -----------------------------
(***************************************************************************)
(* What a reader may expect of the newsrc: a value that outlives sessions, *)
(* is opened by one session at a time, is replaced by nothing but what     *)
(* that session has made of it, and at the end of the session is exactly   *)
(* that, unless the user asked for what the session began with.            *)
(***************************************************************************)
EXTENDS Integers

CONSTANTS MaxVer   \* bound: the last value a run goes to

Version == 0 .. MaxVer
Absent == -1

VARIABLES
  durable,    \* the newsrc that the next session would find
  session,    \* "closed", "open" or "abandoned"
  working,    \* the newsrc as the open session has changed it
  base        \* the newsrc as the open session found it

vars == <<durable, session, working, base>>

Init ==
  /\ durable \in {0, Absent}
  /\ session = "closed"
  /\ working = 0
  /\ base = Absent

\* A session begins; a newsrc that is not there is created.
Open ==
  /\ session = "closed"
  /\ session' = "open"
  /\ durable' = IF durable = Absent THEN 0 ELSE durable
  /\ working' = durable'
  /\ base' = durable

\* The user reads an article, subscribes to a group, ...
Change ==
  /\ session = "open" /\ working < MaxVer
  /\ working' = working + 1
  /\ UNCHANGED <<durable, session, base>>

\* A checkpoint, the end of a group, the end of the session.
Save ==
  /\ session = "open"
  /\ durable' = working
  /\ UNCHANGED <<session, working, base>>

\* The user gives up what the session has changed.
Abandon ==
  /\ session = "open"
  /\ session' = "abandoned"
  /\ durable' = base
  /\ UNCHANGED <<working, base>>

\* The session ends, having saved or abandoned everything.
Close ==
  /\ session = "open" => durable = working
  /\ session = "abandoned" => durable = base
  /\ session # "closed"
  /\ session' = "closed"
  /\ working' = 0
  /\ base' = Absent
  /\ UNCHANGED durable

Next == Open \/ Change \/ Save \/ Abandon \/ Close

Spec == Init /\ [][Next]_vars
==============================================================================
