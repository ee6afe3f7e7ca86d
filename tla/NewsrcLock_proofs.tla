-------------------------- MODULE NewsrcLock_proofs --------------------------
(***************************************************************************)
(* What the newsrc lock guarantees for any number of processes, hosts and  *)
(* newsrc files.                                                           *)
(***************************************************************************)
EXTENDS NewsrcLock, TLAPS

\* While lock_newsrc, open_newsrc or unlock_newsrc is at work, rp is an entry.
AtEntry ==
  \A p \in Proc : pc[p] \in {"create", "fill", "open", "free"} => idx[p] \in Entry

FileTypes ==
  /\ owner \in [File -> Proc \cup {NoProc}]
  /\ writing \in [File -> SUBSET Proc]
  /\ cutoff \subseteq Proc

ProcTypes ==
  /\ pc \in [Proc -> PC]
  /\ idx \in [Proc -> 1 .. Entries + 1]
  /\ named \in [Proc -> SUBSET Entry]
  /\ active \in [Proc -> SUBSET Entry]
  /\ leaving \in [Proc -> BOOLEAN]
  /\ retried \in [Proc -> BOOLEAN]
  /\ AtEntry

\* exit() leaves well-typed processes.
LEMMA GoneType ==
  ASSUME ProcTypes, NEW p \in Proc, Gone(p) PROVE ProcTypes'
BY LockAssumption DEF ProcTypes, AtEntry, Gone, PC, Entry

\* No step spoils the types of the lock files.
LEMMA FileStep ==
  ASSUME FileTypes, NEW p \in Proc, Step(p) PROVE FileTypes'
<1> USE DEF FileTypes
<1>1. CASE Start(p)
  BY <1>1 DEF Start, fileVars
<1>2. CASE Reuse(p)
  BY <1>2 DEF Reuse, fileVars
<1>3. CASE SkipUnavailable(p)
  BY <1>3 DEF SkipUnavailable, fileVars
<1>4. CASE LockFree(p)
  BY <1>4 DEF LockFree, fileVars
<1>5. CASE LockRefused(p)
  BY <1>5 DEF LockRefused, fileVars
<1>6. CASE LockMyPid(p)
  BY <1>6 DEF LockMyPid, RemoveLock
<1>7. CASE LockCreate(p)
  BY <1>7 DEF LockCreate
<1>8. CASE LockCreateFails(p)
  BY <1>8 DEF LockCreateFails, fileVars
<1>9. CASE LockFill(p)
  BY <1>9 DEF LockFill
<1>10. CASE OpenNewsrc(p)
  BY <1>10 DEF OpenNewsrc, fileVars
<1>11. CASE OpenFails(p)
  BY <1>11 DEF OpenFails, RemoveLock
<1>12. CASE UseDone(p)
  BY <1>12 DEF UseDone, fileVars
<1>13. CASE UseRetry(p)
  BY <1>13 DEF UseRetry, fileVars
<1>14. CASE UseGivesUp(p)
  BY <1>14 DEF UseGivesUp, fileVars
<1>15. CASE \E exiting \in BOOLEAN : Unuse(p, exiting)
  BY <1>15 DEF Unuse, fileVars
<1>16. CASE UnuseWritten(p)
  BY <1>16 DEF UnuseWritten, fileVars
<1>17. CASE UnlockRemove(p)
  BY <1>17 DEF UnlockRemove, RemoveLock
<1>18. CASE UnlockFree(p)
  BY <1>18 DEF UnlockFree, fileVars
<1>19. CASE UnuseDone(p)
  BY <1>19 DEF UnuseDone, fileVars
<1>20. CASE SignalStarting(p)
  BY <1>20 DEF SignalStarting, fileVars
<1>21. CASE SignalRunning(p)
  BY <1>21 DEF SignalRunning, fileVars
<1>22. CASE Kill(p)
  BY <1>22 DEF Kill, Dropped
<1> QED
  BY <1>1, <1>2, <1>3, <1>4, <1>5, <1>6, <1>7, <1>8, <1>9, <1>10, <1>11,
     <1>12, <1>13, <1>14, <1>15, <1>16, <1>17, <1>18, <1>19, <1>20, <1>21,
     <1>22
     DEF Step

\* No step spoils the types of the processes.
LEMMA ProcStep ==
  ASSUME ProcTypes, NEW p \in Proc, Step(p) PROVE ProcTypes'
<1> USE LockAssumption DEF ProcTypes, AtEntry, PC, Starting, Unlocking, Entry, Goto
<1>1. CASE Start(p)
  BY <1>1 DEF Start
<1>2. CASE Reuse(p)
  BY <1>2 DEF Reuse
<1>3. CASE SkipUnavailable(p)
  BY <1>3 DEF SkipUnavailable
<1>4. CASE LockFree(p)
  BY <1>4 DEF LockFree
<1>5. CASE LockRefused(p)
  BY <1>5, GoneType DEF LockRefused
<1>6. CASE LockMyPid(p)
  BY <1>6 DEF LockMyPid
<1>7. CASE LockCreate(p)
  BY <1>7 DEF LockCreate
<1>8. CASE LockCreateFails(p)
  BY <1>8, GoneType DEF LockCreateFails
<1>9. CASE LockFill(p)
  BY <1>9 DEF LockFill
<1>10. CASE OpenNewsrc(p)
  BY <1>10 DEF OpenNewsrc
<1>11. CASE OpenFails(p)
  BY <1>11 DEF OpenFails
<1>12. CASE UseDone(p)
  BY <1>12 DEF UseDone
<1>13. CASE UseRetry(p)
  BY <1>13 DEF UseRetry
<1>14. CASE UseGivesUp(p)
  BY <1>14, GoneType DEF UseGivesUp
<1>15. CASE \E exiting \in BOOLEAN : Unuse(p, exiting)
  BY <1>15 DEF Unuse
<1>16. CASE UnuseWritten(p)
  BY <1>16 DEF UnuseWritten
<1>17. CASE UnlockRemove(p)
  BY <1>17 DEF UnlockRemove
<1>18. CASE UnlockFree(p)
  BY <1>18 DEF UnlockFree
<1>19. CASE UnuseDone(p)
  <2>1. CASE leaving[p]
    BY <1>19, <2>1, GoneType DEF UnuseDone
  <2>2. CASE ~leaving[p]
    BY <1>19, <2>2 DEF UnuseDone
  <2> QED
    BY <2>1, <2>2
<1>20. CASE SignalStarting(p)
  BY <1>20, GoneType DEF SignalStarting
<1>21. CASE SignalRunning(p)
  BY <1>21 DEF SignalRunning
<1>22. CASE Kill(p)
  BY <1>22, GoneType DEF Kill
<1> QED
  BY <1>1, <1>2, <1>3, <1>4, <1>5, <1>6, <1>7, <1>8, <1>9, <1>10, <1>11,
     <1>12, <1>13, <1>14, <1>15, <1>16, <1>17, <1>18, <1>19, <1>20, <1>21,
     <1>22
     DEF Step

\* Type correctness: the variables keep to their types whatever the
\* processes do and however they end.
THEOREM LockTypeCorrect == Spec => []TypeOK
<1> DEFINE Types == FileTypes /\ ProcTypes
<1>1. Init => Types
  BY LockAssumption
     DEF Init, FileTypes, ProcTypes, AtEntry, PC, Entry
<1>2. Types /\ [Next]_vars => Types'
  <2>1. ASSUME Types, UNCHANGED vars PROVE Types'
    BY <2>1 DEF vars, FileTypes, ProcTypes, AtEntry
  <2>2. ASSUME Types, NEW p \in Proc, Step(p) PROVE Types'
    BY <2>2, FileStep, ProcStep
  <2> QED
    BY <2>1, <2>2 DEF Next
<1>3. Types => TypeOK
  BY DEF FileTypes, ProcTypes, TypeOK
<1> QED
  BY <1>1, <1>2, <1>3, PTL DEF Spec

(* Mutual exclusion *)

\* What the user and the access file must see to: one trn is started at a
\* time, no signal hits a trn that is giving its locks back, and no newsrc is
\* listed twice.
Careful ==
  /\ Env = {}
  /\ \A i, j \in Entry : FileOf[i] = FileOf[j] => i = j

OneStarter ==
  \A p, q \in Proc : pc[p] \in Starting /\ pc[q] \in Starting => p = q

HeldOK == \A p \in Proc : \A i \in Held(p) : owner[FileOf[i]] = p

Types == FileTypes /\ ProcTypes

\* At most one process is in use_multirc.
LEMMA OneStarterStep ==
  ASSUME Careful, Types, OneStarter, NEW p \in Proc, Step(p) PROVE OneStarter'
<1> USE DEF Careful, Types, ProcTypes, OneStarter, Starting, Unlocking, Goto
<1>1. CASE Start(p)
  BY <1>1 DEF Start, MayBegin
<1>2. CASE Reuse(p)
  BY <1>2 DEF Reuse, MayBegin
<1>3. CASE SkipUnavailable(p)
  BY <1>3 DEF SkipUnavailable
<1>4. CASE LockFree(p)
  BY <1>4 DEF LockFree
<1>5. CASE LockRefused(p)
  BY <1>5 DEF LockRefused, Gone
<1>6. CASE LockMyPid(p)
  BY <1>6 DEF LockMyPid
<1>7. CASE LockCreate(p)
  BY <1>7 DEF LockCreate
<1>8. CASE LockCreateFails(p)
  BY <1>8 DEF LockCreateFails, Gone
<1>9. CASE LockFill(p)
  BY <1>9 DEF LockFill
<1>10. CASE OpenNewsrc(p)
  BY <1>10 DEF OpenNewsrc
<1>11. CASE OpenFails(p)
  BY <1>11 DEF OpenFails
<1>12. CASE UseDone(p)
  BY <1>12 DEF UseDone
<1>13. CASE UseRetry(p)
  BY <1>13 DEF UseRetry
<1>14. CASE UseGivesUp(p)
  BY <1>14 DEF UseGivesUp, Gone
<1>15. CASE \E exiting \in BOOLEAN : Unuse(p, exiting)
  BY <1>15 DEF Unuse
<1>16. CASE UnuseWritten(p)
  BY <1>16 DEF UnuseWritten
<1>17. CASE UnlockRemove(p)
  BY <1>17 DEF UnlockRemove
<1>18. CASE UnlockFree(p)
  BY <1>18 DEF UnlockFree
<1>19. CASE UnuseDone(p)
  BY <1>19 DEF UnuseDone, Gone
<1>20. CASE SignalStarting(p)
  BY <1>20 DEF SignalStarting, Gone
<1>21. CASE SignalRunning(p)
  BY <1>21 DEF SignalRunning
<1>22. CASE Kill(p)
  BY <1>22 DEF Kill, Gone
<1> QED
  BY <1>1, <1>2, <1>3, <1>4, <1>5, <1>6, <1>7, <1>8, <1>9, <1>10, <1>11,
     <1>12, <1>13, <1>14, <1>15, <1>16, <1>17, <1>18, <1>19, <1>20, <1>21,
     <1>22
     DEF Step

\* The lock names of a process follow its loops over the multirc.
LEMMA LoopStep ==
  ASSUME Types, NEW q \in Proc, LoopOK(q), NEW p \in Proc, Step(p)
  PROVE  LoopOK(q)'
<1> USE LockAssumption
    DEF Types, ProcTypes, LoopOK, Starting, Unlocking, Entry, Goto
<1>1. CASE Start(p)
  BY <1>1 DEF Start
<1>2. CASE Reuse(p)
  BY <1>2 DEF Reuse
<1>3. CASE SkipUnavailable(p)
  BY <1>3 DEF SkipUnavailable
<1>4. CASE LockFree(p)
  BY <1>4 DEF LockFree
<1>5. CASE LockRefused(p)
  BY <1>5 DEF LockRefused, Gone
<1>6. CASE LockMyPid(p)
  BY <1>6 DEF LockMyPid
<1>7. CASE LockCreate(p)
  BY <1>7 DEF LockCreate
<1>8. CASE LockCreateFails(p)
  BY <1>8 DEF LockCreateFails, Gone
<1>9. CASE LockFill(p)
  BY <1>9 DEF LockFill
<1>10. CASE OpenNewsrc(p)
  <2>1. CASE q = p
    <3>1. /\ pc'[p] = "use"
          /\ idx'[p] = idx[p] + 1
          /\ named'[p] = named[p]
          /\ active'[p] = active[p] \cup {idx[p]}
      BY <1>10 DEF OpenNewsrc
    <3>2. /\ idx[p] \in Entry
          /\ named[p] = active[p] \cup {idx[p]}
          /\ active[p] \subseteq 1 .. idx[p] - 1
      BY <1>10, <2>1 DEF OpenNewsrc
    <3>3. active[p] \cup {idx[p]} \subseteq 1 .. (idx[p] + 1) - 1
      BY <3>2
    <3> QED
      BY <2>1, <3>1, <3>2, <3>3
  <2>2. CASE q # p
    BY <1>10, <2>2 DEF OpenNewsrc
  <2> QED
    BY <2>1, <2>2
<1>11. CASE OpenFails(p)
  BY <1>11 DEF OpenFails
<1>12. CASE UseDone(p)
  BY <1>12 DEF UseDone
<1>13. CASE UseRetry(p)
  BY <1>13 DEF UseRetry
<1>14. CASE UseGivesUp(p)
  BY <1>14 DEF UseGivesUp, Gone
<1>15. CASE \E exiting \in BOOLEAN : Unuse(p, exiting)
  BY <1>15 DEF Unuse
<1>16. CASE UnuseWritten(p)
  BY <1>16 DEF UnuseWritten
<1>17. CASE UnlockRemove(p)
  BY <1>17 DEF UnlockRemove
<1>18. CASE UnlockFree(p)
  BY <1>18 DEF UnlockFree
<1>19. CASE UnuseDone(p)
  BY <1>19 DEF UnuseDone, Gone
<1>20. CASE SignalStarting(p)
  BY <1>20 DEF SignalStarting, Gone
<1>21. CASE SignalRunning(p)
  BY <1>21 DEF SignalRunning
<1>22. CASE Kill(p)
  BY <1>22 DEF Kill, Gone
<1> QED
  BY <1>1, <1>2, <1>3, <1>4, <1>5, <1>6, <1>7, <1>8, <1>9, <1>10, <1>11,
     <1>12, <1>13, <1>14, <1>15, <1>16, <1>17, <1>18, <1>19, <1>20, <1>21,
     <1>22
     DEF Step

\* The lock file about to be written belongs to nobody who runs.
LEMMA ClaimStep ==
  ASSUME Careful, Types, OneStarter, HeldOK,
         \A r \in Proc : LoopOK(r), NEW q \in Proc, ClaimOK(q),
         NEW p \in Proc, Step(p)
  PROVE  ClaimOK(q)'
<1> USE LockAssumption
    DEF Careful, Types, FileTypes, ProcTypes, OneStarter, HeldOK, Held, LoopOK,
        ClaimOK, Alive, Current, Starting, Unlocking, Entry, Goto
<1>1. CASE Start(p)
  BY <1>1 DEF Start, MayBegin, fileVars
<1>2. CASE Reuse(p)
  BY <1>2 DEF Reuse, MayBegin, fileVars
<1>3. CASE SkipUnavailable(p)
  BY <1>3 DEF SkipUnavailable, fileVars
<1>4. CASE LockFree(p)
  BY <1>4 DEF LockFree, fileVars
<1>5. CASE LockRefused(p)
  BY <1>5 DEF LockRefused, Gone, fileVars
<1>6. CASE LockMyPid(p)
  BY <1>6 DEF LockMyPid, RemoveLock
<1>7. CASE LockCreate(p)
  BY <1>7 DEF LockCreate
<1>8. CASE LockCreateFails(p)
  BY <1>8 DEF LockCreateFails, Gone, fileVars
<1>9. CASE LockFill(p)
  BY <1>9 DEF LockFill
<1>10. CASE OpenNewsrc(p)
  BY <1>10 DEF OpenNewsrc, fileVars
<1>11. CASE OpenFails(p)
  BY <1>11 DEF OpenFails, RemoveLock
<1>12. CASE UseDone(p)
  BY <1>12 DEF UseDone, fileVars
<1>13. CASE UseRetry(p)
  BY <1>13 DEF UseRetry, fileVars
<1>14. CASE UseGivesUp(p)
  BY <1>14 DEF UseGivesUp, Gone, fileVars
<1>15. CASE \E exiting \in BOOLEAN : Unuse(p, exiting)
  BY <1>15 DEF Unuse, fileVars
<1>16. CASE UnuseWritten(p)
  BY <1>16 DEF UnuseWritten, fileVars
<1>17. CASE UnlockRemove(p)
  BY <1>17 DEF UnlockRemove, RemoveLock
<1>18. CASE UnlockFree(p)
  BY <1>18 DEF UnlockFree, fileVars
<1>19. CASE UnuseDone(p)
  BY <1>19 DEF UnuseDone, Gone, fileVars
<1>20. CASE SignalStarting(p)
  BY <1>20 DEF SignalStarting, Gone, fileVars
<1>21. CASE SignalRunning(p)
  BY <1>21 DEF SignalRunning, fileVars
<1>22. CASE Kill(p)
  BY <1>22 DEF Kill, Gone, Dropped
<1> QED
  BY <1>1, <1>2, <1>3, <1>4, <1>5, <1>6, <1>7, <1>8, <1>9, <1>10, <1>11,
     <1>12, <1>13, <1>14, <1>15, <1>16, <1>17, <1>18, <1>19, <1>20, <1>21,
     <1>22
     DEF Step

\* Every lock file written and not removed names its writer.
LEMMA HeldStep ==
  ASSUME Careful, Types, OneStarter, HeldOK,
         \A r \in Proc : LoopOK(r) /\ ClaimOK(r), NEW p \in Proc, Step(p)
  PROVE  HeldOK'
<1> USE LockAssumption
    DEF Careful, Types, FileTypes, ProcTypes, OneStarter, HeldOK, Held, LoopOK,
        ClaimOK, Alive, Current, Starting, Unlocking, Entry, Goto
<1>1. CASE Start(p)
  BY <1>1 DEF Start, fileVars
<1>2. CASE Reuse(p)
  BY <1>2 DEF Reuse, fileVars
<1>3. CASE SkipUnavailable(p)
  BY <1>3 DEF SkipUnavailable, fileVars
<1>4. CASE LockFree(p)
  BY <1>4 DEF LockFree, fileVars
<1>5. CASE LockRefused(p)
  BY <1>5 DEF LockRefused, Gone, fileVars
<1>6. CASE LockMyPid(p)
  BY <1>6 DEF LockMyPid, RemoveLock
<1>7. CASE LockCreate(p)
  BY <1>7 DEF LockCreate
<1>8. CASE LockCreateFails(p)
  BY <1>8 DEF LockCreateFails, Gone, fileVars
<1>9. CASE LockFill(p)
  BY <1>9 DEF LockFill
<1>10. CASE OpenNewsrc(p)
  BY <1>10 DEF OpenNewsrc, fileVars
<1>11. CASE OpenFails(p)
  BY <1>11 DEF OpenFails, RemoveLock
<1>12. CASE UseDone(p)
  BY <1>12 DEF UseDone, fileVars
<1>13. CASE UseRetry(p)
  BY <1>13 DEF UseRetry, fileVars
<1>14. CASE UseGivesUp(p)
  BY <1>14 DEF UseGivesUp, Gone, fileVars
<1>15. CASE \E exiting \in BOOLEAN : Unuse(p, exiting)
  BY <1>15 DEF Unuse, fileVars
<1>16. CASE UnuseWritten(p)
  BY <1>16 DEF UnuseWritten, fileVars
<1>17. CASE UnlockRemove(p)
  BY <1>17 DEF UnlockRemove, RemoveLock
<1>18. CASE UnlockFree(p)
  BY <1>18 DEF UnlockFree, fileVars
<1>19. CASE UnuseDone(p)
  BY <1>19 DEF UnuseDone, Gone, fileVars
<1>20. CASE SignalStarting(p)
  BY <1>20 DEF SignalStarting, Gone, fileVars
<1>21. CASE SignalRunning(p)
  BY <1>21 DEF SignalRunning, fileVars
<1>22. CASE Kill(p)
  BY <1>22 DEF Kill, Gone, Dropped
<1> QED
  BY <1>1, <1>2, <1>3, <1>4, <1>5, <1>6, <1>7, <1>8, <1>9, <1>10, <1>11,
     <1>12, <1>13, <1>14, <1>15, <1>16, <1>17, <1>18, <1>19, <1>20, <1>21,
     <1>22
     DEF Step

\* The inductive invariant of the lock.
THEOREM LockInvariant == Careful => (Spec => []LockInv)
<1> SUFFICES ASSUME Careful PROVE Spec => []LockInv
  OBVIOUS
<1> DEFINE Inv == Types /\ LockInv
<1>1. Init => Inv
  BY LockAssumption
     DEF Init, Types, FileTypes, ProcTypes, AtEntry, PC, Entry, LockInv, Held,
         LoopOK, ClaimOK, Starting, Unlocking
<1>2. Inv /\ [Next]_vars => Inv'
  <2>1. ASSUME Inv, UNCHANGED vars PROVE Inv'
    BY <2>1 DEF vars, Types, FileTypes, ProcTypes, AtEntry, LockInv, Held,
                LoopOK, ClaimOK, Current, Alive
  <2>2. ASSUME Inv, NEW p \in Proc, Step(p) PROVE Inv'
    <3>1. OneStarter /\ HeldOK /\ \A q \in Proc : LoopOK(q) /\ ClaimOK(q)
      BY <2>2 DEF LockInv, OneStarter, HeldOK
    <3>2. Types'
      BY <2>2, FileStep, ProcStep DEF Types
    <3>3. OneStarter'
      BY <2>2, <3>1, OneStarterStep
    <3>4. HeldOK'
      BY <2>2, <3>1, HeldStep
    <3>5. \A q \in Proc : LoopOK(q)'
      BY <2>2, <3>1, LoopStep
    <3>6. \A q \in Proc : ClaimOK(q)'
      BY <2>2, <3>1, ClaimStep
    <3> QED
      BY <3>2, <3>3, <3>4, <3>5, <3>6 DEF LockInv, OneStarter, HeldOK
  <2> QED
    BY <2>1, <2>2 DEF Next
<1>3. Inv => LockInv
  OBVIOUS
<1> QED
  BY <1>1, <1>2, <1>3, PTL DEF Spec

\* The lock file of a newsrc in use names its user: no other process has
\* removed it, emptied it or put its own pid there.
THEOREM LockNamesItsUser == Careful => (Spec => []LockNamesUser)
<1> SUFFICES ASSUME Careful PROVE Spec => []LockNamesUser
  OBVIOUS
<1>1. TypeOK /\ LockInv => LockNamesUser
  BY DEF TypeOK, PC, LockInv, LockNamesUser, Using, Held, LoopOK, Entry, Starting, Unlocking
<1> QED
  BY <1>1, LockTypeCorrect, LockInvariant, PTL

\* lock_newsrc keeps its promise: no newsrc is used by two processes.
THEOREM NewsrcMutualExclusion == Careful => (Spec => []MutualExclusion)
<1> SUFFICES ASSUME Careful PROVE Spec => []MutualExclusion
  OBVIOUS
<1>1. LockNamesUser => MutualExclusion
  BY DEF LockNamesUser, MutualExclusion
<1> QED
  BY <1>1, LockNamesItsUser, PTL
(* Locks without an owner *)

\* A lock file names a process that has written it for an entry it still
\* holds, or one that ended without coming to unuse_multirc.
OwnerHolds ==
  \A q \in Proc, f \in File :
    owner[f] = q => q \in cutoff \/ \E i \in Held(q) : FileOf[i] = f

\* No step leaves a lock file behind, but one that cuts its process off.
LEMMA OwnerStep ==
  ASSUME Types, OwnerHolds, \A r \in Proc : LoopOK(r), NEW p \in Proc, Step(p)
  PROVE  OwnerHolds'
<1> USE LockAssumption
    DEF Types, FileTypes, ProcTypes, AtEntry, OwnerHolds, Held, LoopOK,
        Current, Starting, Unlocking, Entry, Goto
<1>1. CASE Start(p)
  BY <1>1 DEF Start, fileVars
<1>2. CASE Reuse(p)
  BY <1>2 DEF Reuse, fileVars
<1>3. CASE SkipUnavailable(p)
  BY <1>3 DEF SkipUnavailable, fileVars
<1>4. CASE LockFree(p)
  <2>1. idx[p] \notin named[p]
    BY <1>4 DEF LockFree
  <2>2. Held(p)' = Held(p)
    BY <1>4, <2>1 DEF LockFree
  <2>3. \A q \in Proc : q # p => Held(q)' = Held(q)
    BY <1>4 DEF LockFree
  <2>4. owner' = owner /\ cutoff' = cutoff
    BY <1>4 DEF LockFree, fileVars
  <2>5. \A q \in Proc : Held(q)' = Held(q)
    BY <2>2, <2>3
  <2> QED
    BY <2>4, <2>5
<1>5. CASE LockRefused(p)
  BY <1>5 DEF LockRefused, Gone, fileVars
<1>6. CASE LockMyPid(p)
  BY <1>6 DEF LockMyPid, RemoveLock
<1>7. CASE LockCreate(p)
  BY <1>7 DEF LockCreate
<1>8. CASE LockCreateFails(p)
  BY <1>8 DEF LockCreateFails, Gone, fileVars
<1>9. CASE LockFill(p)
  BY <1>9 DEF LockFill
<1>10. CASE OpenNewsrc(p)
  BY <1>10 DEF OpenNewsrc, fileVars
<1>11. CASE OpenFails(p)
  BY <1>11 DEF OpenFails, RemoveLock
<1>12. CASE UseDone(p)
  BY <1>12 DEF UseDone, fileVars
<1>13. CASE UseRetry(p)
  BY <1>13 DEF UseRetry, fileVars
<1>14. CASE UseGivesUp(p)
  BY <1>14 DEF UseGivesUp, Gone, fileVars
<1>15. CASE \E exiting \in BOOLEAN : Unuse(p, exiting)
  BY <1>15 DEF Unuse, fileVars
<1>16. CASE UnuseWritten(p)
  BY <1>16 DEF UnuseWritten, fileVars
<1>17. CASE UnlockRemove(p)
  BY <1>17 DEF UnlockRemove, RemoveLock
<1>18. CASE UnlockFree(p)
  BY <1>18 DEF UnlockFree, fileVars
<1>19. CASE UnuseDone(p)
  BY <1>19 DEF UnuseDone, Gone, fileVars
<1>20. CASE SignalStarting(p)
  <2>1. \A q \in Proc, f \in File : owner'[f] = q => q = p \/ owner[f] = q
    BY <1>20 DEF SignalStarting, fileVars
  <2>2. p \in cutoff' /\ cutoff \subseteq cutoff'
    BY <1>20 DEF SignalStarting
  <2>3. \A q \in Proc : q # p => Held(q)' = Held(q)
    BY <1>20 DEF SignalStarting, Gone
  <2> QED
    BY <2>1, <2>2, <2>3
<1>21. CASE SignalRunning(p)
  BY <1>21 DEF SignalRunning, fileVars
<1>22. CASE Kill(p)
  BY <1>22 DEF Kill, Gone, Dropped
<1> QED
  BY <1>1, <1>2, <1>3, <1>4, <1>5, <1>6, <1>7, <1>8, <1>9, <1>10, <1>11,
     <1>12, <1>13, <1>14, <1>15, <1>16, <1>17, <1>18, <1>19, <1>20, <1>21,
     <1>22
     DEF Step

\* A lock file names a process that runs, or one that was cut off: whatever
\* the surroundings do, and however often the access file names a newsrc, no
\* process that comes to unuse_multirc leaves a lock file with its pid.
THEOREM LockFilesAreLive == Spec => []LockIsLive
<1> DEFINE Inv == Types /\ OwnerHolds /\ \A q \in Proc : LoopOK(q)
<1>1. Init => Inv
  BY LockAssumption
     DEF Init, Types, FileTypes, ProcTypes, AtEntry, PC, Entry, OwnerHolds,
         LoopOK, Starting, Unlocking
<1>2. Inv /\ [Next]_vars => Inv'
  <2>1. ASSUME Inv, UNCHANGED vars PROVE Inv'
    BY <2>1 DEF vars, Types, FileTypes, ProcTypes, AtEntry, OwnerHolds, Held,
                LoopOK
  <2>2. ASSUME Inv, NEW p \in Proc, Step(p) PROVE Inv'
    <3>1. Types'
      BY <2>2, FileStep, ProcStep DEF Types
    <3>2. OwnerHolds'
      BY <2>2, OwnerStep
    <3>3. \A q \in Proc : LoopOK(q)'
      BY <2>2, LoopStep
    <3> QED
      BY <3>1, <3>2, <3>3
  <2> QED
    BY <2>1, <2>2 DEF Next
<1>3. Inv => LockIsLive
  <2> SUFFICES ASSUME Inv, NEW f \in File, owner[f] # NoProc
               PROVE  Alive(owner[f]) \/ owner[f] \in cutoff
    BY DEF LockIsLive
  <2>1. owner[f] \in Proc
    BY DEF Types, FileTypes
  <2>2. CASE pc[owner[f]] = "dead"
    BY <2>1, <2>2 DEF OwnerHolds, Held, LoopOK
  <2> QED
    BY <2>2 DEF Alive
<1> QED
  BY <1>1, <1>2, <1>3, PTL DEF Spec
=============================================================================
