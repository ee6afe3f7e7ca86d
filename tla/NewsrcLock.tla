----------------------------- MODULE NewsrcLock -----------------------------
(***************************************************************************)
(* The advisory lock that keeps two running trn processes off one newsrc:  *)
(* lock_newsrc, unlock_newsrc, use_multirc and unuse_multirc of            *)
(* src/rcstuff.cpp, with the ways a process ends (finalize and sig_catcher *)
(* of src/final.cpp, and kill -9).                                         *)
(*                                                                         *)
(* The lock is an ordinary file that holds the pid and the host of its     *)
(* owner.  The code reads it and, if nobody lives there, opens it for      *)
(* writing and prints its own pid: three system calls (read, truncate,     *)
(* flush) between which any other process may run.  What is written to the *)
(* newsrc itself is the subject of module NewsrcFiles.                     *)
(***************************************************************************)
EXTENDS Naturals, FiniteSets

CONSTANTS
  Proc,       \* the pids that may run trn; a pid can be used again
  NoProc,     \* the pid read from a lock file that is missing or empty
  HostOf,     \* g_local_host of a process
  File,       \* the newsrc files
  Entries,    \* how many newsrcs the access file lists in its multirc
  FileOf,     \* the newsrc file each of them names
  Env         \* what the surroundings may do, see EnvOptions

\* "overlap": a trn may start while another is still starting up;
\* "latesignal": a signal may arrive while the locks are being given up.
EnvOptions == {"overlap", "latesignal"}

Entry == 1 .. Entries

ASSUME LockAssumption ==
  /\ NoProc \notin Proc
  /\ Entries \in Nat \ {0}
  /\ FileOf \in [Entry -> File]
  /\ DOMAIN HostOf = Proc
  /\ Env \subseteq EnvOptions

VARIABLES
  owner,      \* owner[f]: the pid that can be read from f's lock file
  writing,    \* writing[f]: who holds f's lock file open for writing
  pc,         \* where each process is
  idx,        \* rp, the entry its loop over the multirc has reached
  named,      \* named[p]: the entries whose rp->lockname is set
  active,     \* active[p]: the entries with RF_ACTIVE
  leaving,    \* leaving[p]: unuse_multirc is followed by exit()
  retried,    \* retried[p]: use_next_multirc has wrapped around to this multirc
  cutoff      \* history: the pids that ended without unuse_multirc

fileVars == <<owner, writing>>
vars == <<owner, writing, pc, idx, named, active, leaving, retried, cutoff>>

\* g_multirc is null: use_multirc has not returned true, or unuse_multirc is done.
Starting == {"use", "create", "fill", "open"}
Unlocking == {"remove", "free"}
PC == {"dead", "idle", "run", "unuse"} \cup Starting \cup Unlocking

TypeOK ==
  /\ owner \in [File -> Proc \cup {NoProc}]
  /\ writing \in [File -> SUBSET Proc]
  /\ pc \in [Proc -> PC]
  /\ idx \in [Proc -> 1 .. Entries + 1]
  /\ named \in [Proc -> SUBSET Entry]
  /\ active \in [Proc -> SUBSET Entry]
  /\ leaving \in [Proc -> BOOLEAN]
  /\ retried \in [Proc -> BOOLEAN]
  /\ cutoff \subseteq Proc

Init ==
  /\ owner = [f \in File |-> NoProc]
  /\ writing = [f \in File |-> {}]
  /\ pc = [p \in Proc |-> "dead"]
  /\ idx = [p \in Proc |-> 1]
  /\ named = [p \in Proc |-> {}]
  /\ active = [p \in Proc |-> {}]
  /\ leaving = [p \in Proc |-> FALSE]
  /\ retried = [p \in Proc |-> FALSE]
  /\ cutoff = {}

----------------------------------------------------------------------------
(* Building blocks *)

\* kill(pid, 0) == 0
Alive(p) == pc[p] # "dead"

\* The newsrc of the entry process p's loop has reached.
Current(p) == FileOf[idx[p]]

\* remove(lockname): whoever still holds the file open writes into nothing.
RemoveLock(f) ==
  /\ owner' = [owner EXCEPT ![f] = NoProc]
  /\ writing' = [writing EXCEPT ![f] = {}]

\* exit(): nothing of the process remains but the lock files it left behind.
Gone(p) ==
  /\ pc' = [pc EXCEPT ![p] = "dead"]
  /\ idx' = [idx EXCEPT ![p] = 1]
  /\ named' = [named EXCEPT ![p] = {}]
  /\ active' = [active EXCEPT ![p] = {}]
  /\ leaving' = [leaving EXCEPT ![p] = FALSE]
  /\ retried' = [retried EXCEPT ![p] = FALSE]

\* The process leaves its open lock file, if any, to the system.
Dropped(p) == writing' = [f \in File |-> writing[f] \ {p}]

Goto(p, where) == pc' = [pc EXCEPT ![p] = where]

\* Without "overlap" the user starts one trn at a time.
MayBegin ==
  "overlap" \in Env \/ \A q \in Proc : pc[q] \notin Starting

----------------------------------------------------------------------------
(* use_multirc *)

\* main() calls use_multirc for the first time.
Start(p) ==
  /\ pc[p] = "dead"
  /\ MayBegin
  /\ Goto(p, "use")
  /\ UNCHANGED <<fileVars, idx, named, active, leaving, retried, cutoff>>

\* use_multirc after an unuse_multirc: the server died, or another multirc was
\* visited in between.
Reuse(p) ==
  /\ pc[p] = "idle"
  /\ MayBegin
  /\ Goto(p, "use")
  /\ idx' = [idx EXCEPT ![p] = 1]
  /\ retried' = [retried EXCEPT ![p] = FALSE]
  /\ UNCHANGED <<fileVars, named, active, leaving, cutoff>>

\* The news source is DF_UNAVAILABLE: unlock_newsrc finds no lockname to remove.
SkipUnavailable(p) ==
  /\ pc[p] = "use" /\ idx[p] <= Entries
  /\ idx' = [idx EXCEPT ![p] = @ + 1]
  /\ UNCHANGED <<fileVars, pc, named, active, leaving, retried, cutoff>>

\* (mutant) The answer of kill(pid, 0) is not looked at.
LockUnasked(p) ==
  /\ pc[p] = "use" /\ idx[p] <= Entries
  /\ owner[Current(p)] # p
  /\ named' = [named EXCEPT ![p] = @ \cup {idx[p]}]
  /\ Goto(p, "create")
  /\ UNCHANGED <<fileVars, idx, active, leaving, retried, cutoff>>

\* lock_newsrc sets rp->lockname and finds no lock, or the lock of a process
\* that is gone: it will go on to write its own.
LockFree(p) ==
  /\ pc[p] = "use" /\ idx[p] <= Entries
  /\ LET o == owner[Current(p)]
     IN  \/ o = NoProc
         \/ o \in Proc \ {p} /\ HostOf[o] = HostOf[p] /\ ~Alive(o)
  /\ named' = [named EXCEPT ![p] = @ \cup {idx[p]}]
  /\ Goto(p, "create")
  /\ UNCHANGED <<fileVars, idx, active, leaving, retried, cutoff>>

\* The lock belongs to a live process, or to another host: finalize(0).
\* g_multirc is still null, so no lock taken so far is given back.
LockRefused(p) ==
  /\ pc[p] = "use" /\ idx[p] <= Entries
  /\ LET o == owner[Current(p)]
     IN  o \in Proc \ {p} /\ (HostOf[o] # HostOf[p] \/ Alive(o))
  /\ Gone(p)
  /\ cutoff' = cutoff \cup {p}
  /\ UNCHANGED fileVars

\* "Hey, that *my* pid!": lock_newsrc returns false and use_multirc calls
\* unlock_newsrc, which removes the lock file.
LockMyPid(p) ==
  /\ pc[p] = "use" /\ idx[p] <= Entries
  /\ owner[Current(p)] = p
  /\ RemoveLock(Current(p))
  /\ idx' = [idx EXCEPT ![p] = @ + 1]
  /\ UNCHANGED <<pc, named, active, leaving, retried, cutoff>>

\* fopen(lockname, "w") creates or truncates the lock file.
LockCreate(p) ==
  /\ pc[p] = "create"
  /\ owner' = [owner EXCEPT ![Current(p)] = NoProc]
  /\ writing' = [writing EXCEPT ![Current(p)] = @ \cup {p}]
  /\ Goto(p, "fill")
  /\ UNCHANGED <<idx, named, active, leaving, retried, cutoff>>

\* fopen fails: sig_catcher(0), which has no g_multirc to give back.
LockCreateFails(p) ==
  /\ pc[p] = "create"
  /\ Gone(p)
  /\ cutoff' = cutoff \cup {p}
  /\ UNCHANGED fileVars

\* fclose puts pid and host into the file, if it is still there.
LockFill(p) ==
  /\ pc[p] = "fill"
  /\ owner' = [owner EXCEPT ![Current(p)] =
                 IF p \in writing[Current(p)] THEN p ELSE @]
  /\ writing' = [writing EXCEPT ![Current(p)] = @ \ {p}]
  /\ Goto(p, "open")
  /\ UNCHANGED <<idx, named, active, leaving, retried, cutoff>>

\* open_datasrc and open_newsrc succeed.
OpenNewsrc(p) ==
  /\ pc[p] = "open"
  /\ active' = [active EXCEPT ![p] = @ \cup {idx[p]}]
  /\ idx' = [idx EXCEPT ![p] = @ + 1]
  /\ Goto(p, "use")
  /\ UNCHANGED <<fileVars, named, leaving, retried, cutoff>>

\* One of them fails: unlock_newsrc.
OpenFails(p) ==
  /\ pc[p] = "open"
  /\ RemoveLock(Current(p))
  /\ named' = [named EXCEPT ![p] = @ \ {idx[p]}]
  /\ idx' = [idx EXCEPT ![p] = @ + 1]
  /\ Goto(p, "use")
  /\ UNCHANGED <<active, leaving, retried, cutoff>>

\* The loop is over and at least one entry is usable: g_multirc is set.
UseDone(p) ==
  /\ pc[p] = "use" /\ idx[p] = Entries + 1
  /\ active[p] # {}
  /\ Goto(p, "run")
  /\ UNCHANGED <<fileVars, idx, named, active, leaving, retried, cutoff>>

\* None is: use_next_multirc comes round to the same multirc once more.
UseRetry(p) ==
  /\ pc[p] = "use" /\ idx[p] = Entries + 1
  /\ active[p] = {} /\ ~retried[p]
  /\ idx' = [idx EXCEPT ![p] = 1]
  /\ retried' = [retried EXCEPT ![p] = TRUE]
  /\ UNCHANGED <<fileVars, pc, named, active, leaving, cutoff>>

\* "Couldn't open any newsrc groups": finalize(1).
UseGivesUp(p) ==
  /\ pc[p] = "use" /\ idx[p] = Entries + 1
  /\ active[p] = {} /\ retried[p]
  /\ Gone(p)
  /\ cutoff' = cutoff \cup {p}
  /\ UNCHANGED fileVars

----------------------------------------------------------------------------
(* unuse_multirc *)

\* The user quits, goes to another multirc, or loses the server.
Unuse(p, exiting) ==
  /\ pc[p] = "run"
  /\ leaving' = [leaving EXCEPT ![p] = exiting]
  /\ Goto(p, "unuse")
  /\ UNCHANGED <<fileVars, idx, named, active, retried, cutoff>>

\* write_newsrcs returns and the loop that unlocks begins.
UnuseWritten(p) ==
  /\ pc[p] = "unuse"
  /\ idx' = [idx EXCEPT ![p] = 1]
  /\ Goto(p, "remove")
  /\ UNCHANGED <<fileVars, named, active, leaving, retried, cutoff>>

\* (mutant) unlock_newsrc frees the name only.
UnlockKeepsFile(p) ==
  /\ pc[p] = "remove" /\ idx[p] \in named[p]
  /\ Goto(p, "free")
  /\ UNCHANGED <<fileVars, idx, named, active, leaving, retried, cutoff>>

\* unlock_newsrc removes the lock file that lockname names.
UnlockRemove(p) ==
  /\ pc[p] = "remove" /\ idx[p] \in named[p]
  /\ RemoveLock(Current(p))
  /\ Goto(p, "free")
  /\ UNCHANGED <<idx, named, active, leaving, retried, cutoff>>

\* (mutant) The name is not freed.
UnlockKeepsName(p) ==
  /\ pc[p] = "free" \/ (pc[p] = "remove" /\ idx[p] \in Entry \ named[p])
  /\ active' = [active EXCEPT ![p] = @ \ {idx[p]}]
  /\ idx' = [idx EXCEPT ![p] = @ + 1]
  /\ Goto(p, "remove")
  /\ UNCHANGED <<fileVars, named, leaving, retried, cutoff>>

\* It frees lockname, and unuse_multirc clears RF_ACTIVE.
UnlockFree(p) ==
  /\ pc[p] = "free" \/ (pc[p] = "remove" /\ idx[p] \in Entry \ named[p])
  /\ named' = [named EXCEPT ![p] = @ \ {idx[p]}]
  /\ active' = [active EXCEPT ![p] = @ \ {idx[p]}]
  /\ idx' = [idx EXCEPT ![p] = @ + 1]
  /\ Goto(p, "remove")
  /\ UNCHANGED <<fileVars, leaving, retried, cutoff>>

\* g_multirc becomes null; finalize goes on to exit().
UnuseDone(p) ==
  /\ pc[p] = "remove" /\ idx[p] = Entries + 1
  /\ IF leaving[p]
     THEN Gone(p)
     ELSE /\ Goto(p, "idle")
          /\ UNCHANGED <<idx, named, active, leaving, retried>>
  /\ UNCHANGED <<fileVars, cutoff>>

----------------------------------------------------------------------------
(* How a process can be ended from outside *)

\* sig_catcher with a null g_multirc: finalize has nothing to unlock.  The
\* lock file still open is flushed by exit().
SignalStarting(p) ==
  /\ pc[p] \in Starting \cup {"idle"}
  /\ IF pc[p] = "fill" /\ p \in writing[Current(p)]
     THEN /\ owner' = [owner EXCEPT ![Current(p)] = p]
          /\ writing' = [writing EXCEPT ![Current(p)] = @ \ {p}]
     ELSE UNCHANGED fileVars
  /\ Gone(p)
  /\ cutoff' = cutoff \cup {p}

\* sig_catcher while g_multirc is set: finalize calls unuse_multirc, from the
\* beginning even if the interrupted code was inside it.
SignalRunning(p) ==
  /\ \/ pc[p] \in {"run", "unuse"}
     \/ pc[p] \in Unlocking /\ "latesignal" \in Env
  /\ leaving' = [leaving EXCEPT ![p] = TRUE]
  /\ Goto(p, "unuse")
  /\ UNCHANGED <<fileVars, idx, named, active, retried, cutoff>>

\* kill -9, a power failure, abort() after a second signal.
Kill(p) ==
  /\ Alive(p)
  /\ Gone(p)
  /\ Dropped(p)
  /\ cutoff' = cutoff \cup {p}
  /\ UNCHANGED owner

----------------------------------------------------------------------------

Step(p) ==
  \/ Start(p) \/ Reuse(p)
  \/ SkipUnavailable(p) \/ LockFree(p) \/ LockRefused(p) \/ LockMyPid(p)
  \/ LockCreate(p) \/ LockCreateFails(p) \/ LockFill(p)
  \/ OpenNewsrc(p) \/ OpenFails(p)
  \/ UseDone(p) \/ UseRetry(p) \/ UseGivesUp(p)
  \/ \E exiting \in BOOLEAN : Unuse(p, exiting)
  \/ UnuseWritten(p) \/ UnlockRemove(p) \/ UnlockFree(p) \/ UnuseDone(p)
  \/ SignalStarting(p) \/ SignalRunning(p) \/ Kill(p)

Next == \E p \in Proc : Step(p)

Spec == Init /\ [][Next]_vars

----------------------------------------------------------------------------
(* Properties *)

\* p reads, marks and may write newsrc f: the entry is RF_ACTIVE and
\* unuse_multirc has not come to the loop that gives the locks back.
Using(p, f) ==
  /\ pc[p] \notin Unlocking
  /\ \E i \in active[p] : FileOf[i] = f

\* No newsrc is used by two processes (the purpose of lock_newsrc).
MutualExclusion ==
  \A f \in File, p, q \in Proc : Using(p, f) /\ Using(q, f) => p = q

\* The lock file of a newsrc in use names its user: nobody has removed it,
\* emptied it, or put another pid there.
LockNamesUser ==
  \A f \in File, p \in Proc : Using(p, f) => owner[f] = p

\* A lock file names a process that runs, or one that ended without coming to
\* unuse_multirc: killed, or turned away while it took the locks.
LockIsLive ==
  \A f \in File : owner[f] # NoProc => Alive(owner[f]) \/ owner[f] \in cutoff

(* The inductive invariant behind the first two, for an Env without options *)
(* and an access file that names no newsrc twice.                           *)

\* The entries whose lock file p has written and not yet removed.
Held(p) ==
  named[p] \ (IF pc[p] \in {"create", "fill", "free"} THEN {idx[p]} ELSE {})

\* Which lock names are set as p goes through its entries, up and down.
LoopOK(p) ==
  /\ pc[p] \in {"dead", "idle"} => named[p] = {} /\ active[p] = {}
  /\ pc[p] = "use" => named[p] = active[p] /\ named[p] \subseteq 1 .. idx[p] - 1
  /\ pc[p] \in {"create", "fill", "open"} =>
       /\ idx[p] \in Entry
       /\ named[p] = active[p] \cup {idx[p]}
       /\ active[p] \subseteq 1 .. idx[p] - 1
  /\ pc[p] \in {"run", "unuse"} \cup Unlocking => active[p] \subseteq named[p]
  /\ pc[p] \in Unlocking => named[p] \subseteq idx[p] .. Entries
  /\ pc[p] = "free" => idx[p] \in named[p]

\* The lock file p is about to write belongs to nobody who runs.
ClaimOK(p) ==
  /\ pc[p] = "create" => \A q \in Proc : owner[Current(p)] = q => ~Alive(q)
  /\ pc[p] = "fill" => owner[Current(p)] = NoProc /\ p \in writing[Current(p)]

\* Every lock file written and not removed still names its writer, and a
\* process that is writing one is alone in doing so.
LockInv ==
  /\ \A p, q \in Proc : pc[p] \in Starting /\ pc[q] \in Starting => p = q
  /\ \A p \in Proc : \A i \in Held(p) : owner[FileOf[i]] = p
  /\ \A p \in Proc : LoopOK(p) /\ ClaimOK(p)

=============================================================================
