----------------------------- MODULE NewsrcFiles -----------------------------
(***************************************************************************)
(* The life of one newsrc on disk, system call by system call, through     *)
(* sessions of trn: open_newsrc, write_newsrcs, checkpoint_newsrcs,        *)
(* unuse_multirc and get_old_newsrcs of src/rcstuff.cpp, called from       *)
(* do_multirc (src/trn.cpp), do_newsgroup (src/ng.cpp), catch_up           *)
(* (src/rcln.cpp), nntp_server_died (src/nntp.cpp) and, at any moment,     *)
(* from the signal handlers sig_catcher and stop_catcher (src/final.cpp).  *)
(*                                                                         *)
(* What a newsrc says is abstracted to its version: how many times the     *)
(* lines in memory have changed since the version 0 it began with.         *)
(* Three names may be linked to it, NAME, NAME.new and NAME.old, as hard   *)
(* links to inodes.  Only one trn at a time uses it (module NewsrcLock).   *)
(***************************************************************************)
EXTENDS Integers, Sequences, SequencesExt

CONSTANTS
  MaxVer,     \* bound: the last version a run goes to
  Inode,      \* the inodes of the file system
  NoFile,     \* not an inode: the name is not there, or no FILE is open
  Faults      \* what may go wrong, see FaultOptions

\* "kill", "signal", "stop": SIGKILL, a signal caught by sig_catcher, SIGTSTP,
\*   at any moment; without these options the last two come only while trn
\*   waits for a command;
\* "fail": writing to the file system, or linking the backup, may fail;
\* "idlex": `x' although nothing was written since the newsrc was opened;
\* "again": a newsrc opened by the same process after an `x'.
FaultOptions == {"kill", "signal", "stop", "fail", "idlex", "again"}

Version == 0 .. MaxVer
Absent  == -1      \* no newsrc
Blank   == -2      \* a newsrc of zero length, just created
Partial == -3      \* truncated, or not all of its lines
Content == Version \cup {Blank, Partial}

ASSUME FilesAssumption ==
  /\ MaxVer \in Nat
  /\ NoFile \notin Inode
  /\ Faults \subseteq FaultOptions

VARIABLES
  name, newname, oldname,   \* the inodes the three names are linked to
  content,                  \* content[i]: what inode i holds
  stack,     \* the running code: main program, below the handlers it is in
  ver,       \* the version of the lines in memory (np->rcline)
  dirty,     \* marks in the article bits that bits_to_rc has not yet seen
  yank,      \* g_dmcount: articles to be returned by yankback
  doing_ng,  \* g_doing_ng
  changed,   \* RF_RCCHANGED
  panic,     \* g_panic
  restore,   \* s_restore_old_newsrc
  saved,     \* history: the version last read, or written without an error
  opened,    \* history: what open_newsrc found the last time
  quitx      \* history: the user has confirmed `x'

diskVars == <<name, newname, oldname, content>>
bitVars == <<ver, dirty, yank, doing_ng>>
history == <<opened, quitx>>
vars == <<diskVars, stack, bitVars, changed, panic, restore, saved, history>>

Opening == {"open", "unlinkOld", "link", "load"}
Writing == {"write", "lines", "clear", "remove", "rename"}
GettingOld == {"oldNew", "oldName", "oldOld"}
PC == {"list", "group", "leave", "closed", "exit"}
        \cup Opening \cup Writing \cup GettingOld

\* Where write_newsrcs returns to: the caller's pc, or what the caller does.
Caller == {"list", "group", "bug_out", "closed", "exit", "finalize", "resume"}

Frame == [pc : PC, caller : Caller, fd : Inode \cup {NoFile}, snap : Version]

TypeOK ==
  /\ name \in Inode \cup {NoFile}
  /\ newname \in Inode \cup {NoFile}
  /\ oldname \in Inode \cup {NoFile}
  /\ content \in [Inode -> Content]
  /\ stack \in Seq(Frame)
  /\ ver \in Version
  /\ dirty \in BOOLEAN /\ yank \in BOOLEAN /\ doing_ng \in BOOLEAN
  /\ changed \in BOOLEAN /\ panic \in BOOLEAN /\ restore \in BOOLEAN
  /\ saved \in Version \cup {Absent}
  /\ opened \in Content \cup {Absent}
  /\ quitx \in BOOLEAN

----------------------------------------------------------------------------
(* Building blocks *)

Running == stack # << >>
Top == Last(stack)
At(where) == Running /\ Top.pc = where

\* Code outside write_newsrcs, and a call of write_newsrcs(g_multirc).
Code(where) == [pc |-> where, caller |-> "exit", fd |-> NoFile, snap |-> 0]
Call(caller) == [Code("write") EXCEPT !.caller = caller]

\* The frame on top goes on somewhere else.
GoTo(where) == stack' = [stack EXCEPT ![Len(stack)] = Code(where)]
CallWrite(caller) == stack' = [stack EXCEPT ![Len(stack)] = Call(caller)]
WriteOnAt(where) == stack' = [stack EXCEPT ![Len(stack)].pc = where]

\* The process is no more: the next one starts with its variables initialised.
Gone ==
  /\ stack' = << >>
  /\ ver' = 0 /\ dirty' = FALSE /\ yank' = FALSE /\ doing_ng' = FALSE
  /\ changed' = FALSE /\ panic' = FALSE /\ restore' = FALSE

\* The interrupted code gives way to a handler.
Interrupt(frame) == stack' = Append(stack, frame)

\* g_multirc is set from the end of use_multirc to that of unuse_multirc.
MultircInUse == stack[1].pc \notin Opening \cup {"closed"}

\* trn waits for a command and no handler runs.
AtPrompt == Len(stack) = 1 /\ Top.pc \in {"list", "group", "closed"}

\* The state of the directory; inodes without a name are of no interest.
Disk(n, w, o, c) ==
  /\ name' = n /\ newname' = w /\ oldname' = o
  /\ content' = [i \in Inode |-> IF i \in {n, w, o} THEN c[i] ELSE Blank]

\* An inode neither linked nor open; creating a file takes one.
Unused(i) ==
  /\ i \notin {name, newname, oldname}
  /\ \A k \in DOMAIN stack : stack[k].fd # i
Fresh == CHOOSE i \in Inode : Unused(i)
CanCreate == \E i \in Inode : Unused(i)

\* bits_to_rc, and yankback before it if back: the lines in memory catch up.
BitsToRc(back) ==
  LET moved == dirty \/ (back /\ yank)
  IN  /\ ver' = IF moved THEN ver + 1 ELSE ver
      /\ dirty' = FALSE
      /\ yank' = (yank /\ ~back)

\* Changes still to be counted; keeps ver within its bound.
Pending == ver + (IF dirty THEN 1 ELSE 0) + (IF yank THEN 1 ELSE 0)

----------------------------------------------------------------------------

Init ==
  /\ \/ name = NoFile /\ saved = Absent
     \/ name \in Inode /\ saved = 0 /\ name = CHOOSE i \in Inode : TRUE
  /\ newname = NoFile /\ oldname = NoFile
  /\ content = [i \in Inode |-> IF i = name THEN 0 ELSE Blank]
  /\ stack = << >>
  /\ ver = 0 /\ dirty = FALSE /\ yank = FALSE /\ doing_ng = FALSE
  /\ changed = FALSE /\ panic = FALSE /\ restore = FALSE
  /\ opened = Absent /\ quitx = FALSE

\* main() comes to use_multirc.
Start ==
  /\ ~Running
  /\ stack' = <<Code("open")>>
  /\ quitx' = FALSE
  /\ UNCHANGED <<diskVars, bitVars, changed, panic, restore, saved, opened>>

\* use_multirc once more: after nntp_server_died, or from a selector.
Reopen ==
  /\ At("closed") /\ Len(stack) = 1
  /\ restore => "again" \in Faults
  /\ GoTo("open")
  /\ quitx' = FALSE
  /\ UNCHANGED <<diskVars, bitVars, changed, panic, restore, saved, opened>>

----------------------------------------------------------------------------
(* open_newsrc *)

\* What this open finds.
Found(c) ==
  /\ opened' = c
  /\ saved' = IF c \in Version THEN c ELSE Absent

\* There is no newsrc: an empty one is created.
OpenCreates ==
  /\ At("open") /\ name = NoFile /\ CanCreate
  /\ Disk(Fresh, newname, oldname, [content EXCEPT ![Fresh] = Blank])
  /\ GoTo("list")
  /\ ver' = 0 /\ dirty' = FALSE /\ yank' = FALSE
  /\ Found(Absent)
  /\ UNCHANGED <<doing_ng, changed, panic, restore, quitx>>

ZeroLength(i) == content[i] \in {Blank, Partial}
NotZeroLength(i) == content[i] # Blank

\* "Warning: NAME is zero length but NAME.old is not."
OpenRefuses ==
  /\ At("open") /\ name # NoFile /\ oldname # NoFile
  /\ ZeroLength(name) /\ NotZeroLength(oldname)
  /\ GoTo("closed")
  /\ UNCHANGED <<diskVars, bitVars, changed, panic, restore, saved, history>>

OpenBacksUp ==
  /\ At("open") /\ name # NoFile
  /\ \/ NotZeroLength(name)
     \/ oldname = NoFile
     \/ oldname # NoFile /\ ZeroLength(oldname)
  /\ GoTo("unlinkOld")
  /\ UNCHANGED <<diskVars, bitVars, changed, panic, restore, saved, history>>

\* (mutant) The backup is given up and no new one made.
OpenForgetsLink ==
  /\ At("unlinkOld")
  /\ Disk(name, newname, NoFile, content)
  /\ GoTo("load")
  /\ opened' = Absent
  /\ UNCHANGED <<bitVars, changed, panic, restore, saved, quitx>>

\* remove(oldname): the backup of the session before is given up.
OpenUnlinksOld ==
  /\ At("unlinkOld")
  /\ Disk(name, newname, NoFile, content)
  /\ GoTo("link")
  /\ opened' = Absent
  /\ UNCHANGED <<bitVars, changed, panic, restore, saved, quitx>>

\* safelink(name, oldname)
OpenLinksOld ==
  /\ At("link")
  /\ Disk(name, newname, name, content)
  /\ GoTo("load")
  /\ UNCHANGED <<bitVars, changed, panic, restore, saved, history>>

\* "Can't link backup": finalize(1) with a null g_multirc.
OpenLinkFails ==
  /\ At("link") /\ "fail" \in Faults
  /\ GoTo("exit")
  /\ UNCHANGED <<diskVars, bitVars, changed, panic, restore, saved, history>>

\* The lines are read into memory; torn ones are as good as none.
OpenLoads ==
  /\ At("load")
  /\ ver' = IF content[name] \in Version THEN content[name] ELSE 0
  /\ dirty' = FALSE /\ yank' = FALSE
  /\ Found(content[name])
  /\ GoTo("list")
  /\ UNCHANGED <<diskVars, doing_ng, changed, panic, restore, quitx>>

----------------------------------------------------------------------------
(* The user at work *)

\* At the newsgroup list: subscribe, move a group, add one.
EditList ==
  /\ At("list") /\ Pending < MaxVer
  /\ ver' = ver + 1
  /\ changed' = TRUE
  /\ UNCHANGED <<diskVars, stack, dirty, yank, doing_ng, panic, restore, saved,
                 history>>

\* catch_up changes a line and writes the newsrc.
CatchUp ==
  /\ At("list") /\ Pending < MaxVer
  /\ ver' = ver + 1
  /\ changed' = TRUE
  /\ CallWrite("list")
  /\ UNCHANGED <<diskVars, dirty, yank, doing_ng, panic, restore, saved, history>>

\* do_newsgroup: "enter the twilight zone".
EnterGroup ==
  /\ At("list")
  /\ GoTo("group")
  /\ doing_ng' = TRUE
  /\ changed' = TRUE
  /\ UNCHANGED <<diskVars, ver, dirty, yank, panic, restore, saved, history>>

\* An article is marked as read or unread.
Mark ==
  /\ At("group") /\ ~dirty /\ Pending < MaxVer
  /\ dirty' = TRUE
  /\ UNCHANGED <<diskVars, stack, ver, yank, doing_ng, changed, panic, restore,
                 saved, history>>

\* delay_unmark: an article will be returned when the group is left.
DelayUnmark ==
  /\ At("group") /\ ~yank /\ Pending < MaxVer
  /\ yank' = TRUE
  /\ UNCHANGED <<diskVars, stack, ver, dirty, doing_ng, changed, panic, restore,
                 saved, history>>

\* checkpoint_newsrcs while an article is on the screen.
Checkpoint ==
  /\ At("group")
  /\ BitsToRc(FALSE)
  /\ changed' = TRUE
  /\ CallWrite("group")
  /\ UNCHANGED <<diskVars, doing_ng, panic, restore, saved, history>>

\* (mutant) bits_to_rc does not set RF_RCCHANGED.
LeaveGroupUnchanged ==
  /\ At("group")
  /\ BitsToRc(TRUE)
  /\ doing_ng' = FALSE
  /\ CallWrite("list") \/ GoTo("list")
  /\ UNCHANGED <<diskVars, changed, panic, restore, saved, history>>

\* do_newsgroup ends: yankback, bits_to_rc, "tell sig_catcher to cool it", and
\* write_newsrcs unless the user prefers unsafe saves.
LeaveGroup ==
  /\ At("group")
  /\ BitsToRc(TRUE)
  /\ changed' = TRUE
  /\ doing_ng' = FALSE
  /\ CallWrite("list") \/ GoTo("list")
  /\ UNCHANGED <<diskVars, panic, restore, saved, history>>

\* nntp_server_died, use_next_multirc: unuse_multirc.
Unuse ==
  /\ At("list")
  /\ CallWrite("closed")
  /\ UNCHANGED <<diskVars, bitVars, changed, panic, restore, saved, history>>

\* `q' at the newsgroup list: on to bug_out in do_multirc.
Quit ==
  /\ At("list")
  /\ CallWrite("bug_out")
  /\ UNCHANGED <<diskVars, bitVars, changed, panic, restore, saved, history>>

\* Nothing was written since open_newsrc linked the backup.
Idle == name = oldname /\ ~changed

\* (mutant) s_restore_old_newsrc is not set.
QuitAbandonForgets ==
  /\ At("list")
  /\ Idle => "idlex" \in Faults
  /\ quitx' = TRUE
  /\ CallWrite("bug_out")
  /\ UNCHANGED <<diskVars, bitVars, changed, panic, restore, saved, opened>>

\* `x': the changes are to be abandoned.
QuitAbandon ==
  /\ At("list")
  /\ Idle => "idlex" \in Faults
  /\ restore' = TRUE
  /\ quitx' = TRUE
  /\ CallWrite("bug_out")
  /\ UNCHANGED <<diskVars, bitVars, changed, panic, saved, opened>>

\* After bug_out: main calls finalize, multirc_selector calls unuse_multirc.
LeaveMultirc ==
  /\ At("leave")
  /\ CallWrite("exit") \/ CallWrite("closed")
  /\ UNCHANGED <<diskVars, bitVars, changed, panic, restore, saved, history>>

----------------------------------------------------------------------------
(* write_newsrcs *)

\* (mutant) finalize tries again until it can write.
ReturnRetries(ok) ==
  CASE Top.caller \in {"list", "group", "closed", "exit"} ->
         GoTo(Top.caller) /\ UNCHANGED restore
    [] Top.caller = "bug_out" ->
         /\ restore' = (restore \/ ~ok)
         /\ IF restore' THEN GoTo("oldNew") ELSE GoTo("leave")
    [] Top.caller = "finalize" ->
         CallWrite(IF ok THEN "exit" ELSE "finalize") /\ UNCHANGED restore
    [] Top.caller = "resume" -> stack' = Front(stack) /\ UNCHANGED restore

\* It returns ok to its caller.
ReturnWith(ok) ==
  CASE Top.caller \in {"list", "group", "closed", "exit"} ->
         GoTo(Top.caller) /\ UNCHANGED restore
    [] Top.caller = "bug_out" ->
         /\ restore' = (restore \/ ~ok)
         /\ IF restore' THEN GoTo("oldNew") ELSE GoTo("leave")
    [] Top.caller = "finalize" -> CallWrite("exit") /\ UNCHANGED restore
    [] Top.caller = "resume" -> stack' = Front(stack) /\ UNCHANGED restore

\* RF_RCCHANGED is not set.
WriteSkips ==
  /\ At("write") /\ ~changed
  /\ ReturnWith(TRUE)
  /\ UNCHANGED <<diskVars, bitVars, changed, panic, saved, history>>

\* (mutant) The newsrc itself is opened for writing.
WriteOpensName ==
  /\ At("write") /\ changed
  /\ name = NoFile => CanCreate
  /\ LET i == IF name = NoFile THEN Fresh ELSE name
     IN  /\ Disk(i, newname, oldname, [content EXCEPT ![i] = Partial])
         /\ stack' = [stack EXCEPT ![Len(stack)] =
                        [@ EXCEPT !.pc = "lines", !.fd = i, !.snap = ver]]
  /\ UNCHANGED <<bitVars, changed, panic, restore, saved, history>>

\* (mutant) The newsrc is removed before the new one is written.
WriteRemovesFirst ==
  /\ At("write") /\ changed
  /\ newname = NoFile => CanCreate
  /\ LET i == IF newname = NoFile THEN Fresh ELSE newname
     IN  /\ Disk(NoFile, i, oldname, [content EXCEPT ![i] = Partial])
         /\ stack' = [stack EXCEPT ![Len(stack)] =
                        [@ EXCEPT !.pc = "lines", !.fd = i, !.snap = ver]]
  /\ UNCHANGED <<bitVars, changed, panic, restore, saved, history>>

\* fopen(newname, "w") truncates the inode that name is linked to, if any;
\* from now on some of the lines may have reached it.
WriteOpens ==
  /\ At("write") /\ changed
  /\ newname = NoFile => CanCreate
  /\ LET i == IF newname = NoFile THEN Fresh ELSE newname
     IN  /\ Disk(name, i, oldname, [content EXCEPT ![i] = Partial])
         /\ stack' = [stack EXCEPT ![Len(stack)] =
                        [@ EXCEPT !.pc = "lines", !.fd = i, !.snap = ver]]
  /\ UNCHANGED <<bitVars, changed, panic, restore, saved, history>>

WriteOpenFails ==
  /\ At("write") /\ changed /\ "fail" \in Faults
  /\ ReturnWith(FALSE)
  /\ UNCHANGED <<diskVars, bitVars, changed, panic, saved, history>>

\* fclose: the last lines of version v reach the inode, which a handler may
\* have rewritten with another version c meanwhile.
Closed(c, v) == IF c \in {v, Partial} THEN {v} ELSE {v, c, Partial}

WriteCloses ==
  /\ At("lines")
  /\ \E c \in Closed(content[Top.fd], Top.snap) :
       Disk(name, newname, oldname, [content EXCEPT ![Top.fd] = c])
  /\ stack' = [stack EXCEPT ![Len(stack)] =
                 [@ EXCEPT !.pc = "clear", !.fd = NoFile]]
  /\ UNCHANGED <<bitVars, changed, panic, restore, saved, history>>

\* The disk is full: remove(newname).
WriteFails ==
  /\ At("lines") /\ "fail" \in Faults
  /\ Disk(name, NoFile, oldname, content)
  /\ ReturnWith(FALSE)
  /\ UNCHANGED <<bitVars, changed, panic, saved, history>>

WriteClears ==
  /\ At("clear")
  /\ changed' = FALSE
  /\ WriteOnAt("remove")
  /\ UNCHANGED <<diskVars, bitVars, panic, restore, saved, history>>

\* remove(name)
WriteRemoves ==
  /\ At("remove")
  /\ Disk(NoFile, newname, oldname, content)
  /\ WriteOnAt("rename")
  /\ UNCHANGED <<bitVars, changed, panic, restore, saved, history>>

\* (mutant) The arguments of rename are swapped.
WriteRenamesBack ==
  /\ At("rename")
  /\ IF name \in {NoFile, newname}
     THEN UNCHANGED diskVars
     ELSE Disk(NoFile, name, oldname, content)
  /\ saved' = Top.snap
  /\ ReturnWith(TRUE)
  /\ UNCHANGED <<bitVars, changed, panic, history>>

\* rename(newname, name), which does nothing if newname is gone or both names
\* are links to one inode.
WriteRenames ==
  /\ At("rename")
  /\ IF newname \in {NoFile, name}
     THEN UNCHANGED diskVars
     ELSE Disk(newname, NoFile, oldname, content)
  /\ saved' = Top.snap
  /\ ReturnWith(TRUE)
  /\ UNCHANGED <<bitVars, changed, panic, history>>

----------------------------------------------------------------------------
(* get_old_newsrcs *)

\* remove(newname)
OldUnlinksNew ==
  /\ At("oldNew")
  /\ Disk(name, NoFile, oldname, content)
  /\ GoTo("oldName")
  /\ UNCHANGED <<bitVars, changed, panic, restore, saved, history>>

\* rename(name, newname)
OldKeepsName ==
  /\ At("oldName")
  /\ IF name \in {NoFile, newname}
     THEN UNCHANGED diskVars
     ELSE Disk(NoFile, name, oldname, content)
  /\ GoTo("oldOld")
  /\ UNCHANGED <<bitVars, changed, panic, restore, saved, history>>

\* rename(oldname, name); what the user abandoned is no longer to be kept.
OldComesBack ==
  /\ At("oldOld")
  /\ IF oldname \in {NoFile, name}
     THEN UNCHANGED diskVars
     ELSE Disk(oldname, newname, NoFile, content)
  /\ GoTo("leave")
  /\ saved' = IF ~quitx THEN saved
              ELSE IF opened \in Version THEN opened ELSE Absent
  /\ UNCHANGED <<bitVars, changed, panic, restore, history>>

----------------------------------------------------------------------------
(* Signals and the end of a process *)

\* sig_catcher: the bits are brought back and what has changed is written;
\* finalize then calls unuse_multirc, which writes again.
Signal ==
  /\ Running /\ ~panic
  /\ AtPrompt \/ "signal" \in Faults
  /\ panic' = TRUE
  /\ doing_ng' = FALSE
  /\ IF doing_ng
     THEN BitsToRc(TRUE) /\ changed' = TRUE
     ELSE UNCHANGED <<ver, dirty, yank, changed>>
  /\ Interrupt(IF MultircInUse THEN Call("finalize") ELSE Code("exit"))
  /\ UNCHANGED <<diskVars, restore, saved, history>>

\* stop_catcher checkpoints before trn stops, and returns when it is continued.
Stop ==
  /\ Running /\ MultircInUse
  /\ \A k \in DOMAIN stack : stack[k].caller # "resume"
  /\ AtPrompt \/ "stop" \in Faults
  /\ IF doing_ng
     THEN BitsToRc(FALSE) /\ changed' = TRUE
     ELSE UNCHANGED <<ver, dirty, yank, changed>>
  /\ Interrupt(Call("resume"))
  /\ UNCHANGED <<diskVars, doing_ng, panic, restore, saved, history>>

\* The process exits without a g_multirc.
QuitClosed ==
  /\ At("closed") /\ Len(stack) = 1
  /\ GoTo("exit")
  /\ UNCHANGED <<diskVars, bitVars, changed, panic, restore, saved, history>>

\* What exit() makes of an inode that holds c when an interrupted write_newsrcs
\* has still lines of version v in its buffer.
Flushed(c, v) == IF c = v THEN {c} ELSE {c, v, Partial}

\* exit() flushes the FILEs of the interrupted code.
Exit ==
  /\ At("exit")
  /\ LET open == {stack[k].fd : k \in DOMAIN stack} \ {NoFile}
         Left(i) == UNION {Flushed(content[i], stack[k].snap) :
                             k \in {m \in DOMAIN stack : stack[m].fd = i}}
     IN  \E c \in [open -> Content] :
           /\ \A i \in open : c[i] \in Left(i)
           /\ Disk(name, newname, oldname,
                   [i \in Inode |-> IF i \in open THEN c[i] ELSE content[i]])
  /\ Gone
  /\ UNCHANGED <<saved, history>>

\* kill -9, a power failure, or the abort() of a second signal.
Kill ==
  /\ Running /\ "kill" \in Faults
  /\ Gone
  /\ UNCHANGED <<diskVars, saved, history>>

----------------------------------------------------------------------------

\* What trn does by itself, and what the user and the system do to it.
Progress ==
  \/ OpenCreates \/ OpenRefuses \/ OpenBacksUp \/ OpenUnlinksOld
  \/ OpenLinksOld \/ OpenLinkFails \/ OpenLoads \/ LeaveMultirc
  \/ WriteSkips \/ WriteOpens \/ WriteOpenFails \/ WriteCloses \/ WriteFails
  \/ WriteClears \/ WriteRemoves \/ WriteRenames
  \/ OldUnlinksNew \/ OldKeepsName \/ OldComesBack
  \/ Exit

User ==
  \/ Start \/ Reopen \/ QuitClosed
  \/ EditList \/ CatchUp \/ EnterGroup \/ Mark \/ DelayUnmark \/ Checkpoint
  \/ LeaveGroup \/ Unuse \/ Quit \/ QuitAbandon

Next == Progress \/ User \/ Signal \/ Stop \/ Kill

Spec == Init /\ [][Next]_vars

\* The system schedules trn: code that can go on goes on.
FairSpec == Spec /\ WF_vars(Progress)

----------------------------------------------------------------------------
(* Properties *)

Holds(i, v) == i # NoFile /\ content[i] \in Version /\ content[i] >= v

\* What write_newsrcs last reported as written and the user has not abandoned
\* is in the newsrc whenever trn waits for a command or is not running.
SavedIsNewsrc ==
  (~Running \/ AtPrompt) /\ saved \in Version => Holds(name, saved)

\* At every moment, in the middle of write_newsrcs and after a crash there, it
\* is in the newsrc or in NAME.new.
SavedSurvives ==
  saved \in Version => Holds(name, saved) \/ Holds(newname, saved)

\* The newsrc is never seen truncated or with lines missing.
NewsrcComplete == name # NoFile => content[name] # Partial

\* While groups are read NAME.old is "newsrc file at the beginning of this
\* session", as open_newsrc found it.
BackupKept ==
  (AtPrompt /\ ~At("closed") /\ opened # Absent)
    => oldname # NoFile /\ content[oldname] = opened

\* From the end of open_newsrc until the next one, what was found then is still
\* there in full, under NAME.old or under NAME.
BackupSurvives ==
  opened \in Version =>
    \E i \in {name, oldname} : i # NoFile /\ content[i] = opened

\* `x' restores the newsrc that was opened, and what `q' would have left is
\* called NAME.new.
AbandonRestores ==
  At("exit") /\ Len(stack) = 1 /\ quitx =>
    /\ IF opened = Absent THEN name = NoFile
       ELSE name # NoFile /\ content[name] = opened
    /\ newname # NoFile => content[newname] \in {ver, Blank}

\* sig_catcher and finalize come to an end, whatever fails on the way.
SignalledEnds == panic ~> ~Running

(* The inductive invariant behind BackupSurvives, without "fail", "idlex" and *)
(* "again".                                                                *)

\* Handlers do nothing but write newsrcs and exit, and while g_multirc is not
\* set they only exit.  The newsrc being opened is there.
Shape ==
  /\ \A k \in 2 .. Len(stack) :
       /\ stack[k].pc \in Writing \cup {"exit"}
       /\ stack[k].caller \in {"exit", "finalize", "resume"}
       /\ ~MultircInUse => stack[k].pc = "exit"
  /\ Running => stack[1].caller \notin {"finalize", "resume"}
  /\ Running /\ stack[1].pc \in {"unlinkOld", "link", "load"} => name # NoFile

Main(where) == Running /\ stack[1].pc \in where
MainWrites(for) == Main(Writing) /\ stack[1].caller \in for

\* The newsrc is no longer the file that NAME.old is a link to.
Moved == name = NoFile \/ name # oldname

\* NAME.new is a file of its own, and lines only ever go there.
NewApart ==
  /\ newname # NoFile => newname \notin {name, oldname}
  /\ \A k \in DOMAIN stack :
       /\ stack[k].fd = NoFile \/ stack[k].fd # oldname
       /\ stack[k].pc # "lines" => stack[k].fd = NoFile

\* Articles are marked in a group only, and `x' is the end of a multirc.
Phases ==
  /\ doing_ng => Main({"group"}) \/ MainWrites({"group"})
  /\ restore => \/ Main(GettingOld \cup {"leave", "closed", "exit"})
                \/ MainWrites({"bug_out", "closed", "exit"})

\* When get_old_newsrcs renames NAME there is nothing left to write and NAME is
\* not the backup any more.
Abandoning ==
  /\ restore /\ MainWrites({"bug_out"}) =>
       Moved \/ changed \/ \E k \in DOMAIN stack : stack[k].pc = "remove"
  /\ restore /\ MainWrites({"bug_out"}) /\ Main({"remove", "rename"}) => ~changed
  /\ Main({"oldNew", "oldName"}) => Moved
  /\ Main(GettingOld) => ~changed

\* The backup is where open_newsrc linked it, or, between the end of
\* get_old_newsrcs and the next open_newsrc, it is the newsrc.
InOld == oldname # NoFile /\ content[oldname] = opened
InName ==
  /\ name # NoFile /\ content[name] = opened
  /\ oldname = NoFile /\ ~changed
  /\ Running =>
       /\ \/ Main({"leave", "closed", "exit", "open", "unlinkOld"})
          \/ MainWrites({"exit", "closed"}) /\ Main({"write"})
       /\ \A k \in 2 .. Len(stack) : stack[k].pc \in {"write", "exit"}

Backup ==
  /\ opened # Absent => InOld \/ InName
  /\ Main({"link", "load"}) => opened = Absent
  /\ Main({"load"}) => oldname = name

BackupInv == Shape /\ NewApart /\ Phases /\ Abandoning /\ Backup

----------------------------------------------------------------------------
(* The newsrc that the reader sees *)

\* The main program is between two calls that give the newsrc another name.
Renaming == \E k \in DOMAIN stack : stack[k].pc \in {"rename", "oldOld"}

Visible(i) == IF content[i] = Blank THEN 0 ELSE content[i]

StoreDurable ==
  IF name # NoFile THEN Visible(name)
  ELSE IF Renaming /\ newname # NoFile THEN Visible(newname)
  ELSE Absent

\* g_multirc is set; after `x' until the newsrc that was opened is back, too.
StoreSession ==
  IF ~Running \/ At("exit") \/ ~MultircInUse THEN "closed"
  ELSE IF quitx /\ \/ stack[1].pc = "leave"
                   \/ stack[1].pc \in Writing /\ stack[1].caller # "bug_out"
       THEN "abandoned"
  ELSE "open"

StoreWorking ==
  IF StoreSession = "closed" THEN 0
  ELSE IF dirty THEN ver + 1 ELSE ver

StoreBase ==
  IF StoreSession = "closed" THEN Absent
  ELSE IF opened = Blank THEN 0 ELSE opened

\* As long as nothing fails, trn's files are such a newsrc.
Store == INSTANCE NewsrcStore
           WITH durable <- StoreDurable, session <- StoreSession,
                working <- StoreWorking, base <- StoreBase

ImplementsStore == Store!Spec

==============================================================================
