------------------------- MODULE NewsrcSaved_proofs -------------------------
(***************************************************************************)
(* For any number of versions and inodes: what write_newsrcs has written   *)
(* outlives a kill at any moment when nothing else goes wrong (OnlyKill):  *)
(* SavedSurvives and NewsrcComplete.  When nothing fails (NoFaults), what  *)
(* was saved is the newsrc, `x' brings back the newsrc that was opened,    *)
(* and trn's names, stack and lines in memory implement the newsrc of      *)
(* NewsrcStore: SavedIsNewsrc, AbandonRestores and ImplementsStore.        *)
(***************************************************************************)
EXTENDS NewsrcFiles_proofs

OnlyKill == Faults \subseteq {"kill"}

(* The inductive invariant *)

Prompt == {"list", "group", "closed"}
InCode(S) == Running /\ Top.pc \in S

\* Signals are caught at a prompt only, so at most one handler runs.
Quiet ==
  /\ Len(stack) \in 0 .. 2
  /\ Len(stack) = 2 => /\ stack[1].pc \in Prompt
                       /\ stack[2].pc \in Writing \cup {"exit"}

\* NAME and NAME.old are never links to a torn file.
Whole == \A i \in {name, oldname} : i # NoFile => content[i] # Partial

\* What NAME.new holds on the way from fopen to rename.
Stages ==
  /\ InCode({"lines", "clear", "remove", "rename"}) =>
       newname # NoFile /\ Top.snap = ver
  /\ InCode({"lines"}) => Top.fd = newname /\ content[newname] = Partial
  /\ InCode({"clear", "remove", "rename"}) => content[newname] = ver

\* NAME holds what was saved; NAME.new does while there is no NAME, which is
\* the case between two steps of trn, or after a crash there.
Kept ==
  saved \in Version => Holds(IF name # NoFile THEN name ELSE newname, saved)
Missing ==
  Running /\ name = NoFile /\ saved \in Version =>
    Top.pc \in {"rename", "oldOld", "open"}

\* The lines in memory are no older than what was read and written.
Loaded == Running /\ stack[1].pc \notin Opening \cup {"closed", "exit"}
Older ==
  Loaded => /\ saved \in Version => saved <= ver
            /\ opened \in Version => opened <= ver

\* The old newsrc comes back only when the user asked for it.
Asked == (restore => quitx) /\ (Main(GettingOld) => restore)

CrashInv == Quiet /\ Whole /\ Stages /\ Kept /\ Missing /\ Older /\ Asked

(* The stack of at most one handler *)

LEMMA Bottom ==
  ASSUME StackType, Quiet, Running
  PROVE  /\ Len(stack) \in {1, 2} /\ DOMAIN stack = 1 .. Len(stack)
         /\ stack[1] \in Frame /\ Top \in Frame /\ Top = stack[Len(stack)]
         /\ Len(stack) = 2 => /\ stack[1].pc \in Prompt
                              /\ Top.pc \in Writing \cup {"exit"}
<1>1. Len(stack) \in Nat \ {0} /\ DOMAIN stack = 1 .. Len(stack)
  BY DEF StackType, Running
<1>2. Len(stack) \in {1, 2}
  BY <1>1 DEF Quiet
<1>3. 1 \in DOMAIN stack /\ Len(stack) \in DOMAIN stack
  BY <1>1, <1>2
<1>4. Top = stack[Len(stack)]
  BY DEF Top, Last
<1> QED
  BY <1>1, <1>2, <1>3, <1>4 DEF StackType, Quiet

\* The code on top goes on with g.
GoesOn(g) ==
  /\ Running /\ Running' /\ Quiet' /\ Top' = g /\ Len(stack') = Len(stack)
  /\ stack'[1] = IF Len(stack) = 1 THEN g ELSE stack[1]

LEMMA Replaced ==
  ASSUME StackType, Quiet, Running, NEW g,
         stack' = [stack EXCEPT ![Len(stack)] = g],
         Len(stack) = 2 => g.pc \in Writing \cup {"exit"}
  PROVE  GoesOn(g)
<1>1. /\ Len(stack) \in {1, 2} /\ DOMAIN stack = 1 .. Len(stack)
      /\ Len(stack) = 2 => stack[1].pc \in Prompt
  BY Bottom
<1>2. /\ Len(stack') = Len(stack) /\ DOMAIN stack' = DOMAIN stack
      /\ \A k \in DOMAIN stack :
           stack'[k] = IF k = Len(stack) THEN g ELSE stack[k]
  BY DEF StackType
<1>3. 1 \in DOMAIN stack /\ Len(stack) \in DOMAIN stack
  BY <1>1
<1>4. Running' /\ stack'[Len(stack)] = g
  BY <1>2, <1>3 DEF Running
<1>5. Top' = g
  BY <1>2, <1>4 DEF Top, Last
<1>6. stack'[1] = IF Len(stack) = 1 THEN g ELSE stack[1]
  BY <1>2, <1>3
<1>7. Quiet'
  BY <1>1, <1>2, <1>4, <1>6 DEF Quiet
<1> QED
  BY <1>2, <1>4, <1>5, <1>6, <1>7 DEF GoesOn

\* A handler interrupts the prompt.
LEMMA Interrupted ==
  ASSUME StackType, AtPrompt, NEW g \in Frame, Interrupt(g),
         g.pc \in Writing \cup {"exit"}
  PROVE  /\ Running /\ Running' /\ Quiet' /\ Top' = g
         /\ Len(stack) = 1 /\ Len(stack') = 2 /\ stack'[1] = stack[1]
         /\ stack[1].pc \in Prompt /\ Top = stack[1]
<1>1. Running /\ Len(stack) = 1 /\ Top = stack[1] /\ stack[1].pc \in Prompt
  <2>1. Len(stack) = 1 /\ Top.pc \in Prompt
    BY DEF AtPrompt, Prompt
  <2>2. Len(stack) # Len(<< >>)
    BY <2>1
  <2> QED
    BY <2>1, <2>2 DEF Running, Top, Last
<1>2. Len(stack') = 2 /\ stack'[2] = g /\ stack'[1] = stack[1] /\ Running'
  BY <1>1 DEF StackType, Interrupt, Running
<1>3. Top' = g
  BY <1>2 DEF Top, Last
<1> QED
  BY <1>1, <1>2, <1>3 DEF Quiet

\* write_newsrcs returns: in the main program to what called it, in a handler
\* to its next call or to what it interrupted.
LEMMA Returned ==
  ASSUME Types, Shape, Quiet, NEW w \in Writing, At(w), ReturnWith(TRUE)
  PROVE  /\ Running /\ Running' /\ Quiet' /\ restore' = restore
         /\ \/ Len(stack) = 1 /\ \E x : ReturnsTo(x) /\ Top' = Code(x)
            \/ /\ Len(stack) = 2
               /\ stack'[1] = stack[1] /\ stack[1].pc \in Prompt
               /\ \/ Top' \in {Code("exit"), Call("exit")} /\ Len(stack') = 2
                  \/ Top' = stack[1] /\ Len(stack') = 1 /\ Top.caller = "resume"
<1> USE DEF Types
<1>1. /\ Running /\ Len(stack) \in {1, 2} /\ DOMAIN stack = 1 .. Len(stack)
      /\ Top = stack[Len(stack)] /\ Top.pc = w
      /\ Len(stack) = 2 => stack[1].pc \in Prompt
  BY AtTop, Bottom
<1>2. restore' = restore
  BY ReturnEffect
<1>3. CASE Len(stack) = 1
  <2>1. Top.caller \in {"list", "group", "closed", "exit", "bug_out"}
    BY <1>1, <1>3, AtTop DEF Shape, Frame, Caller
  <2>2. PICK x : /\ GoTo(x)
                 /\ IF stack[1].caller = "bug_out"
                    THEN x = IF restore' THEN "oldNew" ELSE "leave"
                    ELSE /\ x = stack[1].caller
                         /\ x \in {"list", "group", "closed", "exit"}
    BY <1>1, <1>3, <2>1 DEF ReturnWith
  <2>3. GoesOn(Code(x))
    <3>1. stack' = [stack EXCEPT ![Len(stack)] = Code(x)] /\ Len(stack) # 2
      BY <1>3, <2>2 DEF GoTo
    <3> QED
      BY <1>1, <3>1, Replaced
  <2>4. DOMAIN stack = {1} /\ DOMAIN stack' = {1}
    BY <1>1, <1>3, <2>2 DEF GoTo, StackType
  <2>5. ReturnsTo(x) /\ Top' = Code(x)
    BY <1>2, <1>3, <2>2, <2>3, <2>4 DEF ReturnsTo, GoesOn
  <2> QED
    BY <1>1, <1>2, <1>3, <2>3, <2>5 DEF GoesOn
<1>4. CASE Len(stack) = 2
  <2>1. Top.caller \in {"exit", "finalize", "resume"}
    BY <1>1, <1>4 DEF Shape
  <2>2. CASE Top.caller # "resume"
    <3>1. GoTo("exit") \/ CallWrite("exit")
      BY <2>1, <2>2 DEF ReturnWith
    <3>2. PICK g \in {Code("exit"), Call("exit")} :
            stack' = [stack EXCEPT ![Len(stack)] = g]
      BY <3>1 DEF GoTo, CallWrite
    <3>3. GoesOn(g)
      BY <1>1, <3>2, CodeFields, CallFields, Replaced DEF Writing
    <3> QED
      BY <1>1, <1>2, <1>4, <3>2, <3>3 DEF GoesOn
  <2>3. CASE Top.caller = "resume"
    <3>1. stack' = SubSeq(stack, 1, 1)
      BY <1>4, <2>3 DEF ReturnWith, Front
    <3>2. Len(stack') = 1 /\ stack'[1] = stack[1]
      BY <1>4, <3>1 DEF StackType
    <3>3. Len(stack') # Len(<< >>)
      BY <3>2
    <3>4. Running' /\ Top' = stack[1] /\ Quiet'
      BY <3>2, <3>3 DEF Running, Top, Last, Quiet
    <3> QED
      BY <1>1, <1>2, <1>4, <2>3, <3>2, <3>4
  <2> QED
    BY <2>2, <2>3
<1> QED
  BY <1>1, <1>3, <1>4

(* Versions, and what does not change *)

LEMMA Versions ==
  /\ Version \subseteq Nat
  /\ Partial \notin Version /\ Absent \notin Version /\ Blank \notin Version
BY FilesAssumption DEF Version, Partial, Absent, Blank

\* The directory and what was saved stay as they are.
LEMMA DiskStays ==
  ASSUME Whole, Kept, UNCHANGED diskVars, saved' = saved
  PROVE  Whole' /\ Kept'
BY DEF Whole, Kept, Holds, diskVars

\* NAME stays, and so do the inodes under it and NAME.old.
LEMMA NameStays ==
  ASSUME DiskTypes, Whole, Kept, saved' = saved, NEW n, NEW o, NEW c,
         Disk(name, n, o, c), o \in {oldname, name, NoFile},
         name # NoFile \/ saved \notin Version,
         name # NoFile => c[name] = content[name],
         oldname # NoFile => c[oldname] = content[oldname]
  PROVE  Whole' /\ Kept'
BY DEF DiskTypes, Whole, Kept, Holds, Disk

LEMMA MissingStays ==
  ASSUME Missing, Running, name' = name, saved' = saved,
         Top.pc \notin {"rename", "oldOld", "open"}
  PROVE  Missing' /\ (name # NoFile \/ saved \notin Version)
BY DEF Missing

LEMMA OlderStays ==
  ASSUME Types, Types', Older, saved' = saved, opened' = opened,
         ver' = ver \/ ver' = ver + 1, Loaded' => Loaded
  PROVE  Older'
<1>1. /\ ver \in Nat /\ ver' \in Nat
      /\ saved \in Version => saved \in Nat
      /\ opened \in Version => opened \in Nat
  BY Versions DEF Types, BitTypes
<1> QED
  BY <1>1 DEF Older

LEMMA Unstaged ==
  ASSUME Running' => Top'.pc \notin {"lines", "clear", "remove", "rename"}
  PROVE  Stages'
BY DEF Stages, InCode

LEMMA MovedBits ==
  ASSUME NEW back, BitsToRc(back) PROVE ver' = ver \/ ver' = ver + 1
BY DEF BitsToRc

(* The steps *)

\* A step of the main program that leaves the directory alone.
LEMMA CrashSteady ==
  ASSUME Types, Types', BackupInv, CrashInv, OnlyKill,
         \/ OpenRefuses \/ OpenBacksUp \/ Reopen \/ QuitClosed \/ EnterGroup
         \/ CatchUp \/ Checkpoint \/ Unuse \/ Quit \/ QuitAbandon
         \/ LeaveMultirc \/ LeaveGroup
  PROVE  CrashInv'
<1> USE DEF Types
<1>1. PICK w \in {"open", "closed", "list", "group", "leave"},
           g \in {Code("closed"), Code("unlinkOld"), Code("open"),
                  Code("exit"), Code("group"), Code("list"),
                  Call("list"), Call("group"), Call("closed"),
                  Call("bug_out"), Call("exit")} :
        /\ At(w) /\ stack' = [stack EXCEPT ![Len(stack)] = g]
        /\ w = "open" => name # NoFile
        /\ w \in {"open", "closed"} =>
             g \in {Code("closed"), Code("unlinkOld"), Code("open"), Code("exit")}
  BY Zenon
     DEF OpenRefuses, OpenBacksUp, Reopen, QuitClosed, EnterGroup, CatchUp,
         Checkpoint, Unuse, Quit, QuitAbandon, LeaveMultirc, LeaveGroup, GoTo,
         CallWrite
<1>2. /\ Running /\ Len(stack) = 1 /\ Top = stack[1] /\ Top.pc = w
      /\ w \notin Writing \cup {"exit"}
  BY <1>1, AtTop, MainOnly DEF Writing, BackupInv
<1>3. GoesOn(g) /\ Top' = g /\ stack'[1] = g
  <2>1. Quiet /\ Len(stack) # 2
    BY <1>2 DEF CrashInv
  <2> QED
    BY <1>1, <1>2, <2>1, Replaced DEF GoesOn
<1>4. g.pc \in {"closed", "unlinkOld", "open", "exit", "group", "list", "write"}
  BY <1>1, CodeFields, CallFields
<1>5. /\ UNCHANGED diskVars /\ saved' = saved /\ opened' = opened
      /\ ver' = ver \/ ver' = ver + 1
  BY MovedBits
     DEF OpenRefuses, OpenBacksUp, Reopen, QuitClosed, EnterGroup, CatchUp,
         Checkpoint, Unuse, Quit, QuitAbandon, LeaveMultirc, LeaveGroup,
         bitVars, history
<1>6. Whole' /\ Kept'
  BY <1>5, DiskStays DEF CrashInv
<1>7. Missing'
  <2>1. name = NoFile => saved \notin Version
    BY <1>1, <1>2 DEF CrashInv, Missing
  <2> QED
    BY <1>5, <2>1 DEF Missing, diskVars
<1>8. Stages'
  BY <1>3, <1>4, Unstaged DEF GoesOn
<1>9. Older'
  <2>1. Loaded' => Loaded
    BY <1>1, <1>2, <1>3, CodeFields DEF Loaded, Opening
  <2> QED
    BY <1>5, <2>1, OlderStays DEF CrashInv
<1>10. Asked'
  <2>1. ~Main(GettingOld)'
    BY <1>3, <1>4 DEF Main, GettingOld
  <2>2. restore' => quitx'
    BY DEF OnlyKill, CrashInv, Asked, FlagTypes,
         OpenRefuses, OpenBacksUp, Reopen, QuitClosed, EnterGroup, CatchUp,
         Checkpoint, Unuse, Quit, QuitAbandon, LeaveMultirc, LeaveGroup, history
  <2> QED
    BY <2>1, <2>2 DEF Asked
<1> QED
  BY <1>3, <1>6, <1>7, <1>8, <1>9, <1>10 DEF GoesOn, CrashInv

\* open_newsrc links, unlinks and creates names, and reads the newsrc.
LEMMA CrashOpens ==
  ASSUME Types, Types', BackupInv, CrashInv,
         OpenCreates \/ OpenUnlinksOld \/ OpenLinksOld \/ OpenLoads
  PROVE  CrashInv'
<1> USE DEF Types
<1>1. PICK w \in {"open", "unlinkOld", "link", "load"},
           g \in {Code("list"), Code("link"), Code("load")} :
        /\ At(w) /\ stack' = [stack EXCEPT ![Len(stack)] = g]
        /\ OpenUnlinksOld \/ OpenLinksOld => w # "open" /\ g.pc \in Opening
        /\ OpenLoads => w = "load"
  BY CodeFields
     DEF OpenCreates, OpenUnlinksOld, OpenLinksOld, OpenLoads, GoTo, At, Opening
<1>2. /\ Running /\ Len(stack) = 1 /\ Top = stack[1] /\ Top.pc = w
      /\ w \notin Writing \cup {"exit"}
  BY <1>1, AtTop, MainOnly DEF Writing, BackupInv
<1>3. GoesOn(g) /\ Top' = g /\ stack'[1] = g
  <2>1. Quiet /\ Len(stack) # 2
    BY <1>2 DEF CrashInv
  <2> QED
    BY <1>1, <1>2, <2>1, Replaced DEF GoesOn
<1>4. g.pc \in {"list", "link", "load"}
  BY <1>1, CodeFields
<1>5. Stages'
  BY <1>3, <1>4, Unstaged DEF GoesOn
<1>6. Asked'
  <2>1. ~Main(GettingOld)'
    BY <1>3, <1>4 DEF Main, GettingOld
  <2>2. restore' = restore /\ quitx' = quitx
    BY DEF OpenCreates, OpenUnlinksOld, OpenLinksOld, OpenLoads, history
  <2> QED
    BY <2>1, <2>2 DEF CrashInv, Asked
<1>7. Whole' /\ Kept' /\ Missing' /\ Older'
  <2>1. CASE OpenCreates
    <3>1. Unused(Fresh) /\ Fresh \in Inode
      BY <2>1, FreshType DEF OpenCreates
    <3>2. /\ name' = Fresh /\ oldname' = oldname /\ opened' = Absent
          /\ content'[Fresh] = Blank
          /\ oldname # NoFile => content'[oldname] = content[oldname]
          /\ saved' = Absent
      BY <2>1, <3>1, Versions DEF OpenCreates, Disk, Found, DiskTypes, Unused
    <3> QED
      BY <3>1, <3>2, Versions
         DEF CrashInv, Whole, Kept, Missing, Older, Blank, Partial, Unused
  <2>2. CASE OpenUnlinksOld \/ OpenLinksOld
    <3>1. /\ saved' = saved /\ name' = name /\ name # NoFile
          /\ \E o \in {name, NoFile} : Disk(name, newname, o, content)
      BY <1>1, <1>2, <2>2, DiskNames
         DEF OpenUnlinksOld, OpenLinksOld, history, BackupInv, Shape, At
    <3>2. Whole' /\ Kept'
      BY <3>1, NameStays DEF CrashInv
    <3>3. Missing'
      BY <3>1, Zenon DEF Missing, DiskTypes
    <3>4. ~Loaded'
      BY <1>1, <1>3, <2>2 DEF Loaded
    <3> QED
      BY <3>2, <3>3, <3>4 DEF Older
  <2>3. CASE OpenLoads
    <3>1. name # NoFile
      BY <2>3, AtLoad DEF OpenLoads, BackupInv
    <3>2. /\ UNCHANGED diskVars /\ opened' = content[name]
          /\ saved' = IF content[name] \in Version THEN content[name] ELSE Absent
          /\ ver' = IF content[name] \in Version THEN content[name] ELSE 0
      BY <2>3 DEF OpenLoads, Found
    <3>3. Whole'
      BY <3>2 DEF CrashInv, Whole, diskVars
    <3>4. saved' \in Version => saved' = content[name] /\ content[name] \in Nat
      BY <3>2, Versions
    <3>5. Kept' /\ Missing'
      BY <3>1, <3>2, <3>4 DEF Kept, Missing, Holds, diskVars
    <3>6. Older'
      BY <3>2, <3>4, Versions DEF Older
    <3> QED
      BY <3>3, <3>5, <3>6
  <2> QED
    BY <2>1, <2>2, <2>3
<1> QED
  BY <1>3, <1>5, <1>6, <1>7 DEF GoesOn, CrashInv

\* get_old_newsrcs: NAME becomes NAME.new, and NAME.old becomes NAME.
LEMMA CrashRestores ==
  ASSUME Types, Types', BackupInv, CrashInv,
         OldUnlinksNew \/ OldKeepsName \/ OldComesBack
  PROVE  CrashInv'
<1> USE DEF Types
<1>1. PICK w \in GettingOld,
           g \in {Code("oldName"), Code("oldOld"), Code("leave")} :
        /\ At(w) /\ stack' = [stack EXCEPT ![Len(stack)] = g]
        /\ \/ OldUnlinksNew /\ w = "oldNew" /\ g = Code("oldName")
           \/ OldKeepsName /\ w = "oldName" /\ g = Code("oldOld")
           \/ OldComesBack /\ w = "oldOld" /\ g = Code("leave")
  BY DEF OldUnlinksNew, OldKeepsName, OldComesBack, GoTo, GettingOld
<1>2. /\ Running /\ Len(stack) = 1 /\ Top = stack[1] /\ Top.pc = w
      /\ w \notin Writing \cup {"exit"} \cup Opening
  BY <1>1, AtTop, MainOnly DEF Writing, Opening, GettingOld, BackupInv
<1>3. GoesOn(g) /\ Top' = g /\ stack'[1] = g
  <2>1. Quiet /\ Len(stack) # 2
    BY <1>2 DEF CrashInv
  <2> QED
    BY <1>1, <1>2, <2>1, Replaced DEF GoesOn
<1>4. g.pc \in {"oldName", "oldOld", "leave"}
  BY <1>1, CodeFields
<1>5. Stages'
  BY <1>3, <1>4, Unstaged DEF GoesOn
<1>6. restore /\ quitx /\ Loaded
  <2>1. Main(GettingOld)
    BY <1>2 DEF Main
  <2> QED
    BY <1>2, <2>1 DEF CrashInv, Asked, Loaded, GettingOld
<1>7. restore' /\ quitx' /\ ver' = ver /\ opened' = opened
  BY <1>6 DEF OldUnlinksNew, OldKeepsName, OldComesBack, history, bitVars
<1>8. Asked'
  BY <1>7 DEF Asked
<1>9. newname # NoFile => newname # name
  BY DEF BackupInv, NewApart
<1>10. Whole' /\ Kept' /\ Missing'
  <2>1. CASE OldUnlinksNew
    <3>1. saved' = saved /\ Disk(name, NoFile, oldname, content)
      BY <2>1 DEF OldUnlinksNew
    <3>2. Missing' /\ (name # NoFile \/ saved \notin Version)
      BY <1>1, <1>2, <2>1, <3>1, MissingStays, DiskNames
         DEF CrashInv, OldUnlinksNew, At
    <3> QED
      BY <3>1, <3>2, NameStays DEF CrashInv
  <2>2. CASE OldKeepsName
    <3>1. saved' = saved /\ w = "oldName"
      BY <1>1, <1>2, <2>2 DEF OldKeepsName, OldUnlinksNew, OldComesBack, At
    <3>2. name # NoFile \/ saved \notin Version
      BY <1>2, <3>1 DEF CrashInv, Missing
    <3>3. CASE name = NoFile
      BY <2>2, <3>1, <3>2, <3>3, DiskStays
         DEF OldKeepsName, CrashInv, Missing, diskVars
    <3>4. CASE name # NoFile
      <4>1. Disk(NoFile, name, oldname, content)
        BY <1>9, <2>2, <3>4 DEF OldKeepsName
      <4>2. Whole' /\ Kept'
        BY <3>1, <3>4, <4>1
           DEF Disk, DiskTypes, CrashInv, Whole, Kept, Holds
      <4>3. Top'.pc = "oldOld"
        BY <1>1, <1>2, <1>3, <2>2, CodeFields DEF OldKeepsName, At
      <4> QED
        BY <4>2, <4>3 DEF Missing
    <3> QED
      BY <3>3, <3>4
  <2>3. CASE OldComesBack
    <3>1. saved' = IF opened \in Version THEN opened ELSE Absent
      BY <1>6, <2>3 DEF OldComesBack
    <3>2. opened # Absent => InOld
      BY <1>2 DEF BackupInv, Backup, InName, Main, MainWrites, Writing, Opening,
                  GettingOld
    <3>3. CASE opened \notin Version
      <4>1. saved' \notin Version
        BY <3>1, <3>3, Versions
      <4>2. Whole'
        BY <2>3 DEF OldComesBack, CrashInv, Whole, Disk, diskVars, DiskTypes
      <4> QED
        BY <4>1, <4>2 DEF Kept, Missing
    <3>4. CASE opened \in Version
      <4>1. /\ oldname # NoFile /\ content[oldname] = opened /\ saved' = opened
            /\ opened \in Nat
        BY <3>1, <3>2, <3>4, Versions DEF InOld
      <4>2. name' = oldname /\ content'[oldname] = content[oldname]
            /\ oldname' \in {NoFile, oldname}
        BY <2>3, <4>1 DEF OldComesBack, Disk, diskVars, DiskTypes
      <4> QED
        BY <4>1, <4>2, <3>4 DEF CrashInv, Whole, Kept, Missing, Holds
    <3> QED
      BY <3>3, <3>4
  <2> QED
    BY <2>1, <2>2, <2>3
<1>11. Older'
  <2>1. saved' = saved \/ saved' = opened \/ saved' = Absent
    BY DEF OldUnlinksNew, OldKeepsName, OldComesBack
  <2> QED
    BY <1>6, <1>7, <2>1, Versions DEF CrashInv, Older
<1> QED
  BY <1>3, <1>5, <1>8, <1>10, <1>11 DEF GoesOn, CrashInv

\* Whoever writes has read the newsrc before.
LEMMA WriterLoaded ==
  ASSUME StackType, Shape, Quiet, NEW w \in Writing, At(w)
  PROVE  Loaded
<1>1. /\ Running /\ MultircInUse /\ Top = stack[Len(stack)] /\ Top.pc = w
      /\ Len(stack) \in {1, 2}
      /\ Len(stack) = 2 => stack[1].pc \in Prompt
  BY WriterEffect, Bottom
<1> QED
  BY <1>1 DEF Loaded, MultircInUse, Writing, Prompt

\* write_newsrcs on its way from fopen to rename.
LEMMA CrashWrites ==
  ASSUME Types, Types', BackupInv, CrashInv,
         WriteOpens \/ WriteCloses \/ WriteClears \/ WriteRemoves
  PROVE  CrashInv'
<1> USE DEF Types
<1>0. Shape /\ Quiet
  BY DEF BackupInv, CrashInv
<1>1. PICK w \in Writing, g \in Frame :
        /\ At(w) /\ stack' = [stack EXCEPT ![Len(stack)] = g]
        /\ g.pc \in Writing /\ g.caller = Top.caller
        /\ WriteOpens => w = "write" /\ g.pc = "lines"
        /\ WriteCloses => w = "lines" /\ g.pc = "clear"
        /\ WriteClears => w = "clear" /\ g.pc = "remove"
        /\ WriteRemoves => w = "remove" /\ g.pc = "rename"
  BY <1>0, WritesTo
<1>2. /\ Running /\ Top = stack[Len(stack)] /\ Top.pc = w /\ Top \in Frame
      /\ Len(stack) \in DOMAIN stack /\ Loaded
  BY <1>0, <1>1, AtTop, WriterLoaded
<1>3. GoesOn(g)
  BY <1>0, <1>1, <1>2, Replaced
<1>4. /\ w \in {"write", "lines", "clear", "remove"}
      /\ g.pc \in {"lines", "clear", "remove", "rename"}
  BY <1>1
<1>5. /\ saved' = saved /\ opened' = opened /\ ver' = ver
      /\ restore' = restore /\ quitx' = quitx
  BY DEF WriteOpens, WriteCloses, WriteClears, WriteRemoves, bitVars, history
<1>6. Asked'
  <2>1. Main(GettingOld)' => Main(GettingOld)
    BY <1>2, <1>3, <1>4 DEF GoesOn, Main, GettingOld
  <2> QED
    BY <1>5, <2>1 DEF CrashInv, Asked
<1>7. Older'
  BY <1>2, <1>5, OlderStays DEF CrashInv
<1>8. name # NoFile \/ saved \notin Version
  BY <1>2, <1>4 DEF CrashInv, Missing
<1>9. newname # NoFile => newname \notin {name, oldname}
  BY DEF BackupInv, NewApart
<1>10. Whole' /\ Kept' /\ Missing' /\ Stages'
  <2>1. CASE WriteOpens
    <3> DEFINE i == IF newname = NoFile THEN Fresh ELSE newname
               c == [content EXCEPT ![i] = Partial]
    <3>1. i \in Inode /\ i \notin {name, oldname, NoFile}
      BY <1>9, <2>1, FreshType, FilesAssumption DEF WriteOpens, Unused, DiskTypes
    <3>2. /\ Disk(name, i, oldname, c)
          /\ stack' = [stack EXCEPT ![Len(stack)] =
                         [@ EXCEPT !.pc = "lines", !.fd = i, !.snap = ver]]
      BY <2>1 DEF WriteOpens
    <3>3. g.pc = "lines" /\ g.fd = i /\ g.snap = ver
      <4>1. [stack EXCEPT ![Len(stack)] = g][Len(stack)] =
              [stack[Len(stack)] EXCEPT !.pc = "lines", !.fd = i, !.snap = ver]
        BY <1>1, <1>2, <3>2
      <4>2. g = [Top EXCEPT !.pc = "lines", !.fd = i, !.snap = ver]
        BY <1>2, <4>1 DEF StackType
      <4> QED
        BY <1>2, <4>2 DEF Frame
    <3>4. c[i] = Partial /\ \A k \in Inode \ {i} : c[k] = content[k]
      BY <3>1 DEF DiskTypes
    <3> HIDE DEF i, c
    <3>5. Whole' /\ Kept'
      BY <1>5, <1>8, <3>1, <3>2, <3>4, NameStays DEF CrashInv, DiskTypes
    <3>6. name' = name /\ newname' = i /\ content'[i] = Partial
      BY <3>1, <3>2, <3>4 DEF Disk
    <3>7. Missing'
      BY <1>5, <1>8, <3>6 DEF Missing
    <3>8. Stages'
      BY <1>3, <1>5, <3>1, <3>3, <3>6 DEF GoesOn, Stages, InCode
    <3> QED
      BY <3>5, <3>7, <3>8
  <2>2. CASE WriteCloses
    <3>1. At("lines") /\ w = "lines" /\ g.pc = "clear"
      BY <1>1, <1>2, <2>2 DEF WriteCloses
    <3>2. /\ newname # NoFile /\ Top.snap = ver /\ Top.fd = newname
          /\ content[newname] = Partial
      BY <1>2, <3>1 DEF CrashInv, Stages, InCode
    <3> DEFINE c == [content EXCEPT ![newname] = ver]
    <3>3. /\ Disk(name, newname, oldname, c)
          /\ stack' = [stack EXCEPT ![Len(stack)] =
                         [@ EXCEPT !.pc = "clear", !.fd = NoFile]]
      BY <2>2, <3>2 DEF WriteCloses, Closed
    <3>4. g.snap = ver
      <4>1. [stack EXCEPT ![Len(stack)] = g][Len(stack)] =
              [stack[Len(stack)] EXCEPT !.pc = "clear", !.fd = NoFile]
        BY <1>1, <1>2, <3>3
      <4>2. g = [Top EXCEPT !.pc = "clear", !.fd = NoFile]
        BY <1>2, <4>1 DEF StackType
      <4> QED
        BY <1>2, <3>2, <4>2 DEF Frame
    <3>5. c[newname] = ver /\ \A k \in Inode \ {newname} : c[k] = content[k]
      BY <3>2 DEF DiskTypes
    <3> HIDE DEF c
    <3>6. Whole' /\ Kept'
      BY <1>5, <1>8, <1>9, <3>2, <3>3, <3>5, NameStays DEF CrashInv, DiskTypes
    <3>7. name' = name /\ newname' = newname /\ content'[newname] = ver
      BY <3>2, <3>3, <3>5 DEF Disk, DiskTypes
    <3>8. Missing'
      BY <1>5, <1>8, <3>7 DEF Missing
    <3>9. Stages'
      BY <1>3, <1>5, <3>1, <3>2, <3>4, <3>7 DEF GoesOn, Stages, InCode
    <3> QED
      BY <3>6, <3>8, <3>9
  <2>3. CASE WriteClears \/ WriteRemoves
    <3>1. /\ w \in {"clear", "remove"} /\ (WriteClears \/ w = "remove")
          /\ WriteClears => UNCHANGED diskVars
          /\ WriteRemoves => /\ Disk(NoFile, newname, oldname, content)
                             /\ g.pc = "rename"
          /\ \E x : stack' = [stack EXCEPT ![Len(stack)].pc = x]
      BY <1>1, <2>3 DEF WriteClears, WriteRemoves, WriteOnAt
    <3>2. newname # NoFile /\ Top.snap = ver /\ content[newname] = ver
      BY <1>2, <3>1 DEF CrashInv, Stages, InCode
    <3>3. g.snap = ver
      <4>1. PICK x : stack' = [stack EXCEPT ![Len(stack)].pc = x]
        BY <3>1
      <4>2. [stack EXCEPT ![Len(stack)] = g][Len(stack)] =
              [stack[Len(stack)] EXCEPT !.pc = x]
        BY <1>1, <1>2, <4>1
      <4>3. g = [Top EXCEPT !.pc = x]
        BY <1>2, <4>2 DEF StackType
      <4> QED
        BY <1>2, <3>2, <4>3 DEF Frame
    <3>4. g.pc \in {"remove", "rename"}
      BY <1>1, <2>3
    <3>5. CASE WriteClears
      <4>1. Stages'
        BY <1>3, <1>5, <3>1, <3>2, <3>3, <3>4, <3>5
           DEF GoesOn, Stages, InCode, diskVars
      <4>2. Missing'
        BY <1>5, <1>8, <3>1, <3>5 DEF Missing, diskVars
      <4> QED
        BY <1>5, <3>1, <3>5, <4>1, <4>2, DiskStays DEF CrashInv
    <3>6. CASE WriteRemoves
      <4>1. /\ name' = NoFile /\ newname' = newname /\ oldname' = oldname
            /\ content'[newname] = ver /\ Top'.pc = "rename" /\ Top'.snap = ver
            /\ oldname # NoFile => content'[oldname] = content[oldname]
        BY <1>3, <3>1, <3>2, <3>3, <3>6 DEF Disk, DiskTypes, GoesOn
      <4>2. ver \in Version /\ (saved \in Version => saved <= ver)
        BY <1>2 DEF CrashInv, Older, BitTypes
      <4>3. Whole' /\ Stages'
        BY <1>5, <3>2, <4>1 DEF CrashInv, Whole, Stages, InCode
      <4>4. Kept' /\ Missing'
        BY <1>5, <3>2, <4>1, <4>2, Versions DEF Kept, Missing, Holds
      <4> QED
        BY <4>3, <4>4
    <3> QED
      BY <2>3, <3>5, <3>6
  <2> QED
    BY <2>1, <2>2, <2>3
<1> QED
  BY <1>3, <1>6, <1>7, <1>10 DEF GoesOn, CrashInv

\* write_newsrcs ends, having renamed NAME.new or with nothing to write.
LEMMA CrashReturns ==
  ASSUME Types, Types', BackupInv, CrashInv, WriteSkips \/ WriteRenames
  PROVE  CrashInv'
<1> USE DEF Types
<1>0. Shape /\ Quiet
  BY DEF BackupInv, CrashInv
<1>1. PICK w \in {"write", "rename"} :
        /\ At(w) /\ ReturnWith(TRUE)
        /\ \/ w = "write" /\ saved' = saved /\ UNCHANGED diskVars
           \/ w = "rename" /\ WriteRenames
  BY DEF WriteSkips, WriteRenames
<1>2. w \in Writing /\ Running /\ Top.pc = w /\ Loaded
  BY <1>0, <1>1, AtTop, WriterLoaded DEF Writing
<1>3. /\ Running' /\ Quiet' /\ restore' = restore
      /\ \/ Len(stack) = 1 /\ \E x : ReturnsTo(x) /\ Top' = Code(x)
         \/ /\ Len(stack) = 2
            /\ stack'[1] = stack[1] /\ stack[1].pc \in Prompt
            /\ \/ Top' \in {Code("exit"), Call("exit")} /\ Len(stack') = 2
               \/ Top' = stack[1] /\ Len(stack') = 1
  BY <1>0, <1>1, <1>2, Returned
<1>4. Top'.pc \in {"list", "group", "closed", "exit", "oldNew", "leave", "write"}
  BY <1>3, CodeFields, CallFields DEF ReturnsTo, Prompt
<1>5. Stages'
  BY <1>4, Unstaged
<1>6. opened' = opened /\ ver' = ver /\ quitx' = quitx
  BY DEF WriteSkips, WriteRenames, bitVars, history
<1>7. Asked'
  <2>1. Main(GettingOld)' => Main(GettingOld) \/ restore
    BY <1>3, CodeFields DEF ReturnsTo, Main, GettingOld, Prompt
  <2> QED
    BY <1>3, <1>6, <2>1 DEF CrashInv, Asked
<1>8. Whole' /\ Kept' /\ Missing' /\ Older'
  <2>1. CASE w = "write"
    <3>1. saved' = saved /\ UNCHANGED diskVars
      BY <1>1, <2>1
    <3>2. name # NoFile \/ saved \notin Version
      BY <1>2, <2>1 DEF CrashInv, Missing
    <3>3. Missing'
      BY <3>1, <3>2 DEF Missing, diskVars
    <3> QED
      BY <1>2, <1>6, <3>1, <3>3, DiskStays, OlderStays DEF CrashInv
  <2>2. CASE w = "rename"
    <3>1. WriteRenames
      BY <1>1, <2>2
    <3>2. /\ newname # NoFile /\ Top.snap = ver /\ content[newname] = ver
          /\ newname # name
      BY <1>2, <2>2 DEF CrashInv, Stages, InCode, BackupInv, NewApart
    <3>3. /\ name' = newname /\ oldname' = oldname /\ saved' = ver
          /\ content'[newname] = ver
          /\ oldname # NoFile => content'[oldname] = content[oldname]
      BY <3>1, <3>2 DEF WriteRenames, Disk, DiskTypes
    <3>4. ver \in Version /\ (opened \in Version => opened <= ver)
      BY <1>2 DEF CrashInv, Older, BitTypes
    <3> QED
      BY <1>6, <3>2, <3>3, <3>4, Versions
         DEF CrashInv, Whole, Kept, Missing, Older, Holds
  <2> QED
    BY <1>1, <2>1, <2>2
<1> QED
  BY <1>3, <1>5, <1>7, <1>8 DEF CrashInv

\* A signal that comes at a prompt.
LEMMA CrashHandles ==
  ASSUME Types, Types', BackupInv, CrashInv, OnlyKill, Signal \/ Stop
  PROVE  CrashInv'
<1> USE DEF Types
<1>1. AtPrompt
  BY DEF OnlyKill, Signal, Stop
<1>2. PICK g \in {Call("finalize"), Call("resume"), Code("exit")} : Interrupt(g)
  BY DEF Signal, Stop
<1>3. g \in Frame /\ g.pc \in {"write", "exit"}
  BY <1>2, CallType, CodeType, CodeFields, CallFields DEF PC, Caller
<1>4. /\ Running /\ Running' /\ Quiet' /\ Top' = g
      /\ stack'[1] = stack[1] /\ stack[1].pc \in Prompt /\ Top = stack[1]
  BY <1>1, <1>2, <1>3, Interrupted DEF Writing
<1>5. /\ UNCHANGED diskVars /\ saved' = saved /\ opened' = opened
      /\ ver' = ver \/ ver' = ver + 1
      /\ restore' = restore /\ quitx' = quitx
  BY MovedBits DEF Signal, Stop, history
<1>6. Whole' /\ Kept'
  BY <1>5, DiskStays DEF CrashInv
<1>7. Missing'
  <2>1. name # NoFile \/ saved \notin Version
    BY <1>4 DEF CrashInv, Missing, Prompt
  <2> QED
    BY <1>5, <2>1 DEF Missing, diskVars
<1>8. Stages'
  BY <1>3, <1>4, Unstaged
<1>9. Older'
  BY <1>4, <1>5, OlderStays DEF CrashInv, Loaded
<1>10. Asked'
  BY <1>4, <1>5 DEF CrashInv, Asked, Main
<1> QED
  BY <1>4, <1>6, <1>7, <1>8, <1>9, <1>10 DEF CrashInv

\* The user edits at a prompt.
LEMMA CrashEdits ==
  ASSUME Types, Types', BackupInv, CrashInv, Edits
  PROVE  CrashInv'
<1> USE DEF Types
<1>1. PICK w \in {"list", "group"} : At(w)
  BY DEF Edits, EditList, Mark, DelayUnmark
<1>2. Running /\ Top.pc = w
  BY <1>1, AtTop
<1>3. /\ UNCHANGED diskVars /\ saved' = saved /\ opened' = opened /\ stack' = stack
      /\ ver' = ver \/ ver' = ver + 1
      /\ restore' = restore /\ quitx' = quitx
  BY DEF Edits, EditList, Mark, DelayUnmark, history
<1>4. Top' = Top /\ Running' /\ Quiet'
  BY <1>2, <1>3 DEF Top, Running, CrashInv, Quiet
<1>5. Stages'
  BY <1>2, <1>4, Unstaged
<1>6. Whole' /\ Kept'
  BY <1>3, DiskStays DEF CrashInv
<1>7. Missing' /\ Asked'
  BY <1>2, <1>3, <1>4 DEF CrashInv, Missing, Asked, Main, Running, diskVars
<1>8. Older'
  BY <1>2, <1>3, OlderStays DEF CrashInv, Loaded, Running
<1> QED
  BY <1>4, <1>5, <1>6, <1>7, <1>8 DEF CrashInv

\* exit() writes nothing more: no code below the handler has an open FILE.
LEMMA ExitKeeps ==
  ASSUME Types, BackupInv, CrashInv, Exit
  PROVE  /\ name' = name /\ newname' = newname /\ oldname' = oldname
         /\ \A i \in Inode :
              i \in {name, newname, oldname} => content'[i] = content[i]
<1> USE DEF Types
<1>1. /\ Len(stack) \in {1, 2} /\ DOMAIN stack = 1 .. Len(stack)
      /\ stack[Len(stack)].pc = "exit"
      /\ Len(stack) = 2 => stack[1].pc \in Prompt
  BY AtTop, Bottom DEF Exit, CrashInv
<1>2. \A k \in DOMAIN stack : stack[k].fd = NoFile
  <2>1. \A k \in DOMAIN stack : stack[k].pc # "lines"
    BY <1>1 DEF Prompt
  <2> QED
    BY <2>1 DEF BackupInv, NewApart
<1>3. {stack[k].fd : k \in DOMAIN stack} \ {NoFile} = {}
  BY <1>2
<1>4. \E c : Disk(name, newname, oldname, [i \in Inode |->
               IF i \in {} THEN c[i] ELSE content[i]])
  BY <1>3 DEF Exit
<1> QED
  BY <1>4 DEF Disk

\* trn starts, exits or is killed.
LEMMA CrashEnds ==
  ASSUME Types, Types', BackupInv, CrashInv, Start \/ Ends
  PROVE  CrashInv'
<1> USE DEF Types
<1>1. CASE Start
  <2>1. /\ stack' = <<Code("open")>> /\ UNCHANGED diskVars /\ saved' = saved
        /\ restore' = restore /\ ~Running
    BY <1>1 DEF Start
  <2>2. /\ Len(stack') = 1 /\ stack'[1] = Code("open") /\ Top' = Code("open")
        /\ stack'[1].pc = "open"
    BY <2>1, CodeFields DEF Top, Last
  <2>3. Quiet' /\ Stages'
    BY <2>2, Unstaged DEF Quiet
  <2>4. Whole' /\ Kept'
    BY <2>1, DiskStays DEF CrashInv
  <2>5. Missing' /\ Older'
    BY <2>2 DEF Missing, Older, Loaded, Opening
  <2>6. ~restore
    BY <2>1 DEF BackupInv, Phases, Main, MainWrites
  <2>7. Asked'
    BY <2>1, <2>2, <2>6 DEF Asked, Main, GettingOld
  <2> QED
    BY <2>3, <2>4, <2>5, <2>7 DEF CrashInv
<1>2. CASE Ends
  <2>1. stack' = << >> /\ ~Running' /\ restore' = FALSE /\ saved' = saved
    BY <1>2 DEF Ends, Exit, Kill, Gone, Running
  <2>2. Quiet' /\ Stages' /\ Missing' /\ Older' /\ Asked'
    BY <2>1 DEF Quiet, Stages, InCode, Missing, Older, Loaded, Asked, Main
  <2>3. Whole' /\ Kept'
    <3>1. CASE Kill
      BY <2>1, <3>1, DiskStays DEF Kill, CrashInv
    <3>2. CASE Exit
      <4>1. /\ name' = name /\ newname' = newname /\ oldname' = oldname
            /\ \A i \in Inode :
                 i \in {name, newname, oldname} => content'[i] = content[i]
        BY <3>2, ExitKeeps
      <4> QED
        BY <2>1, <4>1 DEF CrashInv, Whole, Kept, Holds, DiskTypes
    <3> QED
      BY <1>2, <3>1, <3>2 DEF Ends
  <2> QED
    BY <2>2, <2>3 DEF CrashInv
<1> QED
  BY <1>1, <1>2

(* The theorem *)

LEMMA CrashStep ==
  ASSUME OnlyKill, Types, Types', BackupInv, CrashInv, Next
  PROVE  CrashInv'
<1>1. BackupFaults
  BY DEF OnlyKill, BackupFaults
<1>2. \/ MainGoesOn \/ Returns \/ Edits \/ Handles \/ Ends \/ Start
      \/ WriteOpens \/ WriteCloses \/ WriteClears \/ WriteRemoves
  BY <1>1, Steps
<1> QED
  BY <1>2, CrashSteady, CrashOpens, CrashRestores, CrashWrites, CrashReturns,
     CrashHandles, CrashEdits, CrashEnds
     DEF MainGoesOn, Returns, Handles

LEMMA CrashInvariant == OnlyKill => (Spec => [](Types /\ BackupInv /\ CrashInv))
<1> SUFFICES ASSUME OnlyKill PROVE Spec => [](Types /\ BackupInv /\ CrashInv)
  OBVIOUS
<1>1. Spec => [](Types /\ BackupInv)
  BY BackupInvariant DEF OnlyKill, BackupFaults
<1>2. Init => CrashInv
  <2> SUFFICES ASSUME Init PROVE CrashInv
    OBVIOUS
  <2>1. stack = << >> /\ ~Running /\ Len(stack) = 0
    BY DEF Init, Running
  <2>2. Quiet /\ Stages /\ Missing /\ Older /\ Asked
    BY <2>1 DEF Init, Quiet, Stages, InCode, Missing, Older, Loaded, Asked, Main
  <2>3. Whole /\ Kept
    BY FilesAssumption, Versions
       DEF Init, Whole, Kept, Holds, Blank, Partial, Absent
  <2> QED
    BY <2>2, <2>3 DEF CrashInv
<1>3. /\ Types /\ BackupInv /\ CrashInv /\ (Types /\ BackupInv)' /\ [Next]_vars
      => CrashInv'
  <2>1. ASSUME Types, Types', BackupInv, CrashInv, Next PROVE CrashInv'
    BY <2>1, CrashStep
  <2>2. ASSUME CrashInv, UNCHANGED vars PROVE CrashInv'
    BY <2>2
       DEF CrashInv, Quiet, Whole, Stages, Kept, Missing, Older, Asked, Holds,
           Loaded, InCode, Main, Running, Top, vars, diskVars, bitVars, history
  <2> QED
    BY <2>1, <2>2
<1> QED
  BY <1>1, <1>2, <1>3, PTL DEF Spec

\* What write_newsrcs has reported as written is in the newsrc or in NAME.new
\* at every moment, wherever in write_newsrcs or get_old_newsrcs trn is killed,
\* for any number of versions and inodes.
THEOREM SavedOutlivesKills == OnlyKill => (Spec => []SavedSurvives)
<1> SUFFICES ASSUME OnlyKill PROVE Spec => []SavedSurvives
  OBVIOUS
<1>1. CrashInv => SavedSurvives
  BY DEF CrashInv, Kept, SavedSurvives
<1> QED
  BY <1>1, CrashInvariant, PTL

\* Nor is the newsrc ever truncated, or without some of its lines.
THEOREM NewsrcIsComplete == OnlyKill => (Spec => []NewsrcComplete)
<1> SUFFICES ASSUME OnlyKill PROVE Spec => []NewsrcComplete
  OBVIOUS
<1>1. CrashInv => NewsrcComplete
  BY DEF CrashInv, Whole, NewsrcComplete
<1> QED
  BY <1>1, CrashInvariant, PTL

-----------------------------------------------------------------------------

NoFaults == Faults = {}

(* The inductive invariant *)

\* Marks wait to be counted only while articles are read, and never while the
\* newsrc is written.
Marks == dirty \/ yank => doing_ng
InGroup ==
  (Main({"group"}) \/ MainWrites({"group"}))
    /\ (Len(stack) = 2 => Top.caller = "resume") => doing_ng
Settled == InCode(Writing) => ~dirty

\* There is no NAME before the first session, and between remove and rename.
Gap ==
  name = NoFile /\ (saved # Absent \/ oldname # NoFile) =>
    InCode({"rename", "oldOld"})
Away == InCode({"rename"}) => name = NoFile

\* From get_old_newsrcs to the end of a session that is abandoned.
AfterX ==
  quitx /\ (Main({"leave", "closed", "exit"}) \/ MainWrites({"closed", "exit"}))

\* A newsrc that was created has no backup.
NoBackup == Loaded /\ ~AfterX /\ opened = Absent => oldname = NoFile

\* With nothing to write, the newsrc says what the lines in memory say.
InMemory(i) == i # NoFile /\ Visible(i) = ver
Clean ==
  Loaded /\ ~changed /\ ~AfterX /\ ~InCode({"remove", "rename"})
    /\ ~Main({"oldOld"}) => InMemory(name)
OldStages ==
  /\ Main({"oldName"}) => newname = NoFile
  /\ Main({"oldOld"}) => name = NoFile /\ InMemory(newname)

\* An `x' goes on to get_old_newsrcs; afterwards nothing is written any more.
QuitPhase ==
  Running /\ quitx =>
    restore /\ (Main(GettingOld) \/ MainWrites({"bug_out"}) \/ AfterX)
OnlyAsks == AfterX => ~Main({"lines", "clear", "remove", "rename"})
GaveUp ==
  /\ IF opened = Absent THEN name = NoFile
     ELSE name # NoFile /\ content[name] = opened
  /\ newname # NoFile => content[newname] \in {ver, Blank}
Abandoned == Running /\ AfterX => ~changed /\ GaveUp

BitsInv == Marks /\ InGroup /\ Settled
NamesInv == Gap /\ Away /\ NoBackup /\ Clean /\ OldStages
QuitInv == QuitPhase /\ OnlyAsks /\ Abandoned
SessionInv == BitsInv /\ NamesInv /\ QuitInv

(* The steps of the main program *)

\* The only frame, at w, gives way to g.
Goes(w, g) ==
  /\ Running /\ Running' /\ Len(stack) = 1 /\ Len(stack') = 1
  /\ Top = stack[1] /\ Top' = stack'[1] /\ stack[1].pc = w /\ stack'[1] = g

LEMMA GoesTo ==
  ASSUME StackType, Shape, NEW w, At(w), w \notin Writing \cup {"exit"},
         NEW g, stack' = [stack EXCEPT ![Len(stack)] = g]
  PROVE  Goes(w, g)
<1>1. /\ Running /\ Len(stack) = 1 /\ stack[1].pc = w
      /\ Running' /\ Len(stack') = 1 /\ stack'[1] = g
  BY MainEffect
<1> QED
  BY <1>1 DEF Goes, Top, Last

\* Where the step takes the predicates on the stack.
LEMMA GoesWhere ==
  ASSUME NEW w, NEW g, Goes(w, g)
  PROVE  /\ \A S : Main(S) <=> w \in S
         /\ \A S : InCode(S) <=> w \in S
         /\ w \notin Writing => \A S : ~MainWrites(S)
         /\ \A S : Main(S)' <=> g.pc \in S
         /\ \A S : InCode(S)' <=> g.pc \in S
         /\ \A S : MainWrites(S)' <=> g.pc \in Writing /\ g.caller \in S
         /\ Loaded <=> w \notin Opening \cup {"closed", "exit"}
         /\ Loaded' <=> g.pc \notin Opening \cup {"closed", "exit"}
BY DEF Goes, Main, InCode, MainWrites, Loaded

\* Which leave the directory alone.
MainSteady ==
  \/ OpenRefuses \/ OpenBacksUp \/ Reopen \/ QuitClosed \/ EnterGroup
  \/ CatchUp \/ Checkpoint \/ Unuse \/ Quit \/ QuitAbandon
  \/ LeaveMultirc \/ LeaveGroup

Steady(w, g) ==
  \/ OpenRefuses /\ w = "open" /\ g = Code("closed")
  \/ OpenBacksUp /\ w = "open" /\ g = Code("unlinkOld")
  \/ Reopen /\ w = "closed" /\ g = Code("open")
  \/ QuitClosed /\ w = "closed" /\ g = Code("exit")
  \/ EnterGroup /\ w = "list" /\ g = Code("group")
  \/ CatchUp /\ w = "list" /\ g = Call("list")
  \/ Checkpoint /\ w = "group" /\ g = Call("group")
  \/ Unuse /\ w = "list" /\ g = Call("closed")
  \/ Quit /\ w = "list" /\ g = Call("bug_out")
  \/ QuitAbandon /\ w = "list" /\ g = Call("bug_out")
  \/ LeaveMultirc /\ w = "leave" /\ g \in {Call("exit"), Call("closed")}
  \/ LeaveGroup /\ w = "group" /\ g \in {Call("list"), Code("list")}

LEMMA SteadyGoes ==
  ASSUME StackType, Shape, MainSteady
  PROVE  \E w, g : Goes(w, g) /\ Steady(w, g) /\ w \notin Writing
<1>1. \E w, g : /\ At(w) /\ stack' = [stack EXCEPT ![Len(stack)] = g]
                /\ Steady(w, g)
  BY Zenon
     DEF Steady, MainSteady, OpenRefuses, OpenBacksUp, Reopen, QuitClosed,
         EnterGroup, CatchUp, Checkpoint, Unuse, Quit, QuitAbandon,
         LeaveMultirc, LeaveGroup, GoTo, CallWrite
<1>2. \A w, g : Steady(w, g) => w \notin Writing \cup {"exit"}
  BY DEF Steady, Writing
<1> QED
  BY <1>1, <1>2, GoesTo

LEMMA SteadyBits ==
  ASSUME Types, Types', BackupInv, SessionInv, MainSteady
  PROVE  BitsInv'
<1> USE DEF Types
<1>0. Phases /\ Shape /\ Marks /\ InGroup
  BY DEF BackupInv, SessionInv, BitsInv
<1>1. PICK w, g : Goes(w, g) /\ Steady(w, g) /\ w \notin Writing
  BY <1>0, SteadyGoes
<1>2. doing_ng => w = "group"
  BY <1>0, <1>1, GoesWhere DEF Phases
<1>3. /\ MainWrites({"group"})' <=> g.pc \in Writing /\ g.caller = "group"
      /\ Main({"group"})' <=> g.pc = "group"
      /\ InCode(Writing)' <=> g.pc \in Writing
      /\ Len(stack') = 1
  BY <1>1, GoesWhere DEF Goes
<1>4. CASE w # "group" /\ ~(EnterGroup /\ g = Code("group"))
  <2>1. /\ dirty' = dirty /\ yank' = yank /\ doing_ng' = doing_ng
        /\ g.pc # "group" /\ (g.pc \in Writing => g.caller # "group")
    BY <1>1, <1>4, CodeFields, CallFields
       DEF Steady, OpenRefuses, OpenBacksUp, Reopen, QuitClosed, CatchUp,
           Unuse, Quit, QuitAbandon, LeaveMultirc, bitVars, Writing
  <2>2. ~doing_ng /\ ~dirty /\ ~yank
    BY <1>0, <1>2, <1>4 DEF Marks
  <2> QED
    BY <1>3, <2>1, <2>2 DEF BitsInv, Marks, InGroup, Settled
<1>5. CASE EnterGroup /\ g = Code("group")
  <2>1. doing_ng' = TRUE /\ dirty' = dirty
    BY <1>5 DEF EnterGroup
  <2> QED
    BY <1>3, <1>5, <2>1, CodeFields DEF BitsInv, Marks, InGroup, Settled, Writing
<1>6. CASE Checkpoint
  <2>1. doing_ng' = doing_ng /\ dirty' = FALSE
    BY <1>6 DEF Checkpoint, BitsToRc
  <2>2. doing_ng
    <3>1. Main({"group"}) /\ Len(stack) = 1
      BY <1>1, <1>6, GoesWhere DEF Checkpoint, At, Goes
    <3> QED
      BY <1>0, <3>1 DEF InGroup
  <2> QED
    BY <2>1, <2>2 DEF BitsInv, Marks, InGroup, Settled
<1>7. CASE LeaveGroup /\ g \in {Call("list"), Code("list")}
  <2>1. dirty' = FALSE /\ yank' = FALSE
    BY <1>7 DEF LeaveGroup, BitsToRc
  <2> QED
    BY <1>3, <1>7, <2>1, CodeFields, CallFields
       DEF BitsInv, Marks, InGroup, Settled, Writing
<1> QED
  BY <1>1, <1>4, <1>5, <1>6, <1>7 DEF Steady

LEMMA SteadyNames ==
  ASSUME Types, Types', BackupInv, CrashInv, SessionInv, MainSteady
  PROVE  NamesInv'
<1> USE DEF Types
<1>0. Shape /\ NamesInv
  BY DEF BackupInv, SessionInv
<1>1. PICK w, g : Goes(w, g) /\ Steady(w, g) /\ w \notin Writing
  BY <1>0, SteadyGoes
<1>2. /\ UNCHANGED diskVars /\ saved' = saved /\ opened' = opened
      /\ changed' = TRUE \/ (changed' = changed /\ ver' = ver)
  BY DEF MainSteady, OpenRefuses, OpenBacksUp, Reopen, QuitClosed, EnterGroup,
         CatchUp, Checkpoint, Unuse, Quit, QuitAbandon, LeaveMultirc,
         LeaveGroup, bitVars, history
<1>3. /\ w \in {"open", "closed", "list", "group", "leave"}
      /\ g.pc \in {"closed", "unlinkOld", "open", "exit", "group", "list", "write"}
      /\ w \in {"open", "closed"} => g.pc \in {"closed", "unlinkOld", "open", "exit"}
      /\ w = "leave" => /\ g.pc = "write" /\ g.caller \in {"closed", "exit"}
                        /\ quitx' = quitx
  BY <1>1, CodeFields, CallFields DEF Steady, LeaveMultirc, history
<1>4. Gap' /\ Away'
  BY <1>0, <1>1, <1>2, <1>3, GoesWhere DEF NamesInv, Gap, Away, diskVars
<1>5. OldStages'
  BY <1>1, <1>3, GoesWhere DEF OldStages
<1>6. Loaded' => Loaded
  BY <1>1, <1>3, GoesWhere DEF Opening
<1>7. Loaded' /\ AfterX => AfterX'
  <2>1. Loaded /\ AfterX => w = "leave" /\ quitx
    BY <1>1, <1>3, GoesWhere DEF AfterX, Writing
  <2> QED
    BY <1>1, <1>3, <1>6, <2>1, GoesWhere DEF AfterX, Writing
<1>8. NoBackup'
  BY <1>0, <1>2, <1>6, <1>7 DEF NamesInv, NoBackup, diskVars
<1>9. Clean'
  <2>1. ~InCode({"remove", "rename"}) /\ ~Main({"oldOld"})
    BY <1>1, <1>3, GoesWhere
  <2> QED
    BY <1>0, <1>2, <1>6, <1>7, <2>1
       DEF NamesInv, Clean, InMemory, Visible, diskVars
<1> QED
  BY <1>4, <1>5, <1>8, <1>9 DEF NamesInv

LEMMA SteadyQuit ==
  ASSUME Types, Types', BackupInv, CrashInv, SessionInv, MainSteady
  PROVE  QuitInv'
<1> USE DEF Types
<1>0. Shape /\ QuitInv
  BY DEF BackupInv, SessionInv
<1>1. PICK w, g : Goes(w, g) /\ Steady(w, g) /\ w \notin Writing
  BY <1>0, SteadyGoes
<1>2. w \in {"open", "closed", "list", "group", "leave"}
  BY <1>1 DEF Steady
<1>3. w \in {"open", "list", "group"} => ~quitx
  BY <1>0, <1>1, <1>2, GoesWhere
     DEF QuitInv, QuitPhase, AfterX, GettingOld, Goes
<1>4. CASE \/ /\ w \in {"open", "list", "group"}
              /\ ~(QuitAbandon /\ g = Call("bug_out"))
           \/ Reopen
  <2>1. quitx' = FALSE
    BY <1>1, <1>3, <1>4
       DEF Steady, OpenRefuses, OpenBacksUp, Reopen, EnterGroup,
           CatchUp, Checkpoint, Unuse, Quit, LeaveGroup, history, FlagTypes
  <2> QED
    BY <2>1 DEF QuitInv, QuitPhase, OnlyAsks, Abandoned, AfterX
<1>5. CASE QuitAbandon /\ g = Call("bug_out")
  <2>1. restore' = TRUE
    BY <1>5 DEF QuitAbandon
  <2>2. MainWrites({"bug_out"})' /\ ~AfterX'
    BY <1>1, <1>5, CallFields, GoesWhere DEF AfterX, Writing
  <2> QED
    BY <2>1, <2>2 DEF QuitInv, QuitPhase, OnlyAsks, Abandoned
<1>6. CASE \/ QuitClosed /\ w = "closed" /\ g = Code("exit")
           \/ /\ LeaveMultirc
              /\ w = "leave" /\ g \in {Call("exit"), Call("closed")}
  <2>1. /\ quitx' = quitx /\ restore' = restore /\ changed' = changed
        /\ UNCHANGED diskVars /\ opened' = opened /\ ver' = ver
    BY <1>6 DEF QuitClosed, LeaveMultirc, history, bitVars
  <2>2. /\ w \in {"closed", "leave"}
        /\ \/ g.pc = "exit"
           \/ g.pc = "write" /\ g.caller \in {"closed", "exit"}
    BY <1>6, CodeFields, CallFields
  <2>3. quitx => AfterX /\ AfterX'
    BY <1>1, <2>1, <2>2, GoesWhere DEF AfterX, Writing
  <2>4. Running /\ (AfterX' => quitx)
    BY <1>1, <2>1 DEF Goes, AfterX
  <2>5. quitx => restore /\ ~changed /\ GaveUp
    BY <1>0, <2>3, <2>4 DEF QuitInv, QuitPhase, Abandoned
  <2>6. Abandoned'
    BY <2>1, <2>4, <2>5 DEF Abandoned, GaveUp, diskVars
  <2>7. OnlyAsks'
    BY <1>1, <2>2, GoesWhere DEF OnlyAsks
  <2> QED
    BY <2>1, <2>3, <2>5, <2>6, <2>7 DEF QuitInv, QuitPhase
<1> QED
  BY <1>1, <1>2, <1>4, <1>5, <1>6 DEF Steady

\* open_newsrc and get_old_newsrcs change the directory.
Opens(w, g) ==
  \/ OpenCreates /\ w = "open" /\ g = Code("list")
  \/ OpenUnlinksOld /\ w = "unlinkOld" /\ g = Code("link")
  \/ OpenLinksOld /\ w = "link" /\ g = Code("load")
  \/ OpenLoads /\ w = "load" /\ g = Code("list")

Restores(w, g) ==
  \/ OldUnlinksNew /\ w = "oldNew" /\ g = Code("oldName")
  \/ OldKeepsName /\ w = "oldName" /\ g = Code("oldOld")
  \/ OldComesBack /\ w = "oldOld" /\ g = Code("leave")

LEMMA OpensGoes ==
  ASSUME StackType, Shape,
         OpenCreates \/ OpenUnlinksOld \/ OpenLinksOld \/ OpenLoads
  PROVE  \E w, g : Goes(w, g) /\ Opens(w, g) /\ w \in Opening
<1>1. \E w, g : /\ At(w) /\ stack' = [stack EXCEPT ![Len(stack)] = g]
                /\ Opens(w, g)
  BY Zenon
     DEF Opens, OpenCreates, OpenUnlinksOld, OpenLinksOld, OpenLoads, GoTo
<1>2. \A w, g : Opens(w, g) => w \in Opening /\ w \notin Writing \cup {"exit"}
  BY DEF Opens, Opening, Writing
<1> QED
  BY <1>1, <1>2, GoesTo

LEMMA RestoresGoes ==
  ASSUME StackType, Shape, OldUnlinksNew \/ OldKeepsName \/ OldComesBack
  PROVE  \E w, g : Goes(w, g) /\ Restores(w, g) /\ w \in GettingOld
<1>1. \E w, g : /\ At(w) /\ stack' = [stack EXCEPT ![Len(stack)] = g]
                /\ Restores(w, g)
  BY Zenon DEF Restores, OldUnlinksNew, OldKeepsName, OldComesBack, GoTo
<1>2. \A w, g : Restores(w, g) => w \in GettingOld /\ w \notin Writing \cup {"exit"}
  BY DEF Restores, GettingOld, Writing
<1> QED
  BY <1>1, <1>2, GoesTo

LEMMA SessionOpens ==
  ASSUME Types, Types', BackupInv, CrashInv, SessionInv,
         OpenCreates \/ OpenUnlinksOld \/ OpenLinksOld \/ OpenLoads
  PROVE  SessionInv'
<1> USE DEF Types
<1>0. Shape /\ Phases /\ SessionInv
  BY DEF BackupInv
<1>1. PICK w, g : Goes(w, g) /\ Opens(w, g) /\ w \in Opening
  BY <1>0, OpensGoes
<1>2. g.pc \in {"list", "link", "load"}
  BY <1>1, CodeFields DEF Opens
<1>3. w \notin Writing
  BY <1>1 DEF Opening, Writing
<1>4. BitsInv'
  <2>1. ~doing_ng
    BY <1>0, <1>1, <1>3, GoesWhere DEF Phases, Opening
  <2>2. ~dirty' /\ ~yank'
    BY <1>0, <2>1
       DEF SessionInv, BitsInv, Marks, OpenCreates, OpenUnlinksOld,
           OpenLinksOld, OpenLoads, bitVars
  <2> QED
    BY <1>1, <1>2, <2>2, GoesWhere DEF BitsInv, Marks, InGroup, Settled, Writing
<1>5. QuitInv'
  <2>1. ~quitx
    BY <1>0, <1>1, <1>3, GoesWhere
       DEF SessionInv, QuitInv, QuitPhase, AfterX, GettingOld, Goes, Opening
  <2>2. ~quitx'
    BY <2>1 DEF OpenCreates, OpenUnlinksOld, OpenLinksOld, OpenLoads, history
  <2> QED
    BY <2>2 DEF QuitInv, QuitPhase, OnlyAsks, Abandoned, AfterX
<1>6. NamesInv'
  <2>1. Away' /\ OldStages'
    BY <1>1, <1>2, GoesWhere DEF Away, OldStages
  <2>2. CASE OpenCreates
    <3>1. Unused(Fresh) /\ Fresh \in Inode
      BY <2>2, FreshType DEF OpenCreates
    <3>2. /\ name' = Fresh /\ oldname' = oldname /\ content'[Fresh] = Blank
          /\ ver' = 0 /\ name = NoFile
      BY <2>2, <3>1 DEF OpenCreates, Disk, DiskTypes
    <3>3. oldname = NoFile
      BY <1>0, <1>1, <3>2, GoesWhere DEF SessionInv, NamesInv, Gap, Opening
    <3> QED
      BY <2>1, <3>1, <3>2, <3>3, FilesAssumption
         DEF NamesInv, Gap, NoBackup, Clean, InMemory, Visible
  <2>3. CASE \/ OpenUnlinksOld /\ g = Code("link")
             \/ OpenLinksOld /\ g = Code("load")
    <3>1. name' = name /\ name # NoFile
      <4>1. Main({"unlinkOld", "link"})
        BY <2>3, <1>1, AtTop DEF OpenUnlinksOld, OpenLinksOld, Main, Goes
      <4> QED
        BY <2>3, <4>1, DiskNames
           DEF OpenUnlinksOld, OpenLinksOld, BackupInv, Shape, Main
    <3>2. ~Loaded'
      BY <1>1, <2>3, CodeFields, GoesWhere DEF Opening
    <3> QED
      BY <2>1, <3>1, <3>2 DEF NamesInv, Gap, NoBackup, Clean
  <2>4. CASE OpenLoads
    <3>1. name # NoFile
      BY <2>4, AtLoad DEF OpenLoads, BackupInv
    <3>2. /\ UNCHANGED diskVars /\ opened' = content[name]
          /\ ver' = IF content[name] \in Version THEN content[name] ELSE 0
      BY <2>4 DEF OpenLoads, Found
    <3>3. content[name] \in Content /\ content[name] # Partial
      BY <3>1 DEF DiskTypes, CrashInv, Whole
    <3>4. content[name] # Absent /\ Visible(name) = ver'
      BY <3>2, <3>3, Versions DEF Visible, Content, Blank, Partial, Absent
    <3>5. InMemory(name)' /\ opened' # Absent
      BY <3>1, <3>2, <3>4 DEF InMemory, Visible, diskVars
    <3> QED
      BY <2>1, <3>1, <3>2, <3>5 DEF NamesInv, Gap, NoBackup, Clean, diskVars
  <2> QED
    BY <1>1, <2>2, <2>3, <2>4 DEF Opens
<1> QED
  BY <1>4, <1>5, <1>6 DEF SessionInv

LEMMA SessionRestores ==
  ASSUME Types, Types', BackupInv, CrashInv, SessionInv,
         OldUnlinksNew \/ OldKeepsName \/ OldComesBack
  PROVE  SessionInv'
<1> USE DEF Types
<1>0. Shape /\ Phases /\ NewApart /\ Abandoning /\ Backup /\ Asked
  BY DEF BackupInv, CrashInv
<1>1. PICK w, g : Goes(w, g) /\ Restores(w, g) /\ w \in GettingOld
  BY <1>0, RestoresGoes
<1>2. g.pc \in {"oldName", "oldOld", "leave"}
  BY <1>1, CodeFields DEF Restores
<1>3. w \notin Writing \cup Opening \cup {"closed", "exit", "leave", "group"}
  BY <1>1 DEF GettingOld, Opening, Writing
<1>4. restore /\ quitx /\ ~changed /\ Loaded /\ ~AfterX
  <2>1. Main(GettingOld) /\ Loaded /\ ~AfterX
    BY <1>1, <1>3, GoesWhere DEF AfterX
  <2> QED
    BY <1>0, <2>1 DEF Asked, Abandoning
<1>5. restore' /\ quitx' /\ ~changed' /\ opened' = opened /\ UNCHANGED bitVars
  <2>1. /\ restore' = restore /\ quitx' = quitx /\ changed' = changed
        /\ opened' = opened /\ UNCHANGED bitVars
    BY DEF OldUnlinksNew, OldKeepsName, OldComesBack, history
  <2> QED
    BY <1>4, <2>1, Zenon
<1>6. BitsInv'
  <2>1. ~doing_ng /\ ~dirty /\ ~yank
    BY <1>0, <1>4, NotInGroup DEF SessionInv, BitsInv, Marks
  <2> QED
    BY <1>1, <1>2, <1>5, <2>1, GoesWhere
       DEF BitsInv, Marks, InGroup, Settled, Writing, bitVars
<1>7. w # "oldOld" => InMemory(name)
  BY <1>1, <1>3, <1>4, GoesWhere
     DEF SessionInv, NamesInv, Clean, GettingOld, Writing
<1>8. w = "oldOld" => name = NoFile /\ InMemory(newname)
  BY <1>1, GoesWhere DEF SessionInv, NamesInv, OldStages
<1>9. CASE OldUnlinksNew /\ w = "oldNew" /\ g = Code("oldName")
  <2>1. Disk(name, NoFile, oldname, content)
    BY <1>9 DEF OldUnlinksNew
  <2>2. name' = name /\ newname' = NoFile /\ oldname' = oldname
    BY <2>1, DiskNames
  <2>3. InMemory(name)'
    BY <1>5, <1>7, <1>9, <2>1 DEF InMemory, Visible, Disk, DiskTypes, bitVars
  <2>4. /\ Loaded' /\ ~AfterX' /\ Main(GettingOld)'
        /\ Main({"oldName"})' /\ ~Main({"oldOld"})' /\ ~InCode({"rename"})'
    BY <1>1, <1>9, CodeFields, GoesWhere DEF AfterX, Opening, Writing, GettingOld
  <2>5. NamesInv'
    BY <1>4, <1>5, <2>2, <2>3, <2>4
       DEF SessionInv, NamesInv, Gap, Away, NoBackup, Clean, OldStages, InMemory
  <2>6. QuitInv'
    BY <1>5, <2>4 DEF QuitInv, QuitPhase, OnlyAsks, Abandoned
  <2> QED
    BY <1>6, <2>5, <2>6 DEF SessionInv
<1>10. CASE OldKeepsName /\ w = "oldName" /\ g = Code("oldOld")
  <2>1. newname = NoFile /\ name # NoFile /\ InMemory(name)
    BY <1>1, <1>7, <1>10, GoesWhere DEF SessionInv, NamesInv, OldStages, InMemory
  <2>2. Disk(NoFile, name, oldname, content)
    BY <1>10, <2>1 DEF OldKeepsName
  <2>3. name' = NoFile /\ newname' = name /\ oldname' = oldname
    BY <2>2, DiskNames
  <2>4. InMemory(newname)'
    BY <1>5, <2>1, <2>2 DEF InMemory, Visible, Disk, DiskTypes, bitVars
  <2>5. /\ Loaded' /\ ~AfterX' /\ Main(GettingOld)' /\ ~Main({"oldName"})'
        /\ Main({"oldOld"})' /\ InCode({"rename", "oldOld"})' /\ ~InCode({"rename"})'
    BY <1>1, <1>10, CodeFields, GoesWhere DEF AfterX, Opening, Writing, GettingOld
  <2>6. NamesInv'
    BY <1>4, <1>5, <2>3, <2>4, <2>5
       DEF SessionInv, NamesInv, Gap, Away, NoBackup, Clean, OldStages
  <2>7. QuitInv'
    BY <1>5, <2>5 DEF QuitInv, QuitPhase, OnlyAsks, Abandoned
  <2> QED
    BY <1>6, <2>6, <2>7 DEF SessionInv
<1>11. CASE OldComesBack /\ w = "oldOld" /\ g = Code("leave")
  <2>1. name = NoFile /\ newname # NoFile /\ Visible(newname) = ver
    BY <1>8, <1>11 DEF InMemory
  <2>2. IF opened = Absent THEN oldname = NoFile
        ELSE oldname # NoFile /\ content[oldname] = opened
    BY <1>0, <1>4, <2>1 DEF SessionInv, NamesInv, NoBackup, Backup, InOld, InName
  <2>3. saved' = IF opened \in Version THEN opened ELSE Absent
    BY <1>4, <1>11 DEF OldComesBack
  <2>4. /\ name' = oldname /\ newname' = newname /\ oldname' = NoFile
        /\ content'[newname] = content[newname]
        /\ oldname # NoFile => content'[oldname] = content[oldname]
    BY <1>11, <2>1 DEF OldComesBack, Disk, diskVars, DiskTypes
  <2>5. content[newname] \in {ver, Blank}
    BY <2>1 DEF Visible
  <2>6. GaveUp'
    BY <1>5, <2>2, <2>4, <2>5 DEF GaveUp, bitVars
  <2>7. /\ AfterX' /\ ~Main({"oldName"})' /\ ~Main({"oldOld"})'
        /\ ~InCode({"rename"})' /\ ~Main({"lines", "clear", "remove", "rename"})'
    BY <1>1, <1>5, <1>11, CodeFields, GoesWhere DEF AfterX
  <2>8. Gap'
    BY <2>2, <2>3, <2>4, Versions DEF Gap
  <2>9. NamesInv'
    BY <2>7, <2>8 DEF NamesInv, Away, NoBackup, Clean, OldStages
  <2>10. QuitInv'
    BY <1>5, <2>6, <2>7 DEF QuitInv, QuitPhase, OnlyAsks, Abandoned
  <2> QED
    BY <1>6, <2>9, <2>10 DEF SessionInv
<1> QED
  BY <1>1, <1>9, <1>10, <1>11 DEF Restores

(* write_newsrcs *)

\* Whoever writes does not abandon, or has nothing to write.
LEMMA WriterAsks ==
  ASSUME StackType, Shape, Quiet, QuitInv, NEW w \in Writing, At(w), AfterX
  PROVE  Len(stack) = 1 /\ w = "write" /\ ~changed
<1>1. /\ Running /\ Len(stack) \in {1, 2} /\ Top = stack[Len(stack)] /\ Top.pc = w
      /\ Len(stack) = 2 => stack[1].pc \in Prompt
  BY AtTop, Bottom
<1>2. Loaded
  BY WriterLoaded
<1>3. Len(stack) = 1
  BY <1>1, <1>2 DEF AfterX, Main, MainWrites, Loaded, Prompt, Writing
<1> QED
  BY <1>1, <1>3 DEF QuitInv, OnlyAsks, Abandoned, Main, Writing

\* The top frame goes on in write_newsrcs, for the main program or a handler.
LEMMA WritesWhere ==
  ASSUME StackType, Shape, Quiet, NEW w \in Writing, At(w), NEW g, GoesOn(g),
         g.pc \in Writing, g.caller = Top.caller
  PROVE  /\ \A S : InCode(S) <=> w \in S
         /\ \A S : InCode(S)' <=> g.pc \in S
         /\ \A S : S \cap Writing = {} => (Main(S)' <=> Main(S)) /\ ~InCode(S)
         /\ \A S : MainWrites(S)' <=> MainWrites(S)
         /\ Loaded /\ Loaded'
         /\ Len(stack') = Len(stack) /\ Top'.caller = Top.caller
         /\ Running /\ Running'
<1>1. /\ Running /\ Len(stack) \in {1, 2} /\ Top = stack[Len(stack)] /\ Top.pc = w
      /\ Len(stack) = 2 => stack[1].pc \in Prompt
  BY AtTop, Bottom
<1>2. Loaded
  BY WriterLoaded
<1>3. /\ Running' /\ Top' = g /\ Len(stack') = Len(stack)
      /\ stack'[1] = IF Len(stack) = 1 THEN g ELSE stack[1]
  BY DEF GoesOn
<1>4. CASE Len(stack) = 1
  BY <1>1, <1>2, <1>3, <1>4
     DEF InCode, Main, MainWrites, Loaded, Opening, Writing
<1>5. CASE Len(stack) # 1
  BY <1>1, <1>2, <1>3, <1>5 DEF InCode, Main, MainWrites, Loaded
<1> QED
  BY <1>4, <1>5

\* The lines go to a file that is not the newsrc.
LEMMA WritesNew ==
  ASSUME Types, BackupInv, CrashInv, WriteOpens \/ WriteCloses
  PROVE  \E i, c : /\ i \in Inode /\ Disk(name, i, oldname, c) /\ i # name
                   /\ name # NoFile => c[name] = content[name]
                   /\ changed' = changed
<1> USE DEF Types
<1>1. CASE WriteOpens
  <2> DEFINE i == IF newname = NoFile THEN Fresh ELSE newname
  <2>1. i \in Inode /\ i # name
    BY <1>1, FreshType, FilesAssumption
       DEF WriteOpens, Unused, DiskTypes, BackupInv, NewApart
  <2>2. /\ Disk(name, i, oldname, [content EXCEPT ![i] = Partial])
        /\ changed' = changed
    BY <1>1 DEF WriteOpens
  <2> QED
    BY <2>1, <2>2 DEF DiskTypes
<1>2. CASE WriteCloses
  <2>1. newname # NoFile /\ newname = Top.fd /\ newname # name
    BY <1>2, AtTop
       DEF WriteCloses, CrashInv, Stages, InCode, BackupInv, NewApart
  <2> QED
    BY <1>2, <2>1 DEF WriteCloses, DiskTypes
<1> QED
  BY <1>1, <1>2

LEMMA SessionWrites ==
  ASSUME Types, Types', BackupInv, CrashInv, SessionInv,
         WriteOpens \/ WriteCloses \/ WriteClears \/ WriteRemoves
  PROVE  SessionInv'
<1> USE DEF Types
<1>0. Shape /\ Quiet /\ SessionInv
  BY DEF BackupInv, CrashInv
<1>1. PICK w \in Writing, g \in Frame :
        /\ At(w) /\ stack' = [stack EXCEPT ![Len(stack)] = g]
        /\ g.pc \in Writing /\ g.caller = Top.caller
        /\ WriteOpens => w = "write" /\ g.pc = "lines"
        /\ WriteCloses => w = "lines" /\ g.pc = "clear"
        /\ WriteClears => w = "clear" /\ g.pc = "remove"
        /\ WriteRemoves => w = "remove" /\ g.pc = "rename"
  BY <1>0, WritesTo
<1>2. GoesOn(g)
  BY <1>0, <1>1, AtTop, Replaced
<1>3. /\ \A S : InCode(S) <=> w \in S
      /\ \A S : InCode(S)' <=> g.pc \in S
      /\ \A S : S \cap Writing = {} => (Main(S)' <=> Main(S)) /\ ~InCode(S)
      /\ \A S : MainWrites(S)' <=> MainWrites(S)
      /\ Loaded /\ Loaded'
      /\ Len(stack') = Len(stack) /\ Top'.caller = Top.caller
      /\ Running /\ Running'
  BY <1>0, <1>1, <1>2, WritesWhere
<1>4. /\ UNCHANGED bitVars /\ restore' = restore /\ quitx' = quitx
      /\ saved' = saved /\ opened' = opened
  BY DEF WriteOpens, WriteCloses, WriteClears, WriteRemoves, history
<1>5. /\ {"group"} \cap Writing = {} /\ GettingOld \cap Writing = {}
      /\ {"leave", "closed", "exit"} \cap Writing = {}
      /\ {"oldName"} \cap Writing = {} /\ {"oldOld"} \cap Writing = {}
  BY DEF Writing, GettingOld
<1>6. /\ Main({"group"})' <=> Main({"group"})
      /\ Main(GettingOld)' <=> Main(GettingOld)
      /\ Main({"leave", "closed", "exit"})' <=> Main({"leave", "closed", "exit"})
      /\ Main({"oldName"})' <=> Main({"oldName"})
      /\ Main({"oldOld"})' <=> Main({"oldOld"})
  BY <1>3, <1>5
<1>7. BitsInv'
  BY <1>0, <1>1, <1>3, <1>4, <1>6
     DEF SessionInv, BitsInv, Marks, InGroup, Settled, bitVars
<1>8. ~AfterX
  BY <1>0, <1>1, WriterAsks DEF SessionInv, WriteOpens
<1>9. AfterX' <=> AfterX
  BY <1>3, <1>4, <1>6 DEF AfterX
<1>10. QuitInv'
  BY <1>0, <1>3, <1>4, <1>6, <1>8, <1>9
     DEF SessionInv, QuitInv, QuitPhase, OnlyAsks, Abandoned
<1>11. NamesInv'
  <2>1. ~Main({"oldName"}) /\ ~Main({"oldOld"})
    <3>1. stack[1].pc \notin {"oldName", "oldOld"}
      BY <1>0, <1>1, <1>3, AtTop, Bottom DEF Prompt, Writing
    <3> QED
      BY <3>1 DEF Main
  <2>2. OldStages'
    BY <1>6, <2>1 DEF OldStages
  <2>3. CASE WriteOpens \/ WriteCloses
    <3>1. PICK i, c :
            /\ i \in Inode /\ Disk(name, i, oldname, c) /\ i # name
            /\ name # NoFile => c[name] = content[name]
            /\ changed' = changed
      BY <2>3, WritesNew
    <3>2. name' = name /\ oldname' = oldname
      BY <3>1, DiskNames
    <3>3. InMemory(name) => InMemory(name)'
      BY <1>4, <3>1 DEF InMemory, Visible, Disk, DiskTypes, bitVars
    <3>4. w \in {"write", "lines"} /\ g.pc \in {"lines", "clear"}
      BY <1>1, <2>3
    <3>5. Gap' /\ Away'
      BY <1>0, <1>3, <1>4, <3>2, <3>4 DEF SessionInv, NamesInv, Gap, Away
    <3>6. NoBackup'
      BY <1>0, <1>3, <1>4, <1>9, <3>2 DEF SessionInv, NamesInv, NoBackup
    <3>7. Clean'
      BY <1>0, <1>3, <1>6, <1>9, <3>1, <3>3, <3>4 DEF SessionInv, NamesInv, Clean
    <3> QED
      BY <2>2, <3>5, <3>6, <3>7 DEF NamesInv
  <2>4. CASE WriteClears
    <3>1. UNCHANGED diskVars /\ w = "clear" /\ g.pc = "remove"
      BY <1>1, <2>4 DEF WriteClears
    <3>2. Gap' /\ Away' /\ Clean'
      BY <1>0, <1>3, <1>4, <3>1 DEF SessionInv, NamesInv, Gap, Away, Clean, diskVars
    <3>3. NoBackup'
      BY <1>0, <1>3, <1>4, <1>9, <3>1 DEF SessionInv, NamesInv, NoBackup, diskVars
    <3> QED
      BY <2>2, <3>2, <3>3 DEF NamesInv
  <2>5. CASE WriteRemoves
    <3>1. name' = NoFile /\ oldname' = oldname /\ g.pc = "rename"
      BY <1>1, <2>5, DiskNames DEF WriteRemoves
    <3>2. Gap' /\ Away' /\ Clean'
      BY <1>3, <3>1 DEF Gap, Away, Clean
    <3>3. NoBackup'
      BY <1>0, <1>3, <1>4, <1>9, <3>1 DEF SessionInv, NamesInv, NoBackup
    <3> QED
      BY <2>2, <3>2, <3>3 DEF NamesInv
  <2> QED
    BY <2>3, <2>4, <2>5
<1> QED
  BY <1>7, <1>10, <1>11 DEF SessionInv

\* write_newsrcs returns, having renamed NAME.new or with nothing to write.
LEMMA SessionReturns ==
  ASSUME Types, Types', BackupInv, CrashInv, SessionInv, WriteSkips \/ WriteRenames
  PROVE  SessionInv'
<1> USE DEF Types
<1>0. Shape /\ Quiet /\ Asked /\ BitsInv /\ NamesInv /\ QuitInv
  BY DEF BackupInv, CrashInv, SessionInv
<1>1. PICK w \in {"write", "rename"} :
        /\ At(w) /\ ReturnWith(TRUE)
        /\ \/ w = "write" /\ WriteSkips
           \/ w = "rename" /\ WriteRenames
  BY DEF WriteSkips, WriteRenames
<1>2. w \in Writing /\ Running /\ Top.pc = w /\ Loaded /\ Top = stack[Len(stack)]
  BY <1>0, <1>1, AtTop, WriterLoaded DEF Writing
<1>3. /\ UNCHANGED bitVars /\ changed' = changed /\ quitx' = quitx /\ opened' = opened
      /\ oldname' = oldname
  BY DEF WriteSkips, WriteRenames, Disk, diskVars, history
<1>4. w = "write" => ~changed /\ UNCHANGED diskVars /\ saved' = saved
  <2>1. CASE WriteSkips
    BY <2>1 DEF WriteSkips, history
  <2> QED
    BY <1>1, <2>1
<1>5. /\ w = "write" => name # NoFile \/ (saved = Absent /\ oldname = NoFile)
      /\ w = "rename" => name' # NoFile
      /\ ~AfterX => InMemory(name)'
  <2>1. CASE w = "write"
    <3>1. ~Main({"oldOld"})
      BY <1>0, <1>2, Bottom DEF Main, Prompt, Writing
    <3>2. ~InCode({"remove", "rename"}) /\ ~InCode({"rename", "oldOld"})
      BY <1>2, <2>1 DEF InCode
    <3> QED
      BY <1>0, <1>2, <1>3, <1>4, <2>1, <3>1, <3>2
         DEF NamesInv, Gap, Clean, InMemory, Visible, diskVars, bitVars
  <2>2. CASE w = "rename"
    <3>1. /\ newname # NoFile /\ content[newname] = ver /\ newname # name
      BY <1>2, <2>2 DEF CrashInv, Stages, InCode, BackupInv, NewApart
    <3>2. name' = newname /\ content'[newname] = ver
      BY <1>1, <2>2, <3>1 DEF WriteRenames, Disk, DiskTypes
    <3>3. ver # Blank
      BY Versions DEF BitTypes
    <3> QED
      BY <1>3, <2>2, <3>1, <3>2, <3>3 DEF InMemory, Visible, bitVars
  <2> QED
    BY <1>1, <2>1, <2>2
<1>6. /\ Running' /\ Quiet' /\ restore' = restore
      /\ \/ Len(stack) = 1 /\ \E x : ReturnsTo(x) /\ Top' = Code(x)
         \/ /\ Len(stack) = 2
            /\ stack'[1] = stack[1] /\ stack[1].pc \in Prompt
            /\ \/ Top' \in {Code("exit"), Call("exit")} /\ Len(stack') = 2
               \/ Top' = stack[1] /\ Len(stack') = 1 /\ Top.caller = "resume"
  BY <1>0, <1>1, <1>2, Returned
<1>7. CASE Len(stack) = 1
  <2>1. PICK x : ReturnsTo(x) /\ Top' = Code(x)
    BY <1>6, <1>7
  <2>2. /\ x \in {"list", "group", "closed", "exit", "oldNew", "leave"}
        /\ stack'[1].pc = x /\ Top'.pc = x /\ Len(stack') = 1
        /\ stack[1].pc = w
    BY <1>2, <1>7, <2>1, CodeFields DEF ReturnsTo
  <2>3. AfterX => w = "write" /\ AfterX' /\ ~Loaded'
    BY <1>0, <1>1, <1>2, <1>3, <2>1, <2>2, <1>6, WriterAsks
       DEF AfterX, Main, MainWrites, ReturnsTo, Loaded, Writing
  <2>4. quitx /\ ~AfterX => restore /\ x = "oldNew"
    BY <1>0, <1>2, <2>1, <2>2
       DEF QuitInv, QuitPhase, ReturnsTo, Main, MainWrites, GettingOld, Writing
  <2>5. AfterX' => AfterX
    BY <1>3, <2>2, <2>4 DEF AfterX, Main, MainWrites, Writing
  <2>6. BitsInv'
    <3>1. x = "group" => doing_ng
      BY <1>0, <1>2, <1>7, <2>1, <2>2
         DEF BitsInv, InGroup, ReturnsTo, Main, MainWrites
    <3> QED
      BY <1>0, <1>3, <2>2, <3>1
         DEF BitsInv, Marks, InGroup, Settled, Main, MainWrites, InCode, Writing, bitVars
  <2>7. NamesInv'
    <3>1. Gap'
      BY <1>1, <1>3, <1>4, <1>5 DEF Gap, diskVars
    <3>2. Away' /\ OldStages'
      BY <2>2 DEF Away, OldStages, InCode, Main
    <3>3. NoBackup' /\ Clean'
      BY <1>0, <1>2, <1>3, <1>5, <2>3 DEF NamesInv, NoBackup, Clean
    <3> QED
      BY <3>1, <3>2, <3>3 DEF NamesInv
  <2>8. QuitInv'
    <3>1. QuitPhase'
      BY <1>0, <1>2, <1>3, <1>6, <2>2, <2>3, <2>4
         DEF QuitInv, QuitPhase, Main, GettingOld
    <3>2. OnlyAsks'
      BY <2>2 DEF OnlyAsks, Main
    <3>3. Abandoned'
      BY <1>0, <1>2, <1>3, <1>4, <2>3, <2>5
         DEF QuitInv, Abandoned, GaveUp, diskVars, bitVars
    <3> QED
      BY <3>1, <3>2, <3>3 DEF QuitInv
  <2> QED
    BY <2>6, <2>7, <2>8 DEF SessionInv
<1>8. CASE Len(stack) = 2
  <2>1. /\ stack'[1] = stack[1] /\ stack[1].pc \in Prompt
        /\ \/ Top' \in {Code("exit"), Call("exit")} /\ Len(stack') = 2
           \/ Top' = stack[1] /\ Len(stack') = 1 /\ Top.caller = "resume"
    BY <1>6, <1>8
  <2>2. ~AfterX
    <3>1. Len(stack) # 1
      BY <1>8
    <3> QED
      BY <1>0, <1>1, <1>2, <3>1, WriterAsks
  <2>3. /\ \A S : Main(S)' <=> Main(S)
        /\ \A S : MainWrites(S)' <=> MainWrites(S)
        /\ Loaded' <=> Loaded
    BY <1>2, <1>6, <2>1 DEF Main, MainWrites, Loaded
  <2>4. ~AfterX' /\ (AfterX' <=> AfterX)
    BY <1>3, <2>2, <2>3 DEF AfterX
  <2>5. BitsInv'
    <3>1. Settled'
      BY <1>0, <1>2, <1>3 DEF BitsInv, Settled, InCode, bitVars
    <3>2. InGroup'
      BY <1>0, <1>3, <2>1, <2>3, CodeFields, CallFields DEF BitsInv, InGroup, bitVars
    <3> QED
      BY <1>0, <1>3, <3>1, <3>2 DEF BitsInv, Marks, bitVars
  <2>6. Top'.pc \in {"exit", "write", "list", "group", "closed"}
    BY <2>1, CodeFields, CallFields DEF Prompt
  <2>7. NamesInv'
    <3>1. Gap'
      BY <1>1, <1>3, <1>4, <1>5 DEF Gap, diskVars
    <3>2. Away' /\ OldStages'
      BY <2>1, <2>6 DEF Away, OldStages, InCode, Main, Prompt
    <3>3. NoBackup' /\ Clean'
      BY <1>0, <1>2, <1>3, <1>5, <2>2 DEF NamesInv, NoBackup, Clean
    <3> QED
      BY <3>1, <3>2, <3>3 DEF NamesInv
  <2>8. QuitInv'
    BY <1>0, <1>2, <1>3, <1>6, <2>3, <2>4
       DEF QuitInv, QuitPhase, OnlyAsks, Abandoned
  <2> QED
    BY <2>5, <2>7, <2>8 DEF SessionInv
<1> QED
  BY <1>6, <1>7, <1>8

(* Signals, edits, and the two ends of a process *)

LEMMA SessionHandles ==
  ASSUME Types, Types', BackupInv, CrashInv, SessionInv, NoFaults, Signal \/ Stop
  PROVE  SessionInv'
<1> USE DEF Types
<1>0. Shape /\ Quiet /\ Phases /\ BitsInv /\ NamesInv /\ QuitInv
  BY DEF BackupInv, CrashInv, SessionInv
<1>1. AtPrompt
  BY DEF NoFaults, Signal, Stop
<1>2. PICK g \in {Call("finalize"), Call("resume"), Code("exit")} :
        /\ Interrupt(g)
        /\ IF g = Call("resume") THEN doing_ng' = doing_ng ELSE doing_ng' = FALSE
  <2>1. CASE Signal
    <3>1. Call("resume") \notin {Call("finalize"), Code("exit")}
      BY DEF Call, Code
    <3> QED
      BY <2>1, <3>1 DEF Signal
  <2>2. CASE Stop
    BY <2>2 DEF Stop
  <2> QED
    BY <2>1, <2>2
<1>3. g \in Frame /\ g.pc \in {"write", "exit"} /\ (doing_ng' => g.caller = "resume")
  BY <1>2, CallType, CodeType, CodeFields, CallFields DEF PC, Caller
<1>4. /\ Running /\ Running' /\ Top' = g /\ Len(stack) = 1
      /\ stack'[1] = stack[1] /\ stack[1].pc \in Prompt /\ Top = stack[1]
      /\ Len(stack') = 2
  BY <1>1, <1>2, <1>3, Interrupted DEF Writing
<1>5. /\ UNCHANGED diskVars /\ saved' = saved /\ opened' = opened
      /\ restore' = restore /\ quitx' = quitx
  BY DEF Signal, Stop, history
<1>6. /\ \A S : Main(S)' <=> Main(S)
      /\ \A S : MainWrites(S)' <=> MainWrites(S)
      /\ Loaded' <=> Loaded
  BY <1>4 DEF Main, MainWrites, Loaded
<1>7. AfterX' <=> AfterX
  BY <1>5, <1>6 DEF AfterX
<1>8. ~dirty' /\ (yank' => doing_ng')
  <2>1. CASE doing_ng
    <3>1. \/ BitsToRc(TRUE)
          \/ BitsToRc(FALSE) /\ doing_ng' = doing_ng
      BY <2>1 DEF Signal, Stop
    <3>2. dirty' = FALSE /\ (yank' = FALSE \/ doing_ng' = doing_ng)
      BY <3>1 DEF BitsToRc
    <3> QED
      BY <2>1, <3>2, Zenon
  <2>2. CASE ~doing_ng
    <3>1. dirty' = dirty /\ yank' = yank
      BY <2>2 DEF Signal, Stop
    <3> QED
      BY <1>0, <2>2, <3>1, Zenon DEF BitsInv, Marks
  <2> QED
    BY <2>1, <2>2
<1>9. BitsInv'
  <2>1. Marks' /\ Settled'
    BY <1>8, Zenon DEF Marks, Settled
  <2>2. InGroup'
    <3>1. Main({"group"})' \/ MainWrites({"group"})' => Main({"group"})
      BY <1>4, <1>6 DEF MainWrites, Main, Prompt, Writing
    <3>2. Main({"group"}) => doing_ng
      BY <1>0, <1>4 DEF BitsInv, InGroup
    <3>3. g.caller = "resume" => doing_ng' = doing_ng
      BY <1>2, CodeFields, CallFields
    <3> QED
      BY <1>4, <3>1, <3>2, <3>3 DEF InGroup
  <2> QED
    BY <2>1, <2>2 DEF BitsInv
<1>10. \/ changed' = TRUE /\ doing_ng
       \/ changed' = changed /\ ver' = ver
  BY DEF Signal, Stop
<1>11. NamesInv'
  <2>1. ~InCode({"rename", "oldOld"}) /\ ~InCode({"remove", "rename"})
        /\ ~Main({"oldOld"}) /\ ~Main({"oldName"})
    BY <1>4 DEF InCode, Main, Prompt
  <2>2. Gap' /\ Away'
    BY <1>0, <1>3, <1>4, <1>5, <2>1 DEF NamesInv, Gap, Away, InCode, diskVars
  <2>3. NoBackup' /\ OldStages'
    BY <1>0, <1>5, <1>6, <1>7, <2>1 DEF NamesInv, NoBackup, OldStages, diskVars
  <2>4. Clean'
    BY <1>0, <1>5, <1>6, <1>7, <1>10, <2>1
       DEF NamesInv, Clean, InMemory, Visible, diskVars
  <2> QED
    BY <2>2, <2>3, <2>4 DEF NamesInv
<1>12. QuitInv'
  <2>1. AfterX => ~doing_ng
    BY <1>0, <1>4 DEF Phases, AfterX, Main, MainWrites, Prompt, Writing
  <2> QED
    BY <1>0, <1>4, <1>5, <1>6, <1>7, <1>10, <2>1
       DEF QuitInv, QuitPhase, OnlyAsks, Abandoned, GaveUp, diskVars
<1> QED
  BY <1>9, <1>11, <1>12 DEF SessionInv

LEMMA SessionEdits ==
  ASSUME Types, Types', BackupInv, CrashInv, SessionInv, Edits
  PROVE  SessionInv'
<1> USE DEF Types
<1>0. Shape /\ BitsInv /\ NamesInv /\ QuitInv
  BY DEF BackupInv, SessionInv
<1>1. PICK w \in {"list", "group"} : At(w) /\ (Mark \/ DelayUnmark => w = "group")
  BY DEF Edits, EditList, Mark, DelayUnmark
<1>2. Running /\ Len(stack) = 1 /\ Top = stack[1] /\ stack[1].pc = w
  BY <1>0, <1>1, AtTop, MainOnly DEF Writing
<1>3. /\ UNCHANGED <<diskVars, stack>> /\ saved' = saved /\ opened' = opened
      /\ restore' = restore /\ quitx' = quitx /\ doing_ng' = doing_ng
      /\ changed' = TRUE \/ (changed' = changed /\ ver' = ver)
  BY DEF Edits, EditList, Mark, DelayUnmark, history
<1>4. /\ \A S : Main(S)' <=> Main(S)
      /\ \A S : MainWrites(S)' <=> MainWrites(S)
      /\ \A S : InCode(S)' <=> InCode(S)
      /\ Loaded' <=> Loaded
      /\ ~AfterX /\ ~AfterX' /\ Top' = Top /\ Running'
  BY <1>2, <1>3 DEF Main, MainWrites, Loaded, InCode, AfterX, Top, Running, Writing
<1>5. BitsInv'
  <2>1. Mark \/ DelayUnmark => doing_ng
    BY <1>0, <1>1, <1>2 DEF BitsInv, InGroup, Main
  <2>2. ~Mark /\ ~DelayUnmark => dirty' = dirty /\ yank' = yank
    BY DEF Edits, EditList
  <2>3. ~InCode(Writing)
    BY <1>2 DEF InCode, Writing
  <2> QED
    BY <1>0, <1>3, <1>4, <2>1, <2>2, <2>3 DEF BitsInv, Marks, InGroup, Settled
<1>6. NamesInv'
  <2>1. ~Main({"oldName"}) /\ ~Main({"oldOld"}) /\ ~InCode({"remove", "rename"})
    BY <1>2 DEF Main, InCode
  <2>2. Gap' /\ Away'
    BY <1>0, <1>3, <1>4 DEF NamesInv, Gap, Away, diskVars
  <2>3. NoBackup' /\ OldStages'
    BY <1>0, <1>3, <1>4, <2>1 DEF NamesInv, NoBackup, OldStages, diskVars
  <2>4. Clean'
    BY <1>0, <1>3, <1>4, <2>1 DEF NamesInv, Clean, InMemory, Visible, diskVars
  <2> QED
    BY <2>2, <2>3, <2>4 DEF NamesInv
<1>7. QuitInv'
  BY <1>0, <1>2, <1>3, <1>4 DEF QuitInv, QuitPhase, OnlyAsks, Abandoned
<1> QED
  BY <1>5, <1>6, <1>7 DEF SessionInv

LEMMA SessionEnds ==
  ASSUME Types, Types', BackupInv, CrashInv, SessionInv, Start \/ Exit
  PROVE  SessionInv'
<1> USE DEF Types
<1>0. Shape /\ Phases /\ BitsInv /\ NamesInv /\ QuitInv
  BY DEF BackupInv, SessionInv
<1>1. CASE Start
  <2>1. /\ stack' = <<Code("open")>> /\ UNCHANGED <<diskVars, bitVars>>
        /\ saved' = saved /\ ~quitx' /\ ~Running
    BY <1>1 DEF Start
  <2>2. /\ Len(stack') = 1 /\ stack'[1].pc = "open" /\ Top'.pc = "open"
    BY <2>1, CodeFields DEF Top, Last
  <2>3. ~doing_ng
    BY <1>0, <2>1 DEF Phases, Main, MainWrites
  <2>4. BitsInv'
    BY <1>0, <2>1, <2>2, <2>3
       DEF BitsInv, Marks, InGroup, Settled, Main, MainWrites, InCode, Writing, bitVars
  <2>5. NamesInv'
    BY <1>0, <2>1, <2>2
       DEF NamesInv, Gap, Away, NoBackup, Clean, OldStages, InCode, Main,
           Loaded, Opening, diskVars
  <2>6. QuitInv'
    BY <2>1 DEF QuitInv, QuitPhase, OnlyAsks, Abandoned, AfterX
  <2> QED
    BY <2>4, <2>5, <2>6 DEF SessionInv
<1>2. CASE Exit
  <2>1. /\ ~Running' /\ dirty' = FALSE /\ yank' = FALSE /\ saved' = saved
        /\ name' = name /\ oldname' = oldname
    BY <1>2, DiskNames DEF Exit, Gone, Running
  <2>2. ~InCode({"rename", "oldOld"})
    BY <1>2, AtTop DEF Exit, InCode
  <2>3. BitsInv'
    BY <2>1 DEF BitsInv, Marks, InGroup, Settled, Main, MainWrites, InCode
  <2>4. NamesInv'
    BY <1>0, <2>1, <2>2
       DEF NamesInv, Gap, Away, NoBackup, Clean, OldStages, InCode, Main, Loaded
  <2>5. QuitInv'
    BY <2>1 DEF QuitInv, QuitPhase, OnlyAsks, Abandoned, AfterX, Main, MainWrites
  <2> QED
    BY <2>3, <2>4, <2>5 DEF SessionInv
<1> QED
  BY <1>1, <1>2

(* Nothing fails: the invariant, and what it says of the newsrc *)

LEMMA SessionSteps ==
  ASSUME NoFaults, Next
  PROVE  \/ MainSteady
         \/ OpenCreates \/ OpenUnlinksOld \/ OpenLinksOld \/ OpenLoads
         \/ OldUnlinksNew \/ OldKeepsName \/ OldComesBack
         \/ WriteOpens \/ WriteCloses \/ WriteClears \/ WriteRemoves
         \/ WriteSkips \/ WriteRenames
         \/ Signal \/ Stop \/ Edits \/ Start \/ Exit
<1>1. ~OpenLinkFails /\ ~WriteOpenFails /\ ~WriteFails /\ ~Kill
  BY DEF NoFaults, OpenLinkFails, WriteOpenFails, WriteFails, Kill
<1> QED
  BY <1>1, Zenon DEF Next, Progress, User, MainSteady, Edits

LEMMA SessionStep ==
  ASSUME NoFaults, Types, Types', BackupInv, CrashInv, SessionInv, Next
  PROVE  SessionInv'
<1>1. MainSteady => SessionInv'
  BY SteadyBits, SteadyNames, SteadyQuit DEF SessionInv
<1> QED
  BY <1>1, SessionSteps, SessionOpens, SessionRestores, SessionWrites,
     SessionReturns, SessionHandles, SessionEdits, SessionEnds

AllInv == Types /\ BackupInv /\ CrashInv /\ SessionInv

LEMMA SessionInvariant == NoFaults => (Spec => []AllInv)
<1> SUFFICES ASSUME NoFaults PROVE Spec => []AllInv
  OBVIOUS
<1>1. Spec => [](Types /\ BackupInv /\ CrashInv)
  BY CrashInvariant DEF NoFaults, OnlyKill
<1>2. Init => SessionInv
  <2> SUFFICES ASSUME Init PROVE SessionInv
    OBVIOUS
  <2>1. ~Running
    BY DEF Init, Running
  <2>2. BitsInv
    BY <2>1 DEF Init, BitsInv, Marks, InGroup, Settled, Main, MainWrites, InCode
  <2>3. NamesInv
    BY <2>1, FilesAssumption
       DEF Init, NamesInv, Gap, Away, NoBackup, Clean, OldStages, InCode, Main, Loaded
  <2>4. QuitInv
    BY <2>1 DEF Init, QuitInv, QuitPhase, OnlyAsks, Abandoned, AfterX, Main, MainWrites
  <2> QED
    BY <2>2, <2>3, <2>4 DEF SessionInv
<1>3. /\ Types /\ BackupInv /\ CrashInv /\ SessionInv
      /\ (Types /\ BackupInv /\ CrashInv)' /\ [Next]_vars
      => SessionInv'
  <2>1. ASSUME Types, Types', BackupInv, CrashInv, SessionInv, Next
        PROVE  SessionInv'
    BY <2>1, SessionStep
  <2>2. ASSUME SessionInv, UNCHANGED vars PROVE SessionInv'
    <3>1. /\ UNCHANGED <<name, newname, oldname, content, stack, ver, dirty, yank,
                        doing_ng, changed, panic, restore, saved, opened, quitx>>
      BY <2>2 DEF vars, diskVars, bitVars, history
    <3>2. BitsInv'
      BY <2>2, <3>1
         DEF SessionInv, BitsInv, Marks, InGroup, Settled, Main, MainWrites,
             InCode, Running, Top
    <3>3. NamesInv'
      BY <2>2, <3>1
         DEF SessionInv, NamesInv, Gap, Away, NoBackup, Clean, OldStages,
             InMemory, Visible, Loaded, AfterX, Main, MainWrites, InCode,
             Running, Top
    <3>4. QuitInv'
      BY <2>2, <3>1
         DEF SessionInv, QuitInv, QuitPhase, OnlyAsks, Abandoned, GaveUp,
             AfterX, Main, MainWrites, Running
    <3> QED
      BY <3>2, <3>3, <3>4 DEF SessionInv
  <2> QED
    BY <2>1, <2>2
<1> QED
  BY <1>1, <1>2, <1>3, PTL DEF Spec, AllInv

\* What write_newsrcs last reported as written, and the user has not abandoned,
\* is the newsrc whenever trn waits for a command or is not running.
THEOREM SavedIsTheNewsrc == NoFaults => (Spec => []SavedIsNewsrc)
<1> SUFFICES ASSUME NoFaults PROVE Spec => []SavedIsNewsrc
  OBVIOUS
<1>1. AllInv => SavedIsNewsrc
  <2> SUFFICES ASSUME AllInv, ~Running \/ AtPrompt, saved \in Version
               PROVE  Holds(name, saved)
    BY DEF SavedIsNewsrc
  <2>1. ~InCode({"rename", "oldOld"})
    BY DEF InCode, AtPrompt
  <2>2. saved # Absent
    BY Versions
  <2> QED
    BY <2>1, <2>2 DEF AllInv, CrashInv, Kept, SessionInv, NamesInv, Gap
<1> QED
  BY <1>1, SessionInvariant, PTL

\* `x' restores the newsrc that was opened, and what `q' would have left is
\* called NAME.new.
THEOREM AbandoningRestores == NoFaults => (Spec => []AbandonRestores)
<1> SUFFICES ASSUME NoFaults PROVE Spec => []AbandonRestores
  OBVIOUS
<1>1. AllInv => AbandonRestores
  <2> SUFFICES ASSUME AllInv, At("exit"), Len(stack) = 1, quitx PROVE AbandonRestores
    BY DEF AbandonRestores
  <2>1. Running /\ stack[1].pc = "exit"
    BY AtTop DEF AllInv, Types
  <2> QED
    BY <2>1
       DEF AllInv, SessionInv, QuitInv, Abandoned, GaveUp, AfterX, Main,
           AbandonRestores
<1> QED
  BY <1>1, SessionInvariant, PTL

-----------------------------------------------------------------------------

(* The mapping, in the terms of the invariant *)

\* g_multirc is set, and trn is not about to exit.
Serving == Running /\ ~InCode({"exit"}) /\ MultircInUse

LEMMA SessionIs ==
  ASSUME AllInv
  PROVE  StoreSession = IF ~Serving THEN "closed"
                        ELSE IF AfterX THEN "abandoned" ELSE "open"
<1> DEFINE after == \/ stack[1].pc = "leave"
                    \/ stack[1].pc \in Writing /\ stack[1].caller # "bug_out"
           before == Main({"leave", "closed", "exit"}) \/ MainWrites({"closed", "exit"})
<1>1. Serving /\ quitx => (before <=> after)
  <2> SUFFICES ASSUME Serving, quitx PROVE before <=> after
    OBVIOUS
  <2>1. Running /\ stack[1].pc \notin Opening \cup {"closed"}
    BY DEF Serving, MultircInUse
  <2>2. stack[1].pc # "exit"
    <3>1. /\ Len(stack) \in {1, 2} /\ Top = stack[Len(stack)]
          /\ Len(stack) = 2 => stack[1].pc \in Prompt
      BY <2>1, Bottom DEF AllInv, Types, CrashInv
    <3> QED
      BY <2>1, <3>1 DEF Serving, InCode, Prompt
  <2>3. Main(GettingOld) \/ MainWrites({"bug_out"}) \/ AfterX
    BY <2>1 DEF AllInv, SessionInv, QuitInv, QuitPhase
  <2> QED
    BY <2>1, <2>2, <2>3 DEF AfterX, Main, MainWrites, GettingOld, Writing
<1>2. StoreSession = IF ~Running \/ At("exit") \/ ~MultircInUse THEN "closed"
                     ELSE IF quitx /\ after THEN "abandoned" ELSE "open"
  BY DEF StoreSession
<1>3. Serving <=> ~(~Running \/ At("exit") \/ ~MultircInUse)
  BY DEF Serving, At, InCode
<1>4. AfterX <=> quitx /\ before
  BY DEF AfterX
<1> HIDE DEF after, before
<1>5. CASE ~Serving
  BY <1>2, <1>3, <1>5
<1>6. CASE Serving
  <2>1. AfterX <=> quitx /\ after
    BY <1>1, <1>4, <1>6, Zenon
  <2>2. StoreSession = IF quitx /\ after THEN "abandoned" ELSE "open"
    BY <1>2, <1>3, <1>6
  <2> QED
    BY <1>6, <2>1, <2>2, Zenon
<1> QED
  BY <1>5, <1>6

LEMMA DurableIs ==
  ASSUME AllInv
  PROVE  /\ name # NoFile => StoreDurable = Visible(name)
         /\ name = NoFile /\ InCode({"rename", "oldOld"}) => StoreDurable = ver
         /\ name = NoFile /\ ~InCode({"rename", "oldOld"}) => StoreDurable = Absent
<1>1. name # NoFile => StoreDurable = Visible(name)
  BY DEF StoreDurable
<1>2. Renaming <=> InCode({"rename", "oldOld"})
  <2>1. CASE ~Running
    BY <2>1 DEF Running, Renaming, InCode
  <2>2. CASE Running
    <3>1. /\ Len(stack) \in {1, 2} /\ DOMAIN stack = 1 .. Len(stack)
          /\ Top = stack[Len(stack)]
          /\ Len(stack) = 2 => stack[1].pc \in Prompt
      BY <2>2, Bottom DEF AllInv, Types, CrashInv
    <3> QED
      BY <2>2, <3>1 DEF Renaming, InCode, Prompt
  <2> QED
    BY <2>1, <2>2
<1>3. InCode({"rename", "oldOld"}) => newname # NoFile /\ Visible(newname) = ver
  <2>1. CASE InCode({"rename"})
    <3>1. newname # NoFile /\ content[newname] = ver /\ ver # Blank
      BY <2>1, Versions DEF AllInv, CrashInv, Stages, InCode, Types, BitTypes
    <3> QED
      BY <3>1 DEF Visible
  <2>2. CASE InCode({"oldOld"})
    <3>1. Main({"oldOld"})
      BY <2>2, MainOnly DEF InCode, At, AllInv, Types, BackupInv, Main, Writing
    <3> QED
      BY <3>1 DEF AllInv, SessionInv, NamesInv, OldStages, InMemory
  <2> QED
    BY <2>1, <2>2 DEF InCode
<1> QED
  BY <1>1, <1>2, <1>3 DEF StoreDurable

\* The lines in memory, with the marks that are still to be counted.
Lines == IF dirty THEN ver + 1 ELSE ver

Mapped ==
  /\ StoreSession = IF ~Serving THEN "closed"
                    ELSE IF AfterX THEN "abandoned" ELSE "open"
  /\ name # NoFile => StoreDurable = Visible(name)
  /\ name = NoFile /\ InCode({"rename", "oldOld"}) => StoreDurable = ver
  /\ name = NoFile /\ ~InCode({"rename", "oldOld"}) => StoreDurable = Absent
  /\ StoreWorking = IF StoreSession = "closed" THEN 0 ELSE Lines
  /\ StoreBase = IF StoreSession = "closed" THEN Absent
                 ELSE IF opened = Blank THEN 0 ELSE opened

LEMMA MappedNow == AllInv => Mapped
BY SessionIs, DurableIs DEF Mapped, StoreWorking, StoreBase, Lines

LEMMA MappedNext == AllInv' => Mapped'
BY MappedNow, PTL

\* A step of the store, or none.
Does == Store!Next \/ UNCHANGED Store!vars

\* What the mapping makes of a step is settled by what the step does to
\* Serving, AfterX, Lines and the directory.
LEMMA Stutters ==
  ASSUME AllInv, AllInv', StoreDurable' = StoreDurable, Serving' <=> Serving,
         Serving => /\ AfterX' <=> AfterX
                    /\ opened' = opened /\ Lines' = Lines
  PROVE  Does
<1>1. StoreSession' = StoreSession /\ (StoreSession # "closed" => Serving)
  BY MappedNow, MappedNext DEF Mapped
<1>2. StoreWorking' = StoreWorking /\ StoreBase' = StoreBase
  BY <1>1, MappedNow, MappedNext DEF Mapped
<1> QED
  BY <1>1, <1>2 DEF Does, Store!vars

LEMMA Changes ==
  ASSUME AllInv, AllInv', StoreDurable' = StoreDurable, Serving, Serving',
         ~AfterX, ~AfterX', opened' = opened, Lines' = Lines + 1, Lines < MaxVer
  PROVE  Does
<1>1. StoreSession' = "open" /\ StoreSession = "open"
  BY MappedNow, MappedNext DEF Mapped
<1>2. /\ StoreWorking' = StoreWorking + 1 /\ StoreBase' = StoreBase
      /\ StoreWorking < MaxVer
  BY <1>1, MappedNow, MappedNext DEF Mapped
<1> QED
  BY <1>1, <1>2 DEF Does, Store!Next, Store!Change

LEMMA Closes ==
  ASSUME AllInv, AllInv', StoreDurable' = StoreDurable, Serving, ~Serving',
         StoreDurable = IF AfterX THEN StoreBase ELSE Lines
  PROVE  Does
<1>1. /\ StoreSession' = "closed"
      /\ StoreSession = IF AfterX THEN "abandoned" ELSE "open"
  BY MappedNow, MappedNext DEF Mapped
<1>2. StoreWorking' = 0 /\ StoreBase' = Absent /\ StoreWorking = Lines
  BY <1>1, MappedNow, MappedNext DEF Mapped
<1> QED
  BY <1>1, <1>2 DEF Does, Store!Next, Store!Close, Store!Absent, Absent

\* The directory is the same, between two names of the newsrc or not.
LEMMA SameDurable ==
  ASSUME AllInv, AllInv', name' = name,
         name # NoFile => content'[name] = content[name],
         ~InCode({"rename", "oldOld"}), ~InCode({"rename", "oldOld"})'
  PROVE  StoreDurable' = StoreDurable
<1>1. /\ name # NoFile => StoreDurable = Visible(name)
      /\ name = NoFile => StoreDurable = Absent
      /\ name' # NoFile => StoreDurable' = Visible(name)'
      /\ name' = NoFile => StoreDurable' = Absent
  BY MappedNow, MappedNext DEF Mapped
<1> QED
  BY <1>1 DEF Visible

(* The steps *)

LEMMA ServingGoes ==
  ASSUME NEW w, NEW g, Goes(w, g)
  PROVE  /\ Serving <=> w \notin Opening \cup {"closed", "exit"}
         /\ Serving' <=> g.pc \notin Opening \cup {"closed", "exit"}
BY GoesWhere DEF Serving, Goes, MultircInUse

\* bits_to_rc counts the marks: no change, or one for what is yanked back.
LEMMA LinesCounted ==
  ASSUME Types, Types', NEW back \in BOOLEAN, BitsToRc(back)
  PROVE  \/ Lines' = Lines
         \/ back /\ Lines' = Lines + 1 /\ Lines < MaxVer
<1>1. ver \in Nat /\ MaxVer \in Nat /\ Pending <= MaxVer
  BY FilesAssumption, Versions DEF Types, BitTypes
<1>2. dirty' = FALSE /\ Lines' = ver'
  BY DEF BitsToRc, Lines
<1>3. CASE dirty = TRUE
  BY <1>2, <1>3 DEF BitsToRc, Lines
<1>4. CASE dirty # TRUE /\ back = TRUE /\ yank = TRUE
  <2>1. Lines = ver /\ Lines' = ver + 1
    <3>1. ~dirty
      BY <1>4, Zenon DEF Types, BitTypes
    <3> QED
      BY <1>2, <1>4, <3>1 DEF BitsToRc, Lines
  <2>2. Pending = ver + 0 + 1
    BY <1>4 DEF Pending, Types, BitTypes
  <2> QED
    BY <1>1, <1>4, <2>1, <2>2
<1>5. CASE dirty # TRUE /\ ~(back = TRUE /\ yank = TRUE)
  <2>1. ~dirty /\ ~(back /\ yank)
    BY <1>5, Zenon DEF Types, BitTypes
  <2> QED
    BY <1>2, <2>1 DEF BitsToRc, Lines
<1> QED
  BY <1>3, <1>4, <1>5

\* The lines change by one while the user is at work.
LEMMA LinesChanged ==
  ASSUME Types, Types', Pending < MaxVer,
         \/ ver' = ver + 1 /\ dirty' = dirty
         \/ ver' = ver /\ ~dirty /\ dirty' = TRUE
  PROVE  Lines' = Lines + 1 /\ Lines < MaxVer
<1>1. ver \in Nat /\ MaxVer \in Nat
  BY FilesAssumption, Versions DEF Types, BitTypes
<1>2. Lines <= Pending /\ Pending \in Nat
  BY <1>1 DEF Lines, Pending, Types, BitTypes
<1>3. Lines \in Nat /\ Lines' = Lines + 1
  BY <1>1 DEF Lines
<1> QED
  BY <1>1, <1>2, <1>3

LEMMA StoreSteady ==
  ASSUME AllInv, AllInv', MainSteady
  PROVE  Does
<1> USE DEF AllInv, Types
<1>0. Shape /\ QuitInv
  BY DEF BackupInv, SessionInv
<1>1. PICK w, g : Goes(w, g) /\ Steady(w, g) /\ w \notin Writing
  BY <1>0, SteadyGoes
<1>2. /\ UNCHANGED diskVars /\ opened' = opened
  BY DEF MainSteady, OpenRefuses, OpenBacksUp, Reopen, QuitClosed, EnterGroup,
         CatchUp, Checkpoint, Unuse, Quit, QuitAbandon, LeaveMultirc,
         LeaveGroup, history
<1>3. /\ w \in {"open", "closed", "list", "group", "leave"}
      /\ g.pc \in {"closed", "unlinkOld", "open", "exit", "group", "list", "write"}
      /\ w \in {"open", "closed"} <=> g.pc \in {"closed", "unlinkOld", "open", "exit"}
  BY <1>1, CodeFields, CallFields DEF Steady
<1>4. StoreDurable' = StoreDurable
  <2>1. ~InCode({"rename", "oldOld"}) /\ ~InCode({"rename", "oldOld"})'
    BY <1>1, <1>3, GoesWhere
  <2> QED
    BY <1>2, <2>1, SameDurable DEF diskVars
<1>5. Serving' <=> Serving
  BY <1>1, <1>3, ServingGoes DEF Opening
<1>6. CASE w \in {"open", "closed"}
  <2>1. ~Serving
    BY <1>1, <1>6, ServingGoes DEF Opening
  <2> QED
    BY <1>4, <1>5, <2>1, Stutters
<1>7. CASE LeaveMultirc /\ w = "leave" /\ g \in {Call("exit"), Call("closed")}
  <2>1. AfterX <=> AfterX'
    BY <1>1, <1>7, CallFields, GoesWhere DEF LeaveMultirc, history, AfterX, Writing
  <2>2. Lines' = Lines
    BY <1>7 DEF LeaveMultirc, Lines, bitVars
  <2> QED
    BY <1>2, <1>4, <1>5, <2>1, <2>2, Stutters
<1>8. CASE w \in {"list", "group"}
  <2>1. Serving /\ ~AfterX
    BY <1>1, <1>8, ServingGoes, GoesWhere DEF Opening, AfterX, Writing
  <2>2. ~AfterX'
    <3>1. ~quitx
      BY <1>0, <1>1, <1>8, GoesWhere
         DEF QuitInv, QuitPhase, AfterX, GettingOld, Goes, Writing
    <3>2. CASE QuitAbandon /\ g = Call("bug_out")
      BY <1>1, <3>2, CallFields, GoesWhere DEF AfterX, Writing
    <3>3. CASE ~(QuitAbandon /\ g = Call("bug_out"))
      <4>1. quitx' = quitx
        BY <1>1, <1>8, <3>3
           DEF Steady, EnterGroup, CatchUp, Checkpoint, Unuse, Quit,
               LeaveGroup, history
      <4> QED
        BY <3>1, <4>1 DEF AfterX
    <3> QED
      BY <3>2, <3>3
  <2>3. \/ CatchUp
        \/ Checkpoint
        \/ LeaveGroup
        \/ UNCHANGED <<ver, dirty>>
    BY <1>1, <1>8
       DEF Steady, EnterGroup, Unuse, Quit, QuitAbandon, bitVars
  <2>4. CASE CatchUp
    BY <1>2, <1>4, <1>5, <2>1, <2>2, <2>4, LinesChanged, Changes DEF CatchUp
  <2>5. CASE Checkpoint
    <3>1. BitsToRc(FALSE)
      BY <2>5 DEF Checkpoint
    <3>2. Lines' = Lines
      BY <3>1, LinesCounted
    <3> QED
      BY <1>2, <1>4, <1>5, <2>1, <2>2, <3>2, Stutters
  <2>6. CASE LeaveGroup
    <3>1. BitsToRc(TRUE)
      BY <2>6 DEF LeaveGroup
    <3>2. Lines' = Lines \/ (Lines' = Lines + 1 /\ Lines < MaxVer)
      BY <3>1, LinesCounted
    <3> QED
      BY <1>2, <1>4, <1>5, <2>1, <2>2, <3>2, Stutters, Changes
  <2>7. CASE UNCHANGED <<ver, dirty>>
    <3>1. Lines' = Lines
      BY <2>7 DEF Lines
    <3> QED
      BY <1>2, <1>4, <1>5, <2>1, <2>2, <3>1, Stutters
  <2> QED
    BY <2>3, <2>4, <2>5, <2>6, <2>7
<1> QED
  BY <1>1, <1>3, <1>6, <1>7, <1>8 DEF Steady

LEMMA StoreOpens ==
  ASSUME AllInv, AllInv',
         OpenCreates \/ OpenUnlinksOld \/ OpenLinksOld \/ OpenLoads
  PROVE  Does
<1> USE DEF AllInv, Types
<1>0. Shape /\ Mapped /\ Mapped'
  BY MappedNow, MappedNext DEF BackupInv
<1>1. PICK w, g : Goes(w, g) /\ Opens(w, g) /\ w \in Opening
  BY <1>0, OpensGoes
<1>2. ~Serving /\ (Serving' <=> g.pc \notin Opening \cup {"closed", "exit"})
  BY <1>1, ServingGoes
<1>3. ~InCode({"rename", "oldOld"}) /\ ~InCode({"rename", "oldOld"})' /\ ~AfterX'
  BY <1>1, CodeFields, GoesWhere DEF Opens, Opening, AfterX, Writing
<1>4. StoreSession = "closed"
  BY <1>0, <1>2 DEF Mapped
<1>5. CASE (OpenCreates \/ OpenLoads) /\ g = Code("list")
  <2>1. Serving' /\ StoreSession' = "open"
    BY <1>0, <1>2, <1>3, <1>5, CodeFields DEF Mapped, Opening
  <2>2. dirty' = FALSE /\ Lines' = ver'
    BY <1>5 DEF OpenCreates, OpenLoads, Lines
  <2>3. /\ StoreDurable' = IF StoreDurable = Absent THEN 0 ELSE StoreDurable
        /\ ver' = StoreDurable'
        /\ StoreDurable = IF opened' = Blank THEN 0 ELSE opened'
    <3>1. CASE OpenCreates
      <4>1. Fresh \in Inode /\ Unused(Fresh)
        BY <3>1, FreshType DEF OpenCreates
      <4>2. /\ name = NoFile /\ name' = Fresh /\ content'[Fresh] = Blank
            /\ ver' = 0 /\ opened' = Absent
        BY <3>1, <4>1 DEF OpenCreates, Disk, DiskTypes, Found
      <4>3. StoreDurable = Absent /\ StoreDurable' = 0
        BY <1>0, <1>3, <4>1, <4>2, FilesAssumption DEF Mapped, Visible
      <4> QED
        BY <4>2, <4>3 DEF Absent, Blank
    <3>2. CASE OpenLoads
      <4>1. name # NoFile
        BY <3>2, AtLoad DEF OpenLoads, BackupInv
      <4>2. /\ UNCHANGED diskVars /\ opened' = content[name]
            /\ ver' = IF content[name] \in Version THEN content[name] ELSE 0
        BY <3>2 DEF OpenLoads, Found
      <4>3. content[name] \in Version \cup {Blank}
        BY <4>1 DEF DiskTypes, CrashInv, Whole, Content
      <4>4. StoreDurable = Visible(name) /\ StoreDurable' = Visible(name)
        BY <1>0, <4>1, <4>2 DEF Mapped, Visible, diskVars
      <4> QED
        BY <4>2, <4>3, <4>4, Versions DEF Visible, Absent, Blank
    <3> QED
      BY <1>5, <3>1, <3>2
  <2>4. StoreWorking' = StoreDurable' /\ StoreBase' = StoreDurable
    BY <1>0, <2>1, <2>2, <2>3 DEF Mapped
  <2> QED
    BY <1>4, <2>1, <2>3, <2>4 DEF Does, Store!Next, Store!Open, Store!Absent, Absent
<1>6. CASE \/ OpenUnlinksOld /\ g = Code("link")
           \/ OpenLinksOld /\ g = Code("load")
  <2>1. Main({"unlinkOld", "link"})
    BY <1>1, <1>6, AtTop DEF OpenUnlinksOld, OpenLinksOld, Main, Goes
  <2>2. name # NoFile /\ name' = name /\ content'[name] = content[name]
    BY <1>6, <2>1
       DEF OpenUnlinksOld, OpenLinksOld, Disk, DiskTypes, BackupInv, Shape, Main
  <2>3. ~Serving'
    BY <1>2, <1>6, CodeFields DEF Opening
  <2> QED
    BY <1>2, <1>3, <2>2, <2>3, SameDurable, Stutters
<1> QED
  BY <1>1, <1>5, <1>6 DEF Opens

LEMMA StoreRestores ==
  ASSUME AllInv, AllInv', OldUnlinksNew \/ OldKeepsName \/ OldComesBack
  PROVE  Does
<1> USE DEF AllInv, Types
<1>0. Shape /\ Backup /\ NewApart /\ Asked /\ NamesInv /\ Mapped /\ Mapped'
  BY MappedNow, MappedNext DEF BackupInv, CrashInv, SessionInv
<1>1. PICK w, g : Goes(w, g) /\ Restores(w, g) /\ w \in GettingOld
  BY <1>0, RestoresGoes
<1>2. w \notin Writing \cup Opening \cup {"closed", "exit", "leave", "group"}
  BY <1>1 DEF GettingOld, Opening, Writing
<1>3. g.pc \in {"oldName", "oldOld", "leave"} /\ Serving /\ Serving'
  BY <1>1, <1>2, CodeFields, ServingGoes DEF Restores, Opening
<1>4. ~AfterX /\ (g.pc # "leave" => ~AfterX')
  BY <1>1, <1>2, <1>3, GoesWhere DEF AfterX, Writing
<1>5. opened' = opened /\ Lines' = Lines /\ ver' = ver /\ quitx' = quitx
  BY DEF OldUnlinksNew, OldKeepsName, OldComesBack, bitVars, history, Lines
<1>6. w # "oldOld" => InMemory(name)
  <2>1. ~changed /\ Loaded
    BY <1>1, <1>2, GoesWhere DEF BackupInv, Abandoning
  <2> QED
    BY <1>0, <1>1, <1>2, <1>4, <2>1, GoesWhere DEF NamesInv, Clean, GettingOld, Writing
<1>7. CASE OldUnlinksNew /\ w = "oldNew" /\ g = Code("oldName")
  <2>1. name # NoFile /\ name' = name /\ content'[name] = content[name]
    BY <1>6, <1>7 DEF InMemory, OldUnlinksNew, Disk, DiskTypes
  <2>2. ~InCode({"rename", "oldOld"}) /\ ~InCode({"rename", "oldOld"})'
    BY <1>1, <1>7, CodeFields, GoesWhere
  <2>3. ~AfterX'
    BY <1>4, <1>7, CodeFields
  <2> QED
    BY <1>3, <1>4, <1>5, <2>1, <2>2, <2>3, SameDurable, Stutters
<1>8. CASE OldKeepsName /\ w = "oldName" /\ g = Code("oldOld")
  <2>1. newname = NoFile /\ name # NoFile /\ Visible(name) = ver
    BY <1>0, <1>1, <1>6, <1>8, GoesWhere DEF NamesInv, OldStages, InMemory
  <2>2. name' = NoFile
    BY <1>8, <2>1, DiskNames DEF OldKeepsName
  <2>3. InCode({"rename", "oldOld"})' /\ ~AfterX'
    BY <1>1, <1>4, <1>8, CodeFields, GoesWhere
  <2>4. StoreDurable' = StoreDurable
    BY <1>0, <1>5, <2>1, <2>2, <2>3 DEF Mapped
  <2> QED
    BY <1>3, <1>4, <1>5, <2>3, <2>4, Stutters
<1>9. CASE OldComesBack /\ w = "oldOld" /\ g = Code("leave")
  <2>1. name = NoFile /\ Loaded /\ restore /\ quitx
    BY <1>0, <1>1, <1>2, <1>9, GoesWhere DEF NamesInv, OldStages, Asked, GettingOld
  <2>2. IF opened = Absent THEN oldname = NoFile
        ELSE oldname # NoFile /\ content[oldname] = opened
    BY <1>0, <1>4, <2>1 DEF NamesInv, NoBackup, Backup, InOld, InName
  <2>3. name' = oldname /\ (oldname # NoFile => content'[oldname] = content[oldname])
    BY <1>9, <2>1 DEF OldComesBack, Disk, diskVars, DiskTypes
  <2>4. AfterX' /\ ~InCode({"rename", "oldOld"})'
    BY <1>1, <1>5, <1>9, <2>1, CodeFields, GoesWhere DEF AfterX
  <2>5. /\ StoreSession = "open" /\ StoreSession' = "abandoned"
        /\ StoreWorking' = StoreWorking /\ StoreBase' = StoreBase
    BY <1>0, <1>3, <1>4, <1>5, <2>4 DEF Mapped
  <2>6. StoreDurable' = StoreBase
    <3>1. StoreBase = IF opened = Blank THEN 0 ELSE opened
      BY <1>0, <2>5 DEF Mapped
    <3> QED
      BY <1>0, <2>2, <2>3, <2>4, <3>1 DEF Mapped, Visible, Absent, Blank
  <2> QED
    BY <2>5, <2>6 DEF Does, Store!Next, Store!Abandon
<1> QED
  BY <1>1, <1>7, <1>8, <1>9 DEF Restores

LEMMA StoreWrites ==
  ASSUME AllInv, AllInv', WriteOpens \/ WriteCloses \/ WriteClears \/ WriteRemoves
  PROVE  Does
<1> USE DEF AllInv, Types
<1>0. /\ Shape /\ Quiet /\ NewApart /\ Stages /\ BitsInv /\ QuitInv
      /\ Mapped /\ Mapped'
  BY MappedNow, MappedNext DEF BackupInv, CrashInv, SessionInv
<1>1. PICK w \in Writing, g \in Frame :
        /\ At(w) /\ stack' = [stack EXCEPT ![Len(stack)] = g]
        /\ g.pc \in Writing /\ g.caller = Top.caller
        /\ WriteOpens => w = "write" /\ g.pc = "lines"
        /\ WriteCloses => w = "lines" /\ g.pc = "clear"
        /\ WriteClears => w = "clear" /\ g.pc = "remove"
        /\ WriteRemoves => w = "remove" /\ g.pc = "rename"
  BY <1>0, WritesTo
<1>2. GoesOn(g)
  BY <1>0, <1>1, AtTop, Replaced
<1>3. /\ \A S : InCode(S) <=> w \in S
      /\ \A S : InCode(S)' <=> g.pc \in S
      /\ \A S : S \cap Writing = {} => (Main(S)' <=> Main(S)) /\ ~InCode(S)
      /\ \A S : MainWrites(S)' <=> MainWrites(S)
      /\ Loaded /\ Loaded'
      /\ Running /\ Running'
  BY <1>0, <1>1, <1>2, WritesWhere
<1>4. Serving /\ Serving'
  BY <1>1, <1>3 DEF Serving, Loaded, MultircInUse, Writing
<1>5. UNCHANGED bitVars /\ quitx' = quitx /\ opened' = opened
  BY DEF WriteOpens, WriteCloses, WriteClears, WriteRemoves, history
<1>6. ~AfterX /\ ~AfterX'
  <2>1. ~AfterX
    BY <1>0, <1>1, WriterAsks DEF WriteOpens
  <2>2. {"leave", "closed", "exit"} \cap Writing = {}
    BY DEF Writing
  <2> QED
    BY <1>3, <1>5, <2>1, <2>2 DEF AfterX
<1>7. Lines' = Lines /\ ver' = ver
  BY <1>5 DEF Lines, bitVars
<1>8. CASE WriteOpens \/ WriteCloses \/ WriteClears
  <2>1. name' = name /\ (name # NoFile => content'[name] = content[name])
    <3>1. CASE WriteClears
      BY <3>1 DEF WriteClears, diskVars
    <3>2. CASE WriteOpens \/ WriteCloses
      BY <3>2, WritesNew DEF Disk, DiskTypes
    <3> QED
      BY <1>8, <3>1, <3>2
  <2>2. ~InCode({"rename", "oldOld"}) /\ ~InCode({"rename", "oldOld"})'
    BY <1>1, <1>3, <1>8
  <2> QED
    BY <1>4, <1>5, <1>6, <1>7, <2>1, <2>2, SameDurable, Stutters
<1>9. CASE WriteRemoves
  <2>1. name' = NoFile /\ g.pc = "rename"
    BY <1>1, <1>9, DiskNames DEF WriteRemoves
  <2>2. StoreDurable' = ver
    BY <1>0, <1>3, <1>7, <2>1 DEF Mapped
  <2>3. Lines = ver
    BY <1>0, <1>1, <1>3 DEF BitsInv, Settled, Lines
  <2>4. /\ StoreSession = "open" /\ StoreSession' = "open"
        /\ StoreWorking = Lines /\ StoreWorking' = StoreWorking
        /\ StoreBase' = StoreBase
    BY <1>0, <1>4, <1>5, <1>6, <1>7 DEF Mapped
  <2> QED
    BY <2>2, <2>3, <2>4 DEF Does, Store!Next, Store!Save
<1> QED
  BY <1>8, <1>9

LEMMA StoreReturns ==
  ASSUME AllInv, AllInv', WriteSkips \/ WriteRenames
  PROVE  Does
<1> USE DEF AllInv, Types
<1>0. /\ Shape /\ Quiet /\ NewApart /\ Stages /\ BitsInv /\ NamesInv /\ QuitInv
      /\ Mapped /\ Mapped'
  BY MappedNow, MappedNext DEF BackupInv, CrashInv, SessionInv
<1>1. PICK w \in {"write", "rename"} :
        /\ At(w) /\ ReturnWith(TRUE)
        /\ \/ w = "write" /\ WriteSkips
           \/ w = "rename" /\ WriteRenames
  BY DEF WriteSkips, WriteRenames
<1>2. /\ w \in Writing /\ Running /\ Top.pc = w /\ Loaded
      /\ Top = stack[Len(stack)]
  BY <1>0, <1>1, AtTop, WriterLoaded DEF Writing
<1>3. /\ Lines' = Lines /\ Lines = ver /\ ver' = ver
      /\ quitx' = quitx /\ opened' = opened
  <2>1. UNCHANGED bitVars /\ quitx' = quitx /\ opened' = opened
    BY DEF WriteSkips, WriteRenames, history
  <2>2. ~dirty
    BY <1>0, <1>2 DEF BitsInv, Settled, InCode
  <2> QED
    BY <2>1, <2>2 DEF Lines, bitVars
<1>4. Serving
  BY <1>1, <1>2 DEF Serving, Loaded, MultircInUse, InCode
<1>5. /\ Running' /\ restore' = restore
      /\ \/ Len(stack) = 1 /\ \E x : ReturnsTo(x) /\ Top' = Code(x)
         \/ /\ Len(stack) = 2
            /\ stack'[1] = stack[1] /\ stack[1].pc \in Prompt
            /\ \/ Top' \in {Code("exit"), Call("exit")} /\ Len(stack') = 2
               \/ Top' = stack[1] /\ Len(stack') = 1 /\ Top.caller = "resume"
  BY <1>0, <1>1, <1>2, Returned
<1>6. ~InCode({"rename", "oldOld"})'
  BY <1>5, CodeFields, CallFields DEF ReturnsTo, InCode, Prompt
<1>7. /\ StoreDurable' = StoreDurable
      /\ StoreDurable = IF AfterX THEN StoreBase ELSE Lines
  <2>1. CASE w = "write"
    <3>1. WriteSkips /\ ~changed /\ UNCHANGED diskVars
      BY <1>1, <2>1 DEF WriteSkips
    <3>2. ~InCode({"rename", "oldOld"}) /\ ~InCode({"remove", "rename"})
      BY <1>2, <2>1 DEF InCode
    <3>3. StoreDurable' = StoreDurable
      BY <1>6, <3>1, <3>2, SameDurable DEF diskVars
    <3>4. CASE AfterX
      <4>1. StoreBase = IF opened = Blank THEN 0 ELSE opened
        BY <1>0, <1>4 DEF Mapped
      <4> QED
        BY <1>0, <1>2, <3>2, <3>3, <3>4, <4>1
           DEF Mapped, QuitInv, Abandoned, GaveUp, Visible, Absent, Blank
    <3>5. CASE ~AfterX
      <4>1. ~Main({"oldOld"})
        BY <1>0, <1>2, Bottom DEF Main, Prompt, Writing
      <4>2. InMemory(name)
        BY <1>0, <1>2, <3>1, <3>2, <3>5, <4>1 DEF NamesInv, Clean
      <4> QED
        BY <1>0, <1>3, <3>3, <3>5, <4>2 DEF Mapped, InMemory
    <3> QED
      BY <3>3, <3>4, <3>5
  <2>2. CASE w = "rename"
    <3>1. /\ newname # NoFile /\ content[newname] = ver /\ newname # name
          /\ name = NoFile /\ InCode({"rename", "oldOld"})
      BY <1>0, <1>2, <2>2 DEF Stages, InCode, NewApart, NamesInv, Away
    <3>2. name' = newname /\ content'[newname] = ver
      BY <1>1, <2>2, <3>1 DEF WriteRenames, Disk, DiskTypes
    <3>3. ver # Blank
      BY Versions DEF BitTypes
    <3>4. ~AfterX
      BY <1>0, <1>1, <1>2, <2>2, WriterAsks
    <3> QED
      BY <1>0, <1>3, <3>1, <3>2, <3>3, <3>4 DEF Mapped, Visible
  <2> QED
    BY <1>1, <2>1, <2>2
<1>8. CASE ~Serving'
  BY <1>4, <1>7, <1>8, Closes
<1>9. CASE Serving'
  <2>1. AfterX' <=> AfterX
    <3>1. CASE Len(stack) = 1
      <4>1. PICK x : ReturnsTo(x) /\ Top' = Code(x)
        BY <1>5, <3>1
      <4>2. /\ x \in {"list", "group", "closed", "exit", "oldNew", "leave"}
            /\ stack'[1].pc = x /\ Top'.pc = x /\ stack[1].pc = w
        BY <1>2, <3>1, <4>1, CodeFields DEF ReturnsTo
      <4>3. x \notin {"closed", "exit"}
        BY <1>5, <1>9, <4>2 DEF Serving, MultircInUse, InCode
      <4>4. ~AfterX
        BY <1>2, <4>1, <4>2, <4>3 DEF AfterX, ReturnsTo, Main, MainWrites, Writing
      <4>5. quitx => x = "oldNew"
        BY <1>0, <1>2, <4>1, <4>2, <4>4
           DEF QuitInv, QuitPhase, ReturnsTo, Main, MainWrites, GettingOld, Writing
      <4> QED
        BY <1>3, <4>2, <4>4, <4>5 DEF AfterX, Main, MainWrites, Writing
    <3>2. CASE Len(stack) = 2
      BY <1>2, <1>3, <1>5, <3>2 DEF AfterX, Main, MainWrites
    <3> QED
      BY <1>5, <3>1, <3>2
  <2> QED
    BY <1>3, <1>4, <1>7, <1>9, <2>1, Stutters
<1> QED
  BY <1>8, <1>9

LEMMA StoreHandles ==
  ASSUME AllInv, AllInv', NoFaults, Signal \/ Stop
  PROVE  Does
<1> USE DEF AllInv, Types
<1>1. AtPrompt
  BY DEF NoFaults, Signal, Stop
<1>2. PICK g \in {Call("finalize"), Call("resume"), Code("exit")} :
        /\ Interrupt(g)
        /\ g = Code("exit") => ~MultircInUse
        /\ g # Code("exit") => MultircInUse
  BY CodeFields, CallFields DEF Signal, Stop
<1>3. g \in Frame /\ g.pc \in {"write", "exit"} /\ (g.pc = "exit" <=> g = Code("exit"))
  BY <1>2, CallType, CodeType, CodeFields, CallFields DEF PC, Caller
<1>4. /\ Running /\ Running' /\ Top' = g /\ Len(stack) = 1
      /\ stack'[1] = stack[1] /\ stack[1].pc \in Prompt /\ Top = stack[1]
  BY <1>1, <1>2, <1>3, Interrupted DEF Writing
<1>5. UNCHANGED diskVars /\ opened' = opened /\ quitx' = quitx
  BY DEF Signal, Stop, history
<1>6. StoreDurable' = StoreDurable
  <2>1. ~InCode({"rename", "oldOld"}) /\ ~InCode({"rename", "oldOld"})'
    BY <1>3, <1>4 DEF InCode, Prompt
  <2> QED
    BY <1>5, <2>1, SameDurable DEF diskVars
<1>7. Serving' <=> Serving
  BY <1>2, <1>3, <1>4 DEF Serving, InCode, MultircInUse, Prompt
<1>8. CASE ~Serving
  BY <1>6, <1>7, <1>8, Stutters
<1>9. CASE Serving
  <2>1. ~AfterX /\ ~AfterX'
    BY <1>4, <1>9 DEF AfterX, Main, MainWrites, Serving, MultircInUse, Prompt, Writing
  <2>2. Lines' = Lines \/ (Lines' = Lines + 1 /\ Lines < MaxVer)
    <3>1. (\E back \in BOOLEAN : BitsToRc(back)) \/ UNCHANGED <<ver, dirty>>
      BY DEF Signal, Stop
    <3> QED
      BY <3>1, LinesCounted DEF Lines
  <2> QED
    BY <1>5, <1>6, <1>7, <1>9, <2>1, <2>2, Stutters, Changes
<1> QED
  BY <1>8, <1>9

LEMMA StoreEdits ==
  ASSUME AllInv, AllInv', Edits
  PROVE  Does
<1> USE DEF AllInv, Types
<1>1. PICK w \in {"list", "group"} : At(w)
  BY DEF Edits, EditList, Mark, DelayUnmark
<1>2. Running /\ Len(stack) = 1 /\ Top = stack[1] /\ stack[1].pc = w
  BY <1>1, AtTop, MainOnly DEF Writing, BackupInv
<1>3. UNCHANGED <<diskVars, stack>> /\ opened' = opened
  BY DEF Edits, EditList, Mark, DelayUnmark, history
<1>4. /\ Serving /\ Serving' /\ ~AfterX /\ ~AfterX'
      /\ ~InCode({"rename", "oldOld"}) /\ ~InCode({"rename", "oldOld"})'
  BY <1>2, <1>3
     DEF Serving, InCode, MultircInUse, AfterX, Main, MainWrites, Writing,
         Opening, Top, Running
<1>5. StoreDurable' = StoreDurable
  BY <1>3, <1>4, SameDurable DEF diskVars
<1>6. CASE EditList \/ Mark
  <2>1. /\ Pending < MaxVer
        /\ \/ ver' = ver + 1 /\ dirty' = dirty
           \/ ver' = ver /\ ~dirty /\ dirty' = TRUE
    BY <1>6 DEF EditList, Mark
  <2> QED
    BY <1>3, <1>4, <1>5, <2>1, LinesChanged, Changes
<1>7. CASE DelayUnmark
  <2>1. Lines' = Lines
    BY <1>7 DEF DelayUnmark, Lines
  <2> QED
    BY <1>3, <1>4, <1>5, <2>1, Stutters
<1> QED
  BY <1>6, <1>7 DEF Edits

LEMMA StoreEnds ==
  ASSUME AllInv, AllInv', Start \/ Exit
  PROVE  Does
<1> USE DEF AllInv, Types
<1>1. CASE Start
  <2>1. /\ ~Running /\ stack' = <<Code("open")>> /\ UNCHANGED diskVars
    BY <1>1 DEF Start
  <2>2. stack'[1].pc = "open" /\ Top'.pc = "open"
    BY <2>1, CodeFields DEF Top, Last
  <2>3. /\ ~Serving /\ ~Serving'
        /\ ~InCode({"rename", "oldOld"}) /\ ~InCode({"rename", "oldOld"})'
    BY <2>1, <2>2 DEF Serving, InCode, MultircInUse, Opening
  <2> QED
    BY <2>1, <2>3, SameDurable, Stutters DEF diskVars
<1>2. CASE Exit
  <2>1. name' = name /\ (name # NoFile => content'[name] = content[name])
    BY <1>2, ExitKeeps DEF DiskTypes
  <2>2. Running /\ Top.pc = "exit" /\ ~Running'
    BY <1>2, AtTop DEF Exit, Gone, Running
  <2>3. /\ ~Serving /\ ~Serving'
        /\ ~InCode({"rename", "oldOld"}) /\ ~InCode({"rename", "oldOld"})'
    BY <2>2 DEF Serving, InCode
  <2> QED
    BY <2>1, <2>3, SameDurable, Stutters
<1> QED
  BY <1>1, <1>2

(* The theorem *)

LEMMA StoreBegins == ASSUME Init PROVE Store!Init
<1>1. stack = << >> /\ DOMAIN stack = {}
  BY DEF Init
<1>2. StoreSession = "closed" /\ ~Renaming
  BY <1>1 DEF StoreSession, Running, Renaming
<1>3. StoreWorking = 0 /\ StoreBase = Absent
  BY <1>2 DEF StoreWorking, StoreBase
<1>4. StoreDurable \in {0, Absent}
  BY <1>2, FilesAssumption DEF Init, StoreDurable, Visible, Blank
<1> QED
  BY <1>2, <1>3, <1>4 DEF Store!Init, Store!Absent, Absent

LEMMA StoreStep ==
  ASSUME NoFaults, AllInv, AllInv', [Next]_vars
  PROVE  [Store!Next]_(Store!vars)
<1>1. CASE Next
  <2>1. Does
    BY <1>1, SessionSteps, StoreSteady, StoreOpens, StoreRestores, StoreWrites,
       StoreReturns, StoreHandles, StoreEdits, StoreEnds
  <2> QED
    BY <2>1 DEF Does
<1>2. CASE UNCHANGED vars
  <2>1. UNCHANGED <<name, newname, content, stack, ver, dirty, opened, quitx>>
    BY <1>2 DEF vars, diskVars, bitVars, history
  <2>2. UNCHANGED <<StoreDurable, StoreSession, StoreWorking, StoreBase>>
    BY <2>1
       DEF StoreDurable, StoreSession, StoreWorking, StoreBase, Visible,
           Renaming, At, Top, Running, MultircInUse
  <2> QED
    BY <2>2 DEF Store!vars
<1> QED
  BY <1>1, <1>2

\* As long as nothing fails, trn's names, its stack and its lines in memory are
\* the newsrc of NewsrcStore: every system call of open_newsrc, write_newsrcs
\* and get_old_newsrcs is a step of that newsrc, or none, for any number of
\* versions and inodes.
THEOREM FilesImplementStore == NoFaults => (Spec => ImplementsStore)
<1> SUFFICES ASSUME NoFaults PROVE Spec => ImplementsStore
  OBVIOUS
<1>1. Init => Store!Init
  BY StoreBegins
<1>2. AllInv /\ AllInv' /\ [Next]_vars => [Store!Next]_(Store!vars)
  BY StoreStep
<1> QED
  BY <1>1, <1>2, SessionInvariant, PTL DEF Spec, ImplementsStore, Store!Spec

=============================================================================
