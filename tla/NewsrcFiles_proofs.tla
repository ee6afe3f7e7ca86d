------------------------- MODULE NewsrcFiles_proofs -------------------------
(***************************************************************************)
(* What holds of the newsrc's three names for any number of versions and   *)
(* inodes: the types, and that what open_newsrc found outlives any number  *)
(* of nested handlers, interrupted writes and crashes: BackupSurvives,     *)
(* unless writing fails, `x' abandons nothing, or a newsrc is opened after *)
(* an `x' (BackupFaults).                                                  *)
(***************************************************************************)
EXTENDS NewsrcFiles, TLAPS

DiskTypes ==
  /\ name \in Inode \cup {NoFile}
  /\ newname \in Inode \cup {NoFile}
  /\ oldname \in Inode \cup {NoFile}
  /\ content \in [Inode -> Content]

BitTypes ==
  /\ ver \in Version
  /\ dirty \in BOOLEAN /\ yank \in BOOLEAN /\ doing_ng \in BOOLEAN
  /\ Pending <= MaxVer

FlagTypes ==
  /\ changed \in BOOLEAN /\ panic \in BOOLEAN /\ restore \in BOOLEAN
  /\ quitx \in BOOLEAN

HistoryTypes ==
  /\ saved \in Version \cup {Absent}
  /\ opened \in Content \cup {Absent}

StackType == stack \in Seq(Frame)

Types == DiskTypes /\ BitTypes /\ FlagTypes /\ HistoryTypes /\ StackType

(* Numbers, for terms that are not variables *)

LEMMA Count ==
  \A n \in Nat :
    /\ n + 0 + 0 = n
    /\ n \notin {0, 1} => n \in 2 .. n /\ n - 1 \in 1 .. n /\ 1 \in 1 .. n - 1
    /\ n # 0 => n - 1 \in 0 .. n /\ n - 1 \in Nat
    /\ n = 0 \/ n = 1 \/ n > 1
OBVIOUS

LEMMA NoneAboveOne == \A n : n = 1 => 2 .. n = {}
OBVIOUS

(* The stack *)

\* A frame that is at some place is the top of a non-empty stack.
LEMMA AtTop ==
  ASSUME StackType, NEW w, At(w)
  PROVE  /\ Running
         /\ Len(stack) \in Nat \ {0}
         /\ Len(stack) \in DOMAIN stack
         /\ Top \in Frame /\ Top = stack[Len(stack)]
         /\ Top.pc = w
         /\ Top.fd \in Inode \cup {NoFile}
         /\ Top.snap \in Version
<1>1. Running /\ Top.pc = w /\ Top = stack[Len(stack)]
  BY DEF At, Top, Last
<1>2. Len(stack) \in Nat /\ DOMAIN stack = 1 .. Len(stack)
  BY DEF StackType
<1>3. Len(stack) # 0
  BY <1>1 DEF StackType, Running
<1>4. Len(stack) \in DOMAIN stack
  BY <1>2, <1>3
<1>5. Top \in Frame
  BY <1>1, <1>4 DEF StackType
<1> QED
  BY <1>1, <1>2, <1>3, <1>4, <1>5 DEF Frame

LEMMA CodeType == ASSUME NEW w \in PC PROVE Code(w) \in Frame
BY FilesAssumption DEF Code, Frame, Version, Caller

LEMMA CallType == ASSUME NEW c \in Caller PROVE Call(c) \in Frame
BY FilesAssumption DEF Call, Code, Frame, Version, Caller, PC, Writing

\* Replacing the top frame leaves a stack of frames.
LEMMA ReplaceTop ==
  ASSUME StackType, Running, NEW f \in Frame,
         stack' = [stack EXCEPT ![Len(stack)] = f]
  PROVE  StackType'
BY DEF StackType, Running

LEMMA GoToType ==
  ASSUME StackType, Running, NEW w \in PC, GoTo(w) PROVE StackType'
BY CodeType, ReplaceTop DEF GoTo

LEMMA CallWriteType ==
  ASSUME StackType, Running, NEW c \in Caller, CallWrite(c) PROVE StackType'
BY CallType, ReplaceTop DEF CallWrite

LEMMA InterruptType ==
  ASSUME StackType, NEW f \in Frame, Interrupt(f) PROVE StackType'
BY DEF StackType, Interrupt

\* write_newsrcs returns into a well-formed stack.
LEMMA ReturnType ==
  ASSUME StackType, NEW w, At(w), NEW ok \in BOOLEAN, restore \in BOOLEAN,
         ReturnWith(ok)
  PROVE  StackType' /\ restore' \in BOOLEAN
<1>1. Running /\ Top \in Frame
  BY AtTop
<1>2. Top.caller \in Caller
  BY <1>1 DEF Frame
<1>3. CASE Top.caller \in {"list", "group", "closed", "exit"}
  <2>1. GoTo(Top.caller) /\ UNCHANGED restore
    BY <1>3 DEF ReturnWith
  <2>2. Top.caller \in PC
    BY <1>3 DEF PC
  <2> QED
    BY <1>1, <2>1, <2>2, GoToType
<1>4. CASE Top.caller = "bug_out"
  <2>1. /\ restore' = (restore \/ ~ok)
        /\ GoTo("oldNew") \/ GoTo("leave")
    BY <1>4 DEF ReturnWith
  <2>2. "oldNew" \in PC /\ "leave" \in PC
    BY DEF PC, GettingOld
  <2> QED
    BY <1>1, <2>1, <2>2, GoToType
<1>5. CASE Top.caller = "finalize"
  <2>1. CallWrite("exit") /\ UNCHANGED restore
    BY <1>5 DEF ReturnWith
  <2>2. "exit" \in Caller
    BY DEF Caller
  <2> QED
    BY <1>1, <2>1, <2>2, CallWriteType
<1>6. CASE Top.caller = "resume"
  <2>1. stack' = Front(stack) /\ UNCHANGED restore
    BY <1>6 DEF ReturnWith
  <2>2. Len(stack) - 1 \in 0 .. Len(stack)
    BY <1>1, AtTop
  <2>3. stack' = SubSeq(stack, 1, Len(stack) - 1)
    BY <2>1 DEF Front
  <2> QED
    BY <2>1, <2>2, <2>3 DEF StackType
<1> QED
  BY <1>2, <1>3, <1>4, <1>5, <1>6 DEF Caller

(* Types *)

\* Linking the names to inodes and changing contents keeps the disk typed.
LEMMA DiskType ==
  ASSUME NEW n \in Inode \cup {NoFile}, NEW w \in Inode \cup {NoFile},
         NEW o \in Inode \cup {NoFile}, NEW c,
         \A i \in Inode : c[i] \in Content, Disk(n, w, o, c)
  PROVE  DiskTypes'
BY DEF DiskTypes, Disk, Content

LEMMA FreshType == ASSUME CanCreate PROVE Fresh \in Inode /\ Unused(Fresh)
BY DEF CanCreate, Fresh

\* No step spoils the types of the names and the inodes.
LEMMA DiskStep ==
  ASSUME StackType, DiskTypes, Next
  PROVE  DiskTypes'
<1>1. CASE OpenCreates
  <2>1. Fresh \in Inode
    BY <1>1, FreshType DEF OpenCreates
  <2>2. \A i \in Inode : [content EXCEPT ![Fresh] = Blank][i] \in Content
    BY <2>1 DEF DiskTypes, Content
  <2>3. Disk(Fresh, newname, oldname, [content EXCEPT ![Fresh] = Blank])
    BY <1>1 DEF OpenCreates
  <2> QED
    BY <2>1, <2>2, <2>3, DiskType DEF DiskTypes
<1>2. CASE OpenUnlinksOld \/ OpenLinksOld
  BY <1>2, DiskType DEF OpenUnlinksOld, OpenLinksOld, DiskTypes
<1>3. CASE WriteOpens
  <2> DEFINE i == IF newname = NoFile THEN Fresh ELSE newname
  <2>1. i \in Inode
    BY <1>3, FreshType DEF WriteOpens, DiskTypes
  <2>2. Disk(name, i, oldname, [content EXCEPT ![i] = Partial])
    BY <1>3 DEF WriteOpens
  <2>3. \A k \in Inode : [content EXCEPT ![i] = Partial][k] \in Content
    BY <2>1 DEF DiskTypes, Content
  <2> HIDE DEF i
  <2> QED
    BY <2>1, <2>2, <2>3, DiskType DEF DiskTypes
<1>4. CASE WriteCloses
  <2>1. PICK c \in Closed(content[Top.fd], Top.snap) :
          Disk(name, newname, oldname, [content EXCEPT ![Top.fd] = c])
    BY <1>4 DEF WriteCloses
  <2>2. Top.snap \in Version
    BY <1>4, AtTop DEF WriteCloses
  <2>3. \A i \in Inode : [content EXCEPT ![Top.fd] = c][i] \in Content
    BY <2>1, <2>2 DEF Closed, Content, DiskTypes
  <2> QED
    BY <2>1, <2>3, DiskType DEF DiskTypes
<1>5. CASE WriteFails \/ WriteRemoves \/ WriteRenames \/ OldUnlinksNew \/
            OldKeepsName \/ OldComesBack
  BY <1>5, DiskType
     DEF WriteFails, WriteRemoves, WriteRenames, OldUnlinksNew, OldKeepsName,
         OldComesBack, DiskTypes, diskVars
<1>6. CASE Exit
  <2> DEFINE open == {stack[k].fd : k \in DOMAIN stack} \ {NoFile}
             left(i) == UNION {Flushed(content[i], stack[k].snap) :
                                 k \in {m \in DOMAIN stack : stack[m].fd = i}}
  <2>1. PICK c \in [open -> Content] :
          /\ \A i \in open : c[i] \in left(i)
          /\ Disk(name, newname, oldname,
                  [i \in Inode |-> IF i \in open THEN c[i] ELSE content[i]])
    BY <1>6 DEF Exit
  <2> DEFINE d == [i \in Inode |-> IF i \in open THEN c[i] ELSE content[i]]
  <2>3. \A i \in Inode : d[i] \in Content
    BY <2>1 DEF Flushed, Content, DiskTypes, StackType, Frame
  <2> QED
    BY <2>1, <2>3, DiskType DEF DiskTypes
<1>7. CASE OpenRefuses \/ OpenBacksUp \/ OpenLinkFails \/ OpenLoads \/
            LeaveMultirc \/ WriteSkips \/ WriteOpenFails \/ WriteClears \/
            Start \/ Reopen \/ QuitClosed \/ EditList \/ CatchUp \/
            EnterGroup \/ Mark \/ DelayUnmark \/ Checkpoint \/ LeaveGroup \/
            Unuse \/ Quit \/ QuitAbandon \/ Signal \/ Stop \/ Kill
  BY <1>7 DEF DiskTypes, diskVars, OpenRefuses, OpenBacksUp, OpenLinkFails, OpenLoads, LeaveMultirc,
        WriteSkips, WriteOpenFails, WriteClears, Start, Reopen, QuitClosed,
        EditList, CatchUp, EnterGroup, Mark, DelayUnmark, Checkpoint,
        LeaveGroup, Unuse, Quit, QuitAbandon, Signal, Stop, Kill
<1> QED
  BY <1>1, <1>2, <1>3, <1>4, <1>5, <1>6, <1>7 DEF Next, Progress, User

\* No step spoils the stack.
LEMMA StackStep ==
  ASSUME Types, Next
  PROVE  StackType'
<1> USE DEF Types, FlagTypes
<1>1. CASE OpenCreates \/ OpenRefuses \/ OpenBacksUp \/ OpenUnlinksOld \/
            OpenLinksOld \/ OpenLinkFails \/ OpenLoads \/ OldUnlinksNew \/
            OldKeepsName \/ OldComesBack \/ Reopen \/ QuitClosed \/
            EnterGroup
  BY <1>1, AtTop, GoToType
     DEF OpenCreates, OpenRefuses, OpenBacksUp, OpenUnlinksOld,
         OpenLinksOld, OpenLinkFails, OpenLoads, OldUnlinksNew,
         OldKeepsName, OldComesBack, Reopen, QuitClosed, EnterGroup, PC,
         Opening, GettingOld
<1>2. CASE CatchUp \/ Checkpoint \/ Unuse \/ Quit \/ QuitAbandon \/
            LeaveMultirc \/ LeaveGroup
  BY <1>2, AtTop, GoToType, CallWriteType
     DEF CatchUp, Checkpoint, Unuse, Quit, QuitAbandon, LeaveMultirc,
         LeaveGroup, PC, Caller
<1>3. CASE WriteSkips \/ WriteOpenFails \/ WriteFails \/ WriteRenames
  BY <1>3, ReturnType DEF WriteSkips, WriteOpenFails, WriteFails, WriteRenames
<1>4. CASE WriteOpens
  <2> DEFINE i == IF newname = NoFile THEN Fresh ELSE newname
             f == [Top EXCEPT !.pc = "lines", !.fd = i, !.snap = ver]
  <2>1. Running /\ Top \in Frame /\ Top = stack[Len(stack)]
    BY <1>4, AtTop DEF WriteOpens
  <2>2. i \in Inode
    BY <1>4, FreshType DEF WriteOpens, DiskTypes
  <2>3. f \in Frame
    BY <2>1, <2>2 DEF Frame, PC, Writing, BitTypes
  <2>4. stack' = [stack EXCEPT ![Len(stack)] = f]
    BY <1>4, <2>1 DEF WriteOpens
  <2> QED
    BY <2>1, <2>3, <2>4, ReplaceTop
<1>5. CASE WriteCloses
  <2> DEFINE f == [Top EXCEPT !.pc = "clear", !.fd = NoFile]
  <2>1. Running /\ Top \in Frame /\ Top = stack[Len(stack)]
    BY <1>5, AtTop DEF WriteCloses
  <2>2. f \in Frame
    BY <2>1 DEF Frame, PC, Writing
  <2>3. stack' = [stack EXCEPT ![Len(stack)] = f]
    BY <1>5, <2>1 DEF WriteCloses
  <2> QED
    BY <2>1, <2>2, <2>3, ReplaceTop
<1>6. CASE WriteClears \/ WriteRemoves
  <2>1. Running /\ Top \in Frame /\ Top = stack[Len(stack)]
    BY <1>6, AtTop DEF WriteClears, WriteRemoves
  <2>2. PICK w \in {"remove", "rename"} : WriteOnAt(w)
    BY <1>6 DEF WriteClears, WriteRemoves
  <2> DEFINE f == [Top EXCEPT !.pc = w]
  <2>3. f \in Frame
    BY <2>1 DEF Frame, PC, Writing
  <2>4. stack' = [stack EXCEPT ![Len(stack)] = f]
    BY <2>1, <2>2 DEF WriteOnAt
  <2> QED
    BY <2>1, <2>3, <2>4, ReplaceTop
<1>7. CASE Start
  <2>1. Code("open") \in Frame
    BY CodeType DEF PC, Opening
  <2> QED
    BY <1>7, <2>1 DEF Start, StackType
<1>8. CASE Signal \/ Stop
  <2>1. /\ Call("finalize") \in Frame
        /\ Call("resume") \in Frame
        /\ Code("exit") \in Frame
    BY CallType, CodeType DEF PC, Caller
  <2> QED
    BY <1>8, <2>1, InterruptType DEF Signal, Stop
<1>9. CASE Exit \/ Kill
  <2>1. stack' = << >>
    BY <1>9 DEF Exit, Kill, Gone
  <2>2. << >> \in Seq(Frame)
    OBVIOUS
  <2> QED
    BY <2>1, <2>2 DEF StackType
<1>10. CASE EditList \/ Mark \/ DelayUnmark
  BY <1>10 DEF EditList, Mark, DelayUnmark, StackType
<1> QED
  BY <1>1, <1>2, <1>3, <1>4, <1>5, <1>6, <1>7, <1>8, <1>9, <1>10 DEF Next, Progress, User

\* bits_to_rc turns pending changes into versions.
LEMMA BitsToRcType ==
  ASSUME BitTypes, NEW back \in BOOLEAN, BitsToRc(back), doing_ng' \in BOOLEAN
  PROVE  BitTypes'
<1>1. ver \in Nat /\ MaxVer \in Nat /\ Pending <= MaxVer
  BY FilesAssumption DEF BitTypes, Version
<1>2. dirty' = FALSE
  BY DEF BitsToRc
<1>3. yank' \in BOOLEAN /\ (yank' = TRUE => yank = TRUE /\ back = FALSE)
  BY Zenon DEF BitsToRc, BitTypes
<1>4. \/ ver' = ver
      \/ ver' = ver + 1 /\ (dirty = TRUE \/ (yank = TRUE /\ yank' = FALSE))
  BY Zenon DEF BitsToRc, BitTypes
<1>5. Pending' = IF yank' = TRUE THEN ver' + 1 ELSE ver'
  BY <1>1, <1>2, <1>3, <1>4 DEF Pending
<1>6. Pending = IF dirty = TRUE
                THEN IF yank = TRUE THEN ver + 2 ELSE ver + 1
                ELSE IF yank = TRUE THEN ver + 1 ELSE ver
  BY <1>1 DEF Pending, BitTypes
<1>7. ver' \in Nat /\ ver' <= MaxVer /\ Pending' <= MaxVer
  <2>1. CASE dirty = TRUE
    BY <1>1, <1>3, <1>4, <1>5, <1>6, <2>1
  <2>2. CASE dirty # TRUE /\ yank = TRUE
    BY <1>1, <1>3, <1>4, <1>5, <1>6, <2>2
  <2>3. CASE dirty # TRUE /\ yank # TRUE
    BY <1>1, <1>3, <1>4, <1>5, <1>6, <2>3
  <2> QED
    BY <2>1, <2>2, <2>3
<1>8. ver' \in Version
  BY <1>1, <1>7 DEF Version
<1> QED
  BY <1>2, <1>3, <1>7, <1>8 DEF BitTypes

\* No step takes the versions beyond their bound.
LEMMA BitStep ==
  ASSUME BitTypes, Next
  PROVE  BitTypes'
<1> USE DEF bitVars
<1>0. ver \in Nat /\ MaxVer \in Nat /\ 0 \in Version
  BY FilesAssumption DEF BitTypes, Version
<1>1. CASE OpenCreates \/ OpenLoads
  <2>1. dirty' = FALSE /\ yank' = FALSE /\ doing_ng' = doing_ng
    BY <1>1 DEF OpenCreates, OpenLoads
  <2>2. ver' \in Version
    BY <1>0, <1>1 DEF OpenCreates, OpenLoads
  <2>3. ver' \in Nat /\ ver' <= MaxVer
    BY <1>0, <2>2 DEF Version
  <2>4. Pending' = ver'
    <3>1. Pending' = ver' + 0 + 0
      BY <2>1 DEF Pending
    <3> QED
      BY <2>3, <3>1, Count
  <2>5. Pending' <= MaxVer
    BY <2>3, <2>4
  <2> QED
    BY <2>1, <2>2, <2>5 DEF BitTypes
<1>2. CASE EditList \/ CatchUp
  <2>1. /\ ver' = ver + 1 /\ dirty' = dirty /\ yank' = yank
        /\ doing_ng' = doing_ng /\ Pending < MaxVer
    BY <1>2 DEF EditList, CatchUp
  <2>2. Pending' = Pending + 1 /\ Pending \in Nat /\ ver <= Pending
    BY <1>0, <2>1 DEF Pending
  <2> QED
    BY <1>0, <2>1, <2>2 DEF BitTypes, Version
<1>3. CASE Mark
  <2>1. /\ UNCHANGED <<ver, yank, doing_ng>> /\ dirty' = TRUE /\ dirty = FALSE
        /\ Pending < MaxVer
    BY <1>3 DEF Mark, BitTypes
  <2>2. Pending' = Pending + 1 /\ Pending \in Nat
    BY <1>0, <2>1 DEF Pending
  <2> QED
    BY <1>0, <2>1, <2>2 DEF BitTypes
<1>4. CASE DelayUnmark
  <2>1. /\ UNCHANGED <<ver, dirty, doing_ng>> /\ yank' = TRUE /\ yank = FALSE
        /\ Pending < MaxVer
    BY <1>4 DEF DelayUnmark, BitTypes
  <2>2. Pending' = Pending + 1 /\ Pending \in Nat
    BY <1>0, <2>1 DEF Pending
  <2> QED
    BY <1>0, <2>1, <2>2 DEF BitTypes
<1>5. CASE Checkpoint \/ LeaveGroup
  <2>1. PICK back \in BOOLEAN : BitsToRc(back)
    BY <1>5 DEF Checkpoint, LeaveGroup
  <2>2. doing_ng' \in BOOLEAN
    BY <1>5 DEF Checkpoint, LeaveGroup, BitTypes
  <2> QED
    BY <2>1, <2>2, BitsToRcType
<1>6. CASE Signal \/ Stop
  <2>1. \/ \E back \in BOOLEAN : BitsToRc(back)
        \/ UNCHANGED <<ver, dirty, yank>>
    BY <1>6 DEF Signal, Stop
  <2>2. doing_ng' \in BOOLEAN
    BY <1>6 DEF Signal, Stop, BitTypes
  <2>3. CASE UNCHANGED <<ver, dirty, yank>>
    BY <2>2, <2>3 DEF BitTypes, Pending
  <2> QED
    BY <2>1, <2>2, <2>3, BitsToRcType
<1>7. CASE Exit \/ Kill
  <2>1. ver' = 0 /\ dirty' = FALSE /\ yank' = FALSE /\ doing_ng' = FALSE
    BY <1>7 DEF Exit, Kill, Gone
  <2>2. Pending' = 0
    BY <2>1 DEF Pending
  <2>3. Pending' <= MaxVer
    BY <1>0, <2>2
  <2> QED
    BY <1>0, <2>1, <2>3 DEF BitTypes
<1>8. CASE OpenRefuses \/ OpenBacksUp \/ OpenUnlinksOld \/ OpenLinksOld \/
            OpenLinkFails \/ LeaveMultirc \/ WriteSkips \/ WriteOpens \/
            WriteOpenFails \/ WriteCloses \/ WriteFails \/ WriteClears \/
            WriteRemoves \/ WriteRenames \/ OldUnlinksNew \/ OldKeepsName \/
            OldComesBack \/ Start \/ Reopen \/ QuitClosed \/ EnterGroup \/
            Unuse \/ Quit \/ QuitAbandon
  <2>1. UNCHANGED <<ver, dirty, yank>> /\ doing_ng' \in BOOLEAN
    BY <1>8
    DEF OpenRefuses, OpenBacksUp, OpenUnlinksOld, OpenLinksOld,
        OpenLinkFails, LeaveMultirc, WriteSkips, WriteOpens, WriteOpenFails,
        WriteCloses, WriteFails, WriteClears, WriteRemoves, WriteRenames,
        OldUnlinksNew, OldKeepsName, OldComesBack, Start, Reopen,
        QuitClosed, EnterGroup, Unuse, Quit, QuitAbandon,
        BitTypes
  <2> QED
    BY <2>1 DEF BitTypes, Pending
<1> QED
  BY <1>1, <1>2, <1>3, <1>4, <1>5, <1>6, <1>7, <1>8 DEF Next, Progress, User

\* No step spoils the types of the flags.
LEMMA FlagStep ==
  ASSUME StackType, FlagTypes, Next
  PROVE  FlagTypes'
<1> USE DEF FlagTypes, history
<1>1. CASE WriteSkips \/ WriteOpenFails \/ WriteFails \/ WriteRenames
  BY <1>1, ReturnType DEF WriteSkips, WriteOpenFails, WriteFails, WriteRenames
<1>2. CASE Exit \/ Kill
  BY <1>2 DEF Exit, Kill, Gone
<1>3. CASE OpenCreates \/ OpenRefuses \/ OpenBacksUp \/ OpenUnlinksOld \/
            OpenLinksOld \/ OpenLinkFails \/ OpenLoads \/ LeaveMultirc \/
            WriteOpens \/ WriteCloses \/ WriteClears \/ WriteRemoves \/
            OldUnlinksNew \/ OldKeepsName \/ OldComesBack \/ Start \/ Reopen
            \/ QuitClosed \/ EditList \/ CatchUp \/ EnterGroup \/ Mark \/
            DelayUnmark \/ Checkpoint \/ LeaveGroup \/ Unuse \/ Quit \/
            QuitAbandon \/ Signal \/ Stop
  BY <1>3 DEF OpenCreates, OpenRefuses, OpenBacksUp, OpenUnlinksOld, OpenLinksOld,
        OpenLinkFails, OpenLoads, LeaveMultirc, WriteOpens, WriteCloses,
        WriteClears, WriteRemoves, OldUnlinksNew, OldKeepsName,
        OldComesBack, Start, Reopen, QuitClosed, EditList, CatchUp,
        EnterGroup, Mark, DelayUnmark, Checkpoint, LeaveGroup, Unuse, Quit,
        QuitAbandon, Signal, Stop
<1> QED
  BY <1>1, <1>2, <1>3 DEF Next, Progress, User

(* The shape of the stack *)

\* Only the main program is anywhere but in write_newsrcs or at its end.
LEMMA MainOnly ==
  ASSUME StackType, Shape, NEW w, At(w), w \notin Writing \cup {"exit"}
  PROVE  Len(stack) = 1 /\ Top = stack[1]
<1>1. /\ Len(stack) \in Nat \ {0} /\ Top = stack[Len(stack)]
      /\ stack[Len(stack)].pc = w
  BY AtTop
<1>2. CASE Len(stack) = 1
  BY <1>1, <1>2
<1>3. CASE Len(stack) # 1
  <2>1. Len(stack) \in 2 .. Len(stack)
    BY <1>1, <1>3, Count
  <2> QED
    BY <1>1, <2>1 DEF Shape
<1> QED
  BY <1>2, <1>3

LEMMA AtLoad ==
  ASSUME StackType, Shape, At("load") PROVE name # NoFile
<1>1. Len(stack) = 1 /\ Top = stack[1]
  BY MainOnly DEF Writing
<1> QED
  BY <1>1, AtTop DEF Shape

\* The main program goes on.
LEMMA ShapeMain ==
  ASSUME StackType, Shape, Running, Len(stack) = 1, NEW f \in Frame,
         stack' = [stack EXCEPT ![Len(stack)] = f],
         f.caller \notin {"finalize", "resume"},
         f.pc \in {"unlinkOld", "link", "load"} => name' # NoFile
  PROVE  Shape'
<1>1. Len(stack') = 1 /\ stack'[1] = f
  BY DEF StackType
<1>2. 2 .. Len(stack') = {}
  BY <1>1, NoneAboveOne
<1> QED
  BY <1>1, <1>2 DEF Shape

\* A handler goes on.
LEMMA ShapeHandler ==
  ASSUME StackType, Shape, Running, Len(stack) > 1, NEW f \in Frame,
         stack' = [stack EXCEPT ![Len(stack)] = f],
         f.pc \in Writing \cup {"exit"},
         f.caller \in {"exit", "finalize", "resume"},
         MultircInUse \/ f.pc = "exit",
         MultircInUse \/ name' = name
  PROVE  Shape'
<1>1. /\ Len(stack') = Len(stack) /\ stack'[1] = stack[1] /\ Len(stack) \in Nat
      /\ \A k \in 2 .. Len(stack) :
           stack'[k] = IF k = Len(stack) THEN f ELSE stack[k]
  BY DEF StackType, Running
<1>2. MultircInUse' = MultircInUse
  BY <1>1 DEF MultircInUse
<1>3. \A k \in 2 .. Len(stack') :
        /\ stack'[k].pc \in Writing \cup {"exit"}
        /\ stack'[k].caller \in {"exit", "finalize", "resume"}
        /\ ~MultircInUse' => stack'[k].pc = "exit"
  BY <1>1, <1>2 DEF Shape
<1>4. stack'[1].pc \in {"unlinkOld", "link", "load"} => name' # NoFile
  BY <1>1 DEF Shape, MultircInUse, Opening
<1> QED
  BY <1>1, <1>3, <1>4 DEF Shape

\* write_newsrcs and what follows it: the main program's or a handler's.
LEMMA ShapeWrite ==
  ASSUME StackType, Shape, NEW w \in Writing, At(w), NEW f \in Frame,
         stack' = [stack EXCEPT ![Len(stack)] = f],
         f.pc \in Writing, f.caller = Top.caller
  PROVE  Shape'
<1>1. Running /\ Len(stack) \in Nat \ {0} /\ Top = stack[Len(stack)] /\ Top.pc = w
  BY AtTop
<1>2. CASE Len(stack) = 1
  BY <1>1, <1>2, ShapeMain DEF Shape, Writing
<1>3. CASE Len(stack) > 1
  <2>1. MultircInUse /\ Top.caller \in {"exit", "finalize", "resume"}
    BY <1>1, <1>3 DEF Shape, Writing
  <2> QED
    BY <1>1, <1>3, <2>1, ShapeHandler
<1> QED
  BY <1>1, <1>2, <1>3, Count

LEMMA ShapeReturn ==
  ASSUME StackType, Shape, NEW w \in Writing, At(w), NEW ok \in BOOLEAN,
         ReturnWith(ok)
  PROVE  Shape'
<1>1. Running /\ Len(stack) \in Nat \ {0} /\ Top = stack[Len(stack)] /\ Top.pc = w
  BY AtTop
<1>2. CASE Len(stack) = 1
  <2>1. Top.caller \in {"list", "group", "closed", "exit", "bug_out"}
    BY <1>1, <1>2, AtTop DEF Shape, Frame, Caller
  <2>2. PICK x \in {"list", "group", "closed", "exit", "oldNew", "leave"} : GoTo(x)
    BY <2>1 DEF ReturnWith
  <2>3. Code(x) \in Frame /\ Code(x).pc = x /\ Code(x).caller = "exit"
    BY CodeType DEF PC, GettingOld, Code
  <2> QED
    BY <1>1, <1>2, <2>2, <2>3, ShapeMain DEF GoTo
<1>3. CASE Len(stack) > 1
  <2>1. MultircInUse /\ Top.caller \in {"exit", "finalize", "resume"}
    BY <1>1, <1>3 DEF Shape, Writing
  <2>2. CASE Top.caller = "exit"
    <3>1. GoTo("exit")
      BY <2>2 DEF ReturnWith
    <3>2. Code("exit") \in Frame /\ Code("exit").pc = "exit"
          /\ Code("exit").caller = "exit"
      BY CodeType DEF PC, Code
    <3> QED
      BY <1>1, <1>3, <2>1, <3>1, <3>2, ShapeHandler DEF GoTo
  <2>3. CASE Top.caller = "finalize"
    <3>1. CallWrite("exit")
      BY <2>3 DEF ReturnWith
    <3>2. Call("exit") \in Frame /\ Call("exit").pc = "write"
          /\ Call("exit").caller = "exit"
      BY CallType DEF Caller, Call, Code
    <3>3. Call("exit").pc \in Writing
      BY <3>2 DEF Writing
    <3> QED
      BY <1>1, <1>3, <2>1, <3>1, <3>2, <3>3, ShapeHandler DEF CallWrite
  <2>4. CASE Top.caller = "resume"
    <3>1. stack' = SubSeq(stack, 1, Len(stack) - 1)
      BY <2>4 DEF ReturnWith, Front
    <3>2. /\ Len(stack') = Len(stack) - 1
          /\ \A k \in 1 .. Len(stack) - 1 : stack'[k] = stack[k]
      <4>1. Len(stack) - 1 \in 0 .. Len(stack) /\ stack \in Seq(Frame)
        BY <1>1, Count DEF StackType
      <4>2. \A n \in 0 .. Len(stack) :
              /\ Len(SubSeq(stack, 1, n)) = n
              /\ \A k \in 1 .. n : SubSeq(stack, 1, n)[k] = stack[k]
        BY <4>1
      <4> QED
        BY <3>1, <4>1, <4>2
    <3>3. stack'[1] = stack[1]
      BY <1>1, <1>3, <3>2
    <3> QED
      BY <1>1, <1>3, <2>1, <3>2, <3>3 DEF Shape, MultircInUse, Running, Opening
  <2> QED
    BY <2>1, <2>2, <2>3, <2>4
<1> QED
  BY <1>1, <1>2, <1>3, Count

\* A handler is put on top of what it interrupts.
LEMMA ShapeInterrupt ==
  ASSUME StackType, Shape, Running, NEW f \in Frame, Interrupt(f),
         f.pc \in Writing \cup {"exit"},
         f.caller \in {"exit", "finalize", "resume"},
         MultircInUse \/ f.pc = "exit", name' = name
  PROVE  Shape'
<1>1. /\ Len(stack') = Len(stack) + 1 /\ stack'[Len(stack) + 1] = f
      /\ \A k \in 1 .. Len(stack) : stack'[k] = stack[k]
      /\ Len(stack) \in Nat \ {0}
  BY DEF StackType, Interrupt, Running
<1>2. stack'[1] = stack[1]
  BY <1>1
<1> QED
  BY <1>1, <1>2 DEF Shape, MultircInUse, Running

\* No step spoils the shape of the stack.
LEMMA ShapeStep ==
  ASSUME Types, Shape, Next
  PROVE  Shape'
<1> USE DEF Types
<1>1. CASE OpenCreates \/ OpenRefuses \/ OpenLinkFails \/ OpenLoads \/
            OldUnlinksNew \/ OldKeepsName \/ OldComesBack \/ Reopen \/
            QuitClosed \/ EnterGroup
  <2>1. /\ StackType /\ Running /\ Len(stack) = 1
        /\ \E x \in PC : GoTo(x) /\ (x \in {"unlinkOld", "link", "load"} => name' # NoFile)
    BY <1>1, AtTop, MainOnly
       DEF OpenCreates, OpenRefuses, OpenLinkFails, OpenLoads,
           OldUnlinksNew, OldKeepsName, OldComesBack, Reopen, QuitClosed,
           EnterGroup, PC, Opening, GettingOld, Writing
  <2>2. PICK x \in PC : GoTo(x) /\ (x \in {"unlinkOld", "link", "load"} => name' # NoFile)
    BY <2>1
  <2>3. Code(x) \in Frame /\ Code(x).pc = x /\ Code(x).caller = "exit"
    BY CodeType DEF Code
  <2> QED
    BY <2>1, <2>2, <2>3, ShapeMain DEF GoTo
<1>2. CASE OpenBacksUp \/ OpenUnlinksOld \/ OpenLinksOld
  <2>1. PICK w \in {"open", "unlinkOld", "link"} : At(w)
    BY <1>2 DEF OpenBacksUp, OpenUnlinksOld, OpenLinksOld
  <2>2. StackType /\ Running /\ Len(stack) = 1 /\ stack[1].pc = w
    BY <2>1, AtTop, MainOnly DEF Writing
  <2>3. name # NoFile /\ name' = name
    BY <1>2, <2>1, <2>2
       DEF OpenBacksUp, OpenUnlinksOld, OpenLinksOld, Disk, diskVars, Shape, At
  <2>4. PICK x \in PC : GoTo(x)
    BY <1>2 DEF OpenBacksUp, OpenUnlinksOld, OpenLinksOld, PC, Opening
  <2>5. Code(x) \in Frame /\ Code(x).pc = x /\ Code(x).caller = "exit"
    BY CodeType DEF Code
  <2> QED
    BY <2>2, <2>3, <2>4, <2>5, ShapeMain DEF GoTo
<1>3. CASE CatchUp \/ Checkpoint \/ Unuse \/ Quit \/ QuitAbandon \/
            LeaveMultirc
  <2>1. Running /\ Len(stack) = 1
    BY <1>3, AtTop, MainOnly DEF CatchUp, Checkpoint, Unuse, Quit, QuitAbandon, LeaveMultirc, Writing
  <2>2. PICK c \in Caller \ {"finalize", "resume"} : CallWrite(c)
    BY <1>3 DEF CatchUp, Checkpoint, Unuse, Quit, QuitAbandon, LeaveMultirc, Caller
  <2>3. Call(c) \in Frame /\ Call(c).pc = "write" /\ Call(c).caller = c
    BY CallType DEF Call, Code
  <2> QED
    BY <2>1, <2>2, <2>3, ShapeMain DEF CallWrite
<1>4. CASE LeaveGroup
  <2>1. Running /\ Len(stack) = 1
    BY <1>4, AtTop, MainOnly DEF LeaveGroup, Writing
  <2>2. CallWrite("list") \/ GoTo("list")
    BY <1>4 DEF LeaveGroup
  <2>3. /\ Code("list") \in Frame /\ Code("list").pc = "list"
        /\ Code("list").caller = "exit"
    BY CodeType DEF Code, PC
  <2>4. /\ Call("list") \in Frame /\ Call("list").pc = "write"
        /\ Call("list").caller = "list"
    BY CallType DEF Call, Code, Caller
  <2> QED
    BY <2>1, <2>2, <2>3, <2>4, ShapeMain DEF CallWrite, GoTo
<1>5. CASE WriteSkips \/ WriteOpenFails \/ WriteFails \/ WriteRenames
  BY <1>5, ShapeReturn
     DEF WriteSkips, WriteOpenFails, WriteFails, WriteRenames, Writing
<1>6. CASE WriteOpens
  <2> DEFINE i == IF newname = NoFile THEN Fresh ELSE newname
             f == [Top EXCEPT !.pc = "lines", !.fd = i, !.snap = ver]
  <2>1. At("write") /\ Top \in Frame /\ Top = stack[Len(stack)]
    BY <1>6, AtTop DEF WriteOpens
  <2>2. i \in Inode
    BY <1>6, FreshType DEF WriteOpens, DiskTypes
  <2>3. f \in Frame /\ f.pc = "lines" /\ f.caller = Top.caller
    BY <2>1, <2>2 DEF Frame, PC, Writing, BitTypes
  <2>4. stack' = [stack EXCEPT ![Len(stack)] = f]
    BY <1>6, <2>1 DEF WriteOpens
  <2> HIDE DEF f
  <2> QED
    BY <2>1, <2>3, <2>4, ShapeWrite DEF Writing
<1>7. CASE WriteCloses
  <2> DEFINE f == [Top EXCEPT !.pc = "clear", !.fd = NoFile]
  <2>1. At("lines") /\ Top \in Frame /\ Top = stack[Len(stack)]
    BY <1>7, AtTop DEF WriteCloses
  <2>2. f \in Frame /\ f.pc = "clear" /\ f.caller = Top.caller
    BY <2>1 DEF Frame, PC, Writing
  <2>3. stack' = [stack EXCEPT ![Len(stack)] = f]
    BY <1>7, <2>1 DEF WriteCloses
  <2> HIDE DEF f
  <2> QED
    BY <2>1, <2>2, <2>3, ShapeWrite DEF Writing
<1>8. CASE WriteClears \/ WriteRemoves
  <2>1. PICK v \in {"clear", "remove"} : At(v)
    BY <1>8 DEF WriteClears, WriteRemoves
  <2>2. Running /\ Top \in Frame /\ Top = stack[Len(stack)]
    BY <2>1, AtTop
  <2>3. PICK w \in {"remove", "rename"} : WriteOnAt(w)
    BY <1>8 DEF WriteClears, WriteRemoves
  <2> DEFINE f == [Top EXCEPT !.pc = w]
  <2>4. f \in Frame /\ f.pc = w /\ f.caller = Top.caller
    BY <2>2 DEF Frame, PC, Writing
  <2>5. stack' = [stack EXCEPT ![Len(stack)] = f]
    BY <2>2, <2>3 DEF WriteOnAt
  <2> HIDE DEF f
  <2> QED
    BY <2>1, <2>4, <2>5, ShapeWrite DEF Writing
<1>9. CASE Start
  <2>1. stack' = <<Code("open")>>
    BY <1>9 DEF Start
  <2>2. Len(stack') = 1 /\ stack'[1] = Code("open")
    BY <2>1
  <2> QED
    BY <2>2 DEF Shape, Code
<1>10. CASE Signal \/ Stop
  <2>1. /\ Call("finalize") \in Frame
        /\ Call("resume") \in Frame
        /\ Code("exit") \in Frame
    BY CallType, CodeType DEF PC, Caller
  <2>2. /\ Call("finalize").pc = "write" /\ Call("finalize").caller = "finalize"
        /\ Call("resume").pc = "write" /\ Call("resume").caller = "resume"
        /\ Code("exit").pc = "exit" /\ Code("exit").caller = "exit"
    BY DEF Call, Code
  <2>3. /\ Running /\ name' = name
        /\ \/ MultircInUse /\ Interrupt(Call("finalize"))
           \/ MultircInUse /\ Interrupt(Call("resume"))
           \/ Interrupt(Code("exit"))
    BY <1>10 DEF Signal, Stop, diskVars
  <2> QED
    BY <2>1, <2>2, <2>3, ShapeInterrupt DEF Writing
<1>11. CASE Exit \/ Kill
  <2>1. stack' = << >>
    BY <1>11 DEF Exit, Kill, Gone
  <2> QED
    BY <2>1 DEF Shape, Running
<1>12. CASE EditList \/ Mark \/ DelayUnmark
  BY <1>12
     DEF EditList, Mark, DelayUnmark, diskVars, Shape, Running, MultircInUse
<1> QED
  BY <1>1, <1>2, <1>3, <1>4, <1>5, <1>6, <1>7, <1>8, <1>9, <1>10, <1>11,
     <1>12
     DEF Next, Progress, User

\* No step spoils the types of the history.
LEMMA HistoryStep ==
  ASSUME Types, Shape, Next
  PROVE  HistoryTypes'
<1> USE DEF Types, HistoryTypes, history
<1>1. CASE OpenLoads \/ OpenCreates
  <2>1. PICK c \in Content \cup {Absent} : Found(c)
    BY <1>1, AtLoad DEF OpenLoads, OpenCreates, DiskTypes, Content
  <2> QED
    BY <2>1 DEF Found
<1>2. CASE WriteRenames
  BY <1>2, AtTop DEF WriteRenames
<1>3. CASE OpenRefuses \/ OpenBacksUp \/ OpenUnlinksOld \/ OpenLinksOld \/
            OpenLinkFails \/ LeaveMultirc \/ WriteSkips \/ WriteOpens \/
            WriteOpenFails \/ WriteCloses \/ WriteFails \/ WriteClears \/
            WriteRemoves \/ OldUnlinksNew \/ OldKeepsName \/ OldComesBack \/
            Exit \/ Start \/ Reopen \/ QuitClosed \/ EditList \/ CatchUp \/
            EnterGroup \/ Mark \/ DelayUnmark \/ Checkpoint \/ LeaveGroup \/
            Unuse \/ Quit \/ QuitAbandon \/ Signal \/ Stop \/ Kill
  BY <1>3 DEF OpenRefuses, OpenBacksUp, OpenUnlinksOld, OpenLinksOld,
        OpenLinkFails, LeaveMultirc, WriteSkips, WriteOpens, WriteOpenFails,
        WriteCloses, WriteFails, WriteClears, WriteRemoves, OldUnlinksNew,
        OldKeepsName, OldComesBack, Exit, Start, Reopen, QuitClosed,
        EditList, CatchUp, EnterGroup, Mark, DelayUnmark, Checkpoint,
        LeaveGroup, Unuse, Quit, QuitAbandon, Signal, Stop, Kill
<1> QED
  BY <1>1, <1>2, <1>3 DEF Next, Progress, User

LEMMA FilesInit == Init => Types /\ Shape
<1> SUFFICES ASSUME Init PROVE Types /\ Shape
  OBVIOUS
<1> 0 \in Version
  BY FilesAssumption DEF Version
<1>1. DiskTypes
  BY FilesAssumption DEF Init, DiskTypes, Content
<1>2. BitTypes
  <2>1. Pending = 0
    BY DEF Init, Pending
  <2>2. 0 <= MaxVer
    BY FilesAssumption
  <2>3. Pending <= MaxVer
    BY <2>1, <2>2
  <2> QED
    BY <2>3 DEF Init, BitTypes
<1>3. FlagTypes /\ HistoryTypes
  BY DEF Init, FlagTypes, HistoryTypes
<1>4. << >> \in Seq(Frame)
  OBVIOUS
<1>5. StackType
  BY <1>4 DEF Init, StackType
<1> QED
  BY <1>1, <1>2, <1>3, <1>5 DEF Types, Init, Shape, Running

LEMMA FilesStep == Types /\ Shape /\ [Next]_vars => (Types /\ Shape)'
<1>1. ASSUME Types, Shape, UNCHANGED vars PROVE Types' /\ Shape'
  BY <1>1 DEF Types, DiskTypes, BitTypes, FlagTypes, HistoryTypes, StackType,
              Pending, vars, diskVars, bitVars, history, Shape, Running,
              MultircInUse
<1>2. ASSUME Types, Shape, Next PROVE Types' /\ Shape'
  BY <1>2, DiskStep, StackStep, BitStep, FlagStep, HistoryStep, ShapeStep
     DEF Types
<1> QED
  BY <1>1, <1>2

\* Type correctness, for every fault the file system and the user can produce.
THEOREM FilesTypeCorrect == Spec => []TypeOK
<1>1. Types => TypeOK
  BY DEF Types, DiskTypes, BitTypes, FlagTypes, HistoryTypes, StackType, TypeOK
<1> QED
  BY <1>1, FilesInit, FilesStep, PTL DEF Spec

-----------------------------------------------------------------------------

BackupFaults == Faults \subseteq {"kill", "signal", "stop"}

(* What a step does to the stack *)

\* The frames after a step are those before it, and possibly g.
NewFrame(g) ==
  \A k \in DOMAIN stack' :
    (k \in DOMAIN stack /\ stack'[k] = stack[k]) \/ stack'[k] = g

\* The main program is interrupted, before and after.
MainStays == Running /\ Running' /\ stack'[1] = stack[1]

LEMMA CodeFields ==
  \A w : Code(w).pc = w /\ Code(w).caller = "exit" /\ Code(w).fd = NoFile
BY DEF Code

LEMMA CallFields ==
  \A c : Call(c).pc = "write" /\ Call(c).caller = c /\ Call(c).fd = NoFile
BY DEF Call, Code

\* The frame on top is replaced.
LEMMA ReplaceEffect ==
  ASSUME StackType, Running, NEW g, stack' = [stack EXCEPT ![Len(stack)] = g]
  PROVE  /\ NewFrame(g) /\ Running' /\ Len(stack') = Len(stack)
         /\ IF Len(stack) = 1 THEN stack'[1] = g ELSE MainStays
         /\ \A k \in DOMAIN stack : k # Len(stack) => stack'[k] = stack[k]
<1>1. /\ DOMAIN stack' = DOMAIN stack
      /\ \A k \in DOMAIN stack :
           stack'[k] = IF k = Len(stack) THEN g ELSE stack[k]
  BY DEF StackType
<1>2. Len(stack) \in Nat \ {0} /\ DOMAIN stack = 1 .. Len(stack)
  BY DEF StackType, Running
<1>3. Len(stack') = Len(stack) /\ Running'
  BY <1>2 DEF StackType, Running
<1>4. 1 \in DOMAIN stack
  BY <1>2
<1> QED
  BY <1>1, <1>3, <1>4 DEF NewFrame, MainStays

\* A handler is put on top.
LEMMA InterruptEffect ==
  ASSUME StackType, Running, NEW g \in Frame, Interrupt(g)
  PROVE  /\ NewFrame(g) /\ MainStays
         /\ Len(stack') = Len(stack) + 1 /\ Len(stack) \in Nat \ {0}
         /\ stack'[Len(stack) + 1] = g
         /\ \A k \in DOMAIN stack : k \in DOMAIN stack' /\ stack'[k] = stack[k]
<1>1. /\ Len(stack') = Len(stack) + 1 /\ stack'[Len(stack) + 1] = g
      /\ \A k \in 1 .. Len(stack) : stack'[k] = stack[k]
      /\ Len(stack) \in Nat \ {0}
      /\ DOMAIN stack' = 1 .. Len(stack) + 1
      /\ DOMAIN stack = 1 .. Len(stack)
  BY DEF StackType, Interrupt, Running
<1>2. 1 \in DOMAIN stack /\ Running'
  BY <1>1 DEF Running
<1>3. \A k \in DOMAIN stack' : k \in DOMAIN stack \/ k = Len(stack) + 1
  BY <1>1
<1>4. \A k \in DOMAIN stack : k \in DOMAIN stack'
  BY <1>1
<1> QED
  BY <1>1, <1>2, <1>3, <1>4 DEF NewFrame, MainStays

LEMMA SameMain ==
  ASSUME MainStays
  PROVE  \A S : (Main(S)' <=> Main(S)) /\ (MainWrites(S)' <=> MainWrites(S))
BY DEF MainStays, Main, MainWrites

\* The main program goes on outside write_newsrcs.
LEMMA MainEffect ==
  ASSUME StackType, Shape, NEW w, At(w), w \notin Writing \cup {"exit"},
         NEW g, stack' = [stack EXCEPT ![Len(stack)] = g]
  PROVE  /\ Running /\ Len(stack) = 1 /\ DOMAIN stack = {1} /\ stack[1].pc = w
         /\ Running' /\ Len(stack') = 1 /\ DOMAIN stack' = {1} /\ stack'[1] = g
<1>1. Running /\ Len(stack) = 1 /\ stack[1].pc = w
  BY AtTop, MainOnly
<1>2. DOMAIN stack = {1}
  BY <1>1 DEF StackType
<1>3. DOMAIN stack' = {1} /\ stack'[1] = g /\ Len(stack') = 1
  BY <1>1, <1>2 DEF StackType
<1> QED
  BY <1>1, <1>2, <1>3 DEF Running

\* Whoever writes newsrcs does so while g_multirc is set.
LEMMA WriterEffect ==
  ASSUME StackType, Shape, NEW w \in Writing, At(w)
  PROVE  /\ Running /\ MultircInUse /\ Top = stack[Len(stack)] /\ Top.pc = w
         /\ Len(stack) \in DOMAIN stack
<1>1. /\ Running /\ Len(stack) \in Nat \ {0} /\ Top = stack[Len(stack)]
      /\ Top.pc = w /\ Len(stack) \in DOMAIN stack
  BY AtTop
<1>2. CASE Len(stack) = 1
  BY <1>1, <1>2 DEF MultircInUse, Writing, Opening
<1>3. CASE Len(stack) # 1
  <2>1. Len(stack) \in 2 .. Len(stack)
    BY <1>1, <1>3, Count
  <2> QED
    BY <1>1, <2>1 DEF Shape, Writing
<1> QED
  BY <1>1, <1>2, <1>3

\* write_newsrcs goes on, in the main program or in a handler.
LEMMA WriteEffect ==
  ASSUME StackType, Shape, NEW w \in Writing, At(w), NEW g,
         stack' = [stack EXCEPT ![Len(stack)] = g],
         g.pc \in Writing, g.caller = Top.caller
  PROVE  /\ NewFrame(g)
         /\ \A k \in DOMAIN stack :
              k # Len(stack) => k \in DOMAIN stack' /\ stack'[k] = stack[k]
         /\ Len(stack) \in DOMAIN stack' /\ stack'[Len(stack)] = g
         /\ \A S : MainWrites(S)' <=> MainWrites(S)
         /\ \A S : S \cap Writing = {} => (Main(S)' <=> Main(S))
         /\ \/ stack'[1] = stack[1]
            \/ stack[1].pc = w /\ stack'[1] = g
<1>1. /\ Running /\ Len(stack) \in Nat \ {0} /\ Top = stack[Len(stack)]
      /\ Top.pc = w /\ Len(stack) \in DOMAIN stack
  BY AtTop
<1>2. /\ NewFrame(g) /\ Running' /\ Len(stack') = Len(stack)
      /\ IF Len(stack) = 1 THEN stack'[1] = g ELSE MainStays
      /\ \A k \in DOMAIN stack : k # Len(stack) => stack'[k] = stack[k]
  BY <1>1, ReplaceEffect
<1>3. DOMAIN stack' = DOMAIN stack /\ stack'[Len(stack)] = g
  BY <1>1 DEF StackType
<1>4. CASE Len(stack) = 1
  <2>1. stack'[1] = g /\ stack[1].pc = w /\ stack[1].caller = g.caller
    BY <1>1, <1>2, <1>4
  <2> QED
    BY <1>1, <1>2, <1>3, <2>1 DEF Main, MainWrites
<1>5. CASE Len(stack) # 1
  BY <1>1, <1>2, <1>3, <1>5, SameMain DEF MainStays
<1> QED
  BY <1>4, <1>5

\* Where the main program goes on when its write_newsrcs returns.
ReturnsTo(x) ==
  /\ DOMAIN stack = {1} /\ DOMAIN stack' = {1} /\ Running' /\ Len(stack') = 1
  /\ stack'[1] = Code(x)
  /\ IF stack[1].caller = "bug_out"
     THEN x = IF restore THEN "oldNew" ELSE "leave"
     ELSE x = stack[1].caller /\ x \in {"list", "group", "closed", "exit"}

\* A handler's write_newsrcs returns.
HandlerReturns ==
  /\ MainStays
  /\ \A k \in DOMAIN stack' :
       \/ k \in DOMAIN stack /\ stack'[k] = stack[k]
       \/ stack'[k] \in {Code("exit"), Call("exit")}
  /\ \A k \in DOMAIN stack :
       k # Len(stack) => k \in DOMAIN stack' /\ stack'[k] = stack[k]
  /\ \A k \in 2 .. Len(stack') :
       \/ k \in 2 .. Len(stack) /\ stack'[k] = stack[k]
       \/ stack'[k] \in {Code("exit"), Call("exit")}

LEMMA ReturnEffect ==
  ASSUME Types, Shape, NEW w \in Writing, At(w), ReturnWith(TRUE)
  PROVE  /\ restore' = restore
         /\ \/ stack[1].pc = w /\ \E x : ReturnsTo(x)
            \/ HandlerReturns
<1> USE DEF Types
<1>1. /\ Running /\ Len(stack) \in Nat \ {0} /\ Top = stack[Len(stack)]
      /\ Top.pc = w /\ Len(stack) \in DOMAIN stack /\ Top.caller \in Caller
  BY AtTop DEF Frame
<1>2. CASE Len(stack) = 1
  <2>1. Top = stack[1] /\ DOMAIN stack = {1}
    BY <1>1, <1>2 DEF StackType
  <2>2. Top.caller \in {"list", "group", "closed", "exit", "bug_out"}
    BY <1>1, <2>1 DEF Shape, Caller
  <2>3. CASE Top.caller = "bug_out"
    <3>1. restore' = (restore \/ ~TRUE) /\ IF restore' THEN GoTo("oldNew") ELSE GoTo("leave")
      BY <2>3 DEF ReturnWith
    <3>2. restore' = restore
      BY <3>1, Zenon DEF FlagTypes
    <3>3. GoTo(IF restore THEN "oldNew" ELSE "leave")
      BY <3>1, <3>2
    <3> DEFINE x == IF restore THEN "oldNew" ELSE "leave"
    <3>4. stack'[1] = Code(x) /\ DOMAIN stack' = {1} /\ Len(stack') = 1
      BY <1>2, <2>1, <3>3 DEF GoTo, StackType
    <3>5. ReturnsTo(x)
      BY <2>1, <2>3, <3>4 DEF ReturnsTo, Running
    <3> QED
      BY <1>1, <2>1, <3>2, <3>5
  <2>4. CASE Top.caller # "bug_out"
    <3>1. restore' = restore /\ GoTo(Top.caller)
      BY <2>2, <2>4 DEF ReturnWith
    <3>2. /\ stack'[1] = Code(Top.caller) /\ DOMAIN stack' = {1}
          /\ Len(stack') = 1
      BY <1>2, <2>1, <3>1 DEF GoTo, StackType
    <3>3. ReturnsTo(Top.caller)
      BY <2>1, <2>2, <2>4, <3>2 DEF ReturnsTo, Running
    <3> QED
      BY <1>1, <2>1, <3>1, <3>3
  <2> QED
    BY <2>3, <2>4
<1>3. CASE Len(stack) # 1
  <2>1. Len(stack) \in 2 .. Len(stack)
    BY <1>1, <1>3, Count
  <2>2. Top.caller \in {"exit", "finalize", "resume"}
    BY <1>1, <2>1 DEF Shape
  <2>3. CASE Top.caller # "resume"
    <3>1. /\ restore' = restore
          /\ GoTo("exit") \/ CallWrite("exit")
      BY <2>2, <2>3 DEF ReturnWith
    <3>2. PICK g \in {Code("exit"), Call("exit")} :
            stack' = [stack EXCEPT ![Len(stack)] = g]
      BY <3>1 DEF GoTo, CallWrite
    <3>3. /\ NewFrame(g) /\ MainStays /\ Len(stack') = Len(stack)
          /\ \A k \in DOMAIN stack : k # Len(stack) => stack'[k] = stack[k]
      BY <1>1, <1>3, <3>2, ReplaceEffect
    <3>4. DOMAIN stack' = DOMAIN stack /\ DOMAIN stack = 1 .. Len(stack)
      BY <3>2 DEF StackType
    <3>5. \A k \in 2 .. Len(stack) : k \in DOMAIN stack
      BY <1>1, <3>4
    <3>6. HandlerReturns
      BY <3>2, <3>3, <3>4, <3>5 DEF HandlerReturns, NewFrame
    <3> QED
      BY <3>1, <3>6
  <2>4. CASE Top.caller = "resume"
    <3>1. restore' = restore /\ stack' = SubSeq(stack, 1, Len(stack) - 1)
      BY <2>4 DEF ReturnWith, Front
    <3>2. /\ Len(stack') = Len(stack) - 1
          /\ \A k \in 1 .. Len(stack) - 1 : stack'[k] = stack[k]
      <4>1. Len(stack) - 1 \in 0 .. Len(stack) /\ stack \in Seq(Frame)
        BY <1>1, Count DEF StackType
      <4>2. \A n \in 0 .. Len(stack) :
              /\ Len(SubSeq(stack, 1, n)) = n
              /\ \A k \in 1 .. n : SubSeq(stack, 1, n)[k] = stack[k]
        BY <4>1
      <4> QED
        BY <3>1, <4>1, <4>2
    <3>3. DOMAIN stack' = 1 .. Len(stack) - 1 /\ DOMAIN stack = 1 .. Len(stack)
      BY <1>1, <3>1 DEF StackType
    <3>4. 1 \in 1 .. Len(stack) - 1
      BY <1>1, <1>3, Count
    <3>5. MainStays
      BY <1>1, <3>2, <3>3, <3>4 DEF MainStays, Running
    <3>6. \A k \in DOMAIN stack : k # Len(stack) => k \in DOMAIN stack'
      BY <1>1, <3>3
    <3>7. \A k \in 2 .. Len(stack') : k \in 2 .. Len(stack) /\ stack'[k] = stack[k]
      BY <1>1, <3>2
    <3>8. \A k \in DOMAIN stack' : k \in DOMAIN stack /\ stack'[k] = stack[k]
      BY <1>1, <3>2, <3>3
    <3> QED
      BY <3>1, <3>2, <3>3, <3>5, <3>6, <3>7, <3>8 DEF HandlerReturns
  <2> QED
    BY <2>3, <2>4
<1> QED
  BY <1>2, <1>3

(* The steps, by what they do to the stack *)

MainGoesOn ==
  \/ OpenCreates \/ OpenRefuses \/ OpenBacksUp \/ OpenUnlinksOld
  \/ OpenLinksOld \/ OpenLoads \/ OldUnlinksNew \/ OldKeepsName
  \/ OldComesBack \/ Reopen \/ QuitClosed \/ EnterGroup \/ CatchUp
  \/ Checkpoint \/ Unuse \/ Quit \/ QuitAbandon \/ LeaveMultirc
  \/ LeaveGroup

Returns == WriteSkips \/ WriteRenames
Edits == EditList \/ Mark \/ DelayUnmark
Handles == Signal \/ Stop
Ends == Exit \/ Kill

LEMMA Steps ==
  ASSUME BackupFaults, Next
  PROVE  \/ MainGoesOn \/ Returns \/ Edits \/ Handles \/ Ends \/ Start
         \/ WriteOpens \/ WriteCloses \/ WriteClears \/ WriteRemoves
<1>1. ~OpenLinkFails /\ ~WriteOpenFails /\ ~WriteFails
  BY DEF BackupFaults, OpenLinkFails, WriteOpenFails, WriteFails
<1> QED
  BY <1>1, Zenon DEF Next, Progress, User, MainGoesOn, Returns, Edits, Handles, Ends

\* The only frame becomes one with no open file.
LEMMA MainGoes ==
  ASSUME StackType, Shape, MainGoesOn
  PROVE  /\ Running /\ Len(stack) = 1 /\ DOMAIN stack = {1}
         /\ Running' /\ Len(stack') = 1 /\ DOMAIN stack' = {1}
         /\ stack'[1].fd = NoFile /\ stack'[1].pc \notin Writing \ {"write"}
<1>1. CASE \/ OpenCreates \/ OpenRefuses \/ OpenBacksUp \/ OpenUnlinksOld
           \/ OpenLinksOld \/ OpenLoads \/ OldUnlinksNew \/ OldKeepsName
           \/ OldComesBack \/ Reopen \/ QuitClosed \/ EnterGroup
  <2>1. PICK w \in PC \ (Writing \cup {"exit"}), x \in PC \ Writing :
          At(w) /\ stack' = [stack EXCEPT ![Len(stack)] = Code(x)]
    BY <1>1
       DEF OpenCreates, OpenRefuses, OpenBacksUp, OpenUnlinksOld,
           OpenLinksOld, OpenLoads, OldUnlinksNew, OldKeepsName,
           OldComesBack, Reopen, QuitClosed, EnterGroup, GoTo, PC, Opening,
           GettingOld, Writing
  <2> QED
    BY <2>1, MainEffect, CodeFields
<1>2. CASE \/ CatchUp \/ Checkpoint \/ Unuse \/ Quit \/ QuitAbandon
           \/ LeaveMultirc \/ LeaveGroup
  <2>1. PICK w \in {"list", "group", "leave"} : At(w)
    BY <1>2 DEF CatchUp, Checkpoint, Unuse, Quit, QuitAbandon, LeaveMultirc,
                LeaveGroup
  <2>2. PICK g : /\ stack' = [stack EXCEPT ![Len(stack)] = g]
                 /\ g = Code("list") \/ \E c : g = Call(c)
    BY <1>2 DEF CatchUp, Checkpoint, Unuse, Quit, QuitAbandon, LeaveMultirc,
                LeaveGroup, CallWrite, GoTo
  <2>3. w \notin Writing \cup {"exit"}
    BY <2>1 DEF Writing
  <2>4. g.fd = NoFile /\ g.pc \notin Writing \ {"write"}
    BY <2>2, CodeFields, CallFields DEF Writing
  <2> QED
    BY <2>1, <2>2, <2>3, <2>4, MainEffect
<1> QED
  BY <1>1, <1>2 DEF MainGoesOn

\* A handler is put on top of the stack.
LEMMA Handled ==
  ASSUME StackType, Handles
  PROVE  /\ Running
         /\ \E g \in {Call("finalize"), Call("resume"), Code("exit")} :
              /\ NewFrame(g) /\ MainStays
              /\ Len(stack') = Len(stack) + 1 /\ Len(stack) \in Nat \ {0}
              /\ stack'[Len(stack) + 1] = g
              /\ \A k \in DOMAIN stack :
                   k \in DOMAIN stack' /\ stack'[k] = stack[k]
<1>1. /\ Running
      /\ \/ Interrupt(Call("finalize")) \/ Interrupt(Call("resume"))
         \/ Interrupt(Code("exit"))
  BY DEF Handles, Signal, Stop
<1>2. /\ Call("finalize") \in Frame /\ Call("resume") \in Frame
      /\ Code("exit") \in Frame
  BY CallType, CodeType DEF PC, Caller
<1> QED
  BY <1>1, <1>2, InterruptEffect

\* The frame in write_newsrcs goes on, in the order of the code.
LEMMA WritesTo ==
  ASSUME Types, Shape, WriteOpens \/ WriteCloses \/ WriteClears \/ WriteRemoves
  PROVE  \E w \in Writing, g \in Frame :
           /\ At(w) /\ stack' = [stack EXCEPT ![Len(stack)] = g]
           /\ g.pc \in Writing /\ g.caller = Top.caller
           /\ WriteOpens => w = "write" /\ g.pc = "lines"
           /\ WriteCloses => w = "lines" /\ g.pc = "clear"
           /\ WriteClears => w = "clear" /\ g.pc = "remove"
           /\ WriteRemoves => w = "remove" /\ g.pc = "rename"
<1> USE DEF Types
<1>1. CASE WriteOpens
  <2> DEFINE i == IF newname = NoFile THEN Fresh ELSE newname
             g == [Top EXCEPT !.pc = "lines", !.fd = i, !.snap = ver]
  <2>1. At("write") /\ Top = stack[Len(stack)] /\ Top \in Frame
    BY <1>1, AtTop DEF WriteOpens
  <2>2. i \in Inode
    BY <1>1, FreshType DEF WriteOpens, DiskTypes
  <2>3. /\ g \in Frame /\ g.pc = "lines" /\ g.caller = Top.caller
        /\ stack' = [stack EXCEPT ![Len(stack)] = g]
    BY <1>1, <2>1, <2>2 DEF WriteOpens, Frame, PC, Writing, BitTypes
  <2>4. ~WriteCloses /\ ~WriteClears /\ ~WriteRemoves
    BY <2>1 DEF WriteCloses, WriteClears, WriteRemoves, At
  <2> HIDE DEF g
  <2> QED
    BY <2>1, <2>3, <2>4 DEF Writing
<1>2. CASE WriteCloses
  <2> DEFINE g == [Top EXCEPT !.pc = "clear", !.fd = NoFile]
  <2>1. At("lines") /\ Top = stack[Len(stack)] /\ Top \in Frame
    BY <1>2, AtTop DEF WriteCloses
  <2>2. /\ g \in Frame /\ g.pc = "clear" /\ g.caller = Top.caller
        /\ stack' = [stack EXCEPT ![Len(stack)] = g]
    BY <1>2, <2>1 DEF WriteCloses, Frame, PC, Writing
  <2>3. ~WriteOpens /\ ~WriteClears /\ ~WriteRemoves
    BY <2>1 DEF WriteOpens, WriteClears, WriteRemoves, At
  <2> HIDE DEF g
  <2> QED
    BY <2>1, <2>2, <2>3 DEF Writing
<1>3. CASE WriteClears
  <2> DEFINE g == [Top EXCEPT !.pc = "remove"]
  <2>1. At("clear") /\ Top = stack[Len(stack)] /\ Top \in Frame
    BY <1>3, AtTop DEF WriteClears
  <2>2. /\ g \in Frame /\ g.pc = "remove" /\ g.caller = Top.caller
        /\ stack' = [stack EXCEPT ![Len(stack)] = g]
    BY <1>3, <2>1 DEF WriteClears, WriteOnAt, Frame, PC, Writing
  <2>3. ~WriteOpens /\ ~WriteCloses /\ ~WriteRemoves
    BY <2>1 DEF WriteOpens, WriteCloses, WriteRemoves, At
  <2> HIDE DEF g
  <2> QED
    BY <2>1, <2>2, <2>3 DEF Writing
<1>4. CASE WriteRemoves
  <2> DEFINE g == [Top EXCEPT !.pc = "rename"]
  <2>1. At("remove") /\ Top = stack[Len(stack)] /\ Top \in Frame
    BY <1>4, AtTop DEF WriteRemoves
  <2>2. /\ g \in Frame /\ g.pc = "rename" /\ g.caller = Top.caller
        /\ stack' = [stack EXCEPT ![Len(stack)] = g]
    BY <1>4, <2>1 DEF WriteRemoves, WriteOnAt, Frame, PC, Writing
  <2>3. ~WriteOpens /\ ~WriteCloses /\ ~WriteClears
    BY <2>1 DEF WriteOpens, WriteCloses, WriteClears, At
  <2> HIDE DEF g
  <2> QED
    BY <2>1, <2>2, <2>3 DEF Writing
<1> QED
  BY <1>1, <1>2, <1>3, <1>4

(* NAME.new is a file of its own *)

LEMMA DiskNames ==
  ASSUME NEW n, NEW w, NEW o, NEW c, Disk(n, w, o, c)
  PROVE  name' = n /\ newname' = w /\ oldname' = o
BY DEF Disk

LEMMA NewApartStep ==
  ASSUME Types, BackupInv, BackupFaults, Next
  PROVE  NewApart'
<1> USE DEF Types
<1> DEFINE Frames == \A k \in DOMAIN stack :
                       /\ stack[k].fd = NoFile \/ stack[k].fd # oldname
                       /\ stack[k].pc # "lines" => stack[k].fd = NoFile
           Names == newname # NoFile => newname \notin {name, oldname}
<1>0. Shape /\ Names /\ Frames
  BY DEF BackupInv, NewApart
<1>1. ASSUME NEW g, g.fd = NoFile \/ g.fd # oldname,
             g.pc # "lines" => g.fd = NoFile, NewFrame(g), oldname' = oldname
      PROVE  Frames'
  BY <1>0, <1>1 DEF NewFrame
<1>2. CASE MainGoesOn
  <2>1. Frames'
    <3>1. DOMAIN stack' = {1} /\ stack'[1].fd = NoFile
      BY <1>0, <1>2, MainGoes
    <3> QED
      BY <3>1
  <2>2. CASE OpenCreates
    <3>1. /\ Unused(Fresh) /\ name' = Fresh /\ newname' = newname
          /\ oldname' = oldname
      BY <2>2, FreshType, DiskNames DEF OpenCreates
    <3> QED
      BY <1>0, <2>1, <3>1 DEF Unused, NewApart
  <2>3. CASE OpenUnlinksOld \/ OpenLinksOld \/ OldUnlinksNew
    BY <1>0, <2>1, <2>3, DiskNames
       DEF OpenUnlinksOld, OpenLinksOld, OldUnlinksNew, NewApart, DiskTypes
  <2>4. CASE OldKeepsName
    <3>1. Moved
      <4>1. Main({"oldNew", "oldName"})
        BY <1>0, <2>4, AtTop, MainOnly DEF OldKeepsName, Main, Writing
      <4> QED
        BY <4>1 DEF BackupInv, Abandoning
    <3> QED
      BY <1>0, <2>1, <2>4, <3>1, DiskNames DEF OldKeepsName, NewApart, Moved, diskVars
  <2>5. CASE OldComesBack
    BY <1>0, <2>1, <2>5, DiskNames DEF OldComesBack, NewApart, diskVars
  <2>6. CASE /\ ~OpenCreates /\ ~OpenUnlinksOld /\ ~OpenLinksOld
             /\ ~OldUnlinksNew /\ ~OldKeepsName /\ ~OldComesBack
    <3>1. UNCHANGED diskVars
      BY <1>2, <2>6
         DEF MainGoesOn, OpenRefuses, OpenBacksUp, OpenLoads, Reopen,
             QuitClosed, EnterGroup, CatchUp, Checkpoint, Unuse, Quit,
             QuitAbandon, LeaveMultirc, LeaveGroup
    <3> QED
      BY <1>0, <2>1, <3>1 DEF NewApart, diskVars
  <2> QED
    BY <2>2, <2>3, <2>4, <2>5, <2>6
<1>3. CASE Returns
  <2>1. PICK w \in Writing : At(w) /\ ReturnWith(TRUE)
    BY <1>3 DEF Returns, WriteSkips, WriteRenames, Writing
  <2>2. oldname' = oldname /\ Names'
    BY <1>0, <1>3, DiskNames DEF Returns, WriteSkips, WriteRenames, diskVars
  <2>3. Frames'
    <3>1. (\E x : ReturnsTo(x)) \/ HandlerReturns
      BY <1>0, <2>1, ReturnEffect
    <3>2. CASE \E x : ReturnsTo(x)
      <4>1. DOMAIN stack' = {1} /\ stack'[1].fd = NoFile
        BY <3>2, CodeFields DEF ReturnsTo
      <4> QED
        BY <4>1
    <3>3. CASE HandlerReturns
      <4>1. \A k \in DOMAIN stack' :
              \/ k \in DOMAIN stack /\ stack'[k] = stack[k]
              \/ stack'[k].fd = NoFile
        BY <3>3, CodeFields, CallFields DEF HandlerReturns
      <4> QED
        BY <1>0, <2>2, <4>1
    <3> QED
      BY <3>1, <3>2, <3>3
  <2> QED
    BY <2>2, <2>3 DEF NewApart
<1>4. CASE Edits
  BY <1>0, <1>4 DEF Edits, EditList, Mark, DelayUnmark, diskVars, NewApart
<1>5. CASE Handles
  <2>1. UNCHANGED diskVars
    BY <1>5 DEF Handles, Signal, Stop
  <2>2. PICK g : NewFrame(g) /\ g.fd = NoFile
    BY <1>5, Handled, CodeFields, CallFields
  <2> QED
    BY <1>0, <1>1, <2>1, <2>2 DEF NewApart, diskVars
<1>6. CASE Ends
  <2>1. stack' = << >>
    BY <1>6 DEF Ends, Exit, Kill, Gone
  <2>2. name' = name /\ newname' = newname /\ oldname' = oldname
    BY <1>6, DiskNames DEF Ends, Exit, Kill, diskVars
  <2> QED
    BY <1>0, <2>1, <2>2 DEF NewApart
<1>7. CASE Start
  <2>1. stack' = <<Code("open")>> /\ UNCHANGED diskVars
    BY <1>7 DEF Start
  <2>2. DOMAIN stack' = {1} /\ stack'[1].fd = NoFile
    BY <2>1, CodeFields
  <2> QED
    BY <1>0, <2>1, <2>2 DEF NewApart, diskVars
<1>8. CASE WriteOpens
  <2> DEFINE i == IF newname = NoFile THEN Fresh ELSE newname
             g == [Top EXCEPT !.pc = "lines", !.fd = i, !.snap = ver]
  <2>1. Running /\ Top = stack[Len(stack)] /\ Top \in Frame
    BY <1>8, AtTop DEF WriteOpens
  <2>2. g.fd = i /\ g.pc = "lines" /\ stack' = [stack EXCEPT ![Len(stack)] = g]
    BY <1>8, <2>1 DEF WriteOpens, Frame
  <2>3. newname' = i /\ name' = name /\ oldname' = oldname
    BY <1>8, DiskNames DEF WriteOpens
  <2>4. i \notin {name, oldname}
    BY <1>0, <1>8, FreshType DEF WriteOpens, Unused
  <2>5. NewFrame(g)
    BY <2>1, <2>2, ReplaceEffect
  <2> HIDE DEF g, i
  <2>6. Frames'
    BY <1>1, <2>2, <2>3, <2>4, <2>5
  <2> QED
    BY <2>3, <2>4, <2>6 DEF NewApart
<1>9. CASE WriteCloses
  <2> DEFINE g == [Top EXCEPT !.pc = "clear", !.fd = NoFile]
  <2>1. Running /\ Top = stack[Len(stack)] /\ Top \in Frame
    BY <1>9, AtTop DEF WriteCloses
  <2>2. g.fd = NoFile /\ stack' = [stack EXCEPT ![Len(stack)] = g]
    BY <1>9, <2>1 DEF WriteCloses, Frame
  <2>3. newname' = newname /\ name' = name /\ oldname' = oldname
    BY <1>9, DiskNames DEF WriteCloses
  <2>4. NewFrame(g)
    BY <2>1, <2>2, ReplaceEffect
  <2> HIDE DEF g
  <2> QED
    BY <1>0, <1>1, <2>2, <2>3, <2>4 DEF NewApart
<1>10. CASE WriteClears \/ WriteRemoves
  <2>1. PICK w \in {"clear", "remove"}, v \in {"remove", "rename"} :
          At(w) /\ WriteOnAt(v)
    BY <1>10 DEF WriteClears, WriteRemoves
  <2> DEFINE g == [Top EXCEPT !.pc = v]
  <2>2. /\ Running /\ Top = stack[Len(stack)] /\ Top \in Frame /\ Top.pc = w
        /\ Len(stack) \in DOMAIN stack
    BY <2>1, AtTop
  <2>3. g.fd = NoFile /\ stack' = [stack EXCEPT ![Len(stack)] = g]
    BY <1>0, <2>1, <2>2 DEF WriteOnAt, Frame
  <2>4. oldname' = oldname /\ Names'
    BY <1>0, <1>10, DiskNames DEF WriteClears, WriteRemoves, diskVars, DiskTypes
  <2>5. NewFrame(g)
    BY <2>2, <2>3, ReplaceEffect
  <2> HIDE DEF g
  <2> QED
    BY <1>1, <2>3, <2>4, <2>5 DEF NewApart
<1> QED
  BY <1>2, <1>3, <1>4, <1>5, <1>6, <1>7, <1>8, <1>9, <1>10, Steps

(* Marks and `x' in their places *)

\* No handler is in write_newsrcs while the main program opens a newsrc or has
\* none, and what it does there is not write_newsrcs.
LEMMA WritesWith ==
  ASSUME StackType, Shape, NEW w \in Writing, At(w)
  PROVE  ~Main(Opening \cup {"closed"})
BY WriterEffect DEF Main, MultircInUse

\* Only the user at work, and `x', concern doing_ng and restore.
LEMMA PhasesKept ==
  ASSUME Phases, doing_ng' = FALSE \/ doing_ng' = doing_ng,
         restore' = restore,
         \A S : MainWrites(S)' <=> MainWrites(S),
         \A S : S \cap Writing = {} => (Main(S)' <=> Main(S))
  PROVE  Phases'
<1>1. {"group"} \cap Writing = {}
  BY DEF Writing
<1>2. (GettingOld \cup {"leave", "closed", "exit"}) \cap Writing = {}
  BY DEF Writing, GettingOld
<1>3. Main({"group"})' <=> Main({"group"})
  BY <1>1
<1>4. Main(GettingOld \cup {"leave", "closed", "exit"})' <=>
        Main(GettingOld \cup {"leave", "closed", "exit"})
  BY <1>2
<1> QED
  BY <1>3, <1>4 DEF Phases

\* Where the main program is, while nothing is written.
LEMMA MainIs ==
  ASSUME StackType, Shape, NEW w, At(w), w \notin Writing \cup {"exit"}
  PROVE  \A S : (Main(S) <=> w \in S) /\ ~MainWrites(S)
<1>1. Running /\ stack[1].pc = w
  BY AtTop, MainOnly
<1> QED
  BY <1>1 DEF Main, MainWrites

LEMMA PhasesStep ==
  ASSUME Types, BackupInv, BackupFaults, Next
  PROVE  Phases'
<1> USE DEF Types
<1>0. Shape /\ Phases /\ doing_ng \in BOOLEAN /\ restore \in BOOLEAN
  BY DEF BackupInv, BitTypes, FlagTypes
<1>1. CASE MainGoesOn
  <2>1. CASE \/ OpenCreates \/ OpenRefuses \/ OpenBacksUp \/ OpenUnlinksOld
             \/ OpenLinksOld \/ OpenLoads \/ CatchUp \/ Unuse \/ Quit
    <3>1. PICK w \in Opening \cup {"list"} : At(w)
      BY <2>1 DEF OpenCreates, OpenRefuses, OpenBacksUp, OpenUnlinksOld,
                  OpenLinksOld, OpenLoads, CatchUp, Unuse, Quit, Opening
    <3>2. ~doing_ng /\ ~restore
      BY <1>0, <3>1, MainIs DEF Phases, Opening, Writing, GettingOld
    <3>3. doing_ng' = doing_ng /\ restore' = restore
      BY <2>1 DEF OpenCreates, OpenRefuses, OpenBacksUp, OpenUnlinksOld,
                  OpenLinksOld, OpenLoads, CatchUp, Unuse, Quit, bitVars
    <3> QED
      BY <3>2, <3>3 DEF Phases
  <2>2. CASE EnterGroup \/ Checkpoint \/ LeaveGroup
    <3>1. PICK w \in {"list", "group"} : At(w)
      BY <2>2 DEF EnterGroup, Checkpoint, LeaveGroup
    <3>2. ~restore
      BY <1>0, <3>1, MainIs DEF Phases, Writing, GettingOld
    <3>3. restore' = restore
      BY <2>2 DEF EnterGroup, Checkpoint, LeaveGroup
    <3>4. CASE LeaveGroup
      BY <3>2, <3>3, <3>4 DEF LeaveGroup, Phases
    <3>5. CASE EnterGroup
      <4>1. stack'[1] = Code("group") /\ Running'
        BY <1>0, <3>5, MainEffect DEF EnterGroup, GoTo, Writing
      <4>2. Main({"group"})'
        BY <4>1, CodeFields DEF Main
      <4> QED
        BY <3>2, <3>3, <4>2 DEF Phases
    <3>6. CASE Checkpoint
      <4>1. stack'[1] = Call("group") /\ Running'
        BY <1>0, <3>6, MainEffect DEF Checkpoint, CallWrite, Writing
      <4>2. MainWrites({"group"})'
        BY <4>1, CallFields DEF MainWrites, Main, Writing
      <4> QED
        BY <3>2, <3>3, <4>2 DEF Phases
    <3> QED
      BY <2>2, <3>4, <3>5, <3>6
  <2>3. CASE QuitAbandon
    <3>1. ~doing_ng /\ doing_ng' = doing_ng
      BY <1>0, <2>3, MainIs DEF QuitAbandon, Phases, Writing, bitVars
    <3>2. stack'[1] = Call("bug_out") /\ Running'
      BY <1>0, <2>3, MainEffect DEF QuitAbandon, CallWrite, Writing
    <3>3. MainWrites({"bug_out", "closed", "exit"})'
      BY <3>2, CallFields DEF MainWrites, Main, Writing
    <3> QED
      BY <3>1, <3>3 DEF Phases
  <2>4. CASE \/ OldUnlinksNew \/ OldKeepsName \/ OldComesBack \/ Reopen
             \/ QuitClosed \/ LeaveMultirc
    <3>1. PICK w \in GettingOld \cup {"leave", "closed"} : At(w)
      BY <2>4 DEF OldUnlinksNew, OldKeepsName, OldComesBack, Reopen,
                  QuitClosed, LeaveMultirc, GettingOld
    <3>2. ~doing_ng /\ doing_ng' = doing_ng /\ restore' = restore
      BY <1>0, <2>4, <3>1, MainIs
         DEF Phases, OldUnlinksNew, OldKeepsName, OldComesBack, Reopen,
             QuitClosed, LeaveMultirc, GettingOld, Writing, bitVars
    <3>3. CASE Reopen
      <4>1. ~restore
        BY <3>3 DEF Reopen, BackupFaults
      <4> QED
        BY <3>2, <4>1 DEF Phases
    <3>4. CASE ~Reopen
      <4>1. PICK g \in {Code("oldName"), Code("oldOld"), Code("leave"),
                        Code("exit"), Call("exit"), Call("closed")} :
              stack' = [stack EXCEPT ![Len(stack)] = g]
        BY <2>4, <3>4
           DEF OldUnlinksNew, OldKeepsName, OldComesBack, QuitClosed,
               LeaveMultirc, GoTo, CallWrite
      <4>2. stack'[1] = g /\ Running'
        BY <1>0, <3>1, <4>1, MainEffect DEF GettingOld, Writing
      <4>3. Main(GettingOld \cup {"leave", "exit"})'
              \/ MainWrites({"exit", "closed"})'
        BY <4>1, <4>2, CodeFields, CallFields
           DEF MainWrites, Main, Writing, GettingOld
      <4> QED
        BY <3>2, <4>3 DEF Phases, Main, MainWrites
    <3> QED
      BY <3>3, <3>4
  <2> QED
    BY <1>1, <2>1, <2>2, <2>3, <2>4 DEF MainGoesOn
<1>2. CASE Returns
  <2>1. PICK w \in Writing : At(w) /\ ReturnWith(TRUE)
    BY <1>2 DEF Returns, WriteSkips, WriteRenames, Writing
  <2>2. doing_ng' = doing_ng /\ restore' = restore
    BY <1>0, <1>2, <2>1, ReturnEffect DEF Returns, WriteSkips, WriteRenames, bitVars
  <2>3. CASE HandlerReturns
    BY <1>0, <2>2, <2>3, SameMain, PhasesKept DEF HandlerReturns
  <2>4. CASE stack[1].pc = w /\ \E x : ReturnsTo(x)
    <3>1. PICK x : ReturnsTo(x)
      BY <2>4
    <3>2. Running
      BY <2>1, AtTop
    <3>3. /\ Running' /\ stack'[1].pc = x
          /\ IF stack[1].caller = "bug_out"
             THEN x = IF restore THEN "oldNew" ELSE "leave"
             ELSE x = stack[1].caller
      BY <3>1, CodeFields DEF ReturnsTo
    <3>4. ~Main({"group"})
      BY <2>1, <2>4 DEF Main, Writing
    <3>5. ~Main(GettingOld \cup {"leave", "closed", "exit"})
      BY <2>1, <2>4 DEF Main, Writing, GettingOld
    <3>6. doing_ng' => Main({"group"})'
      BY <1>0, <2>2, <3>3, <3>4 DEF Phases, MainWrites, Main
    <3>7. restore' => Main(GettingOld \cup {"leave", "closed", "exit"})'
      BY <1>0, <2>2, <3>3, <3>5 DEF Phases, MainWrites, Main, GettingOld
    <3> QED
      BY <3>6, <3>7 DEF Phases
  <2> QED
    BY <1>0, <2>1, <2>3, <2>4, ReturnEffect
<1>3. CASE Edits
  BY <1>0, <1>3 DEF Edits, EditList, Mark, DelayUnmark, Phases, Main, MainWrites, Running
<1>4. CASE Handles
  <2>1. restore' = restore /\ (doing_ng' = FALSE \/ doing_ng' = doing_ng)
    BY <1>4, Zenon DEF Handles, Signal, Stop
  <2>2. MainStays
    BY <1>4, Handled
  <2> QED
    BY <1>0, <2>1, <2>2, SameMain, PhasesKept
<1>5. CASE Ends
  BY <1>5 DEF Ends, Exit, Kill, Gone, Phases
<1>6. CASE Start
  <2>1. ~Running /\ doing_ng' = doing_ng /\ restore' = restore
    BY <1>6 DEF Start, bitVars
  <2> QED
    BY <1>0, <2>1 DEF Phases, Main, MainWrites
<1>7. CASE WriteOpens \/ WriteCloses \/ WriteClears \/ WriteRemoves
  <2>1. doing_ng' = doing_ng /\ restore' = restore
    BY <1>7 DEF WriteOpens, WriteCloses, WriteClears, WriteRemoves, bitVars
  <2>2. PICK w \in Writing : At(w)
    BY <1>7 DEF WriteOpens, WriteCloses, WriteClears, WriteRemoves, Writing
  <2>3. PICK g : /\ stack' = [stack EXCEPT ![Len(stack)] = g]
                 /\ g.pc \in Writing /\ g.caller = Top.caller
    BY <1>0, <1>7, WritesTo
  <2> QED
    BY <1>0, <2>1, <2>2, <2>3, WriteEffect, PhasesKept
<1> QED
  BY <1>1, <1>2, <1>3, <1>4, <1>5, <1>6, <1>7, Steps

(* `x' and the newsrc that is not the backup any more *)

\* While `x' is under way, or get_old_newsrcs, no group is read.
LEMMA NotInGroup ==
  ASSUME Phases, restore \/ Main(GettingOld)
  PROVE  ~doing_ng
<1>1. CASE restore
  <2>1. \/ Main(GettingOld \cup {"leave", "closed", "exit"})
        \/ MainWrites({"bug_out", "closed", "exit"})
    BY <1>1 DEF Phases
  <2> QED
    BY <2>1 DEF Phases, Main, MainWrites, GettingOld, Writing
<1>2. CASE Main(GettingOld)
  BY <1>2 DEF Phases, Main, MainWrites, GettingOld, Writing
<1> QED
  BY <1>1, <1>2

LEMMA AbandoningStep ==
  ASSUME Types, BackupInv, BackupFaults, Next
  PROVE  Abandoning'
<1> USE DEF Types
<1>0. /\ Shape /\ NewApart /\ Phases /\ Abandoning
      /\ changed \in BOOLEAN /\ restore \in BOOLEAN
  BY DEF BackupInv, FlagTypes
<1> DEFINE Removing == \E k \in DOMAIN stack : stack[k].pc = "remove"
<1>1. CASE MainGoesOn
  <2>1. CASE OldUnlinksNew \/ OldKeepsName
    <3>1. Main({"oldNew", "oldName"}) /\ Main(GettingOld)
      BY <1>0, <2>1, MainIs DEF OldUnlinksNew, OldKeepsName, Writing, GettingOld
    <3>2. ~changed /\ ~changed' /\ Moved
      BY <1>0, <2>1, <3>1 DEF Abandoning, OldUnlinksNew, OldKeepsName
    <3>3. CASE OldUnlinksNew
      <4>1. Moved'
        BY <3>2, <3>3, DiskNames DEF OldUnlinksNew, Moved
      <4> QED
        BY <3>2, <4>1 DEF Abandoning
    <3>4. CASE OldKeepsName
      <4>1. stack'[1] = Code("oldOld")
        BY <1>0, <3>4, MainEffect DEF OldKeepsName, GoTo, Writing
      <4>2. ~Main({"oldNew", "oldName"})' /\ ~MainWrites({"bug_out"})'
        BY <4>1, CodeFields DEF Main, MainWrites, Writing
      <4> QED
        BY <3>2, <4>2 DEF Abandoning
    <3> QED
      BY <2>1, <3>3, <3>4
  <2>2. CASE QuitAbandon
    <3>1. stack'[1] = Call("bug_out")
      BY <1>0, <2>2, MainEffect DEF QuitAbandon, CallWrite, Writing
    <3>2. ~Main({"remove", "rename"})' /\ ~Main(GettingOld)'
              /\ ~Main({"oldNew", "oldName"})'
      BY <3>1, CallFields DEF Main, GettingOld
    <3>3. Moved \/ changed
      BY <2>2 DEF QuitAbandon, BackupFaults, Idle, Moved
    <3>4. Moved' \/ changed'
      BY <2>2, <3>3 DEF QuitAbandon, diskVars, Moved
    <3> QED
      BY <3>2, <3>4 DEF Abandoning
  <2>3. CASE Quit
    <3>1. stack'[1] = Call("bug_out")
      BY <1>0, <2>3, MainEffect DEF Quit, CallWrite, Writing
    <3>2. ~Main(GettingOld)' /\ ~Main({"oldNew", "oldName"})'
      BY <3>1, CallFields DEF Main, GettingOld
    <3>3. ~restore
      BY <1>0, <2>3, MainIs DEF Quit, Phases, Writing, GettingOld
    <3>4. ~restore'
      BY <2>3, <3>3 DEF Quit
    <3> QED
      BY <3>2, <3>4 DEF Abandoning
  <2>4. CASE /\ ~OldUnlinksNew /\ ~OldKeepsName /\ ~QuitAbandon /\ ~Quit
    <3>1. PICK w \in PC \ (Writing \cup {"exit"}) : At(w)
      BY <1>1, <2>4
         DEF MainGoesOn, OpenCreates, OpenRefuses, OpenBacksUp,
             OpenUnlinksOld, OpenLinksOld, OpenLoads, OldComesBack, Reopen,
             QuitClosed, EnterGroup, CatchUp, Checkpoint, Unuse,
             LeaveMultirc, LeaveGroup, PC, Opening, GettingOld, Writing
    <3>2. PICK g : /\ stack' = [stack EXCEPT ![Len(stack)] = g]
                   /\ \/ \E x \in PC \ (GettingOld \cup Writing) : g = Code(x)
                      \/ \E c \in Caller \ {"bug_out"} : g = Call(c)
      <4>1. CASE \/ OpenCreates \/ OpenRefuses \/ OpenBacksUp \/ OpenUnlinksOld
                 \/ OpenLinksOld \/ OpenLoads \/ OldComesBack \/ Reopen
                 \/ QuitClosed \/ EnterGroup
        <5>1. PICK x \in {"list", "closed", "unlinkOld", "link", "load",
                          "leave", "open", "exit", "group"} : GoTo(x)
          BY <4>1 DEF OpenCreates, OpenRefuses, OpenBacksUp, OpenUnlinksOld,
                      OpenLinksOld, OpenLoads, OldComesBack, Reopen,
                      QuitClosed, EnterGroup
        <5>2. x \in PC \ (GettingOld \cup Writing)
          BY <5>1 DEF PC, Opening, Writing, GettingOld
        <5> QED
          BY <5>1, <5>2 DEF GoTo
      <4>2. CASE \/ CatchUp \/ Checkpoint \/ Unuse \/ LeaveMultirc
                 \/ LeaveGroup
        <5>1. \/ GoTo("list")
              \/ \E c \in {"list", "group", "closed", "exit"} : CallWrite(c)
          BY <4>2 DEF CatchUp, Checkpoint, Unuse, LeaveMultirc, LeaveGroup
        <5>2. /\ "list" \in PC \ (GettingOld \cup Writing)
              /\ {"list", "group", "closed", "exit"} \subseteq Caller \ {"bug_out"}
          BY DEF PC, Writing, GettingOld, Caller
        <5> QED
          BY <5>1, <5>2 DEF GoTo, CallWrite
      <4> QED
        BY <1>1, <2>4, <4>1, <4>2 DEF MainGoesOn
    <3>3. stack'[1] = g
      BY <1>0, <3>1, <3>2, MainEffect
    <3>4. g.pc \notin GettingOld /\ (g.pc \in Writing => g.caller # "bug_out")
      BY <3>2, CodeFields, CallFields DEF GettingOld
    <3>5. /\ ~Main(GettingOld)' /\ ~Main({"oldNew", "oldName"})'
          /\ ~MainWrites({"bug_out"})'
      BY <3>3, <3>4 DEF Main, MainWrites, GettingOld
    <3> QED
      BY <3>5 DEF Abandoning
  <2> QED
    BY <2>1, <2>2, <2>3, <2>4
<1>2. CASE Returns
  <2>1. PICK w \in {"write", "rename"} : At(w) /\ ReturnWith(TRUE)
    BY <1>2 DEF Returns, WriteSkips, WriteRenames
  <2>2. w \in Writing
    BY DEF Writing
  <2>3. changed' = changed /\ restore' = restore
    BY <1>0, <1>2, <2>1, <2>2, ReturnEffect DEF Returns, WriteSkips, WriteRenames
  <2>4. Moved => Moved'
    BY <1>0, <1>2, DiskNames DEF Returns, WriteSkips, WriteRenames, diskVars, Moved, NewApart
  <2>5. Top = stack[Len(stack)] /\ Top.pc = w
    BY <1>0, <2>1, <2>2, WriterEffect
  <2>6. CASE HandlerReturns
    <3>1. Removing => Removing'
      BY <2>5, <2>6 DEF HandlerReturns
    <3>2. \A S : (Main(S)' <=> Main(S)) /\ (MainWrites(S)' <=> MainWrites(S))
      BY <2>6, SameMain DEF HandlerReturns
    <3>3. /\ Main({"remove", "rename"})' <=> Main({"remove", "rename"})
          /\ Main({"oldNew", "oldName"})' <=> Main({"oldNew", "oldName"})
          /\ Main(GettingOld)' <=> Main(GettingOld)
          /\ MainWrites({"bug_out"})' <=> MainWrites({"bug_out"})
      BY <3>2
    <3> QED
      BY <1>0, <2>3, <2>4, <3>1, <3>3 DEF Abandoning
  <2>7. CASE stack[1].pc = w /\ \E x : ReturnsTo(x)
    <3>1. PICK x : ReturnsTo(x)
      BY <2>7
    <3>2. Running
      BY <2>1, AtTop
    <3>3. /\ stack'[1].pc = x /\ DOMAIN stack = {1}
          /\ IF stack[1].caller = "bug_out"
             THEN x = IF restore THEN "oldNew" ELSE "leave"
             ELSE x \in {"list", "group", "closed", "exit"}
      BY <3>1, CodeFields DEF ReturnsTo
    <3>4. ~MainWrites({"bug_out"})'
      BY <3>3 DEF MainWrites, Main, Writing
    <3>5. CASE x # "oldNew"
      <4>1. ~Main(GettingOld)' /\ ~Main({"oldNew", "oldName"})'
        BY <3>3, <3>5 DEF Main, GettingOld
      <4> QED
        BY <3>4, <4>1 DEF Abandoning
    <3>6. CASE x = "oldNew"
      <4>1. restore /\ MainWrites({"bug_out"})
        BY <2>2, <2>7, <3>2, <3>3, <3>6 DEF MainWrites, Main
      <4>2. ~Removing
        BY <2>7, <3>3
      <4>3. ~changed
        <5>1. CASE w = "write"
          BY <1>2, <2>1, <5>1 DEF Returns, WriteSkips, WriteRenames, At
        <5>2. CASE w = "rename"
          <6>1. Main({"remove", "rename"})
            BY <2>7, <3>2, <5>2 DEF Main
          <6> QED
            BY <1>0, <4>1, <6>1 DEF Abandoning
        <5> QED
          BY <5>1, <5>2
      <4>4. Moved
        BY <1>0, <4>1, <4>2, <4>3 DEF Abandoning
      <4> QED
        BY <2>3, <2>4, <3>4, <4>3, <4>4 DEF Abandoning
    <3> QED
      BY <3>5, <3>6
  <2> QED
    BY <1>0, <2>1, <2>2, <2>6, <2>7, ReturnEffect
<1>3. CASE Edits
  <2>1. PICK w \in {"list", "group"} : At(w)
    BY <1>3 DEF Edits, EditList, Mark, DelayUnmark
  <2>2. stack' = stack
    BY <1>3 DEF Edits, EditList, Mark, DelayUnmark
  <2>3. Running /\ stack[1].pc = w
    BY <1>0, <2>1, AtTop, MainOnly DEF Writing
  <2> QED
    BY <2>2, <2>3 DEF Abandoning, Main, MainWrites, Writing, GettingOld
<1>4. CASE Handles
  <2>1. restore' = restore /\ Moved' = Moved
    BY <1>4 DEF Handles, Signal, Stop, diskVars, Moved
  <2>2. restore \/ Main(GettingOld) => changed' = changed
    BY <1>0, <1>4, NotInGroup DEF Handles, Signal, Stop
  <2>3. MainStays /\ (Removing => Removing')
    BY <1>4, Handled
  <2>4. \A S : (Main(S)' <=> Main(S)) /\ (MainWrites(S)' <=> MainWrites(S))
    BY <2>3, SameMain
  <2>5. /\ Main({"remove", "rename"})' <=> Main({"remove", "rename"})
        /\ Main({"oldNew", "oldName"})' <=> Main({"oldNew", "oldName"})
        /\ Main(GettingOld)' <=> Main(GettingOld)
        /\ MainWrites({"bug_out"})' <=> MainWrites({"bug_out"})
    BY <2>4
  <2> QED
    BY <1>0, <2>1, <2>2, <2>3, <2>5 DEF Abandoning
<1>5. CASE Ends
  <2>1. ~Running'
    BY <1>5 DEF Ends, Exit, Kill, Gone, Running
  <2> QED
    BY <2>1 DEF Abandoning, Main, MainWrites
<1>6. CASE Start
  <2>1. stack'[1] = Code("open")
    BY <1>6 DEF Start
  <2> QED
    BY <2>1, CodeFields DEF Abandoning, Main, MainWrites, Writing, GettingOld
<1>7. CASE WriteOpens \/ WriteCloses \/ WriteClears \/ WriteRemoves
  <2>1. PICK w \in Writing, g \in Frame :
          /\ At(w) /\ stack' = [stack EXCEPT ![Len(stack)] = g]
          /\ g.pc \in Writing /\ g.caller = Top.caller
          /\ WriteOpens => w = "write" /\ g.pc = "lines"
          /\ WriteCloses => w = "lines" /\ g.pc = "clear"
          /\ WriteClears => w = "clear" /\ g.pc = "remove"
          /\ WriteRemoves => w = "remove" /\ g.pc = "rename"
    BY <1>0, <1>7, WritesTo
  <2>2. Top = stack[Len(stack)] /\ Top.pc = w
    BY <1>0, <2>1, WriterEffect
  <2>3. /\ \A k \in DOMAIN stack :
              k # Len(stack) => k \in DOMAIN stack' /\ stack'[k] = stack[k]
        /\ Len(stack) \in DOMAIN stack' /\ stack'[Len(stack)] = g
        /\ \A S : MainWrites(S)' <=> MainWrites(S)
        /\ \A S : S \cap Writing = {} => (Main(S)' <=> Main(S))
        /\ stack'[1] = stack[1] \/ (stack[1].pc = w /\ stack'[1] = g)
    BY <1>0, <2>1, WriteEffect
  <2>4. {"oldNew", "oldName"} \cap Writing = {} /\ GettingOld \cap Writing = {}
    BY DEF Writing, GettingOld
  <2>5. /\ MainWrites({"bug_out"})' <=> MainWrites({"bug_out"})
        /\ Main({"oldNew", "oldName"})' <=> Main({"oldNew", "oldName"})
        /\ Main(GettingOld)' <=> Main(GettingOld)
    BY <2>3, <2>4
  <2>6. restore' = restore
    BY <1>7 DEF WriteOpens, WriteCloses, WriteClears, WriteRemoves
  <2>7. CASE WriteOpens \/ WriteCloses
    <3>1. name' = name /\ oldname' = oldname /\ changed' = changed
      BY <2>7, DiskNames DEF WriteOpens, WriteCloses
    <3>2. Removing => Removing'
      BY <2>1, <2>2, <2>3, <2>7
    <3>3. Main({"remove", "rename"})' => Main({"remove", "rename"})
      BY <2>1, <2>3, <2>7, AtTop DEF Main
    <3> QED
      BY <1>0, <2>5, <2>6, <3>1, <3>2, <3>3 DEF Abandoning, Moved
  <2>8. CASE WriteClears
    <3>1. Moved' = Moved /\ changed' = FALSE
      BY <2>8 DEF WriteClears, Moved, diskVars
    <3>2. Removing'
      BY <2>1, <2>3, <2>8
    <3> QED
      BY <1>0, <2>5, <3>1, <3>2 DEF Abandoning
  <2>9. CASE WriteRemoves
    <3>1. Moved' /\ changed' = changed
      BY <2>9, DiskNames DEF WriteRemoves, Moved
    <3>2. Main({"remove", "rename"})' => Main({"remove", "rename"})
      BY <2>1, <2>3, <2>9, AtTop DEF Main
    <3> QED
      BY <1>0, <2>5, <2>6, <3>1, <3>2 DEF Abandoning
  <2> QED
    BY <1>7, <2>7, <2>8, <2>9
<1> QED
  BY <1>1, <1>2, <1>3, <1>4, <1>5, <1>6, <1>7, Steps

(* Where the backup is *)

\* NAME.old and what it holds stay as they are.
LEMMA InOldKept ==
  ASSUME InOld, opened' = opened, oldname' = oldname,
         content'[oldname] = content[oldname]
  PROVE  InOld'
BY DEF InOld

LEMMA DiskHolds ==
  ASSUME NEW n, NEW w, NEW o \in Inode, NEW c, Disk(n, w, o, c)
  PROVE  content'[o] = c[o]
BY DEF Disk

\* Where the main program may be while the backup is the newsrc.
Restored ==
  \/ Main({"leave", "closed", "exit", "open", "unlinkOld"})
  \/ MainWrites({"exit", "closed"}) /\ Main({"write"})

HandlersWait == \A k \in 2 .. Len(stack) : stack[k].pc \in {"write", "exit"}

LEMMA InNameKept ==
  ASSUME InName, opened' = opened, name' = name, oldname' = oldname,
         content'[name] = content[name], changed' = changed \/ changed' = FALSE,
         Running' => Restored' /\ HandlersWait'
  PROVE  InName'
BY DEF InName, Restored, HandlersWait

\* While the backup is the newsrc nobody is further than the start of
\* write_newsrcs.
LEMMA InNameAt ==
  ASSUME StackType, Shape, InName, NEW w, At(w)
  PROVE  /\ w \in {"leave", "closed", "exit", "open", "unlinkOld", "write"}
         /\ Restored /\ HandlersWait /\ ~changed
<1>1. /\ Running /\ Len(stack) \in Nat \ {0} /\ Top = stack[Len(stack)]
      /\ Top.pc = w
  BY AtTop
<1>2. Restored /\ HandlersWait /\ ~changed
  BY <1>1 DEF InName, Restored, HandlersWait
<1>3. CASE Len(stack) = 1
  BY <1>1, <1>2, <1>3 DEF Restored, Main
<1>4. CASE Len(stack) # 1
  <2>1. Len(stack) \in 2 .. Len(stack)
    BY <1>1, <1>4, Count
  <2> QED
    BY <1>1, <1>2, <2>1 DEF HandlersWait
<1> QED
  BY <1>2, <1>3, <1>4

\* No step loses what NAME.old, or NAME after `x', holds.
LEMMA InOldStep ==
  ASSUME Types, BackupInv, BackupFaults, Next, InOld, opened' # Absent,
         ~OpenLoads
  PROVE  InOld' \/ InName'
<1> USE DEF Types
<1>0. /\ Shape /\ NewApart /\ Abandoning /\ Backup
      /\ oldname \in Inode /\ oldname # NoFile /\ opened # Absent
  <2>1. oldname \in Inode /\ oldname # NoFile
    BY DEF InOld, DiskTypes
  <2>2. opened \in Content
    BY <2>1 DEF InOld, DiskTypes
  <2>3. opened # Absent
    BY <2>2, FilesAssumption DEF Content, Version, Absent, Blank, Partial
  <2> QED
    BY <2>1, <2>3 DEF BackupInv
<1>1. ~OpenCreates /\ ~OpenUnlinksOld
  BY DEF OpenCreates, OpenUnlinksOld, Found
<1>2. opened' = opened
  BY <1>1 DEF Next, Progress, User, OpenRefuses, OpenBacksUp, OpenLinksOld,
        OpenLinkFails, LeaveMultirc, WriteSkips, WriteOpens, WriteOpenFails,
        WriteCloses, WriteFails, WriteClears, WriteRemoves, WriteRenames,
        OldUnlinksNew, OldKeepsName, OldComesBack, Exit, Start, Reopen,
        QuitClosed, EditList, CatchUp, EnterGroup, Mark, DelayUnmark,
        Checkpoint, LeaveGroup, Unuse, Quit, QuitAbandon, Signal, Stop, Kill,
        history
<1>3. CASE OpenLinksOld
  <2>1. Main({"link", "load"})
    BY <1>0, <1>3, MainIs DEF OpenLinksOld, Writing
  <2> QED
    BY <1>0, <2>1 DEF Backup
<1>4. CASE WriteOpens
  <2> DEFINE i == IF newname = NoFile THEN Fresh ELSE newname
  <2>1. Disk(name, i, oldname, [content EXCEPT ![i] = Partial])
    BY <1>4 DEF WriteOpens
  <2>2. i # oldname
    BY <1>0, <1>4, FreshType DEF WriteOpens, Unused, NewApart
  <2> HIDE DEF i
  <2>3. oldname' = oldname
    BY <2>1, DiskNames
  <2>4. content'[oldname] = content[oldname]
    <3>1. content'[oldname] = [content EXCEPT ![i] = Partial][oldname]
      BY <1>0, <2>1, DiskHolds
    <3> QED
      BY <1>0, <2>2, <3>1 DEF DiskTypes
  <2> QED
    BY <1>2, <2>3, <2>4, InOldKept
<1>5. CASE WriteCloses
  <2>1. PICK c : Disk(name, newname, oldname, [content EXCEPT ![Top.fd] = c])
    BY <1>5 DEF WriteCloses
  <2>2. Top.fd # oldname
    <3>1. Len(stack) \in DOMAIN stack /\ Top = stack[Len(stack)]
      BY <1>5, AtTop DEF WriteCloses
    <3> QED
      BY <1>0, <3>1 DEF NewApart
  <2>3. content'[oldname] = content[oldname] /\ oldname' = oldname
    <3>1. content'[oldname] = [content EXCEPT ![Top.fd] = c][oldname]
      BY <1>0, <2>1, DiskHolds
    <3> QED
      BY <1>0, <2>1, <2>2, <3>1, DiskNames DEF DiskTypes
  <2> QED
    BY <1>2, <2>3, InOldKept
<1>6. CASE WriteRemoves \/ WriteRenames \/ OldUnlinksNew \/ OldKeepsName
  <2>1. oldname' = oldname /\ content'[oldname] = content[oldname]
    BY <1>0, <1>6, DiskNames, DiskHolds
       DEF WriteRemoves, WriteRenames, OldUnlinksNew, OldKeepsName, diskVars
  <2> QED
    BY <1>2, <2>1, InOldKept
<1>7. CASE OldComesBack
  <2>1. CASE oldname \in {NoFile, name}
    <3>1. UNCHANGED diskVars
      BY <1>7, <2>1 DEF OldComesBack
    <3> QED
      BY <1>2, <3>1, InOldKept DEF diskVars
  <2>2. CASE oldname \notin {NoFile, name}
    <3>1. Disk(oldname, newname, NoFile, content) /\ At("oldOld") /\ GoTo("leave")
      BY <1>7, <2>2 DEF OldComesBack
    <3>2. /\ name' = oldname /\ oldname' = NoFile
          /\ content'[oldname] = content[oldname]
      BY <1>0, <3>1 DEF Disk
    <3>3. Main(GettingOld) /\ changed' = changed
      BY <1>0, <1>7, MainIs DEF OldComesBack, Writing, GettingOld
    <3>4. ~changed'
      BY <1>0, <3>3 DEF Abandoning
    <3>5. Running' /\ stack'[1] = Code("leave") /\ Len(stack') = 1
      BY <1>0, <3>1, MainEffect DEF GoTo, Writing
    <3>6. 2 .. Len(stack') = {}
      BY <3>5, NoneAboveOne
    <3>7. Main({"leave", "closed", "exit", "open", "unlinkOld"})'
      BY <3>5, CodeFields DEF Main
    <3>8. name' # NoFile /\ content'[name'] = opened'
      BY <1>0, <1>2, <3>2 DEF InOld
    <3> QED
      BY <3>2, <3>4, <3>6, <3>7, <3>8 DEF InName
  <2> QED
    BY <2>1, <2>2
<1>8. CASE Exit
  <2> DEFINE open == {stack[k].fd : k \in DOMAIN stack} \ {NoFile}
  <2>1. PICK c : Disk(name, newname, oldname,
                      [i \in Inode |-> IF i \in open THEN c[i] ELSE content[i]])
    BY <1>8 DEF Exit
  <2>2. oldname \notin open
    BY <1>0 DEF NewApart
  <2> HIDE DEF open
  <2>3. oldname' = oldname
    BY <2>1, DiskNames
  <2>4. content'[oldname] = content[oldname]
    BY <1>0, <2>1, <2>2, DiskHolds
  <2> QED
    BY <1>2, <2>3, <2>4, InOldKept
<1>9. CASE \/ OpenRefuses \/ OpenBacksUp \/ LeaveMultirc \/ WriteSkips
           \/ WriteClears \/ Start \/ Reopen \/ QuitClosed \/ EditList
           \/ CatchUp \/ EnterGroup \/ Mark \/ DelayUnmark \/ Checkpoint
           \/ LeaveGroup \/ Unuse \/ Quit \/ QuitAbandon \/ Signal \/ Stop
           \/ Kill
  <2>1. UNCHANGED diskVars
    BY <1>9 DEF OpenRefuses, OpenBacksUp, LeaveMultirc, WriteSkips,
          WriteClears, Start, Reopen, QuitClosed, EditList, CatchUp,
          EnterGroup, Mark, DelayUnmark, Checkpoint, LeaveGroup, Unuse, Quit,
          QuitAbandon, Signal, Stop, Kill
  <2> QED
    BY <1>2, <2>1, InOldKept DEF diskVars
<1> QED
  BY <1>1, <1>3, <1>4, <1>5, <1>6, <1>7, <1>8, <1>9, Steps
     DEF MainGoesOn, Returns, Edits, Handles, Ends

\* No step loses what NAME holds, once `x' has brought it back.
LEMMA InNameStep ==
  ASSUME Types, BackupInv, BackupFaults, Next, InName, opened' # Absent
  PROVE  InName'
<1> USE DEF Types
<1>0. Shape /\ Phases /\ ~changed /\ name # NoFile
  BY DEF BackupInv, InName
<1>1. \A w : At(w) =>
        /\ w \in {"leave", "closed", "exit", "open", "unlinkOld", "write"}
        /\ Restored /\ HandlersWait
  BY <1>0, InNameAt
<1>2. CASE MainGoesOn
  <2>1. CASE OpenRefuses \/ OpenBacksUp \/ Reopen \/ QuitClosed \/ LeaveMultirc
    <3>1. PICK w \in {"open", "closed", "leave"} : At(w)
      BY <2>1 DEF OpenRefuses, OpenBacksUp, Reopen, QuitClosed, LeaveMultirc
    <3>2. PICK g \in {Code("closed"), Code("unlinkOld"), Code("open"),
                      Code("exit"), Call("exit"), Call("closed")} :
            stack' = [stack EXCEPT ![Len(stack)] = g]
      BY <2>1 DEF OpenRefuses, OpenBacksUp, Reopen, QuitClosed, LeaveMultirc,
                  GoTo, CallWrite
    <3>3. Running' /\ Len(stack') = 1 /\ stack'[1] = g
      BY <1>0, <3>1, <3>2, MainEffect DEF Writing
    <3>4. HandlersWait'
      BY <3>3, NoneAboveOne DEF HandlersWait
    <3>5. Restored'
      BY <3>2, <3>3, CodeFields, CallFields DEF Restored, Main, MainWrites, Writing
    <3>6. UNCHANGED diskVars /\ changed' = changed /\ opened' = opened
      BY <2>1 DEF OpenRefuses, OpenBacksUp, Reopen, QuitClosed, LeaveMultirc, history
    <3> QED
      BY <3>4, <3>5, <3>6, InNameKept DEF diskVars
  <2>2. CASE OpenCreates \/ OpenUnlinksOld
    BY <1>0, <2>2 DEF OpenCreates, OpenUnlinksOld
  <2>3. CASE \/ OpenLinksOld \/ OpenLoads \/ OldUnlinksNew \/ OldKeepsName
             \/ OldComesBack \/ EnterGroup \/ CatchUp \/ Checkpoint
             \/ Unuse \/ Quit \/ QuitAbandon \/ LeaveGroup
    <3>1. PICK w \in {"link", "load", "oldNew", "oldName", "oldOld", "list",
                      "group"} : At(w)
      BY <2>3 DEF OpenLinksOld, OpenLoads, OldUnlinksNew, OldKeepsName,
                  OldComesBack, EnterGroup, CatchUp, Checkpoint, Unuse, Quit,
                  QuitAbandon, LeaveGroup
    <3> QED
      BY <1>1, <3>1
  <2> QED
    BY <1>2, <2>1, <2>2, <2>3 DEF MainGoesOn
<1>3. CASE Returns
  <2>1. WriteSkips /\ At("write") /\ ReturnWith(TRUE)
    <3>1. ~At("rename")
      BY <1>1
    <3> QED
      BY <1>3, <3>1 DEF Returns, WriteSkips, WriteRenames
  <2>2. UNCHANGED diskVars /\ changed' = changed /\ opened' = opened
    BY <2>1 DEF WriteSkips, history
  <2>3. Restored /\ HandlersWait
    BY <1>1, <2>1
  <2>4. CASE HandlerReturns
    <3>1. \A S : (Main(S)' <=> Main(S)) /\ (MainWrites(S)' <=> MainWrites(S))
      BY <2>4, SameMain DEF HandlerReturns
    <3>2. /\ Main({"leave", "closed", "exit", "open", "unlinkOld"})' <=>
               Main({"leave", "closed", "exit", "open", "unlinkOld"})
          /\ MainWrites({"exit", "closed"})' <=> MainWrites({"exit", "closed"})
          /\ Main({"write"})' <=> Main({"write"})
      BY <3>1
    <3>3. Restored'
      BY <2>3, <3>2 DEF Restored
    <3>4. HandlersWait'
      BY <2>3, <2>4, CodeFields, CallFields DEF HandlerReturns, HandlersWait
    <3> QED
      BY <2>2, <3>3, <3>4, InNameKept DEF diskVars
  <2>5. CASE stack[1].pc = "write" /\ \E x : ReturnsTo(x)
    <3>1. PICK x : ReturnsTo(x)
      BY <2>5
    <3>2. MainWrites({"exit", "closed"})
      BY <2>3, <2>5 DEF Restored, Main
    <3>3. x \in {"exit", "closed"} /\ Running' /\ stack'[1].pc = x /\ Len(stack') = 1
      BY <3>1, <3>2, CodeFields DEF ReturnsTo, MainWrites
    <3>4. Restored'
      BY <3>3 DEF Restored, Main
    <3>5. HandlersWait'
      BY <3>3, NoneAboveOne DEF HandlersWait
    <3> QED
      BY <2>2, <3>4, <3>5, InNameKept DEF diskVars
  <2> QED
    BY <1>0, <2>1, <2>4, <2>5, ReturnEffect DEF Writing
<1>4. CASE Edits
  <2>1. PICK w \in {"list", "group"} : At(w)
    BY <1>4 DEF Edits, EditList, Mark, DelayUnmark
  <2> QED
    BY <1>1, <2>1
<1>5. CASE Handles
  <2>1. Running /\ UNCHANGED diskVars /\ opened' = opened
    BY <1>5 DEF Handles, Signal, Stop, history
  <2>2. Restored /\ HandlersWait
    BY <2>1 DEF InName, Restored, HandlersWait
  <2>3. ~doing_ng
    BY <1>0, <2>2 DEF Phases, Restored, Main, MainWrites, Writing
  <2>4. changed' = changed
    BY <1>5, <2>3 DEF Handles, Signal, Stop
  <2>5. PICK g \in {Call("finalize"), Call("resume"), Code("exit")} :
          /\ MainStays
          /\ Len(stack') = Len(stack) + 1 /\ Len(stack) \in Nat \ {0}
          /\ stack'[Len(stack) + 1] = g
          /\ \A k \in DOMAIN stack : k \in DOMAIN stack' /\ stack'[k] = stack[k]
    BY <1>5, Handled
  <2>6. g.pc \in {"write", "exit"}
    BY CodeFields, CallFields
  <2>7. \A k \in 2 .. Len(stack') :
          \/ k \in 2 .. Len(stack) /\ k \in DOMAIN stack
          \/ k = Len(stack) + 1
    <3>1. DOMAIN stack = 1 .. Len(stack)
      BY DEF StackType
    <3> QED
      BY <2>5, <3>1
  <2>8. HandlersWait'
    BY <2>2, <2>5, <2>6, <2>7 DEF HandlersWait
  <2>9. /\ Main({"leave", "closed", "exit", "open", "unlinkOld"})' <=>
             Main({"leave", "closed", "exit", "open", "unlinkOld"})
        /\ MainWrites({"exit", "closed"})' <=> MainWrites({"exit", "closed"})
        /\ Main({"write"})' <=> Main({"write"})
    BY <2>5, SameMain
  <2>10. Restored'
    BY <2>2, <2>9 DEF Restored
  <2> QED
    BY <2>1, <2>4, <2>8, <2>10, InNameKept DEF diskVars
<1>6. CASE Ends
  <2>1. ~Running' /\ changed' = FALSE /\ opened' = opened
    BY <1>6 DEF Ends, Exit, Kill, Gone, Running, history
  <2>2. name' = name /\ oldname' = oldname /\ content'[name] = content[name]
    <3>1. CASE Kill
      BY <3>1 DEF Kill, diskVars
    <3>2. CASE Exit
      <4> DEFINE open == {stack[k].fd : k \in DOMAIN stack} \ {NoFile}
      <4>1. PICK c : Disk(name, newname, oldname,
                          [i \in Inode |-> IF i \in open THEN c[i] ELSE content[i]])
        BY <3>2 DEF Exit
      <4>2. At("exit") /\ Restored /\ HandlersWait
        BY <1>1, <3>2 DEF Exit
      <4>3. \A k \in DOMAIN stack : stack[k].pc # "lines"
        <5>1. stack[1].pc # "lines"
          BY <4>2 DEF Restored, Main
        <5>2. \A k \in DOMAIN stack : k = 1 \/ k \in 2 .. Len(stack)
          BY DEF StackType
        <5> QED
          BY <4>2, <5>1, <5>2 DEF HandlersWait
      <4>4. open = {}
        BY <4>3 DEF BackupInv, NewApart
      <4> HIDE DEF open
      <4>5. name \in Inode
        BY <1>0 DEF DiskTypes
      <4> QED
        BY <4>1, <4>4, <4>5 DEF Disk
    <3> QED
      BY <1>6, <3>1, <3>2 DEF Ends
  <2> QED
    BY <2>1, <2>2, InNameKept
<1>7. CASE Start
  <2>1. /\ UNCHANGED diskVars /\ changed' = changed /\ opened' = opened
        /\ stack' = <<Code("open")>>
    BY <1>7 DEF Start
  <2>2. Running' /\ Len(stack') = 1 /\ stack'[1].pc = "open"
    BY <2>1, CodeFields DEF Running
  <2>3. Restored' /\ HandlersWait'
    BY <2>2, NoneAboveOne DEF Restored, HandlersWait, Main
  <2> QED
    BY <2>1, <2>3, InNameKept DEF diskVars
<1>8. CASE WriteOpens \/ WriteCloses \/ WriteClears \/ WriteRemoves
  BY <1>0, <1>1, <1>8 DEF WriteOpens, WriteCloses, WriteClears, WriteRemoves
<1> QED
  BY <1>2, <1>3, <1>4, <1>5, <1>6, <1>7, <1>8, Steps

\* Between the new NAME.old's making and the reading of NAME both are one file.
LEMMA LinkingStep ==
  ASSUME Types, BackupInv, BackupFaults, Next, Main({"link", "load"})'
  PROVE  opened' = Absent /\ (Main({"load"})' => oldname' = name')
<1> USE DEF Types
<1>0. Shape /\ Backup /\ Running' /\ stack'[1].pc \in {"link", "load"}
  BY DEF BackupInv, Main
<1>1. CASE OpenUnlinksOld
  <2>1. stack'[1] = Code("link") /\ opened' = Absent
    BY <1>0, <1>1, MainEffect DEF OpenUnlinksOld, GoTo, Writing
  <2> QED
    BY <2>1, CodeFields DEF Main
<1>2. CASE OpenLinksOld
  <2>1. Main({"link", "load"})
    BY <1>0, <1>2, MainIs DEF OpenLinksOld, Writing
  <2>2. name' = name /\ oldname' = name
    BY <1>2, DiskNames DEF OpenLinksOld
  <2>3. opened' = opened
    BY <1>2 DEF OpenLinksOld, history
  <2> QED
    BY <1>0, <2>1, <2>2, <2>3 DEF Backup
<1>3. CASE MainGoesOn /\ ~OpenUnlinksOld /\ ~OpenLinksOld
  <2>1. PICK w \in PC \ (Writing \cup {"exit"}) : At(w)
    BY <1>3
       DEF MainGoesOn, OpenCreates, OpenRefuses, OpenBacksUp, OpenLoads,
           OldUnlinksNew, OldKeepsName, OldComesBack, Reopen, QuitClosed,
           EnterGroup, CatchUp, Checkpoint, Unuse, Quit, QuitAbandon,
           LeaveMultirc, LeaveGroup, PC, Opening, GettingOld, Writing
  <2>2. PICK g : /\ stack' = [stack EXCEPT ![Len(stack)] = g]
                 /\ \/ \E x : x \notin {"link", "load"} /\ g = Code(x)
                    \/ \E c : g = Call(c)
    <3>1. CASE \/ OpenCreates \/ OpenRefuses \/ OpenBacksUp \/ OpenLoads
               \/ OldUnlinksNew \/ OldKeepsName \/ OldComesBack \/ Reopen
               \/ QuitClosed \/ EnterGroup
      <4>1. PICK x \in {"list", "closed", "unlinkOld", "leave", "open",
                        "oldName", "oldOld", "exit", "group"} : GoTo(x)
        BY <3>1 DEF OpenCreates, OpenRefuses, OpenBacksUp, OpenLoads,
                    OldUnlinksNew, OldKeepsName, OldComesBack, Reopen,
                    QuitClosed, EnterGroup
      <4> QED
        BY <4>1 DEF GoTo
    <3>2. CASE \/ CatchUp \/ Checkpoint \/ Unuse \/ Quit \/ QuitAbandon
               \/ LeaveMultirc \/ LeaveGroup
      <4>1. GoTo("list") \/ \E c \in Caller : CallWrite(c)
        BY <3>2 DEF CatchUp, Checkpoint, Unuse, Quit, QuitAbandon,
                    LeaveMultirc, LeaveGroup, Caller
      <4> QED
        BY <4>1 DEF GoTo, CallWrite
    <3> QED
      BY <1>3, <3>1, <3>2 DEF MainGoesOn
  <2>3. stack'[1] = g
    BY <1>0, <2>1, <2>2, MainEffect
  <2> QED
    BY <1>0, <2>2, <2>3, CodeFields, CallFields
<1>4. CASE Handles
  <2>1. Main({"link", "load"})' <=> Main({"link", "load"})
    BY <1>4, Handled, SameMain
  <2>2. Main({"load"})' <=> Main({"load"})
    BY <1>4, Handled, SameMain
  <2>3. UNCHANGED diskVars /\ opened' = opened
    BY <1>4 DEF Handles, Signal, Stop, history
  <2> QED
    BY <1>0, <2>1, <2>2, <2>3 DEF Backup, diskVars
<1>5. CASE Returns
  <2>1. PICK w \in Writing : At(w) /\ ReturnWith(TRUE)
    BY <1>5 DEF Returns, WriteSkips, WriteRenames, Writing
  <2>2. Running /\ ~Main({"link", "load"})
    BY <1>0, <2>1, WritesWith, AtTop DEF Main, Opening
  <2>3. CASE HandlerReturns
    BY <1>0, <2>2, <2>3 DEF HandlerReturns, MainStays, Main
  <2>4. CASE \E x : ReturnsTo(x)
    BY <1>0, <2>4, CodeFields DEF ReturnsTo
  <2> QED
    BY <1>0, <2>1, <2>3, <2>4, ReturnEffect
<1>6. CASE WriteOpens \/ WriteCloses \/ WriteClears \/ WriteRemoves
  <2>1. PICK w \in Writing, g \in Frame :
          /\ At(w) /\ stack' = [stack EXCEPT ![Len(stack)] = g]
          /\ g.pc \in Writing /\ g.caller = Top.caller
    BY <1>0, <1>6, WritesTo
  <2>2. ~Main({"link", "load"})
    BY <1>0, <2>1, WritesWith DEF Main, Opening
  <2>3. {"link", "load"} \cap Writing = {}
    BY DEF Writing
  <2> QED
    BY <1>0, <2>1, <2>2, <2>3, WriteEffect
<1>7. CASE Edits
  <2>1. PICK w \in {"list", "group"} : At(w)
    BY <1>7 DEF Edits, EditList, Mark, DelayUnmark
  <2>2. stack' = stack
    BY <1>7 DEF Edits, EditList, Mark, DelayUnmark
  <2> QED
    <3>1. Running /\ stack[1].pc = w
      BY <1>0, <2>1, AtTop, MainOnly DEF Writing
    <3> QED
      BY <1>0, <2>1, <2>2, <3>1
<1>8. CASE Ends \/ Start
  BY <1>0, <1>8, CodeFields DEF Ends, Exit, Kill, Gone, Start, Running
<1> QED
  BY <1>1, <1>2, <1>3, <1>4, <1>5, <1>6, <1>7, <1>8, Steps

LEMMA BackupStep ==
  ASSUME Types, BackupInv, BackupFaults, Next
  PROVE  Backup'
<1>1. opened' # Absent => (InOld \/ InName)'
  <2> SUFFICES ASSUME opened' # Absent PROVE InOld' \/ InName'
    OBVIOUS
  <2>1. CASE OpenLoads
    <3>1. Main({"load"}) /\ name # NoFile
      BY <2>1, MainIs, AtLoad DEF OpenLoads, Writing, BackupInv, Types
    <3>2. oldname = name
      BY <3>1 DEF BackupInv, Backup
    <3>3. UNCHANGED diskVars /\ opened' = content[name]
      BY <2>1 DEF OpenLoads, Found
    <3> QED
      BY <3>1, <3>2, <3>3 DEF InOld, diskVars
  <2>2. CASE ~OpenLoads /\ opened = Absent
    <3>1. opened' = opened \/ OpenCreates \/ OpenUnlinksOld
      BY <2>2 DEF Next, Progress, User, OpenRefuses, OpenBacksUp,
            OpenLinksOld, OpenLinkFails, LeaveMultirc, WriteSkips, WriteOpens,
            WriteOpenFails, WriteCloses, WriteFails, WriteClears,
            WriteRemoves, WriteRenames, OldUnlinksNew, OldKeepsName,
            OldComesBack, Exit, Start, Reopen, QuitClosed, EditList, CatchUp,
            EnterGroup, Mark, DelayUnmark, Checkpoint, LeaveGroup, Unuse,
            Quit, QuitAbandon, Signal, Stop, Kill, history
    <3> QED
      BY <2>2, <3>1 DEF OpenCreates, OpenUnlinksOld, Found
  <2>3. CASE ~OpenLoads /\ opened # Absent
    <3>1. InOld \/ InName
      BY <2>3 DEF BackupInv, Backup
    <3> QED
      BY <2>3, <3>1, InOldStep, InNameStep
  <2> QED
    BY <2>1, <2>2, <2>3
<1>2. Main({"load"})' => Main({"link", "load"})'
  BY DEF Main
<1> QED
  BY <1>1, <1>2, LinkingStep DEF Backup

\* The inductive invariant holds of every behaviour without the faults left out.
LEMMA BackupInvariant == BackupFaults => (Spec => [](Types /\ BackupInv))
<1> SUFFICES ASSUME BackupFaults PROVE Spec => [](Types /\ BackupInv)
  OBVIOUS
<1>1. Init => Types /\ BackupInv
  <2> SUFFICES ASSUME Init PROVE BackupInv
    BY FilesInit
  <2>1. stack = << >> /\ ~Running /\ Shape
    BY FilesInit DEF Init, Running
  <2> QED
    BY <2>1 DEF Init, BackupInv, NewApart, Phases, Abandoning, Backup, Main,
                MainWrites
<1>2. Types /\ BackupInv /\ [Next]_vars => (Types /\ BackupInv)'
  <2>1. ASSUME Types, BackupInv, UNCHANGED vars PROVE Types' /\ BackupInv'
    <3>1. Types' /\ Shape'
      BY <2>1, FilesStep DEF BackupInv
    <3> QED
      BY <2>1, <3>1
         DEF BackupInv, NewApart, Phases, Abandoning, Backup, InOld, InName,
             Main, MainWrites, Moved, Running, vars, diskVars, bitVars, history
  <2>2. ASSUME Types, BackupInv, Next PROVE Types' /\ BackupInv'
    <3>1. Types' /\ Shape'
      BY <2>2, FilesStep DEF BackupInv
    <3> QED
      BY <2>2, <3>1, NewApartStep, PhasesStep, AbandoningStep, BackupStep
         DEF BackupInv
  <2> QED
    BY <2>1, <2>2
<1> QED
  BY <1>1, <1>2, PTL DEF Spec

\* What open_newsrc found is, from then until the next open_newsrc, in full
\* under NAME.old or NAME, however often trn is signalled, stopped and killed in
\* between, for any number of versions and inodes.
THEOREM BackupIsNeverLost == BackupFaults => (Spec => []BackupSurvives)
<1> SUFFICES ASSUME BackupFaults PROVE Spec => []BackupSurvives
  OBVIOUS
<1>1. Types /\ BackupInv => BackupSurvives
  <2> SUFFICES ASSUME BackupInv, opened \in Version
               PROVE  \E i \in {name, oldname} : i # NoFile /\ content[i] = opened
    BY DEF BackupSurvives
  <2>1. opened # Absent
    BY FilesAssumption DEF Version, Absent
  <2> QED
    BY <2>1 DEF BackupInv, Backup, InOld, InName
<1> QED
  BY <1>1, BackupInvariant, PTL

=============================================================================
