------------------------------ MODULE GroupBits ------------------------------
(***************************************************************************)
(* Which articles of which newsgroups have been read: the lines of the     *)
(* newsrcs, the bits of the articles of the open group, and the marks that *)
(* travel between groups along cross references.  src/bits.cpp,            *)
(* src/rcln.cpp, access_ng, getngsize and grow_ng of src/ngdata.cpp and    *)
(* the parts of src/ng.cpp and src/rcstuff.cpp that call them.             *)
(*                                                                         *)
(* The server carries posts, each to some groups, and numbers them in each *)
(* group as they arrive.  The data source is remote, with an overview that *)
(* tells of every article it has, and of its Xref.                         *)
(***************************************************************************)
EXTENDS RcLine

CONSTANTS
  Group,
  NoGroup,   \* not a group: none is open, or none is in the cache
  Posts,     \* Posts[i]: the groups to which the i-th post is posted
  Rc,        \* the newsrcs of the multirc
  RcOf,      \* the newsrc each group is in
  Env        \* what the surroundings and the user may do, see EnvOptions

\* "key": a key is pressed while cross references are chased in the background;
\* "expire": posts go away also while a group is open;
\* "remove": the server gives up a group;
\* "hangup": a signal makes sig_catcher end trn while a group is open;
\* "unmark": the user marks articles unread, or to return later;
\* "unsubscribe": the user unsubscribes groups, and subscribes them again.
EnvOptions == {"key", "expire", "remove", "hangup", "unmark", "unsubscribe"}

ASSUME GroupAssumption ==
  /\ IsFiniteSet(Group)
  /\ NoGroup \notin Group
  /\ Posts \in Seq(SUBSET Group)
  /\ RcOf \in [Group -> Rc]
  /\ Env \subseteq EnvOptions

TR_NONE  == 0
TR_UNSUB == -1
TR_BOGUS == -3

VARIABLES
  arrived,      \* the server: how many posts have arrived,
  gone,         \*   which of them are expired or cancelled,
  carried,      \*   which groups it carries
  ng,           \* the NGDATA of each group
  file,         \* the line of each group as the newsrc on disk has it
  changed,      \* the newsrcs with RF_RCCHANGED
  pc,           \* "prompt", or in a group: "read", "chase", "leave"
  cur,          \* g_ngptr, while g_doing_ng
  cached_ng,    \* the group whose articles the cache holds
  absfirst, lastart, firstart,  \* g_absfirst, g_lastart, g_firstart
  exists, unread, yank, kchase, \* articles with AF_EXISTS, AF_UNREAD,
                                \*   AF_YANKBACK, AF_KCHASE
  chase_count,  \* s_chase_count
  keyed,        \* history: a key ended a walk over the articles in the cache
  marked,       \* history: crossposted articles marked read in the open group
  returned      \* history: articles marked unread again, and not read since

server == <<arrived, gone, carried>>
newsrc == <<ng, file, changed>>
range  == <<absfirst, lastart>>
bits   == <<firstart, exists, unread, yank>>
chase  == <<kchase, chase_count, keyed>>
marks  == <<marked, returned>>
vars   == <<server, newsrc, pc, cur, cached_ng, range, bits, chase, marks>>

-----------------------------------------------------------------------------
(* The server.                                                             *)

Number(g, i) == Cardinality({j \in 1 .. i : g \in Posts[j]})
High(g)      == Number(g, arrived)
PostOf(g, n) == CHOOSE i \in DOMAIN Posts : g \in Posts[i] /\ Number(g, i) = n
There(g)     == {n \in 1 .. High(g) : PostOf(g, n) \notin gone}
Low(g)       == Min(There(g) \cup {High(g) + 1})

\* The other groups of an article, and its number there.  ap->xrefs is empty
\* if there are none.
Xrefs(g, n) ==
  LET i == PostOf(g, n) IN [h \in Posts[i] \ {g} |-> Number(h, i)]

Crossposted(g, n) == DOMAIN Xrefs(g, n) # {}

Arrive ==
  /\ arrived < Len(Posts)
  /\ arrived' = arrived + 1
  /\ UNCHANGED <<gone, carried, newsrc, pc, cur, cached_ng, range, bits, chase, marks>>

Expire ==
  /\ cur = NoGroup \/ "expire" \in Env
  /\ \E i \in 1 .. arrived : gone' = gone \cup {i}
  /\ UNCHANGED <<arrived, carried, newsrc, pc, cur, cached_ng, range, bits, chase, marks>>

Remove ==
  /\ "remove" \in Env
  /\ \E g \in carried \ {cur} : carried' = carried \ {g}
  /\ UNCHANGED <<arrived, gone, newsrc, pc, cur, cached_ng, range, bits, chase, marks>>

-----------------------------------------------------------------------------
(* Operations on the NGDATA np of a group g.                               *)

\* getngsize, for a group the server carries.
GetNgSize(g, np) ==
  [np EXCEPT !.abs1st = IF @ = 0 THEN Low(g) ELSE @,
             !.ngmax  = IF High(g) <= @ THEN @ ELSE High(g)]

\* A virgin group, whose size nobody has asked for, is first rid of what has
\* expired.
SetToread(g, np, lax) ==
  LET sized  == GetNgSize(g, np)
      line   == IF np.abs1st = 0 /\ np.line # <<RangeOf(1, sized.ngmax)>>
                THEN CheckExpired(np.line, sized.abs1st) ELSE np.line
      count  == Count(line, sized.ngmax, lax)
      reset  == count.unread < 0
  IN IF g \notin carried
     THEN [np EXCEPT !.sub = FALSE, !.toread = TR_BOGUS]
     ELSE [sized EXCEPT
             !.ngmax  = count.ngsize,
             !.line   = IF reset THEN <<>> ELSE line,
             !.toread = IF ~np.sub THEN TR_UNSUB
                        ELSE IF reset THEN count.ngsize ELSE count.unread]

Trimmed(g, np) == IF np.abs1st = 0 THEN SetToread(g, np, TRUE) ELSE np

\* (mutant) An article that came after the group was counted is not marked.
AddArtnumKnown(g, np, artnum) ==
  LET np1 == Trimmed(g, np)
  IN IF np1.toread = TR_BOGUS \/ artnum > np1.ngmax \/ InPassed(np1.line, artnum)
     THEN np1
     ELSE [np1 EXCEPT !.line   = InsertNum(@, artnum),
                      !.toread = IF @ > TR_NONE THEN @ - 1 ELSE @]

AddArtnum(g, np, artnum) ==
  LET np1 == Trimmed(g, np)
      np2 == IF artnum > np1.ngmax
             THEN [np1 EXCEPT !.toread = IF @ > TR_NONE THEN @ + artnum - np1.ngmax
                                         ELSE @,
                              !.ngmax = artnum]
             ELSE np1
  IN IF np1.toread = TR_BOGUS THEN np1
     ELSE IF InPassed(np2.line, artnum) THEN np2
     ELSE [np2 EXCEPT !.line   = InsertNum(@, artnum),
                      !.toread = IF @ > TR_NONE THEN @ - 1 ELSE @]

\* catch_up of a group that is not open; leave_count articles stay unread.
CaughtUp(g, np, leave_count) ==
  LET sized == GetNgSize(g, np)
  IN IF leave_count > 0
     THEN SetToread(g, [sized EXCEPT
            !.line = CheckExpired(@, sized.ngmax - leave_count + 1)], FALSE)
     ELSE [sized EXCEPT !.line = <<RangeOf(1, sized.ngmax)>>, !.toread = TR_NONE]

\* (mutant) RF_RCCHANGED is left to the callers.
FlaggedByCallers(g, np) == changed

\* RF_RCCHANGED is set where a line is trimmed or wiped, and where a bogus
\* group is unsubscribed.
Flagged(g, np) ==
  changed \cup (IF np.line # ng[g].line \/ np.sub # ng[g].sub
                THEN {RcOf[g]} ELSE {})

Saved(np) == [line |-> np.line, sub |-> np.sub]

\* write_newsrcs: the newsrcs with the flag are written.
WriteNewsrcs(data, flagged) ==
  /\ file' = [g \in Group |-> IF RcOf[g] \in flagged THEN Saved(data[g]) ELSE file[g]]
  /\ changed' = {}
-----------------------------------------------------------------------------
(* At the prompt, no group is open.                                        *)

AtPrompt == pc = "prompt"

\* One group's data, and nothing else, has changed.
Update(g, np, flagged) ==
  /\ ng' = [ng EXCEPT ![g] = np]
  /\ changed' = flagged

\* set_toread at the prompts: strict when the user goes to a group by name,
\* lax elsewhere.
Recount(g) ==
  /\ AtPrompt
  /\ ng[g].toread # TR_BOGUS
  /\ \E lax \in BOOLEAN :
       LET np == SetToread(g, ng[g], lax) IN Update(g, np, Flagged(g, np))
  /\ UNCHANGED <<server, file, pc, cur, cached_ng, range, bits, chase, marks>>

\* `c'.  Only the prompt, where the group has been counted, asks how many to
\* leave.  A group that has gone from the server since is left out: its line
\* would get a range up to a negative number.
CatchUp(g) ==
  /\ AtPrompt
  /\ g \in carried /\ ng[g].toread >= TR_NONE
  /\ \E leave_count \in IF ng[g].abs1st = 0 THEN {0} ELSE 0 .. 1 :
       LET np   == CaughtUp(g, ng[g], leave_count)
           data == [ng EXCEPT ![g] = np]
       IN ng' = data /\ WriteNewsrcs(data, changed \cup {RcOf[g]})
  /\ UNCHANGED <<server, pc, cur, cached_ng, range, bits, chase, marks>>

\* `u'.
Unsubscribe(g) ==
  /\ "unsubscribe" \in Env
  /\ AtPrompt
  /\ ng[g].toread >= TR_NONE
  /\ Update(g, [ng[g] EXCEPT !.sub = FALSE, !.toread = TR_UNSUB],
            changed \cup {RcOf[g]})
  /\ UNCHANGED <<server, file, pc, cur, cached_ng, range, bits, chase, marks>>

\* get_ng, when the user wants the group back.
Resubscribe(g) ==
  /\ "unsubscribe" \in Env
  /\ AtPrompt
  /\ ~ng[g].sub /\ ng[g].toread # TR_BOGUS
  /\ Update(g, SetToread(g, [ng[g] EXCEPT !.sub = TRUE], FALSE),
            changed \cup {RcOf[g]})
  /\ UNCHANGED <<server, file, pc, cur, cached_ng, range, bits, chase, marks>>

\* nntp_group: what the server answers to GROUP.
NntpGroup(g, np) ==
  IF There(g) = {} THEN [np EXCEPT !.abs1st = np.ngmax + 1]
  ELSE [np EXCEPT !.abs1st = Low(g), !.ngmax = High(g)]

\* access_ng with build_cache.  The cache of the group that was open last may
\* still be good: then only articles past its end are new.
Enter(g) ==
  /\ AtPrompt
  /\ g \in carried /\ ng[g].sub /\ ng[g].toread # TR_BOGUS
  /\ LET sized == GetNgSize(g, NntpGroup(g, ng[g]))
         first == sized.abs1st
         last  == sized.ngmax
         line  == IF first > ng[g].abs1st THEN CheckExpired(ng[g].line, first)
                  ELSE ng[g].line
     IN \E kept \in IF cached_ng = g THEN BOOLEAN ELSE {FALSE} :
          /\ exists' = IF kept
                       THEN exists \cup {n \in There(g) : n \in lastart + 1 .. last}
                       ELSE {n \in There(g) : n \in first .. last}
          /\ kchase' = IF kept THEN kchase ELSE {}
          /\ keyed' = (kept /\ keyed)
          /\ absfirst' = first
          /\ lastart' = last
          /\ firstart' = Firstart(line, first)
          /\ unread' = LineToBits(line, first, last, exists')
          /\ Update(g, [sized EXCEPT !.line = line, !.toread = Cardinality(unread')],
                    changed \cup {RcOf[g]})
  /\ cur' = g
  /\ cached_ng' = g
  /\ pc' = "read"
  /\ UNCHANGED <<server, file, yank, chase_count, marks>>

\* access_ng of a group that the server does not carry any more.
EnterBogus(g) ==
  /\ AtPrompt
  /\ g \notin carried /\ ng[g].sub /\ ng[g].toread # TR_BOGUS
  /\ Update(g, [ng[g] EXCEPT !.toread = TR_BOGUS], changed)
  /\ UNCHANGED <<server, file, pc, cur, cached_ng, range, bits, chase, marks>>

\* trn ends, and another one reads the newsrcs (open_newsrc).
Restart(lines) ==
  /\ ng' = [g \in Group |-> [line |-> lines[g].line, sub |-> lines[g].sub,
                             toread |-> IF lines[g].sub THEN TR_NONE ELSE TR_UNSUB,
                             abs1st |-> 0, ngmax |-> 0]]
  /\ pc' = "prompt"
  /\ cur' = NoGroup
  /\ cached_ng' = NoGroup
  /\ absfirst' = 1 /\ lastart' = 0 /\ firstart' = 1
  /\ exists' = {} /\ unread' = {} /\ yank' = {}
  /\ kchase' = {} /\ chase_count' = 0 /\ keyed' = FALSE
  /\ marked' = {} /\ returned' = {}
  /\ UNCHANGED server

Quit ==
  /\ AtPrompt
  /\ WriteNewsrcs(ng, changed)
  /\ Restart(file')

-----------------------------------------------------------------------------
(* In a group.  Commands act on articles that exist.                       *)

Reading == pc = "read"

MoreAlways(N) == [ng EXCEPT ![cur].toread = @ + Cardinality(N)]

\* oneless and onemore, as they count the articles of the open group.
Less(N) == [ng EXCEPT ![cur].toread = IF @ > TR_NONE THEN @ - Cardinality(N \cap unread) ELSE @]

More(N) == [ng EXCEPT ![cur].toread = @ + Cardinality(N \ unread)]

\* set_read and mark_as_read.
SetRead(n) ==
  /\ unread' = unread \ {n}
  /\ ng' = Less({n})
  /\ LET new == IF Crossposted(cur, n) THEN {n} \ kchase ELSE {}
     IN /\ kchase' = kchase \cup new
        /\ chase_count' = chase_count + Cardinality(new)
        /\ UNCHANGED keyed
  /\ marked' = IF Crossposted(cur, n) THEN marked \cup {n} ELSE marked
  /\ returned' = returned \ {n}

\* An article is displayed, junked or killed.
MarkAsRead ==
  /\ Reading
  /\ \E n \in exists \cap (absfirst .. lastart) : SetRead(n)
  /\ UNCHANGED <<server, file, changed, pc, cur, cached_ng, range, firstart,
                 exists, yank>>

\* The thread commands that mark to return: delay_unmark and set_read.
ReturnLater ==
  /\ "unmark" \in Env
  /\ Reading
  /\ \E n \in exists \cap (absfirst .. lastart) : SetRead(n) /\ yank' = yank \cup {n}
  /\ UNCHANGED <<server, file, changed, pc, cur, cached_ng, range, firstart, exists>>

\* `M': delay_unmark and oneless.
WillReturn ==
  /\ "unmark" \in Env
  /\ Reading
  /\ \E n \in exists \cap (absfirst .. lastart) :
       /\ yank' = yank \cup {n}
       /\ unread' = unread \ {n}
       /\ ng' = Less({n})
       /\ returned' = returned \ {n}
  /\ UNCHANGED <<server, file, changed, pc, cur, cached_ng, range, firstart,
                 exists, chase, marked>>

CheckFirst(N) == Min({IF n < absfirst THEN absfirst ELSE n : n \in N} \cup {firstart})

\* `m': onemore.
UnmarkAsRead ==
  /\ "unmark" \in Env
  /\ Reading
  /\ \E n \in exists \cap (absfirst .. lastart) :
       /\ unread' = unread \cup {n}
       /\ firstart' = IF n \in unread THEN firstart ELSE CheckFirst({n})
       /\ ng' = More({n})
       /\ returned' = returned \cup {n}
  /\ UNCHANGED <<server, file, changed, pc, cur, cached_ng, range, exists, yank,
                 chase, marked>>

\* `Y'.
Yankback ==
  /\ Reading
  /\ yank # {}
  /\ unread' = unread \cup yank
  /\ firstart' = CheckFirst(yank \ unread)
  /\ ng' = More(yank)
  /\ yank' = {}
  /\ returned' = returned \cup yank
  /\ UNCHANGED <<server, file, changed, pc, cur, cached_ng, range, exists, chase, marked>>

\* An article turns out to be missing: onemissing.
SkipMissing ==
  /\ Reading
  /\ \E n \in exists \ There(cur) :
       /\ exists' = exists \ {n}
       /\ unread' = unread \ {n}
       /\ yank' = yank \ {n}
       /\ ng' = Less({n})
       /\ returned' = returned \ {n}
  /\ UNCHANGED <<server, file, changed, pc, cur, cached_ng, range, firstart,
                 chase, marked>>

\* count_subjects, which also finds the first unread article.
CountSubjects(N, last) == Min(N \cup {last + 1})

\* `c' in the group: mark_all_READ, and then a count, or a yankback.
CatchUpHere ==
  /\ Reading
  /\ \E leave_unread \in 0 .. 1 :
       LET left == {n \in unread : n > lastart - leave_unread}
       IN IF leave_unread > 0
          THEN /\ unread' = left
               /\ firstart' = CountSubjects(left, lastart)
               /\ ng' = [ng EXCEPT ![cur].toread = Cardinality(left)]
               /\ returned' = returned \cap left
               /\ UNCHANGED yank
          ELSE /\ unread' = yank
               /\ firstart' = CheckFirst(yank)
               /\ ng' = [ng EXCEPT ![cur].toread = Cardinality(yank)]
               /\ yank' = {}
               /\ returned' = yank
  /\ UNCHANGED <<server, file, changed, pc, cur, cached_ng, range, exists, chase, marked>>

\* The end of the group is reached: grow_ng takes in what has arrived, and,
\* unless the reader goes on with that, the unread articles are counted.
EndOfGroup ==
  /\ Reading
  /\ LET np    == NntpGroup(cur, ng[cur])
         last  == IF np.ngmax > lastart THEN np.ngmax ELSE lastart
         grown == {n \in There(cur) : n \in lastart + 1 .. last}
         left  == unread \cup grown
     IN /\ lastart' = last
        /\ exists' = exists \cup grown
        /\ unread' = left
        /\ \/ /\ ng' = [ng EXCEPT ![cur] =
                          [np EXCEPT !.toread = Cardinality(left)]]
              /\ firstart' = CountSubjects(left, last)
           \/ /\ last > lastart
              /\ ng' = [ng EXCEPT ![cur] =
                          [np EXCEPT !.toread = @ + Cardinality(grown)]]
              /\ UNCHANGED firstart
  /\ UNCHANGED <<server, file, changed, pc, cur, cached_ng, absfirst, yank, chase, marks>>

\* bits_to_rc, with N unread.
BitsToRc(N) ==
  [ng EXCEPT ![cur].line   = BitsToLine(absfirst, lastart, N),
             ![cur].toread = IF ng[cur].sub THEN Cardinality(N) ELSE TR_UNSUB]

\* checkpoint_newsrcs: articles to return count as read.
Checkpoint ==
  /\ Reading
  /\ ng' = BitsToRc(unread)
  /\ WriteNewsrcs(ng', changed \cup {RcOf[cur]})
  /\ UNCHANGED <<server, pc, cur, cached_ng, range, bits, chase, marks>>

-----------------------------------------------------------------------------
(* Cross references.                                                       *)

\* chase_xrefs while no key is waiting.
ChaseInBackground ==
  /\ Reading
  /\ chase_count > 0
  /\ pc' = "chase"
  /\ UNCHANGED <<server, newsrc, cur, cached_ng, range, bits, chase, marks>>

\* check_chase with chase_xref, for the next article that has AF_KCHASE.
\* Its number in this group is in the Xref too, and becomes read (oneless).
\* addartnum does not set RF_RCCHANGED; set_toread, when it is called, may.
ChaseArticle ==
  /\ pc \in {"chase", "leave"}
  /\ chase_count > 0
  /\ LET n     == Min(kchase)
         xrefs == Xrefs(cur, n)
         less  == Less({n})
     IN /\ ng' = [g \in Group |->
                    IF g \in DOMAIN xrefs THEN AddArtnum(g, ng[g], xrefs[g])
                    ELSE IF n \in absfirst .. lastart THEN less[g] ELSE ng[g]]
        /\ changed' = UNION ({changed} \cup
                        {Flagged(g, Trimmed(g, ng[g])) : g \in DOMAIN xrefs})
        /\ unread' = IF n \in absfirst .. lastart THEN unread \ {n} ELSE unread
        /\ kchase' = kchase \ {n}
  /\ chase_count' = chase_count - 1
  /\ pc' = IF pc = "chase" /\ chase_count = 1 THEN "read" ELSE pc
  /\ UNCHANGED <<server, file, cur, cached_ng, range, firstart, exists, yank, keyed, marks>>

\* A key ends the walk, and s_chase_count is cleared.
KeyPressed ==
  /\ "key" \in Env
  /\ pc = "chase"
  /\ chase_count' = 0
  /\ keyed' = TRUE
  /\ pc' = "read"
  /\ UNCHANGED <<server, newsrc, cur, cached_ng, range, bits, kchase, marks>>

-----------------------------------------------------------------------------
(* The way out of a group (the label cleanup of do_newsgroup).             *)

\* `q' or `u': first chase_xrefs, not to be interrupted.
Leave ==
  /\ Reading
  /\ pc' = "leave"
  /\ \E sub \in {TRUE} \cup (IF "unsubscribe" \in Env THEN {FALSE} ELSE {}) :
       Update(cur, [ng[cur] EXCEPT !.sub = sub],
              IF sub THEN changed ELSE changed \cup {RcOf[cur]})
  /\ UNCHANGED <<server, file, cur, cached_ng, range, bits, chase, marks>>

\* (mutant) No yankback.
CloseGroupDelayed ==
  /\ pc = "leave"
  /\ chase_count = 0
  /\ ng' = BitsToRc(unread)
  /\ WriteNewsrcs(ng', changed \cup {RcOf[cur]})
  /\ pc' = "prompt"
  /\ cur' = NoGroup
  /\ unread' = {} /\ yank' = {}
  /\ marked' = {} /\ returned' = {}
  /\ UNCHANGED <<server, cached_ng, range, firstart, exists, chase>>

\* Then yankback, bits_to_rc and write_newsrcs.
CloseGroup ==
  /\ pc = "leave"
  /\ chase_count = 0
  /\ ng' = BitsToRc(unread \cup yank)
  /\ WriteNewsrcs(ng', changed \cup {RcOf[cur]})
  /\ pc' = "prompt"
  /\ cur' = NoGroup
  /\ unread' = {} /\ yank' = {}
  /\ marked' = {} /\ returned' = {}
  /\ UNCHANGED <<server, cached_ng, range, firstart, exists, chase>>

\* sig_catcher: yankback, bits_to_rc, write_newsrcs, but no chase_xrefs.
Hangup ==
  /\ "hangup" \in Env
  /\ cur # NoGroup
  /\ WriteNewsrcs(BitsToRc(unread \cup yank), changed \cup {RcOf[cur]})
  /\ Restart(file')

-----------------------------------------------------------------------------
(* At first the newsrcs are new: their groups have empty lines.            *)

Init ==
  /\ arrived = 0 /\ gone = {} /\ carried = Group
  /\ file = [g \in Group |-> [line |-> <<>>, sub |-> TRUE]]
  /\ ng = [g \in Group |-> [line |-> <<>>, sub |-> TRUE, toread |-> TR_NONE,
                            abs1st |-> 0, ngmax |-> 0]]
  /\ changed = {}
  /\ pc = "prompt" /\ cur = NoGroup /\ cached_ng = NoGroup
  /\ absfirst = 1 /\ lastart = 0 /\ firstart = 1
  /\ exists = {} /\ unread = {} /\ yank = {}
  /\ kchase = {} /\ chase_count = 0 /\ keyed = FALSE
  /\ marked = {} /\ returned = {}

ServerNext == Arrive \/ Expire \/ Remove

PromptNext ==
  \/ Quit
  \/ \E g \in Group : Recount(g) \/ CatchUp(g) \/ Unsubscribe(g)
                      \/ Resubscribe(g) \/ Enter(g) \/ EnterBogus(g)

GroupNext ==
  \/ MarkAsRead \/ ReturnLater \/ WillReturn \/ UnmarkAsRead \/ Yankback
  \/ SkipMissing \/ CatchUpHere \/ EndOfGroup \/ Checkpoint
  \/ ChaseInBackground \/ ChaseArticle \/ KeyPressed
  \/ Leave \/ CloseGroup \/ Hangup

Next == ServerNext \/ PromptNext \/ GroupNext

Spec == Init /\ [][Next]_vars

-----------------------------------------------------------------------------
(* Types.                                                                  *)

\* Every variable keeps its type.  A line only has items that the code can
\* have written; the sets of articles are finite, and counted ones exist.
TypeOK ==
  /\ arrived \in 0 .. Len(Posts)
  /\ gone \subseteq 1 .. arrived
  /\ carried \subseteq Group
  /\ \A g \in Group :
       /\ DOMAIN ng[g] = {"line", "sub", "toread", "abs1st", "ngmax"}
       /\ \A i \in DOMAIN ng[g].line : ng[g].line[i] \in Item(1 .. Len(Posts))
       /\ ng[g].sub \in BOOLEAN
       /\ ng[g].toread \in {TR_BOGUS, TR_UNSUB} \cup 0 .. Len(Posts)
       /\ ng[g].abs1st \in 0 .. Len(Posts) + 1
       /\ ng[g].ngmax \in 0 .. Len(Posts)
  /\ DOMAIN file = Group
  /\ changed \subseteq Rc
  /\ pc \in {"prompt", "read", "chase", "leave"}
  /\ cur \in Group \cup {NoGroup} /\ (cur = NoGroup <=> pc = "prompt")
  /\ cached_ng \in Group \cup {NoGroup}
  /\ {absfirst, firstart} \subseteq 1 .. Len(Posts) + 1
  /\ lastart \in 0 .. Len(Posts)
  /\ unread \cup yank \subseteq exists
  /\ exists \cup kchase \subseteq 1 .. lastart
  /\ chase_count \in 0 .. Cardinality(kchase)
  /\ keyed \in BOOLEAN /\ (~keyed => chase_count = Cardinality(kchase))
-----------------------------------------------------------------------------
(* Properties.                                                             *)

\* The numbers of a line are ascending, and no article is on it twice,
\* whatever order single articles, ranges and expired ones were added in:
\* addartnum, checkexpired and set_toread all stop at the first number that is
\* too large.
LineInOrder ==
  \A g \in Group :
    LET line == ng[g].line
    IN \A i \in DOMAIN line :
         /\ line[i].min <= line[i].max \/ (i = 1 /\ line[i] = RangeOf(1, 0))
         /\ i > 1 => line[i - 1].max < line[i].min

\* While a group is open, its toread is the number of its unread articles,
\* although oneless, onemore, grow_ng, catch_up, yankback and onemissing each
\* keep their own account of it.
ToreadCounts == cur # NoGroup => ng[cur].toread = Cardinality(unread)

\* g_firstart stays at or before the first unread article; chase_xrefs,
\* yankback and kill files begin there.
FirstartFirst == cur # NoGroup => \A n \in unread : firstart <= n

\* The two numbers that the open group's articles are found by: they are kept up to
\* date mark by mark, and never counted again while the group is read.
CountsKept == ToreadCounts /\ FirstartFirst

\* When no group is open, a line that differs from the one on disk has
\* RF_RCCHANGED set for its newsrc: otherwise write_newsrcs passes it over.
ChangesAreFlagged ==
  cur = NoGroup => \A g \in Group :
    RcOf[g] \notin changed => file[g] = Saved(ng[g])

\* Entering a group, rc_to_bits makes unread what exists and the line does not
\* mark as read, no more and no less.  Left out is a line with an item, behind
\* its first range, that begins before g_firstart: those that are left when
\* articles expire while the group is open are read as other numbers.
BitsFitLine ==
  [][LET line == ng'[cur'].line
     IN cur = NoGroup /\ cur' # NoGroup
        /\ (\A i \in DOMAIN line : line[i].min >= firstart' \/ (i = 1 /\ HasHead(line)))
        => unread' = {n \in exists' : n \in absfirst' .. lastart'} \ Read(line)]_vars

\* A line only loses a number when the user marks it as unread again in the
\* open group, or when set_toread takes the group to be reset and wipes the line.
ReadOnlyGrows ==
  [][\A g \in Group :
       \/ Read(ng[g].line) \ Read(ng'[g].line)
            \subseteq IF g = cur THEN returned \cup yank ELSE {}
       \/ ng'[g].line = <<>> /\ ng'[g].abs1st # 0
       \/ Trimmed(g, ng[g]).line = <<>>]_vars

\* No article that the server still has becomes read behind the user's back:
\* what a line gains by trimming, counting, checkpoints and leaving is expired
\* or was read in the open group.
NothingSkipped ==
  [][\A g \in Group :
       \/ CatchUp(g) \/ ChaseArticle
       \/ (Read(ng'[g].line) \ Read(ng[g].line)) \cap There(g)
            \subseteq IF g = cur THEN exists \ unread ELSE {}]_vars

\* What is read stays read and what is unread stays unread, however the lines are
\* trimmed, counted, wiped, written and read again.
OnlyMarksCount == ReadOnlyGrows /\ NothingSkipped

\* The article n of the open group is marked read, as the step ends, in all the
\* groups it was posted to.
Chased(n) ==
  \A h \in DOMAIN Xrefs(cur, n) :
    ng'[h].toread # TR_BOGUS => Xrefs(cur, n)[h] \in Read(ng'[h].line)

\* When the user leaves a group, each article read in it has been marked read
\* in the other groups it was posted to.
ChasedOnLeave == [][CloseGroup => \A n \in marked : Chased(n)]_vars

\* The same, if no key has ended a walk over the cross references; otherwise
\* the articles that were left out still have AF_KCHASE.
ChasedUnlessKey ==
  [][CloseGroup => \A n \in marked : Chased(n) \/ (keyed /\ n \in kchase)]_vars

\* What the user has marked as still unread, or to return, and not read again
\* since, is unread when the group has been left.  Left out are articles that
\* other groups have too: chase_xref marks them again, in the open group as well.
ReturnedStay ==
  [][CloseGroup => \A n \in returned \cup yank :
       n \notin Read(ng'[cur].line) \/ Crossposted(cur, n)]_vars

\* set_toread gives the number of articles up to ngmax which the line leaves
\* unread.
RecountIsRight ==
  [][\A g \in Group : Recount(g) /\ ng[g].sub /\ g \in carried =>
       ng'[g].toread = Cardinality((1 .. ng'[g].ngmax)
                         \ (Read(ng[g].line) \cup Read(ng'[g].line)))]_vars

\* A cross reference marks its number in the other group and no more, wherever
\* among the items of the line it falls.  Left out is the line `1-0'.
ChaseMarksOne ==
  [][ChaseArticle => \A g \in DOMAIN Xrefs(cur, Min(kchase)) :
       LET trimmed == Trimmed(g, ng[g])
       IN trimmed.toread # TR_BOGUS /\ trimmed.line # <<RangeOf(1, 0)>>
            => Read(ng'[g].line)
                 = Read(trimmed.line) \cup {Xrefs(cur, Min(kchase))[g]}]_vars

\* Cross references are followed to the end, and no further.
XrefsChased == ChasedUnlessKey /\ ChaseMarksOne

=============================================================================
