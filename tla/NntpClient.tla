------------------------------ MODULE NntpClient ------------------------------
(***************************************************************************)
(* The NNTP client: commands and answers on the one link in use, the body  *)
(* of an article that is received while it is read, lost connections, and  *)
(* the links of several data sources (nntp.cpp, nntpclient.cpp,            *)
(* nntpauth.cpp, nntpinit.cpp, datasrc.cpp, artio.cpp, head.cpp,           *)
(* rt-ov.cpp).                                                             *)
(*                                                                         *)
(* The protocol has no message identifiers: what is read next is taken as  *)
(* the answer to what was written last.  NEW_CMD_OK says whether the rest  *)
(* of a list or of a body is still to be read; g_nntplink is the link of   *)
(* the data source in use, and a copy of it is kept in each source; the    *)
(* body, g_ser_line and the reconnecting are statics that all links share. *)
(*                                                                         *)
(* An action is what happens between two keystrokes; it may exchange many  *)
(* lines, so a function of the code is an operator from a world to the set *)
(* of its outcomes [r |-> the value returned, x |-> the world].  Lines are *)
(* read whole: neither the splitting of long ones in nntp_gets nor the     *)
(* "\r" that NNTPConnection leaves at the end of a line is in the model.   *)
(***************************************************************************)
EXTENDS Integers, FiniteSets, FiniteSetsExt, SequencesExt

CONSTANTS
    Home,        \* the source of the group that is read
    Others,      \* the other data sources
    Groups,      \* the groups of Home
    Carried,     \* the groups that each source has
    Articles,    \* the articles that a group is thought to have
    Held,        \* the articles that the server has
    HeadLen,     \* how many lines a header has
    BodyLen,     \* how many lines a body has
    Slots,       \* MAX_NNTP_ARTICLES, the files that bodies are kept in
    ListAct,     \* the sources whose groups are looked up one at a time (DF_USELISTACT)
    AuthNeeded,  \* the sources whose server wants a name and a password
    ForceAuth,   \* the sources configured to give them first (NNTP_FORCE_AUTH_NEEDED)
    LostSignon,  \* whether a connection may be lost before the server's greeting is read
    HalfTyped,   \* whether a command is left half typed until the link in use has been idle too long
    MaxFaults    \* the bound of the model: how many connections are lost or refused

Sources == {Home} \cup Others
None == "none"

NntpAssumption ==
    /\ Home \notin Others
    /\ Held \subseteq Articles /\ Articles \subseteq Nat \ {0}
    /\ \A n \in {HeadLen, BodyLen, Slots} : n \in Nat \ {0}

VARIABLE w   \* trn's statics and, in w.net, the servers

----------------------------------------------------------------------------
(* Commands and the lines that answer them.                                *)

Ask(op, g, n) == [op |-> op, g |-> g, n |-> n]
Status(c, code, g) == [of |-> c, what |-> "status", code |-> code, k |-> 0, g |-> g]
Data(c, k, g) == [of |-> c, what |-> "data", code |-> 0, k |-> k, g |-> g]
End(c, g) == [of |-> c, what |-> "end", code |-> 0, k |-> 0, g |-> g]

Nothing == Ask(None, None, 0)
Signon == Ask("signon", None, 0)
Closed == Status(Nothing, 503, None)     \* "503 Server closed connection."

\* An article: its header, the empty line, and its body.
Whole == HeadLen + 1 + BodyLen
Article(n, g) == [k \in 1..Whole |-> [art |-> n, k |-> k, g |-> g]]

List(c, code, ks, g) == <<Status(c, code, g)>> \o [i \in DOMAIN ks |-> Data(c, ks[i], g)] \o <<End(c, g)>>
Numbers(X) == SetToSortSeq(X, <)

\* What the server of s says to c.
Reply(s, n, c) ==
    LET only(code) == <<Status(c, code, n.group)>>
        lines(code, ks) == List(c, code, ks, n.group)
    IN CASE c.op = "mode" -> only(200)
         [] c.op = "quit" -> only(205)
         [] c.op = "user" -> only(381)
         [] c.op = "pass" -> only(281)
         [] c.op \notin {"mode", "quit", "user", "pass"} /\ s \in AuthNeeded /\ ~n.authed -> only(480)
         [] OTHER ->
            CASE c.op = "group" -> IF c.g \in Carried[s] THEN only(211) ELSE only(411)
              [] c.op = "date" -> only(111)
              [] c.op = "newgroups" -> lines(231, <<1>>)
              [] c.op = "list" -> lines(215, IF c.g \in Carried[s] THEN <<1>> ELSE <<>>)
              [] c.op = "xgtitle" -> lines(282, IF c.g \in Carried[s] THEN <<1>> ELSE <<>>)
              [] c.op \in {"head", "article", "body", "xover", "xhdr", "listgroup", "stat", "next"}
                 /\ n.group = None -> only(412)
              [] OTHER ->
                 CASE c.op \in {"head", "article", "body"} /\ c.n \notin Held -> only(423)
                   [] c.op = "head" -> lines(221, [k \in 1..HeadLen |-> k])
                   [] c.op = "article" -> lines(220, [k \in 1..Whole |-> k])
                   [] c.op = "body" -> lines(222, [k \in 1..BodyLen |-> HeadLen + 1 + k])
                   [] c.op = "stat" -> IF c.n \in Held THEN only(223) ELSE only(423)
                   [] c.op = "next" -> only(421)
                   [] c.op \in {"xover", "xhdr"} -> lines(224, Numbers(Held))
                   [] c.op = "listgroup" -> lines(211, Numbers(Held))

\* The server reads c: its answer is on the way, or the connection is lost with part of it.
Answered(x, s, c, says) ==
    LET m == [x.net[s] EXCEPT !.group = IF c.op = "group" /\ says[1].code = 211 THEN c.g ELSE @,
                       !.authed = @ \/ c.op = "pass",
                       !.up = c.op # "quit"]
    IN {[x EXCEPT !.net[s] = [m EXCEPT !.pipe = @ \o says]]}
       \cup IF x.faults < MaxFaults
            THEN {[x EXCEPT !.net[s] = [m EXCEPT !.up = FALSE, !.pipe = @ \o SubSeq(says, 1, i)],
                            !.faults = @ + 1] : i \in 0..(Len(says) - 1)}
            ELSE {}

Serve(x, s, c) == Answered(x, s, c, Reply(s, x.net[s], c))

----------------------------------------------------------------------------
(* INNTPConnection, and what ends the process.                             *)

One(r, x) == {[r |-> r, x |-> x]}
Over(x, how) == [x EXCEPT !.gone = IF @ = "" THEN how ELSE @]

\* write_line on the link: the first write to a connection that the other side closed may succeed.
WriteLine(x, c) ==
    IF x.net[x.link.conn].up
    THEN {[r |-> 1, x |-> y] : y \in Serve(x, x.link.conn, c)}
    ELSE One(1, x) \cup One(0, x)

\* read_line: a line, or the end of the connection; without a connection it is a null pointer,
\* and without anything on the way it waits.
ReadLine(x) ==
    IF x.gone # "" THEN [r |-> -2, x |-> x]
    ELSE IF x.link.conn = None THEN [r |-> -2, x |-> Over(x, "crash")]
    ELSE LET n == x.net[x.link.conn] IN
         IF n.pipe # <<>>
         THEN [r |-> 1, x |-> [x EXCEPT !.net[x.link.conn].pipe = Tail(@), !.line = Head(n.pipe)]]
         ELSE [r |-> -2, x |-> IF n.up THEN Over(x, "wait") ELSE x]

\* The line that was read is not what the code takes it for.
Odd(x, fits) == [x EXCEPT !.odd = @ \/ (x.gone = "" /\ ~fits)]

----------------------------------------------------------------------------
(* nntp_gets, nntp_at_list_end and nntp_finish_list.                       *)

\* A line of the answer to c.  r: 1 a line, 0 the end of the list, -2 an error; nntp_at_list_end
\* is called on what was read, as all callers do.
Taken(o, c) ==
    LET fits == \/ o.x.line.of = Nothing
                \/ /\ o.x.line.what \in {"data", "end"} /\ o.x.line.of = c
                   /\ c.op \notin {"list", "xgtitle", "newgroups"} => o.x.line.g = o.x.ng
    IN IF o.r < 0 THEN o
       ELSE IF o.x.line.what = "end" THEN [r |-> 0, x |-> [Odd(o.x, fits) EXCEPT !.link.ok = TRUE]]
       ELSE [r |-> 1, x |-> [Odd(o.x, fits) EXCEPT !.link.ok = FALSE]]

Gets(x, c) == Taken(ReadLine(x), c)

\* Reads to the end of the list; the numbers read are gathered in x.nums.
RECURSIVE GetList(_, _)
GetRest(o, c) == IF o.r <= 0 THEN o ELSE GetList([o.x EXCEPT !.nums = @ \cup {o.x.line.k}], c)
GetList(x, c) == GetRest(Gets(x, c), c)

ListOf(x, c) == GetList([x EXCEPT !.nums = {}], c)

----------------------------------------------------------------------------
(* The body of the article that is open: nntp_copybody and its callers.    *)
(* body.pos is s_body_pos, -1 when nothing is left to receive, body.end is *)
(* s_body_end, and fpos the position of g_artfp; all count lines.          *)

\* fputs at fpos, which overwrites what is there
Put(seq, at, v) == [i \in 1..(IF at + 1 > Len(seq) THEN at + 1 ELSE Len(seq)) |->
                       IF i = at + 1 THEN v ELSE IF i <= Len(seq) THEN seq[i] ELSE [art |-> 0, k |-> 0, g |-> None]]

\* nntp_copybody: receives until `to' lines are there.  A lost connection counts as the end.
RECURSIVE CopyBody(_, _)
Received(o, to) ==
    LET y == o.x IN
    IF o.r <= 0
    THEN [r |-> 0, x |-> [y EXCEPT !.link.ok = TRUE, !.fpos = y.body.pos, !.body.pos = -1,
                                   !.cut = IF o.r < 0 THEN @ \cup {y.bodyask.n} ELSE @]]
    ELSE CopyBody([y EXCEPT !.files[y.file] = Put(@, y.fpos, [art |-> y.line.of.n, k |-> y.line.k, g |-> y.line.g]),
                            !.fpos = @ + 1, !.body.end = y.fpos + 1], to)
CopyBody(x, to) ==
    IF to <= x.body.end THEN [r |-> 1, x |-> x] ELSE Received(Gets(x, x.bodyask), to)

\* nntp_finishbody; in the background up to `more' lines until a key is pressed
\* (mutant) after a background read the file is left where the last line was written
BackAtEnd(x) == x

Back(x) == IF x.body.pos >= 0 THEN [x EXCEPT !.fpos = x.body.pos] ELSE x

FinishBody(x, mode, more) ==
    LET y == [x EXCEPT !.fpos = x.body.end] IN
    IF x.body.pos < 0 THEN [r |-> 0, x |-> x]
    ELSE [r |-> 1, x |-> IF mode = "background" THEN Back(CopyBody(y, x.body.end + more).x)
                         ELSE CopyBody(y, Whole + 1).x]

\* nntp_seekart
SeekArt(x, pos) ==
    LET to(y) == [y EXCEPT !.fpos = pos, !.body.pos = IF @ >= 0 THEN pos ELSE @] IN
    to(IF x.body.pos >= 0 /\ x.body.end < pos THEN CopyBody([x EXCEPT !.fpos = x.body.end], pos).x ELSE x)

\* nntp_readart: the line after the position, received first if it is not there yet
ReadNew(o) == IF o.r <= 0 THEN o ELSE [r |-> 1, x |-> [o.x EXCEPT !.body.pos = o.x.body.end]]
ReadArt(x) ==
    IF x.body.pos >= 0 /\ x.body.pos = x.body.end THEN ReadNew(CopyBody(x, x.body.pos + 1))
    ELSE IF x.fpos >= Len(x.files[x.file]) THEN [r |-> 0, x |-> x]
    ELSE [r |-> 1, x |-> [x EXCEPT !.fpos = @ + 1,
                                   !.body.pos = IF @ >= 0 THEN x.fpos + 1 ELSE @]]

\* artclose
ArtClose(x) ==
    IF x.file = 0 THEN x
    ELSE [FinishBody(x, "discard", 0).x EXCEPT !.file = 0, !.openart = 0, !.fpos = 0]

----------------------------------------------------------------------------
(* Commands.  nntp_command writes one, after the rest of a body has been   *)
(* read; nntp_check reads the answer.  A lost connection is made again, in *)
(* the same group, and the command repeated, once.                         *)

SetDatasrc(x, s) ==
    LET y == IF x.src = None THEN x ELSE [x EXCEPT !.kept[x.src] = x.link] IN
    IF s = None THEN [y EXCEPT !.src = None] ELSE [y EXCEPT !.link = y.kept[s], !.src = s]

\* The socket is closed: the server notices.
Hangup(x) ==
    LET y == IF x.link.conn = None THEN x
             ELSE [x EXCEPT !.net[x.link.conn] = [up |-> FALSE, pipe |-> <<>>, group |-> None, authed |-> FALSE]]
    IN [y EXCEPT !.link.conn = None, !.link.ok = TRUE]

Keep(x) == [x EXCEPT !.kept[x.src] = x.link]

\* nntp_handle_nested_lists.  x.nested records that it has complained of a programming error:
\* a list that a lost connection cut short leaves NEW_CMD_OK clear, with no body to finish.
Nested(o) == One(IF o.r # 0 THEN 1 ELSE -1, [o.x EXCEPT !.nested = @ \/ o.r = 0])
\* (mutant) the rest of a body is dropped, not read
NestedListsDropped(x) == One(1, [x EXCEPT !.body.pos = -1, !.link.ok = TRUE])

NestedLists(x) == IF x.last.op = "quit" THEN One(0, x) ELSE Nested(FinishBody(x, "discard", 0))

\* These functions call each other: Calls, at the end of the section, says which is which.
RECURSIVE Calls(_, _, _, _)
Command(x, c) == Calls("nntp_command", x, c, TRUE)
CheckFor(x, asked, first) == Calls("nntp_check", x, asked, first)
HandleTimeout(x) == Calls("nntp_handle_timeout", x, x.last, TRUE)
HandleAuth(x) == Calls("nntp_handle_auth_err", x, x.last, TRUE)
Connect(x) == Calls("nntp_connect", x, x.last, TRUE)

Send(x, c) == UNION {IF o.r = 0 THEN HandleTimeout(o.x) ELSE {o} : o \in WriteLine(x, c)}

\* nntp_command
NntpCommand(x0, c) ==
    LET x == [x0 EXCEPT !.last = c] IN
    IF x.gone # "" THEN One(-2, x)
    ELSE IF x.link.conn = None THEN HandleTimeout(x)
    ELSE IF x.link.now THEN HandleAuth([x EXCEPT !.link.now = FALSE])
    ELSE UNION {IF o.r <= 0 THEN {o} ELSE Send(o.x, c) :
                    o \in IF x.link.ok THEN One(1, x) ELSE NestedLists(x)}

\* nntp_check: 1 for the answers 1xx to 3xx, 0 for 4xx, -1 for 5xx
Judge(x, asked, ret) ==
    LET y == [x EXCEPT !.link.ok = x.line.code # 215] IN
    IF x.line.code # 480 THEN One(ret, y)
    ELSE UNION {IF o.r > 0 THEN CheckFor(o.x, asked, FALSE) ELSE {o} : o \in HandleAuth(y)}

Class(code) == IF code \in 100..399 THEN 1 ELSE IF code >= 500 THEN -1 ELSE 0

Checked(y, asked, first) ==
    LET late(h) == IF h.r = 1 THEN CheckFor(h.x, asked, FALSE)
                   ELSE Judge(IF h.r = 0 THEN [h.x EXCEPT !.line = Status(asked, 205, None)] ELSE h.x, asked, h.r)
    IN IF y.gone # "" THEN One(-2, y)
       ELSE Judge(y, asked, Class(y.line.code))
            \cup IF first /\ y.line.code = 503 /\ y.allow THEN UNION {late(h) : h \in HandleTimeout(y)} ELSE {}

StatusLine(o, asked) ==
    IF o.r > 0 THEN Odd(o.x, o.x.line.what = "status" /\ o.x.line.of \in {asked, Nothing})
    ELSE [o.x EXCEPT !.line = Closed]

NntpCheck(x, asked, first) == Checked(StatusLine(ReadLine(x), asked), asked, first)

Check(x) == CheckFor(x, x.last, TRUE)

\* Writes c and reads its answer; what is short of that is `failed'.
Asked(x, c, failed) == UNION {IF o.r <= 0 THEN One(failed, o.x) ELSE Check(o.x) : o \in Command(x, c)}

\* nntp_handle_auth_err
NntpHandleAuthErr(x) ==
    UNION {IF u.r <= 0 THEN One(-2, u.x)
           ELSE UNION {IF p.r <= 0 THEN One(-2, p.x)
                       ELSE UNION {One(IF a.r <= 0 THEN -2 ELSE 1, a.x) : a \in Command(p.x, x.last)} :
                           p \in Asked(u.x, Ask("pass", None, 0), -2)} :
               u \in Asked(x, Ask("user", None, 0), -2)}

\* server_init and nntp_connect.  A server that cannot be reached leaves no connection; one that
\* refuses leaves the link with a connection that is of no use.
NntpConnect(x) ==
    LET open == [x EXCEPT !.link = [conn |-> x.src, ok |-> TRUE, now |-> @.now \/ x.src \in ForceAuth],
                          !.net[x.src] = [up |-> TRUE, pipe |-> <<Status(Signon, 200, None)>>,
                                          group |-> None, authed |-> FALSE]]
        mode(o) == IF o.x.line.code # 200 THEN One(0, o.x)
                   ELSE UNION {IF c.r <= 0 THEN One(-1, c.x)
                               ELSE {[r |-> IF k.x.line.code = 200 THEN 1 ELSE 0, x |-> k.x] : k \in Check(c.x)} :
                                   c \in Command(o.x, Ask("mode", None, 0))}
        lost == [open EXCEPT !.net[x.src].up = FALSE, !.net[x.src].pipe = <<>>, !.faults = @ + 1]
    IN IF x.link.conn # None THEN One(1, x)
       ELSE UNION {mode(o) : o \in CheckFor(open, Signon, TRUE)}
            \cup IF x.faults < MaxFaults THEN One(0, [open EXCEPT !.link.conn = None, !.net = x.net, !.faults = @ + 1]) ELSE {}
            \cup IF x.faults < MaxFaults /\ LostSignon THEN UNION {mode(o) : o \in CheckFor(lost, Signon, TRUE)} ELSE {}

\* nntp_group
NntpGroup(x, g) ==
    UNION {IF o.r # 0 /\ o.r # -1 THEN {o}
           ELSE One(IF o.x.line.code \in {411, 501, 480, 502, 482} THEN 0 ELSE -1, o.x) :
               o \in Asked(x, Ask("group", g, 0), -2)}

\* nntp_handle_timeout
NntpHandleTimeout(x) ==
    LET c == x.last
        y == Keep(Hangup([x EXCEPT !.handling = TRUE]))
        again(z) == {IF o.r <= 0 THEN [r |-> -1, x |-> o.x]
                     ELSE [r |-> 1, x |-> [o.x EXCEPT !.last = c, !.handling = FALSE]] : o \in Command(z, c)}
        regroup(z) == UNION {IF o.r <= 0 THEN One(-2, o.x) ELSE again(o.x) :
                                o \in IF z.inng THEN NntpGroup(z, z.ng) ELSE One(1, z)}
    IN IF c.op = "quit" THEN One(0, x)
       ELSE IF x.handling THEN One(-1, x)
       ELSE UNION {IF o.r <= 0 THEN One(-2, o.x) ELSE regroup(Keep(o.x)) : o \in Connect(y)}

Calls(f, x, c, first) ==
    CASE f = "nntp_command" -> NntpCommand(x, c)
      [] f = "nntp_check" -> NntpCheck(x, c, first)
      [] f = "nntp_handle_timeout" -> NntpHandleTimeout(x)
      [] f = "nntp_handle_auth_err" -> NntpHandleAuthErr(x)
      [] f = "nntp_connect" -> NntpConnect(x)

\* nntp_header, nntp_xgtitle, nntp_time, nntp_newgroups and nntp_artnums
NntpHeader(x, n) == Asked(x, Ask("head", None, n), -2)

NntpXgtitle(x, g) == Asked(x, Ask("xgtitle", g, 0), -2)

NntpTime(x) == Asked(x, Ask("date", None, 0), -2)

NntpNewgroups(x) == Asked(x, Ask("newgroups", None, 0), -2)

NntpArtnums(x) == Asked(x, Ask("listgroup", None, 0), -3)

\* nntp_list for one group: 1 its line was read, 0 there is none, and less for failures
NntpList(x, g) ==
    LET c == Ask("list", g, 0)
        line(o) == IF o.r >= 0 THEN o ELSE [o EXCEPT !.r = -1]
    IN {IF o.r <= 0 THEN [o EXCEPT !.r = IF o.r = -2 THEN -2 ELSE -1] ELSE line(Gets(o.x, c)) : o \in Asked(x, c, -2)}

\* nntp_finish_list
FinishList(x, c) == GetList(x, c).x

\* nntp_close
Close(x, quit) ==
    {Hangup(o.x) : o \in IF quit /\ x.link.conn # None THEN Asked(x, Ask("quit", None, 0), 0) ELSE One(0, x)}

----------------------------------------------------------------------------
(* Data sources.                                                           *)

\* find_actgrp, where the active file was not fetched; the source in use is put back
FindActgrp(x, s, g) ==
    LET ok == IF x.src = s THEN x.link.ok ELSE x.kept[s].ok
        \* -1 and -2: go on with the cached line
        listed(o) == IF o.r = 1 THEN FinishList(o.x, Ask("list", g, 0)) ELSE o.x
    IN IF s \notin ListAct \/ ~ok THEN One(1, x)
       ELSE {[r |-> IF o.r = 0 THEN 0 ELSE 1, x |-> SetDatasrc(listed(o), x.src)] :
                o \in NntpList(SetDatasrc(x, s), g)}

\* close_datasrc
CloseDatasrc(x, s) ==
    IF s \notin x.opened THEN {x}
    ELSE {[SetDatasrc(Keep(y), x.src) EXCEPT !.opened = @ \ {s}, !.src = IF @ = s THEN None ELSE @] : y \in Close(SetDatasrc(x, s), TRUE)}

\* open_datasrc; with LIST active control it finds out whether groups can be looked up one by one
OpenDatasrc(x, s) ==
    LET y == SetDatasrc(x, s)
        c == Ask("list", "control", 0)
        fail(z) == One(0, [z EXCEPT !.dead = @ \cup {s}])
        done(z) == One(1, [z EXCEPT !.opened = @ \cup {s}, !.allow = TRUE])
        listed(o) == IF o.r = -2 THEN UNION {One(0, [f.x EXCEPT !.allow = TRUE]) : f \in fail(o.x)}
                     ELSE done(IF o.r <= 0 THEN o.x ELSE ListOf(o.x, c).x)
        connected(o) == LET z == Keep([o.x EXCEPT !.allow = FALSE]) IN
                        IF s \in ListAct THEN UNION {listed(l) : l \in Asked(z, c, -2)} ELSE done(z)
    IN IF s \in x.dead THEN One(0, x)
       ELSE IF s \in x.opened THEN One(1, y)
       ELSE UNION {IF o.r <= 0 THEN fail(o.x) ELSE connected(o) : o \in Connect(y)}

\* nntp_server_died
ServerDied(x, s) == {[y EXCEPT !.dead = @ \cup {s}] : y \in CloseDatasrc(x, s)}

----------------------------------------------------------------------------
(* The articles of the open group.                                         *)

Exit(x) == Over(x, "exit")   \* finalize(1)

\* nntp_artname: the file of an article; a new one takes the file that was used longest ago, the
\* last of several that were used in the same second.  Ages are ranks, with the newest highest.
SlotOf(x, n) == IF \E i \in 1..Slots : x.slots[i].art = n
                THEN CHOOSE i \in 1..Slots : x.slots[i].art = n ELSE 0
Used(x, i, n, tick) ==
    LET now == Max({x.slots[j].age : j \in 1..Slots}) + (IF tick THEN 1 ELSE 0)
        aged == [x.slots EXCEPT ![i] = [art |-> n, age |-> now]]
        rank(j) == Cardinality({aged[k].age : k \in {m \in 1..Slots : aged[m].age < aged[j].age}})
    IN [x EXCEPT !.slots = [j \in 1..Slots |-> [aged[j] EXCEPT !.age = rank(j)]]]
Oldest(x) ==
    LET low == Min({x.slots[j].age : j \in 1..Slots}) IN Max({j \in 1..Slots : x.slots[j].age = low})

Missing(x, n) == [x EXCEPT !.exists = @ \ {n}]       \* uncache_article, onemissing

\* nntp_body: the file that has the article, or a new one and as much as the header of it
NewBody(x, n, i) ==
    LET known == x.parsed = n
        c == Ask(IF known THEN "body" ELSE "article", None, n)
        y == [x EXCEPT !.file = i, !.fpos = 0, !.files[i] = <<>>]
        begun(o) ==
            LET z == [o.x EXCEPT !.body.pos = 0, !.bodyask = c]
                head == IF known THEN [z EXCEPT !.files[i] = x.head, !.body.end = Len(x.head)]
                        ELSE CopyBody([z EXCEPT !.body.end = 0, !.cut = @ \ {n}], HeadLen + 1).x
            IN [r |-> 1, x |-> [head EXCEPT !.fpos = 0, !.link.ok = FALSE]]
    IN {IF o.r < 0 THEN [r |-> 0, x |-> Exit(o.x)]
        ELSE IF o.r = 0 THEN [r |-> 0, x |-> [o.x EXCEPT !.file = 0, !.cut = @ \cup {n}]]
        ELSE begun(o) : o \in Asked(y, c, -2)}

Body(x, n) ==
    LET i == SlotOf(x, n) IN
    IF i # 0
    THEN {[r |-> 1, x |-> [Used(y, i, n, t) EXCEPT !.file = i, !.fpos = 0, !.body.end = Len(y.files[i])]] :
            y \in {FinishBody(x, "discard", 0).x}, t \in BOOLEAN}
    ELSE UNION {NewBody(Used(x, Oldest(x), n, t), n, Oldest(x)) : t \in BOOLEAN}

\* artopen
ArtOpen(x, n, pos) ==
    IF n \notin x.exists THEN One(0, x)
    ELSE IF x.openart = n THEN One(1, SeekArt(x, pos))
    ELSE {IF o.r = 0 THEN [r |-> 0, x |-> Missing(o.x, n)]
          ELSE [r |-> 1, x |-> SeekArt([o.x EXCEPT !.openart = n], pos)] : o \in Body(ArtClose(x), n)}

\* parseheader: from the file of the body if there is one, or with HEAD.  A connection that is
\* lost within the answer to HEAD, XOVER or XHDR is not noticed by these loops, which never end.
Looping(o) == IF o.r < 0 THEN Over(o.x, "loop") ELSE o.x

ParseHeader(x, n) ==
    LET headers == SubSeq(Article(n, x.ng), 1, HeadLen + 1)
        parsed(y) == [r |-> 1, x |-> [y EXCEPT !.parsed = n, !.head = SubSeq(y.files[y.file], 1, Min({HeadLen + 1, Len(y.files[y.file])}))]]
        fromfile(o) == IF o.r = 0 THEN o ELSE parsed(SeekArt(o.x, HeadLen + 1))
        asked(o) == IF o.r <= 0 THEN [r |-> 0, x |-> Missing(o.x, n)]
                    ELSE [r |-> 1, x |-> [Looping(ListOf(o.x, Ask("head", None, n))) EXCEPT !.parsed = n, !.head = headers]]
    IN IF x.parsed = n THEN One(1, x)
       ELSE IF SlotOf(x, n) # 0 THEN {fromfile(o) : o \in ArtOpen(x, n, 0)}
       ELSE {asked(o) : o \in NntpHeader(x, n)}

\* The numbers of a list are read; those that it leaves out are missing.
Found(o, op) ==
    LET y == Looping(ListOf(o.x, Ask(op, None, 0))) IN [y EXCEPT !.exists = @ \cap y.nums, !.nums = {}]

\* ov_data
OvData(x) == {IF o.r > 0 THEN Found(o, "xover") ELSE o.x : o \in Asked(x, Ask("xover", None, 0), -3)}

\* prefetchlines.  Without XHDR the header of the article that was asked for is read; trn gives up
\* when that fails.
PrefetchLines(x, n) ==
    LET parsed(o) == {IF p.r = 0 THEN Exit(p.x) ELSE p.x : p \in ParseHeader(o.x, n)} IN
    IF x.parsed = n THEN {x}
    ELSE UNION {IF o.r > 0 THEN {Found(o, "xhdr")} ELSE IF o.r = -3 THEN {Exit(o.x)} ELSE parsed(o) :
                    o \in Asked(x, Ask("xhdr", None, 0), -3)}

\* find_existing_articles: when the command fails nntp_artnums returns -2, and the list is read
\* all the same.
FindExisting(x) ==
    LET c == Ask("listgroup", None, 0)
        found(y) == [y EXCEPT !.exists = y.nums, !.nums = {}]
        read(y) == found(ListOf([y EXCEPT !.exists = {}], c).x)
    IN {IF o.r \in {1, -3} THEN read(o.x) ELSE o.x : o \in NntpArtnums(x)}

----------------------------------------------------------------------------
(* What happens between two keystrokes.                                    *)

Closing == [up |-> FALSE, pipe |-> <<>>, group |-> None, authed |-> FALSE]
NoLink == [conn |-> None, ok |-> FALSE, now |-> FALSE]

Start(faults) ==
    [src |-> None, link |-> NoLink, kept |-> [s \in Sources |-> NoLink], net |-> [s \in Sources |-> Closing],
     opened |-> {}, dead |-> {}, allow |-> FALSE, handling |-> FALSE, last |-> Nothing, line |-> Closed,
     inng |-> FALSE, ng |-> None, cached |-> None, exists |-> {}, nums |-> {},
     body |-> [pos |-> -1, end |-> 0], bodyask |-> Nothing, file |-> 0, fpos |-> 0, openart |-> 0,
     parsed |-> 0, head |-> <<>>, slots |-> [i \in 1..Slots |-> [art |-> 0, age |-> 0]],
     files |-> [i \in 1..Slots |-> <<>>], cut |-> {}, odd |-> FALSE, nested |-> FALSE, gone |-> "", faults |-> faults]

Init == w = Start(0)

\* What is left of a process that is gone; and what is set anew before it is read again.
Settle(x) == IF x.gone = ""
             THEN [x EXCEPT !.line = Closed, !.last = Nothing, !.nums = {},
                            !.bodyask = IF x.body.pos < 0 THEN Nothing ELSE @,
                            !.body.end = IF x.body.pos < 0 THEN 0 ELSE @]
             ELSE [Start(x.faults) EXCEPT !.gone = x.gone, !.odd = x.odd]

To(X) == \E x \in X : w' = Settle(x)
Running == w.gone = ""
Reading == Running /\ w.inng
Outside == Running /\ ~w.inng

Open(s) == Outside /\ s \notin w.opened \cup w.dead /\ To({o.x : o \in OpenDatasrc(w, s)})

\* build_cache: the cache of the group that was left last is good for six hours
BuildCache(x) ==
    LET clear == [x EXCEPT !.cached = x.ng, !.parsed = 0, !.head = <<>>, !.exists = Articles, !.cut = {},
                           !.slots = [i \in 1..Slots |-> [art |-> 0, age |-> 0]],
                           !.files = [i \in 1..Slots |-> <<>>]]
    IN {clear} \cup IF x.cached = x.ng THEN {x} ELSE {}

\* do_newsgroup and access_ng
Enter(g) ==
    LET y == SetDatasrc([w EXCEPT !.ng = g], Home)
        sized(o) == IF o.r = 0 THEN {o.x} ELSE BuildCache([o.x EXCEPT !.inng = TRUE])
    IN /\ Outside
       /\ Home \in w.opened
       /\ To(UNION {IF o.r = -2 THEN ServerDied(o.x, Home)
                    ELSE IF o.r <= 0 THEN {o.x}
                    ELSE UNION {sized(f) : f \in FindActgrp(o.x, Home, g)} : o \in NntpGroup(y, g)})

Left(x) == ArtClose([x EXCEPT !.inng = FALSE])
Leave == Reading /\ To({Left(w)})

OpenArticle(n) == Reading /\ To({o.x : o \in ArtOpen(w, n, 0)})
ReadOn == Reading /\ w.file # 0 /\ To({ReadArt(w).x})
Seek(pos) == Reading /\ w.file # 0 /\ pos <= Len(w.files[w.file]) /\ To({SeekArt(w, pos)})
CloseArticle == Reading /\ w.file # 0 /\ To({ArtClose(w)})

\* cache_until_key receives the body until a key is pressed, and before a body is used as a whole
\* the rest of it is received
Background(more) == Reading /\ w.body.pos >= 0 /\ To({FinishBody(w, "background", more).x})
Finish == Reading /\ w.body.pos >= 0 /\ To({FinishBody(w, "silent", 0).x})

Parse(n) == Reading /\ n \in w.exists /\ To({o.x : o \in ParseHeader(w, n)})
Overview == Reading /\ To(OvData(w))
HeaderLine(n) == Reading /\ n \in w.exists /\ To(PrefetchLines(w, n))
Existing == Reading /\ To(FindExisting(w))

\* do_newsgroup looks for new articles at the end of the group
Grow ==
    LET asked(o) == UNION {IF g.r <= 0 THEN ServerDied(Left(g.x), Home) ELSE {g.x} : g \in NntpGroup(o.x, o.x.ng)}
    IN Reading /\ To(UNION {asked(o) : o \in FindActgrp(FinishBody(w, "silent", 0).x, Home, w.ng)})

\* getngsize for a group of any newsrc: counting its articles, chasing a cross reference
Count(s, g) == Running /\ s \in w.opened \cap ListAct /\ To({o.x : o \in FindActgrp(w, s, g)})

\* new_nntp_groups and find_grpdesc leave the source they asked in use
NewGroups(s) ==
    LET c == Ask("newgroups", None, 0) IN
    /\ Outside
    /\ s \in w.opened
    /\ To(UNION {IF d.r = -2 THEN {d.x}
                 ELSE {IF o.r < 1 THEN o.x ELSE ListOf(o.x, c).x : o \in NntpNewgroups(d.x)} :
                     d \in NntpTime(SetDatasrc(w, s))})

Describe(s, g) ==
    LET c == Ask("xgtitle", g, 0) IN
    Outside /\ s \in w.opened
            /\ To({IF o.r <= 0 THEN o.x ELSE ListOf(o.x, c).x : o \in NntpXgtitle(SetDatasrc(w, s), g)})

\* check_datasrcs, once the time of the last command in the copy of the link is old enough.  The
\* alarm calls it while trn waits for a key.  Before that cache_until_key receives what is left of
\* a body, except where the rest of a command is typed.
Idle(s) ==
    /\ Running
    /\ s \in w.opened /\ w.kept[s].conn # None
    /\ s = w.src /\ w.body.pos >= 0 => HalfTyped
    /\ To({SetDatasrc(Keep(y), w.src) : y \in Close(SetDatasrc(w, s), TRUE)})

\* The connection is lost with any part of what is on the way, or the server times it out.
Lost(s) ==
    LET pipe == w.net[s].pipe IN
    /\ Running
    /\ w.net[s].up /\ w.faults < MaxFaults
    /\ \/ \E i \in 0..Len(pipe) :
             w' = [w EXCEPT !.net[s].up = FALSE, !.net[s].pipe = SubSeq(pipe, 1, i), !.faults = @ + 1]
       \/ w' = [w EXCEPT !.net[s].up = FALSE, !.net[s].pipe = Append(pipe, Closed), !.faults = @ + 1]

\* trn is left, or was cut off, and is started again.
Restart == (w.gone # "" \/ Home \in w.dead) /\ ~w.odd /\ w' = Start(w.faults)

Next ==
    \/ \E s \in Sources : Open(s) \/ NewGroups(s) \/ Idle(s) \/ Lost(s)
    \/ \E s \in Sources, g \in Groups : Count(s, g) \/ Describe(s, g)
    \/ \E g \in Groups : Enter(g)
    \/ \E n \in Articles : OpenArticle(n) \/ Parse(n) \/ HeaderLine(n)
    \/ \E k \in 1..(Whole - 1) : Seek(k) \/ Background(k)
    \/ Leave \/ ReadOn \/ CloseArticle \/ Finish \/ Overview \/ Existing \/ Grow \/ Restart

Spec == Init /\ [][Next]_w

----------------------------------------------------------------------------
(* Properties.                                                             *)

\* g_nntplink and its copies in the sources are values that are copied back and forth: the link
\* in use and each copy lead to the server of their own source, and a connection that is up is
\* the one its source has.
LinksKept ==
    /\ w.src = None \/ w.link.conn \in {None, w.src}
    /\ \A s \in Sources : w.kept[s].conn \in {None, s}
    /\ \A s \in Sources : w.net[s].up => s = IF w.src = s THEN w.link.conn ELSE w.kept[s].conn

\* Nothing in an answer names its question, so one line read too few or too many shifts all that
\* follow.  Whatever is left of a body, whatever is lost and made again, and whatever source is
\* asked in between, each line is read as part of the answer that it belongs to - only a server's
\* "503 Timeout", which answers nothing, may be read anywhere - and trn never waits for a line
\* that nothing will send.  The link in use and the copies the sources keep of it lead to the
\* connections that are up.
RepliesPaired == ~w.odd /\ w.gone # "wait" /\ LinksKept

\* A body is received in pieces, each where the last ended, while the file is read at another
\* place, and goes to one of few files that later articles reuse.  Whatever order that happens
\* in, a file holds the lines of its article in order, from the first; all of them, unless it is
\* still being received, the connection was lost meanwhile or the server refused it; and the
\* position that is read next is where the code has it.
BodyIsArticle ==
    /\ \A i \in 1..Slots : LET n == w.slots[i].art IN
        n \notin {0} \cup w.cut =>
            /\ w.files[i] = SubSeq(Article(n, w.cached), 1, Len(w.files[i]))
            /\ \/ Len(w.files[i]) = Whole
               \/ i = w.file /\ w.body.pos >= 0
    /\ w.body.pos >= 0 => /\ w.file # 0 /\ w.slots[w.file].art = w.bodyask.n
                          /\ w.fpos = w.body.pos
                          /\ w.body.end = Len(w.files[w.file]) /\ w.body.pos <= w.body.end

\* The code calls it a programming error to ask for something while a list is still being read.
NeverNested == ~w.nested

=============================================================================
