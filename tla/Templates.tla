------------------------------ MODULE Templates ------------------------------
(***************************************************************************)
(* The template library: tables projects and templates with their link     *)
(* tables, and the channels that applying a template makes.                *)
(*                                                                         *)
(* A template is captured from a channel or a rule, may be filed in a      *)
(* project, is published to groups, and is applied: a channel template     *)
(* makes a channel with all its rules, under a free name.  Every handler   *)
(* is a series of SQL statements without a transaction; a check is one or  *)
(* two statements, its use a later one.                                    *)
(*                                                                         *)
(* The three kinds of rows share one function, since the code checks and   *)
(* links them with the same helpers, given the names of the tables.        *)
(***************************************************************************)
EXTENDS Naturals, Sequences, FiniteSets

CONSTANTS
    Users, Supers,      \* a JWT's user; those whose JWT has role admin
    Groups,
    Projects, Templates, Channels,      \* ids of the three tables
    Contents,           \* what rules say
    Calls,              \* requests, each made at most once
    Ops,                \* the handlers in use
    MaxTries,           \* names that unique_channel_name looks up: 10000
    None                \* NULL

ASSUME TemplatesAssumption ==
    /\ Supers \subseteq Users
    /\ Projects \cap (Templates \cup Channels) = {} /\ Templates \cap Channels = {}
    /\ None \notin Users \cup Projects \cup Templates \cup Channels
    /\ Ops \subseteq {"createProject", "updateProject", "deleteProject", "applyProject",
                      "saveRule", "saveChannel", "updateTemplate", "deleteTemplate",
                      "applyTemplate", "channels"}
    /\ MaxTries \in Nat \ {0}

VARIABLES
    row,        \* the tables, and the rules of each channel
    links,      \* project_groups, template_groups, channel_groups
    call,       \* the requests
    past        \* history

vars == <<row, links, call, past>>

Rows == Projects \cup Templates \cup Channels

Name == Seq(Nat)    \* of a channel: <<>>, "(copy)" <<1>>, "(copy 2)" <<2>>, "(copy) (copy)" <<1, 1>>

-----------------------------------------------------------------------------
Row == [st : {"none", "live", "deleted"}, owner : Users \cup {None}, global : BOOLEAN,
        kind : {"rule", "channel"},             \* of a template
        project : Projects \cup {None},         \* that a template is filed in
        name : Name,                            \* of a channel, or in a template's body
        rules : SUBSET Contents]                \* of a channel, or in a template's body

NoRow == [st |-> "none", owner |-> None, global |-> FALSE, kind |-> "channel",
          project |-> None, name |-> <<>>, rules |-> {}]

\* A request: its identity as effective() resolved it, the checks it has yet
\* to pass, and its other local variables.  checked, before and alive are
\* history: its name was looked up and found free, the channels there were when
\* the name was chosen and that were not renamed since, the projects one of its
\* statements has seen live.
CallState ==
    [pc : {"new", "insert", "look", "check", "links", "go", "inherit", "update", "unfile",
           "clear", "link", "name", "make", "fill", "over"},
     op : {"createProject", "updateProject", "deleteProject", "applyProject", "saveRule",
           "saveChannel", "updateTemplate", "deleteTemplate", "applyTemplate", "channels"},
     user : Users, memberOf : SUBSET Groups, adminOf : SUBSET Groups,
     todo : Seq([right : {"read", "write"}, of : Rows]),
     row : Rows \cup {None}, to : Rows \cup {None}, global : BOOLEAN,
     queue : SUBSET Templates, item : Templates \cup {None}, base : Name, tries : Nat,
     rest : SUBSET Contents, onto : Rows \cup {None}, left : SUBSET Groups,
     checked : BOOLEAN, before : SUBSET Channels, alive : SUBSET Projects]

TypeOK ==
    /\ row \in [Rows -> Row]
    /\ links \in [Rows -> SUBSET Groups]
    /\ call \in [Calls -> CallState]
    /\ past \in [links : [Rows -> SUBSET Groups], global : SUBSET Rows,
                 filed : SUBSET (Templates \X Projects), unfiled : SUBSET Projects,
                 origin : SUBSET (Templates \X Projects),
                 from : [Channels -> Templates \cup {None}], given : [Channels -> SUBSET Contents],
                 torn : SUBSET Channels]

Blank(pc) ==
    [pc |-> pc, op |-> "channels", user |-> CHOOSE u \in Users : TRUE,
     memberOf |-> {}, adminOf |-> {}, todo |-> <<>>, row |-> None, to |-> None,
     global |-> FALSE, queue |-> {}, item |-> None, base |-> <<>>, tries |-> 0,
     rest |-> {}, onto |-> None, left |-> {},
     checked |-> FALSE, before |-> {}, alive |-> {}]

Live(r) == row[r].st = "live"

(* A library in use: a project, a template captured from a channel, filed  *)
(* or not, and that channel, published or not, all of one owner; or no     *)
(* project yet.  Calls and other handlers make the rest, templates of      *)
(* rules among it.                                                         *)
Init ==
    /\ \E owner \in Users, shared \in {{}, Groups},
          p \in Projects \cup {None}, t \in Templates, c \in Channels :
       \E filed \in {None, p} :
         /\ row = [r \in Rows |->
              CASE r = p -> [NoRow EXCEPT !.st = "live", !.owner = owner]
                [] r = c -> [NoRow EXCEPT !.st = "live", !.owner = owner, !.rules = Contents]
                [] r = t -> [NoRow EXCEPT !.st = "live", !.owner = owner, !.project = filed, !.rules = Contents]
                [] OTHER -> NoRow]
         /\ links = [r \in Rows |-> IF r \in {p, t, c} THEN shared ELSE {}]
    /\ call = [k \in Calls |-> Blank("new")]
    /\ past = [links |-> links, global |-> {r \in Rows : row[r].global},
               filed |-> {f \in Templates \X Projects : row[f[1]].project = f[2]},
               unfiled |-> {}, origin |-> {}, from |-> [c \in Channels |-> None],
               given |-> [c \in Channels |-> {}], torn |-> {}]

\* What the steps record of the past.
Remember ==
    past' = [past EXCEPT
        !.links  = [r \in Rows |-> @[r] \cup links'[r]],
        !.global = @ \cup {r \in Rows : row'[r].global},
        !.filed  = @ \cup {f \in Templates \X Projects : row'[f[1]].project = f[2]}]

-----------------------------------------------------------------------------
Super(k) == call[k].user \in Supers

At(k, pc, op) == call[k].pc = pc /\ call[k].op = op

Becomes(k, c) == call' = [call EXCEPT ![k] = c]

Answer(k) == Becomes(k, Blank("over"))

Read(r) == [right |-> "read", of |-> r]
Write(r) == [right |-> "write", of |-> r]

\* The rows a handler checks, in order; super-admins pass unseen.
Checks(u, op, r, to) ==
    IF u \in Supers THEN <<>> ELSE
    CASE op = "applyProject" -> <<Read(r)>>
      [] op \in {"saveRule", "saveChannel"} -> IF to = None THEN <<Read(r)>> ELSE <<Read(r), Write(to)>>
      [] op = "updateTemplate" -> IF to = None THEN <<Write(r)>> ELSE <<Write(r), Write(to)>>
      [] op = "applyTemplate" -> IF to = None THEN <<Read(r)>> ELSE <<Read(r), Write(to)>>
      [] op \in {"updateProject", "deleteProject", "deleteTemplate"} -> <<Write(r)>>
      [] OTHER -> <<>>

\* A mutant of the next definition: update_template files in any row.
NamesAnyRow(op) ==
    IF op = "updateTemplate" THEN Templates \X (Rows \cup {None}) ELSE {<<None, None>>}

\* What a request may name: its resource, and a project to file in or a
\* channel to apply to.
Names(op) ==
    CASE op \in {"updateProject", "deleteProject", "applyProject"} -> Projects \X {None}
      [] op \in {"saveRule", "saveChannel"} -> Channels \X (Projects \cup {None})
      [] op = "updateTemplate" -> Templates \X (Projects \cup {None})
      [] op = "deleteTemplate" -> Templates \X {None}
      [] op = "applyTemplate" -> {n \in Templates \X (Channels \cup {None}) :
                                    row[n[1]].kind = "rule" <=> n[2] # None}
      [] OTHER -> {<<None, None>>}

Entry(op, todo) ==
    CASE op = "createProject" -> "insert"
      [] op \in {"applyProject", "saveRule", "saveChannel", "applyTemplate"} -> "look"
      [] OTHER -> IF todo = <<>> THEN "go" ELSE "check"

\* effective(), which finds the caller in any groups: module Sharing is about
\* how these come about.  Nothing looks at the groups of a super-admin.
Begin(k) ==
    /\ call[k].pc = "new"
    /\ \E op \in Ops \ {"channels"}, u \in Users, ms \in SUBSET Groups :
       \E as \in SUBSET ms, n \in Names(op) :
         /\ \A i \in {1, 2} : n[i] # None => row[n[i]].st # "none"
         /\ u \in Supers => ms = {}
         /\ Becomes(k, [Blank(Entry(op, Checks(u, op, n[1], n[2]))) EXCEPT
           !.op = op, !.user = u, !.memberOf = ms, !.adminOf = as,
           !.row = n[1], !.to = n[2], !.todo = Checks(u, op, n[1], n[2])])
    /\ UNCHANGED <<row, links, past>>

\* The SELECT of what is to be captured or applied.  A rule is read whole,
\* whether its channel is deleted or not.
Look(k) ==
    /\ call[k].pc = "look"
    /\ LET c == [call[k] EXCEPT !.pc = IF call[k].todo = <<>> THEN "go" ELSE "check"] IN
       IF c.op = "saveRule"
         THEN \E x \in row[c.row].rules : Becomes(k, [c EXCEPT !.rest = {x}])
         ELSE Live(c.row) /\ Becomes(k, c)
    /\ UNCHANGED <<row, links, past>>

Pass(k) ==
    LET c == call[k] IN
    Becomes(k, [c EXCEPT !.pc = IF Tail(c.todo) = <<>> THEN "go" ELSE "check", !.todo = Tail(c.todo),
                         !.alive = @ \cup ({Head(c.todo).of} \cap Projects)])

\* can_read and can_write: the row, then its links.
CheckRow(k) ==
    /\ call[k].pc = "check"
    /\ LET do == Head(call[k].todo) IN
       /\ Live(do.of)
       /\ IF row[do.of].owner = call[k].user \/ (do.right = "read" /\ row[do.of].global)
            THEN Pass(k)
            ELSE Becomes(k, [call[k] EXCEPT !.pc = "links", !.alive = @ \cup ({do.of} \cap Projects)])
    /\ UNCHANGED <<row, links, past>>

\* A mutant of the next action: membership is enough to write.
CheckLinksMember(k) ==
    /\ call[k].pc = "links"
    /\ links[Head(call[k].todo).of] \cap call[k].memberOf # {}
    /\ Pass(k)
    /\ UNCHANGED <<row, links, past>>

CheckLinks(k) ==
    /\ call[k].pc = "links"
    /\ LET do == Head(call[k].todo)
           mine == IF do.right = "read" THEN call[k].memberOf ELSE call[k].adminOf
       IN  links[do.of] \cap mine # {}
    /\ Pass(k)
    /\ UNCHANGED <<row, links, past>>

(* Publishing.                                                             *)

\* The next template of apply_project's list, in the order of their names.
NextItem(c) ==
    IF c.queue = {} THEN {Blank("over")}
    ELSE {[c EXCEPT !.pc = "name", !.item = t, !.base = row[t].name, !.tries = 0,
                    !.queue = @ \ {t}, !.rest = {}, !.onto = None, !.left = {},
                    !.checked = FALSE, !.before = {}]
            : t \in c.queue}

\* link_groups: what the request does next when it has these groups to link.
Linking(c, r, groups) ==
    IF groups # {} THEN {[c EXCEPT !.pc = "link", !.onto = r, !.left = groups]}
    ELSE IF c.op = "applyProject" THEN NextItem(c) ELSE {Blank("over")}

InReach(k, groups) == Super(k) \/ groups \subseteq call[k].memberOf

\* Where a row goes that nobody said where to publish.
OwnGroups(k) == IF Super(k) THEN {} ELSE call[k].memberOf

\* A new row is published as asked, refused though it is there already, or
\* goes by default to the groups of its project or its owner.
PublishNew(k, r) ==
    \/ \E groups \in SUBSET Groups :
         /\ InReach(k, groups)
         /\ \E c \in Linking(call[k], r, groups) : Becomes(k, c)
    \/ (\E groups \in SUBSET Groups : ~InReach(k, groups)) /\ Answer(k)
    \/ /\ call[k].to # None
       /\ Becomes(k, [call[k] EXCEPT !.pc = "inherit", !.onto = r])
    \/ /\ call[k].to = None
       /\ \E c \in Linking(call[k], r, OwnGroups(k)) : Becomes(k, c)

\* Re-publication after an UPDATE, done even when the UPDATE found no row.
Republish(k) ==
    \/ Answer(k)
    \/ \E groups \in SUBSET Groups :
         /\ InReach(k, groups)
         /\ Becomes(k, [call[k] EXCEPT !.pc = "clear", !.left = groups, !.onto = call[k].row])

\* A mutant of the next action: everything is replaced.
ClearAll(k) ==
    /\ call[k].pc = "clear"
    /\ links' = [links EXCEPT ![call[k].onto] = {}]
    /\ \E c \in Linking(call[k], call[k].onto, call[k].left) : Becomes(k, c)
    /\ UNCHANGED <<row, past>>

\* The DELETE of set_groups_scoped.
Clear(k) ==
    /\ call[k].pc = "clear"
    /\ links' = [links EXCEPT ![call[k].onto] = IF Super(k) THEN {} ELSE @ \ call[k].memberOf]
    /\ \E c \in Linking(call[k], call[k].onto, call[k].left) : Becomes(k, c)
    /\ UNCHANGED <<row, past>>

\* One INSERT of link_groups.
Link(k) ==
    /\ call[k].pc = "link"
    /\ \E g \in call[k].left :
         /\ links' = [links EXCEPT ![call[k].onto] = @ \cup {g}]
         /\ \E c \in Linking(call[k], call[k].onto, call[k].left \ {g}) : Becomes(k, c)
    /\ UNCHANGED row
    /\ Remember

\* default_groups of a template that is filed.
Inherit(k) ==
    /\ call[k].pc = "inherit"
    /\ \E c \in Linking(call[k], call[k].onto, links[call[k].to]) : Becomes(k, c)
    /\ UNCHANGED <<row, links, past>>

(* Projects.                                                               *)

CreateProject(k) ==
    /\ At(k, "insert", "createProject")
    /\ \E p \in Projects, global \in BOOLEAN :
         /\ row[p].st = "none" /\ (global => Super(k))
         /\ row' = [row EXCEPT ![p] = [NoRow EXCEPT !.st = "live", !.owner = call[k].user, !.global = global]]
         /\ PublishNew(k, p)
    /\ UNCHANGED links
    /\ Remember

UpdateProject(k) ==
    /\ At(k, "go", "updateProject")
    /\ \E global \in BOOLEAN :
         /\ Super(k) \/ global = row[call[k].row].global
         /\ row' = IF Live(call[k].row) THEN [row EXCEPT ![call[k].row].global = global] ELSE row
    /\ Republish(k)
    /\ UNCHANGED links
    /\ Remember

\* delete_project, the first UPDATE and the second.
DeleteProject(k) ==
    /\ At(k, "go", "deleteProject")
    /\ row' = IF Live(call[k].row) THEN [row EXCEPT ![call[k].row].st = "deleted"] ELSE row
    /\ Becomes(k, [call[k] EXCEPT !.pc = "unfile"])
    /\ UNCHANGED <<links, past>>

\* A mutant of the next action: deleted templates only.
UnfileDeleted(k) ==
    /\ call[k].pc = "unfile"
    /\ row' = [r \in Rows |-> IF row[r].project = call[k].row /\ ~Live(r)
                                THEN [row[r] EXCEPT !.project = None] ELSE row[r]]
    /\ past' = [past EXCEPT !.unfiled = @ \cup {call[k].row}]
    /\ Answer(k)
    /\ UNCHANGED links

Unfile(k) ==
    /\ call[k].pc = "unfile"
    /\ row' = [r \in Rows |-> IF row[r].project = call[k].row
                                THEN [row[r] EXCEPT !.project = None] ELSE row[r]]
    /\ past' = [past EXCEPT !.unfiled = @ \cup {call[k].row}]
    /\ Answer(k)
    /\ UNCHANGED links

(* Templates.                                                              *)

\* save_channel_template reads the rules of the channel.
ReadRules(k) ==
    /\ At(k, "go", "saveChannel")
    /\ Becomes(k, [call[k] EXCEPT !.pc = "insert", !.rest = row[call[k].row].rules])
    /\ UNCHANGED <<row, links, past>>

\* A template is written with its project; origin keeps who could.
Filing(k, t, p) ==
    past' = [past EXCEPT
        !.global = @ \cup {r \in Rows : row'[r].global},
        !.filed  = IF p = None THEN @ ELSE @ \cup {<<t, p>>},
        !.origin = IF p # None /\ (Super(k) \/ p \in call[k].alive) THEN @ \cup {<<t, p>>} ELSE @]

\* insert_template; the foreign key wants the project to exist.
InsertTemplate(k) ==
    /\ At(k, "insert", "saveChannel") \/ At(k, "go", "saveRule")
    /\ LET c == call[k] IN
       \E t \in Templates, global \in BOOLEAN :
         /\ row[t].st = "none" /\ (global => Super(k))
         /\ c.to # None => row[c.to].st # "none"
         /\ row' = [row EXCEPT ![t] =
              [st |-> "live", owner |-> c.user, global |-> global,
               kind |-> IF c.op = "saveRule" THEN "rule" ELSE "channel",
               project |-> c.to, name |-> row[c.row].name, rules |-> c.rest]]
         /\ PublishNew(k, t)
         /\ Filing(k, t, c.to)
    /\ UNCHANGED links

\* update_template reads the row and computes every column from it: to and
\* global become the final values.
ReadCurrent(k) ==
    /\ At(k, "go", "updateTemplate")
    /\ Live(call[k].row)
    /\ LET c == call[k]
           cur == row[c.row]
       IN  \E project \in IF c.to # None THEN {c.to} ELSE {None, cur.project},
              global \in IF Super(k) THEN BOOLEAN ELSE {cur.global} :
             Becomes(k, [c EXCEPT !.pc = "update", !.to = project, !.global = global,
               !.alive = @ \cup ({project} \ (past.unfiled \cup {None}))])
    /\ UNCHANGED <<row, links, past>>

UpdateTemplate(k) ==
    /\ At(k, "update", "updateTemplate")
    /\ LET c == call[k] IN
       /\ c.to # None => row[c.to].st # "none"
       /\ row' = IF Live(c.row)
                   THEN [row EXCEPT ![c.row].project = c.to, ![c.row].global = c.global]
                   ELSE row
       /\ IF Live(c.row) THEN Filing(k, c.row, c.to) ELSE UNCHANGED past
    /\ Republish(k)
    /\ UNCHANGED links

DeleteTemplate(k) ==
    /\ At(k, "go", "deleteTemplate")
    /\ row' = IF Live(call[k].row) THEN [row EXCEPT ![call[k].row].st = "deleted"] ELSE row
    /\ Answer(k)
    /\ UNCHANGED <<links, past>>

(* Applying.                                                               *)

\* apply_project: the channel templates filed in the project.
ReadMembers(k) ==
    /\ At(k, "go", "applyProject")
    /\ LET filed == {t \in Templates : Live(t) /\ row[t].project = call[k].row /\ row[t].kind = "channel"}
       IN  \E c \in NextItem([call[k] EXCEPT !.queue = filed]) : Becomes(k, c)
    /\ UNCHANGED <<row, links, past>>

\* apply_template of a rule: an INSERT into a channel that exists.
ApplyRule(k) ==
    /\ At(k, "go", "applyTemplate") /\ row[call[k].row].kind = "rule"
    /\ row[call[k].to].st # "none"
    /\ row' = [row EXCEPT ![call[k].to].rules = @ \cup row[call[k].row].rules]
    /\ Answer(k)
    /\ UNCHANGED <<links, past>>

\* apply_template of a channel, under its name or the one in the request.
ApplyChannel(k) ==
    /\ At(k, "go", "applyTemplate") /\ row[call[k].row].kind = "channel"
    /\ \E c \in NextItem([call[k] EXCEPT !.queue = {call[k].row}]), base \in {row[call[k].row].name, <<>>} :
         Becomes(k, [c EXCEPT !.base = base])
    /\ UNCHANGED <<row, links, past>>

\* unique_channel_name.
Candidate(base, n) == IF n = 0 THEN base ELSE Append(base, n)

\* A mutant of the next definition: soft-deleted channels do not count.
TakenByLive(name) == \E c \in Channels : Live(c) /\ row[c].name = name

Taken(name) == \E c \in Channels : row[c].st # "none" /\ row[c].name = name

\* It settles on a name.
Settles(k, n, found) ==
    Becomes(k, [call[k] EXCEPT !.pc = "make", !.tries = n, !.checked = found,
                               !.before = {d \in Channels : row[d].st # "none"}])

\* One SELECT of it.  A SELECT that fails counts as one that finds nothing: the
\* name is used unseen, as is the last one when all before it are taken.
FindName(k) ==
    /\ call[k].pc = "name"
    /\ LET n == call[k].tries
           taken == Taken(Candidate(call[k].base, n))
       IN  \/ taken /\ n + 1 < MaxTries /\ Becomes(k, [call[k] EXCEPT !.tries = n + 1])
           \/ taken /\ n + 1 >= MaxTries /\ Settles(k, MaxTries, FALSE)
           \/ ~taken /\ Settles(k, n, TRUE)
           \/ Settles(k, n, FALSE)
    /\ UNCHANGED <<row, links, past>>

\* When the rules are there, the channel is linked to the caller's groups.
Filling(k, d, rest) ==
    IF rest # {} THEN Becomes(k, [call[k] EXCEPT !.pc = "fill", !.onto = d, !.rest = rest])
    ELSE \E c \in Linking([call[k] EXCEPT !.rest = {}], d, OwnGroups(k)) : Becomes(k, c)

\* The UNIQUE constraint of channels.name.
Free(name) == \A c \in Channels : row[c].st # "none" => row[c].name # name

MakeChannel(k) ==
    /\ call[k].pc = "make"
    /\ LET c == call[k]
           name == Candidate(c.base, c.tries)
       IN  /\ Free(name)
           /\ \E d \in Channels :
                /\ row[d].st = "none"
                /\ row' = [row EXCEPT ![d] = [NoRow EXCEPT !.st = "live", !.owner = c.user, !.name = name]]
                /\ past' = [past EXCEPT !.from[d] = c.item]
                /\ Filling(k, d, row[c.item].rules)
    /\ UNCHANGED links

\* A mutant of the next action: the last rule is taken for done.
FillShort(k) ==
    /\ call[k].pc = "fill"
    /\ LET c == call[k] IN
       \E x \in c.rest :
         /\ row' = [row EXCEPT ![c.onto].rules = @ \cup {x}]
         /\ past' = [past EXCEPT !.given[c.onto] = @ \cup {x}]
         /\ Filling(k, c.onto, IF Cardinality(c.rest) = 2 THEN {} ELSE c.rest \ {x})
    /\ UNCHANGED links

\* The INSERT of one rule.
Fill(k) ==
    /\ call[k].pc = "fill"
    /\ LET c == call[k] IN
       \E x \in c.rest :
         /\ row' = [row EXCEPT ![c.onto].rules = @ \cup {x}]
         /\ past' = [past EXCEPT !.given[c.onto] = @ \cup {x}]
         /\ Filling(k, c.onto, c.rest \ {x})
    /\ UNCHANGED links

\* A channel whose filling is cut short.
Tear(k) ==
    past' = [past EXCEPT !.torn = @ \cup IF call[k].pc = "fill" THEN {call[k].onto} ELSE {}]

\* apply_project notes a statement that fails and goes on with the next
\* template.
ItemFails(k) ==
    /\ call[k].pc \in {"make", "fill"} /\ call[k].op = "applyProject"
    /\ \E c \in NextItem(call[k]) : Becomes(k, c)
    /\ Tear(k)
    /\ UNCHANGED <<row, links>>

\* A refusal, a failing statement, a client that goes away, a crash.
Refused(k) ==
    /\ call[k].pc \notin {"new", "over"}
    /\ Answer(k)
    /\ Tear(k)
    /\ UNCHANGED <<row, links>>

\* A statement of another handler: a channel is created, renamed or deleted,
\* or its rules change.
ChannelWrite(k) ==
    /\ call[k].pc = "new" /\ "channels" \in Ops
    /\ \E d \in Channels :
         \/ /\ row[d].st = "none"
            /\ \E name \in {<<>>, <<1>>}, u \in Users :
                 /\ Free(name)
                 /\ row' = [row EXCEPT ![d] = [NoRow EXCEPT !.st = "live", !.owner = u, !.name = name]]
            /\ Answer(k)
         \/ /\ Live(d)
            /\ \E name \in {<<>>, <<1>>} : Free(name) /\ row' = [row EXCEPT ![d].name = name]
            /\ call' = [l \in Calls |-> IF l = k THEN Blank("over")
                                        ELSE [call[l] EXCEPT !.before = @ \ {d}]]
         \/ Live(d) /\ row' = [row EXCEPT ![d].st = "deleted"] /\ Answer(k)
         \/ Live(d) /\ \E rules \in SUBSET Contents : row' = [row EXCEPT ![d].rules = rules] /\ Answer(k)
    /\ UNCHANGED <<links, past>>

Handle(k) ==
    \/ Begin(k) \/ Look(k) \/ CheckRow(k) \/ CheckLinks(k) \/ Refused(k)
    \/ Clear(k) \/ Link(k) \/ Inherit(k)
    \/ CreateProject(k) \/ UpdateProject(k) \/ DeleteProject(k) \/ Unfile(k)
    \/ ReadRules(k) \/ InsertTemplate(k) \/ ReadCurrent(k) \/ UpdateTemplate(k) \/ DeleteTemplate(k)
    \/ ReadMembers(k) \/ ApplyRule(k) \/ ApplyChannel(k)
    \/ FindName(k) \/ MakeChannel(k) \/ Fill(k) \/ ItemFails(k)
    \/ ChannelWrite(k)

Next == \E k \in Calls : Handle(k)

Spec == Init /\ [][Next]_vars

-----------------------------------------------------------------------------
\* unique_channel_name and the INSERT that uses its answer are two statements.
\* An apply whose name was looked up and found free meets it taken only by a
\* channel created or renamed in between, never by one that was there when the
\* name was chosen, be it deleted.  Of a name used unseen, because its SELECT
\* failed or all names before it were taken, nothing is said: there the UNIQUE
\* constraint alone keeps the INSERT from a channel that was there all along.
NameFreeWhenFound ==
    \A k \in Calls : call[k].pc = "make" /\ call[k].checked =>
        \A d \in call[k].before : row[d].name # Candidate(call[k].base, call[k].tries)

\* instantiate_channel_full inserts a channel and its rules one by one.  A
\* channel made from a template got every rule of it, or is being filled, or
\* its apply was cut short or reported the error.
AppliedWhole ==
    \A d \in Channels : past.from[d] # None /\ d \notin past.torn =>
        \/ row[past.from[d]].rules \subseteq past.given[d]
        \/ \E k \in Calls : call[k].pc = "fill" /\ call[k].onto = d

\* Once delete_project has unfiled a project, a live template is found in it
\* only if a super-admin, whom no check holds back, or a call that came across
\* the project before the deletion was over filed it there.
StraysTraced ==
    \A t \in Templates, p \in Projects :
        Live(t) /\ row[t].project = p /\ row[p].st = "deleted" /\ p \in past.unfiled
            => <<t, p>> \in past.origin

\* The request that makes a step.
Acts(k) == call'[k] # call[k]

\* A request could once read or write a row.
MayRead(k, r) ==
    \/ Super(k) \/ row[r].owner = call[k].user \/ r \in past.global
    \/ past.links[r] \cap call[k].memberOf # {}
MayWrite(k, r) ==
    \/ Super(k) \/ row[r].owner = call[k].user
    \/ past.links[r] \cap call[k].adminOf # {}

\* Between a check and its use a row may be unpublished, moved or deleted.
\* Still, a project or template is only changed by a call that could once
\* write it, or through the deletion of a project the call could once write;
\* it is only filed in a project the call could once write or it was filed in
\* before; and a channel is only made from a template that the call could
\* once read, itself or through a project that held it.
WritesTraced ==
    [][/\ \A r \in Projects \cup Templates : row[r].st # "none" /\ row'[r] # row[r] =>
            \E k \in Calls : Acts(k) /\
              \/ MayWrite(k, r)
              \/ call[k].pc = "unfile" /\ MayWrite(k, call[k].row)
       /\ \A t \in Templates : row'[t].project \notin {None, row[t].project} =>
            \E k \in Calls : Acts(k) /\
              (MayWrite(k, row'[t].project) \/ <<t, row'[t].project>> \in past.filed)
       /\ \A d \in Channels : past'.from[d] # past.from[d] =>
            \E k \in Calls : Acts(k) /\
              \/ MayRead(k, past'.from[d])
              \/ \E p \in Projects : <<past'.from[d], p>> \in past.filed /\ MayRead(k, p)]_vars

\* A link is added or removed by a super-admin or a member of the group, or
\* comes from a project the template is filed in.
LinksInReach ==
    [][\A r \in Rows, g \in Groups : (g \in links[r]) # (g \in links'[r]) =>
         \E k \in Calls : Acts(k) /\
           \/ Super(k) \/ g \in call[k].memberOf
           \/ call[k].op \in {"saveRule", "saveChannel"} /\ g \in past.links[call[k].to]]_vars

\* "Only super-admins change org-wide visibility."
GlobalBySuper ==
    [][\A t \in Templates : row'[t].global # row[t].global =>
         \E k \in Calls : Acts(k) /\ Super(k)]_vars
=============================================================================
