--------------------------- MODULE TemplatesProofs ---------------------------
(***************************************************************************)
(* Type correctness of Templates; that a name found free stays free, that  *)
(* what is applied is applied whole, and that every write to the library   *)
(* traces back to a right that its request once had.                       *)
(***************************************************************************)
EXTENDS Templates, SequenceTheorems, TLAPS

-----------------------------------------------------------------------------
(* What a request has established, of the rows R and the history P.         *)

Has(c, check) == \E i \in DOMAIN c.todo : c.todo[i] = check

\* A right that lasts: owners stay, and history forgets nothing.
Writable(c, r, R, P) ==
    \/ c.user \in Supers
    \/ R[r].st # "none" /\ R[r].owner = c.user
    \/ P.links[r] \cap c.adminOf # {}

Readable(c, r, R, P) ==
    \/ c.user \in Supers
    \/ R[r].st # "none" /\ R[r].owner = c.user
    \/ r \in P.global
    \/ P.links[r] \cap c.memberOf # {}

SaveOps == {"saveRule", "saveChannel"}
ApplyOps == {"applyProject", "applyTemplate"}

\* What a request names is of the kind its handler is about.
Named(c) ==
    /\ c.op \in {"updateProject", "deleteProject", "applyProject"} => c.row \in Projects
    /\ c.op \in SaveOps => c.row \in Channels /\ c.to \in Projects \cup {None}
    /\ c.op \in {"updateTemplate", "deleteTemplate", "applyTemplate"} => c.row \in Templates
    /\ c.op = "updateTemplate" => c.to \in Projects \cup {None}
    /\ c.op = "applyTemplate" => c.to \in Channels \cup {None}
    /\ c.op = "createProject" => c.to = None

\* Where a request is tells what it holds.
Staged(c) ==
    /\ c.pc \in {"check", "links"} => c.todo # <<>>
    /\ c.pc \notin {"look", "check", "links"} => c.todo = <<>>
    /\ c.pc = "look" => c.op \in SaveOps \cup ApplyOps
    /\ c.pc = "unfile" => c.op = "deleteProject"
    /\ c.pc = "clear" => c.op \in {"updateProject", "updateTemplate"}
    /\ c.pc = "inherit" => c.op \in SaveOps /\ c.to \in Projects
    /\ c.pc \in {"inherit", "clear", "link"} => c.onto \in Rows
    /\ c.pc \in {"name", "make", "fill"} => c.op \in ApplyOps /\ c.item \in Templates
    /\ c.pc = "fill" => c.onto \in Channels

\* The project to file in was written to, or held the template already; and
\* it was seen live, or the template is no stray of this request's making.
MayFile(c, R, P) ==
    /\ \/ Writable(c, c.to, R, P)
       \/ c.op = "updateTemplate" /\ <<c.row, c.to>> \in P.filed
    /\ \/ c.user \in Supers
       \/ c.to \in c.alive
       \/ c.op = "updateTemplate" /\ <<c.row, c.to>> \in P.origin

\* A template that is applied is the one named, or of the project named.
Sourced(c, t, R, P) ==
    /\ R[t].st # "none"
    /\ c.op = "applyTemplate" => t = c.row
    /\ c.op = "applyProject" => <<t, c.row>> \in P.filed

Standing(c, R, P) ==
    /\ c.row # None => R[c.row].st # "none"
    /\ c.op \in {"updateProject", "deleteProject", "updateTemplate", "deleteTemplate"} =>
         Has(c, Write(c.row)) \/ Writable(c, c.row, R, P)
    /\ c.op \in ApplyOps => Has(c, Read(c.row)) \/ Readable(c, c.row, R, P)
    /\ c.op \in SaveOps \cup {"updateTemplate"} /\ c.to # None =>
         Has(c, Write(c.to)) \/ MayFile(c, R, P)
    /\ \A t \in c.queue : Sourced(c, t, R, P)

Applying(c, R, P) ==
    /\ c.pc \in {"name", "make", "fill"} => Sourced(c, c.item, R, P)
    /\ c.pc = "make" /\ c.checked => \A d \in c.before : R[d].st # "none" /\ R[d].name # Candidate(c.base, c.tries)
    /\ c.pc = "fill" =>
         /\ R[c.onto].st # "none"
         /\ P.from[c.onto] = c.item
         /\ R[c.item].rules \subseteq P.given[c.onto] \cup c.rest

InReachOf(c, groups, P) ==
    \/ c.user \in Supers
    \/ groups \subseteq c.memberOf
    \/ c.op \in SaveOps /\ c.to \in Projects /\ groups \subseteq P.links[c.to]

Holds(c, R, P) ==
    /\ Named(c) /\ Staged(c) /\ Standing(c, R, P) /\ Applying(c, R, P)
    /\ c.pc = "clear" => c.user \in Supers \/ c.left \subseteq c.memberOf
    /\ c.pc = "link" => InReachOf(c, c.left, P)

Held == \A k \in Calls : Holds(call[k], row, past)

\* History has what the tables hold.
History ==
    /\ \A r \in Rows : links[r] \subseteq past.links[r]
    /\ \A r \in Rows : row[r].global => r \in past.global
    /\ \A t \in Templates : row[t].project # None =>
         /\ <<t, row[t].project>> \in past.filed
         /\ row[t].project \in past.unfiled => <<t, row[t].project>> \in past.origin
    /\ \A d \in Channels : past.from[d] # None =>
         row[d].st # "none" /\ row[past.from[d]].st # "none"

IInv == TypeOK /\ History /\ Held /\ AppliedWhole


-----------------------------------------------------------------------------
(* What every step leaves as it was.                                        *)

TablesOK ==
    /\ row \in [Rows -> Row]
    /\ links \in [Rows -> SUBSET Groups]
    /\ past \in [links : [Rows -> SUBSET Groups], global : SUBSET Rows,
                 filed : SUBSET (Templates \X Projects), unfiled : SUBSET Projects,
                 origin : SUBSET (Templates \X Projects),
                 from : [Channels -> Templates \cup {None}], given : [Channels -> SUBSET Contents],
                 torn : SUBSET Channels]

\* Rows keep their owners, and templates what they say.
RowsKept ==
    /\ \A r \in Rows : row[r].st # "none" => row'[r].st # "none" /\ row'[r].owner = row[r].owner
    /\ \A t \in Templates : row[t].st # "none" => row'[t].rules = row[t].rules

NamesKept == \A d \in Channels : row[d].st # "none" => row'[d].name = row[d].name

PastKept ==
    /\ \A r \in Rows : past.links[r] \subseteq past'.links[r]
    /\ past.global \subseteq past'.global
    /\ past.filed \subseteq past'.filed /\ past.origin \subseteq past'.origin
    /\ \A d \in Channels : past.given[d] \subseteq past'.given[d]
    /\ \A d \in Channels : row[d].st # "none" => past'.from[d] = past.from[d]

LEMMA RightsLast ==
  ASSUME TypeOK, RowsKept, PastKept, NEW c \in CallState, NEW r \in Rows
  PROVE  /\ Writable(c, r, row, past) => Writable(c, r, row', past')
         /\ Readable(c, r, row, past) => Readable(c, r, row', past')
BY DEF RowsKept, PastKept, Writable, Readable

LEMMA StandingLasts ==
  ASSUME TypeOK, RowsKept, PastKept, NEW c \in CallState, Named(c), Standing(c, row, past)
  PROVE  Standing(c, row', past')
<1> USE TemplatesAssumption
<1>0. c.row \in Rows \cup {None} /\ c.to \in Rows \cup {None} /\ c.queue \in SUBSET Templates
  BY DEF CallState
<1>1. c.row # None => row'[c.row].st # "none"
  BY <1>0 DEF Standing, RowsKept
<1>2. c.op \in {"updateProject", "deleteProject", "updateTemplate", "deleteTemplate"} =>
        Has(c, Write(c.row)) \/ Writable(c, c.row, row', past')
  <2>1. c.op \in {"updateProject", "deleteProject", "updateTemplate", "deleteTemplate"} => c.row \in Rows
    BY DEF Named, Rows
  <2>2. QED BY <2>1, RightsLast DEF Standing
<1>3. c.op \in ApplyOps => Has(c, Read(c.row)) \/ Readable(c, c.row, row', past')
  <2>1. c.op \in ApplyOps => c.row \in Rows
    BY DEF Named, Rows, ApplyOps
  <2>2. QED BY <2>1, RightsLast DEF Standing
<1>4. ASSUME c.op \in SaveOps \cup {"updateTemplate"}, c.to # None, ~Has(c, Write(c.to))
      PROVE  MayFile(c, row', past')
  <2>1. MayFile(c, row, past) /\ c.to \in Rows
    BY <1>0, <1>4 DEF Standing
  <2>2. QED BY <2>1, RightsLast DEF MayFile, PastKept
<1>5. \A t \in c.queue : Sourced(c, t, row', past')
  BY <1>0 DEF Standing, Sourced, RowsKept, PastKept, Rows
<1>6. QED BY <1>1, <1>2, <1>3, <1>4, <1>5 DEF Standing

LEMMA ApplyingLasts ==
  ASSUME TypeOK, RowsKept, NamesKept, PastKept,
         NEW c \in CallState, Staged(c), Applying(c, row, past)
  PROVE  Applying(c, row', past')
<1>1. c.pc \in {"name", "make", "fill"} => Sourced(c, c.item, row', past')
  BY DEF Applying, Sourced, Staged, RowsKept, PastKept, Rows
<1>2. c.pc = "make" /\ c.checked =>
        \A d \in c.before : row'[d].st # "none" /\ row'[d].name # Candidate(c.base, c.tries)
  BY DEF CallState, Applying, RowsKept, NamesKept, Rows
<1>3. ASSUME c.pc = "fill"
      PROVE  /\ row'[c.onto].st # "none"
             /\ past'.from[c.onto] = c.item
             /\ row'[c.item].rules \subseteq past'.given[c.onto] \cup c.rest
  <2>1. c.onto \in Channels /\ c.item \in Templates /\ row[c.item].st # "none"
    BY <1>3 DEF Staged, Applying, Sourced
  <2>2. QED BY <1>3, <2>1 DEF Applying, RowsKept, PastKept, Rows
<1>4. QED BY <1>1, <1>2, <1>3 DEF Applying

LEMMA HoldsLonger ==
  ASSUME TypeOK, RowsKept, NamesKept, PastKept, NEW c \in CallState, Holds(c, row, past)
  PROVE  Holds(c, row', past')
<1>1. Standing(c, row', past') /\ Applying(c, row', past')
  BY StandingLasts, ApplyingLasts DEF Holds
<1>2. c.pc = "link" => InReachOf(c, c.left, past')
  <2>1. Projects \subseteq Rows
    BY DEF Rows
  <2>2. QED BY <2>1 DEF Holds, InReachOf, PastKept
<1>3. QED BY <1>1, <1>2 DEF Holds

(* One request moves to the state v.                                        *)
CallMoves(k, v) ==
    /\ v \in CallState /\ Holds(v, row', past')
    /\ call' = [call EXCEPT ![k] = v]

LEMMA CallsKept ==
  ASSUME TypeOK, Held, RowsKept, NamesKept, PastKept, NEW k \in Calls, NEW v, CallMoves(k, v)
  PROVE  call' \in [Calls -> CallState] /\ Held'
<1>1. call' \in [Calls -> CallState]
  BY DEF TypeOK, CallMoves
<1>2. ASSUME NEW l \in Calls PROVE Holds(call'[l], row', past')
  <2>1. CASE l = k
    BY <2>1 DEF TypeOK, CallMoves
  <2>2. CASE l # k
    <3>1. call'[l] = call[l] /\ Holds(call[l], row, past) /\ call[l] \in CallState
      BY <2>2 DEF TypeOK, CallMoves, Held
    <3>2. QED BY <3>1, HoldsLonger
  <2>3. QED BY <2>1, <2>2
<1>3. QED BY <1>1, <1>2 DEF Held

LEMMA BlankHolds ==
  ASSUME NEW pc \in {"new", "over"}, NEW R, NEW P, Users # {}
  PROVE  Blank(pc) \in CallState /\ Holds(Blank(pc), R, P)
<1>1. Blank(pc) \in CallState
  BY DEF Blank, CallState, Name
<1>2. Named(Blank(pc)) /\ Staged(Blank(pc))
  BY DEF Blank, Named, Staged, SaveOps, ApplyOps
<1>3. Standing(Blank(pc), R, P) /\ Applying(Blank(pc), R, P)
  BY DEF Blank, Standing, Applying, SaveOps, ApplyOps
<1>4. QED BY <1>1, <1>2, <1>3 DEF Holds, Blank

LEMMA Answered ==
  ASSUME TypeOK, NEW k \in Calls, Answer(k)
  PROVE  CallMoves(k, Blank("over"))
<1>1. Users # {}
  BY DEF TypeOK, CallState
<1>2. QED BY <1>1, BlankHolds DEF Answer, Becomes, CallMoves

\* What a request may do depends on these of its fields.
LEMMA SameStanding ==
  ASSUME NEW c, NEW v, NEW R, NEW P, Named(c), Standing(c, R, P),
         v.op = c.op, v.user = c.user, v.memberOf = c.memberOf, v.adminOf = c.adminOf,
         v.todo = c.todo, v.row = c.row, v.to = c.to, v.queue \subseteq c.queue,
         c.alive \subseteq v.alive
  PROVE  Named(v) /\ Standing(v, R, P)
<1>1. Named(v)
  BY DEF Named
<1>2. \A check : Has(v, check) <=> Has(c, check)
  BY DEF Has
<1>3. \A r : Writable(v, r, R, P) <=> Writable(c, r, R, P)
  BY DEF Writable
<1>4. \A r : Readable(v, r, R, P) <=> Readable(c, r, R, P)
  BY DEF Readable
<1>5. MayFile(c, R, P) => MayFile(v, R, P)
  BY <1>3 DEF MayFile
<1>6. \A t : Sourced(v, t, R, P) <=> Sourced(c, t, R, P)
  BY DEF Sourced
<1>7. QED BY <1>1, <1>2, <1>3, <1>4, <1>5, <1>6 DEF Standing

-----------------------------------------------------------------------------
(* Steps that write to no table.                                            *)

LEMMA NothingLost ==
  ASSUME TypeOK, UNCHANGED <<row, links, past>>
  PROVE  RowsKept /\ NamesKept /\ PastKept
BY DEF RowsKept, NamesKept, PastKept

LEMMA NextItemHolds ==
  ASSUME TypeOK, Users # {}, NEW c \in CallState, NEW R, NEW P, Named(c), Standing(c, R, P),
         c.todo = <<>>, c.op \in ApplyOps, NEW v \in NextItem(c)
  PROVE  v \in CallState /\ Holds(v, R, P) /\ v.pc \in {"name", "over"}
<1>1. CASE c.queue = {}
  <2>1. v = Blank("over") /\ v.pc = "over"
    BY <1>1 DEF NextItem, Blank
  <2>2. QED BY <2>1, BlankHolds
<1>2. CASE c.queue # {}
  <2>1. PICK t \in c.queue :
          v = [c EXCEPT !.pc = "name", !.item = t, !.base = row[t].name, !.tries = 0,
                        !.queue = @ \ {t}, !.rest = {}, !.onto = None, !.left = {}, !.checked = FALSE, !.before = {}]
    BY <1>2 DEF NextItem
  <2>2. t \in Templates /\ row[t].name \in Name
    BY DEF CallState, TypeOK, Row, Rows
  <2>3. /\ v \in CallState /\ v.pc = "name" /\ v.item = t /\ v.queue \subseteq c.queue
        /\ v.op = c.op /\ v.user = c.user /\ v.memberOf = c.memberOf /\ v.adminOf = c.adminOf
        /\ v.todo = c.todo /\ v.row = c.row /\ v.to = c.to /\ v.alive = c.alive
    BY <2>1, <2>2, ZenonT(40) DEF CallState
  <2>4. Named(v) /\ Standing(v, R, P)
    BY <2>3, SameStanding
  <2>5. Sourced(v, t, R, P)
    BY <2>3 DEF Standing, Sourced
  <2>6. QED BY <2>2, <2>3, <2>4, <2>5 DEF Holds, Staged, Applying
<1>3. QED BY <1>1, <1>2

LEMMA LinkingHolds ==
  ASSUME TypeOK, Users # {}, NEW c \in CallState, NEW R, NEW P, Named(c), Standing(c, R, P),
         c.todo = <<>>, NEW r \in Rows, NEW groups \in SUBSET Groups, InReachOf(c, groups, P),
         NEW v \in Linking(c, r, groups)
  PROVE  v \in CallState /\ Holds(v, R, P) /\ v.pc \in {"link", "name", "over"}
<1>1. CASE groups # {}
  <2>1. v = [c EXCEPT !.pc = "link", !.onto = r, !.left = groups]
    BY <1>1 DEF Linking
  <2>2. /\ v \in CallState /\ v.pc = "link" /\ v.onto = r /\ v.left = groups /\ v.queue = c.queue
        /\ v.op = c.op /\ v.user = c.user /\ v.memberOf = c.memberOf /\ v.adminOf = c.adminOf
        /\ v.todo = c.todo /\ v.row = c.row /\ v.to = c.to /\ v.alive = c.alive
    BY <2>1, ZenonT(40) DEF CallState
  <2>3. Named(v) /\ Standing(v, R, P)
    BY <2>2, SameStanding
  <2>4. InReachOf(v, v.left, P)
    BY <2>2 DEF InReachOf
  <2>5. QED BY <2>2, <2>3, <2>4 DEF Holds, Staged, Applying
<1>2. CASE groups = {} /\ c.op = "applyProject"
  BY <1>2, NextItemHolds DEF Linking, ApplyOps
<1>3. CASE groups = {} /\ c.op # "applyProject"
  <2>1. v = Blank("over") /\ v.pc = "over"
    BY <1>3 DEF Linking, Blank
  <2>2. QED BY <2>1, BlankHolds
<1>4. QED BY <1>1, <1>2, <1>3

LEMMA BeginMoves ==
  ASSUME IInv, NEW k \in Calls, Begin(k)
  PROVE  \E v : CallMoves(k, v)
<1> USE TemplatesAssumption
<1>0. UNCHANGED <<row, links, past>>
  BY DEF Begin
<1>1. PICK op \in Ops \ {"channels"}, u \in Users, ms \in SUBSET Groups :
       \E as \in SUBSET ms, n \in Names(op) :
         /\ \A i \in {1, 2} : n[i] # None => row[n[i]].st # "none"
         /\ u \in Supers => ms = {}
         /\ Becomes(k, [Blank(Entry(op, Checks(u, op, n[1], n[2]))) EXCEPT
           !.op = op, !.user = u, !.memberOf = ms, !.adminOf = as,
           !.row = n[1], !.to = n[2], !.todo = Checks(u, op, n[1], n[2])])
  BY Zenon DEF Begin
<1>2. PICK as \in SUBSET ms, n \in Names(op) :
         /\ \A i \in {1, 2} : n[i] # None => row[n[i]].st # "none"
         /\ Becomes(k, [Blank(Entry(op, Checks(u, op, n[1], n[2]))) EXCEPT
           !.op = op, !.user = u, !.memberOf = ms, !.adminOf = as,
           !.row = n[1], !.to = n[2], !.todo = Checks(u, op, n[1], n[2])])
  BY <1>1, Zenon
<1>3. op \in {"createProject", "updateProject", "deleteProject", "applyProject", "saveRule",
              "saveChannel", "updateTemplate", "deleteTemplate", "applyTemplate"}
  OBVIOUS
<1> DEFINE r == n[1]
           to == n[2]
           todo == Checks(u, op, r, to)
           pc == Entry(op, todo)
           v == [Blank(pc) EXCEPT !.op = op, !.user = u, !.memberOf = ms, !.adminOf = as,
                                  !.row = r, !.to = to, !.todo = todo]
<1>4. /\ r \in Rows \cup {None} /\ to \in Rows \cup {None}
      /\ op \in {"updateProject", "deleteProject", "applyProject"} => r \in Projects
      /\ op \in SaveOps => r \in Channels /\ to \in Projects \cup {None}
      /\ op \in {"updateTemplate", "deleteTemplate", "applyTemplate"} => r \in Templates
      /\ op = "updateTemplate" => to \in Projects \cup {None}
      /\ op = "applyTemplate" => to \in Channels \cup {None}
      /\ op = "createProject" => to = None
  BY <1>3 DEF Names, Rows, SaveOps
<1>5. r # None => row[r].st # "none"
  BY <1>2
<1>6. /\ todo \in Seq([right : {"read", "write"}, of : Rows])
      /\ op \in {"updateProject", "deleteProject", "updateTemplate", "deleteTemplate"} =>
           u \in Supers \/ \E i \in DOMAIN todo : todo[i] = Write(r)
      /\ op \in ApplyOps => u \in Supers \/ \E i \in DOMAIN todo : todo[i] = Read(r)
      /\ op \in SaveOps \cup {"updateTemplate"} /\ to # None =>
           u \in Supers \/ \E i \in DOMAIN todo : todo[i] = Write(to)
  <2>1. u \in Supers => todo = <<>>
    BY DEF Checks
  <2>2. ASSUME u \notin Supers, op = "createProject" PROVE todo = <<>>
    BY <2>2 DEF Checks
  <2>3. ASSUME u \notin Supers, op \in {"updateProject", "deleteProject", "deleteTemplate"}
        PROVE  todo = <<Write(r)>> /\ r \in Rows
    BY <2>3, <1>4 DEF Checks, Rows
  <2>4. ASSUME u \notin Supers, op = "applyProject" PROVE todo = <<Read(r)>> /\ r \in Rows
    BY <2>4, <1>4 DEF Checks, Rows
  <2>5. ASSUME u \notin Supers, op \in SaveOps \cup {"applyTemplate"}
        PROVE  todo = (IF to = None THEN <<Read(r)>> ELSE <<Read(r), Write(to)>>) /\ r \in Rows
    BY <2>5, <1>4 DEF Checks, Rows, SaveOps
  <2>6. ASSUME u \notin Supers, op = "updateTemplate"
        PROVE  todo = (IF to = None THEN <<Write(r)>> ELSE <<Write(r), Write(to)>>) /\ r \in Rows
    BY <2>6, <1>4 DEF Checks, Rows
  <2> DEFINE C == [right : {"read", "write"}, of : Rows]
  <2>7. \A x \in Rows : Read(x) \in C /\ Write(x) \in C
    BY DEF Read, Write
  <2> HIDE DEF todo, r, to, C
  <2>8. todo \in Seq(C)
    <3>1. \A x \in C : <<x>> \in Seq(C)
      OBVIOUS
    <3>2. \A x, y \in C : <<x, y>> \in Seq(C)
      OBVIOUS
    <3>3. <<>> \in Seq(C)
      OBVIOUS
    <3>4. to # None => to \in Rows
      BY <1>4
    <3> HIDE DEF pc, v
    <3>5. CASE u \in Supers \/ op = "createProject"
      BY <2>1, <2>2, <3>3, <3>5
    <3>6. CASE u \notin Supers /\ op \in {"updateProject", "deleteProject", "deleteTemplate"}
      BY <2>3, <2>7, <3>1, <3>6
    <3>7. CASE u \notin Supers /\ op = "applyProject"
      BY <2>4, <2>7, <3>1, <3>7
    <3>8. CASE u \notin Supers /\ op \in SaveOps \cup {"applyTemplate"}
      <4>1. r \in Rows
        BY <2>5, <3>8
      <4>2. todo = <<Read(r)>> \/ (to \in Rows /\ todo = <<Read(r), Write(to)>>)
        BY <2>5, <3>4, <3>8
      <4>3. <<Read(r)>> \in Seq(C)
        BY <2>7, <3>1, <4>1
      <4>4. to \in Rows => <<Read(r), Write(to)>> \in Seq(C)
        BY <2>7, <3>2, <4>1
      <4>5. QED BY <4>2, <4>3, <4>4
    <3>9. CASE u \notin Supers /\ op = "updateTemplate"
      <4>1. r \in Rows
        BY <2>6, <3>9
      <4>2. todo = <<Write(r)>> \/ (to \in Rows /\ todo = <<Write(r), Write(to)>>)
        BY <2>6, <3>4, <3>9
      <4>3. <<Write(r)>> \in Seq(C)
        BY <2>7, <3>1, <4>1
      <4>4. to \in Rows => <<Write(r), Write(to)>> \in Seq(C)
        BY <2>7, <3>2, <4>1
      <4>5. QED BY <4>2, <4>3, <4>4
    <3>10. QED BY <1>3, <3>5, <3>6, <3>7, <3>8, <3>9 DEF SaveOps
  <2>9. \A x : 1 \in DOMAIN <<x>> /\ <<x>>[1] = x
    OBVIOUS
  <2>10. \A x, y : /\ 1 \in DOMAIN <<x, y>> /\ <<x, y>>[1] = x
                   /\ 2 \in DOMAIN <<x, y>> /\ <<x, y>>[2] = y
    OBVIOUS
  <2>11. ASSUME u \notin Supers,
                op \in {"updateProject", "deleteProject", "updateTemplate", "deleteTemplate"}
         PROVE  \E i \in DOMAIN todo : todo[i] = Write(r)
    BY <2>3, <2>6, <2>9, <2>10, <2>11
  <2>12. ASSUME u \notin Supers, op \in ApplyOps PROVE \E i \in DOMAIN todo : todo[i] = Read(r)
    BY <2>4, <2>5, <2>9, <2>10, <2>12 DEF ApplyOps
  <2>13. ASSUME u \notin Supers, op \in SaveOps \cup {"updateTemplate"}, to # None
         PROVE  \E i \in DOMAIN todo : todo[i] = Write(to)
    BY <2>5, <2>6, <2>10, <2>13
  <2>14. QED BY <2>8, <2>11, <2>12, <2>13 DEF C
<1>7. /\ pc \in {"insert", "look", "go", "check"}
      /\ pc = "check" => todo # <<>>
      /\ pc \in {"insert", "go"} => todo = <<>>
      /\ pc = "look" => op \in SaveOps \cup ApplyOps
  BY <1>3 DEF Entry, Checks, SaveOps, ApplyOps
<1> HIDE DEF r, to, todo, pc
<1>8. /\ Blank(pc) \in CallState /\ Blank(pc).pc = pc /\ Blank(pc).queue = {}
  BY <1>7 DEF Blank, CallState, Name
<1>9. /\ v \in CallState /\ v.pc = pc /\ v.op = op /\ v.user = u /\ v.row = r /\ v.to = to
      /\ v.todo = todo /\ v.queue = {}
  <2>1. ms \in SUBSET Groups /\ as \in SUBSET Groups
    OBVIOUS
  <2>2. v = [Blank(pc) EXCEPT !.op = op, !.user = u, !.memberOf = ms, !.adminOf = as,
                              !.row = r, !.to = to, !.todo = todo]
    OBVIOUS
  <2> HIDE DEF v
  <2>3. todo \in Seq([right : {"read", "write"}, of : Rows])
    BY <1>6
  <2>4. QED BY <1>3, <1>4, <1>8, <2>1, <2>2, <2>3, ZenonT(40) DEF CallState
<1>10. call' = [call EXCEPT ![k] = v]
  BY <1>2 DEF Becomes, r, to, todo, pc
<1> HIDE DEF v
<1>11. Named(v) /\ Staged(v)
  BY <1>4, <1>7, <1>9 DEF Named, Staged, SaveOps
<1>12. Standing(v, row, past)
  BY <1>5, <1>6, <1>9 DEF Standing, Has, Writable, Readable, MayFile
<1>13. Holds(v, row, past)
  BY <1>7, <1>9, <1>11, <1>12 DEF Holds, Applying
<1>14. QED BY <1>0, <1>9, <1>10, <1>13 DEF CallMoves

\* A request that has its checks behind it and reads for its handler.
LEMMA GoesOn ==
  ASSUME NEW c \in CallState, NEW R, NEW P, Holds(c, R, P), c.todo = <<>>,
         NEW v \in CallState, v.op = c.op, v.user = c.user, v.memberOf = c.memberOf,
         v.adminOf = c.adminOf, v.todo = c.todo, v.row = c.row, v.to = c.to,
         v.queue \subseteq c.queue, c.alive \subseteq v.alive,
         v.pc \in {"insert", "go", "update"}
  PROVE  Holds(v, R, P)
<1>1. Named(v) /\ Standing(v, R, P)
  BY SameStanding DEF Holds
<1>2. QED BY <1>1 DEF Holds, Staged, Applying

LEMMA LookMoves ==
  ASSUME IInv, NEW k \in Calls, Look(k)
  PROVE  \E v : CallMoves(k, v)
<1>0. /\ call[k] \in CallState /\ Holds(call[k], row, past) /\ call[k].pc = "look"
      /\ UNCHANGED <<row, links, past>>
  BY DEF IInv, TypeOK, Held, Look
<1> DEFINE pc == IF call[k].todo = <<>> THEN "go" ELSE "check"
           c == [call[k] EXCEPT !.pc = pc]
<1>1. PICK rest \in SUBSET Contents : call' = [call EXCEPT ![k] = [c EXCEPT !.rest = rest]]
  <2>1. CASE c.op = "saveRule"
    <3>1. PICK x \in row[c.row].rules : Becomes(k, [c EXCEPT !.rest = {x}])
      BY <2>1, Zenon DEF Look
    <3>2. call[k].op = "saveRule"
      BY <1>0, <2>1 DEF CallState
    <3>3. call[k].row \in Rows /\ c.row = call[k].row
      BY <1>0, <3>2 DEF Holds, Named, SaveOps, Rows, CallState
    <3>4. {x} \in SUBSET Contents
      BY <3>3 DEF IInv, TypeOK, Row
    <3>5. QED BY <3>1, <3>4 DEF Becomes
  <2>2. CASE c.op # "saveRule"
    <3>1. call' = [call EXCEPT ![k] = c]
      BY <2>2 DEF Look, Becomes
    <3>2. call[k].rest \in SUBSET Contents /\ c = [c EXCEPT !.rest = call[k].rest]
      BY <1>0 DEF CallState
    <3>3. QED BY <3>1, <3>2
  <2>3. QED BY <2>1, <2>2
<1> DEFINE v == [c EXCEPT !.rest = rest]
<1>2. pc \in {"go", "check"} /\ (pc = "check" <=> call[k].todo # <<>>)
  OBVIOUS
<1> HIDE DEF pc
<1>3. /\ v \in CallState /\ v.pc = pc /\ v.op = call[k].op /\ v.user = call[k].user
      /\ v.memberOf = call[k].memberOf /\ v.adminOf = call[k].adminOf /\ v.todo = call[k].todo
      /\ v.row = call[k].row /\ v.to = call[k].to /\ v.queue = call[k].queue
      /\ v.alive = call[k].alive
  BY <1>0, <1>2, ZenonT(40) DEF CallState
<1> HIDE DEF c, v
<1>4. Named(v) /\ Standing(v, row, past)
  BY <1>0, <1>3, SameStanding DEF Holds
<1>5. Holds(v, row, past)
  BY <1>2, <1>3, <1>4 DEF Holds, Staged, Applying
<1>6. QED BY <1>0, <1>1, <1>3, <1>5 DEF CallMoves, v

\* The first check of a list, or one of those that are left.
LEMMA FirstOrLater ==
  ASSUME NEW S, NEW s \in Seq(S), s # <<>>, NEW x, \E i \in DOMAIN s : s[i] = x
  PROVE  x = Head(s) \/ \E i \in DOMAIN Tail(s) : Tail(s)[i] = x
<1>1. PICK i \in 1..Len(s) : s[i] = x
  OBVIOUS
<1>2. CASE i = 1
  BY <1>1, <1>2
<1>3. CASE i # 1
  <2>1. i - 1 \in DOMAIN Tail(s) /\ Tail(s)[i - 1] = s[i]
    BY <1>3
  <2>2. QED BY <1>1, <2>1
<1>4. QED BY <1>2, <1>3

LEMMA PassMoves ==
  ASSUME IInv, NEW k \in Calls, call[k].pc \in {"check", "links"}, Pass(k),
         UNCHANGED <<row, links, past>>,
         LET do == Head(call[k].todo) IN
           /\ do.right = "write" => Writable(call[k], do.of, row, past)
           /\ do.right = "read" => Readable(call[k], do.of, row, past)
  PROVE  \E v : CallMoves(k, v)
<1> USE TemplatesAssumption
<1> DEFINE c == call[k]
           do == Head(c.todo)
           pc == IF Tail(c.todo) = <<>> THEN "go" ELSE "check"
           todo == Tail(c.todo)
           alive == c.alive \cup ({do.of} \cap Projects)
           v == [c EXCEPT !.pc = pc, !.todo = todo, !.alive = alive]
<1>0. c \in CallState /\ Holds(c, row, past) /\ c.todo # <<>>
  BY DEF IInv, TypeOK, Held, Holds, Staged
<1>1. call' = [call EXCEPT ![k] = v]
  BY DEF Pass, Becomes
<1>2. /\ todo \in Seq([right : {"read", "write"}, of : Rows])
      /\ do \in [right : {"read", "write"}, of : Rows]
  <2> DEFINE C == [right : {"read", "write"}, of : Rows]
  <2>1. c.todo \in Seq(C)
    BY <1>0 DEF CallState
  <2> HIDE DEF C, c
  <2>2. Tail(c.todo) \in Seq(C) /\ Head(c.todo) \in C
    BY <1>0, <2>1, HeadTailProperties
  <2>3. QED BY <2>2 DEF C
<1>3. pc \in {"go", "check"} /\ (pc = "check" <=> todo # <<>>)
  OBVIOUS
<1>4. alive \in SUBSET Projects /\ c.alive \subseteq alive
  BY <1>0 DEF CallState
<1>5. \A x : (\E i \in DOMAIN c.todo : c.todo[i] = x) => x = do \/ \E i \in DOMAIN todo : todo[i] = x
  <2> DEFINE C == [right : {"read", "write"}, of : Rows]
             all == c.todo
  <2>1. all \in Seq(C) /\ all # <<>>
    BY <1>0 DEF CallState
  <2>2. ASSUME NEW x, \E i \in DOMAIN all : all[i] = x
        PROVE  x = Head(all) \/ \E i \in DOMAIN Tail(all) : Tail(all)[i] = x
    <3> HIDE DEF C, all
    <3>1. QED BY <2>1, <2>2, FirstOrLater, SMT
  <2>3. QED BY <2>2
<1>6. /\ do.right = "write" => Writable(c, do.of, row, past)
      /\ do.right = "read" => Readable(c, do.of, row, past)
      /\ do.of \in Projects => do.of \in alive
  OBVIOUS
<1> HIDE DEF do, pc, todo, alive
<1>7. /\ v \in CallState /\ v.pc = pc /\ v.op = c.op /\ v.user = c.user
      /\ v.memberOf = c.memberOf /\ v.adminOf = c.adminOf /\ v.todo = todo
      /\ v.row = c.row /\ v.to = c.to /\ v.queue = c.queue /\ v.alive = alive
  BY <1>0, <1>2, <1>3, <1>4, ZenonT(40) DEF CallState
<1> HIDE DEF c, v
<1>8. \A r : /\ Has(c, Write(r)) => Has(v, Write(r)) \/ Writable(v, r, row, past)
             /\ Has(c, Read(r)) => Has(v, Read(r)) \/ Readable(v, r, row, past)
  BY <1>5, <1>6, <1>7 DEF Has, Write, Read, Writable, Readable
<1>9. c.to \in Projects /\ Has(c, Write(c.to)) => Has(v, Write(c.to)) \/ MayFile(v, row, past)
  BY <1>5, <1>6, <1>7 DEF Has, Write, Writable, MayFile
<1>10. Named(v) /\ Staged(v)
  BY <1>0, <1>3, <1>7 DEF Holds, Named, Staged
<1>11. Standing(v, row, past)
  <2>1. \A r : /\ Writable(c, r, row, past) => Writable(v, r, row, past)
               /\ Readable(c, r, row, past) => Readable(v, r, row, past)
    BY <1>7 DEF Writable, Readable
  <2>2. MayFile(c, row, past) => MayFile(v, row, past)
    BY <1>4, <1>7, <2>1 DEF MayFile
  <2>3. c.op \in SaveOps \cup {"updateTemplate"} /\ c.to # None => c.to \in Projects
    BY <1>0 DEF Holds, Named
  <2>4. \A t : Sourced(c, t, row, past) => Sourced(v, t, row, past)
    BY <1>7 DEF Sourced
  <2>5. QED BY <1>0, <1>7, <1>8, <1>9, <2>1, <2>2, <2>3, <2>4 DEF Holds, Standing
<1>12. Holds(v, row, past)
  BY <1>3, <1>7, <1>10, <1>11 DEF Holds, Applying
<1>13. QED BY <1>1, <1>7, <1>12 DEF CallMoves

LEMMA CheckRowMoves ==
  ASSUME IInv, NEW k \in Calls, CheckRow(k)
  PROVE  \E v : CallMoves(k, v)
<1> DEFINE do == Head(call[k].todo)
           passes == row[do.of].owner = call[k].user \/ (do.right = "read" /\ row[do.of].global)
<1>0. /\ call[k] \in CallState /\ Holds(call[k], row, past) /\ call[k].todo # <<>>
      /\ call[k].pc = "check" /\ UNCHANGED <<row, links, past>> /\ Live(do.of)
  BY DEF IInv, TypeOK, Held, Holds, Staged, CheckRow
<1>1. do \in [right : {"read", "write"}, of : Rows]
  <2> DEFINE C == [right : {"read", "write"}, of : Rows]
  <2>1. call[k].todo \in Seq(C)
    BY <1>0 DEF CallState
  <2> HIDE DEF C
  <2>2. do \in C
    BY <1>0, <2>1, HeadTailProperties
  <2>3. QED BY <2>2 DEF C
<1>2. CASE passes
  <2>1. Pass(k)
    BY <1>2 DEF CheckRow
  <2>2. /\ do.right = "write" => Writable(call[k], do.of, row, past)
        /\ do.right = "read" => Readable(call[k], do.of, row, past)
    BY <1>0, <1>1, <1>2 DEF Live, Writable, Readable, IInv, History
  <2>3. QED BY <1>0, <2>1, <2>2, PassMoves
<1>3. CASE ~passes
  <2> DEFINE alive == call[k].alive \cup ({do.of} \cap Projects)
             v == [call[k] EXCEPT !.pc = "links", !.alive = alive]
  <2>1. call' = [call EXCEPT ![k] = v]
    BY <1>3 DEF CheckRow, Becomes
  <2>2. alive \in SUBSET Projects /\ call[k].alive \subseteq alive
    BY <1>0 DEF CallState
  <2> HIDE DEF alive
  <2>3. /\ v \in CallState /\ v.pc = "links" /\ v.op = call[k].op /\ v.user = call[k].user
        /\ v.memberOf = call[k].memberOf /\ v.adminOf = call[k].adminOf /\ v.todo = call[k].todo
        /\ v.row = call[k].row /\ v.to = call[k].to /\ v.queue = call[k].queue /\ v.alive = alive
    BY <1>0, <2>2 DEF CallState
  <2> HIDE DEF v
  <2>4. Named(v) /\ Standing(v, row, past)
    BY <1>0, <2>2, <2>3, SameStanding DEF Holds
  <2>5. Holds(v, row, past)
    BY <1>0, <2>3, <2>4 DEF Holds, Staged, Applying
  <2>6. QED BY <1>0, <2>1, <2>3, <2>5 DEF CallMoves
<1>4. QED BY <1>2, <1>3

LEMMA CheckLinksMoves ==
  ASSUME IInv, NEW k \in Calls, CheckLinks(k)
  PROVE  \E v : CallMoves(k, v)
<1> DEFINE do == Head(call[k].todo)
<1>0. /\ call[k] \in CallState /\ Holds(call[k], row, past) /\ call[k].todo # <<>>
      /\ call[k].pc = "links" /\ UNCHANGED <<row, links, past>> /\ Pass(k)
      /\ links[do.of] \cap (IF do.right = "read" THEN call[k].memberOf ELSE call[k].adminOf) # {}
  BY DEF IInv, TypeOK, Held, Holds, Staged, CheckLinks
<1>1. do \in [right : {"read", "write"}, of : Rows]
  <2> DEFINE C == [right : {"read", "write"}, of : Rows]
  <2>1. call[k].todo \in Seq(C)
    BY <1>0 DEF CallState
  <2> HIDE DEF C
  <2>2. do \in C
    BY <1>0, <2>1, HeadTailProperties
  <2>3. QED BY <2>2 DEF C
<1>2. links[do.of] \subseteq past.links[do.of]
  BY <1>1 DEF IInv, History
<1>3. /\ do.right = "write" => Writable(call[k], do.of, row, past)
      /\ do.right = "read" => Readable(call[k], do.of, row, past)
  BY <1>0, <1>2 DEF Writable, Readable
<1>4. QED BY <1>0, <1>3, PassMoves

LEMMA InheritMoves ==
  ASSUME IInv, NEW k \in Calls, Inherit(k)
  PROVE  \E v : CallMoves(k, v)
<1> DEFINE c == call[k]
<1>0. /\ c \in CallState /\ Holds(c, row, past) /\ c.pc = "inherit" /\ Users # {}
      /\ UNCHANGED <<row, links, past>>
  BY DEF IInv, TypeOK, Held, Inherit, CallState
<1>1. PICK v \in Linking(c, c.onto, links[c.to]) : call' = [call EXCEPT ![k] = v]
  BY DEF Inherit, Becomes
<1>2. /\ c.op \in SaveOps /\ c.to \in Projects /\ c.onto \in Rows /\ c.todo = <<>>
      /\ Named(c) /\ Standing(c, row, past)
  BY <1>0 DEF Holds, Staged
<1>3. links[c.to] \in SUBSET Groups /\ links[c.to] \subseteq past.links[c.to]
  BY <1>2 DEF IInv, TypeOK, History, Rows
<1>4. InReachOf(c, links[c.to], past)
  BY <1>2, <1>3 DEF InReachOf
<1>5. v \in CallState /\ Holds(v, row, past)
  BY <1>0, <1>2, <1>3, <1>4, LinkingHolds DEF IInv
<1>6. QED BY <1>0, <1>1, <1>5 DEF CallMoves

LEMMA ReadRulesMoves ==
  ASSUME IInv, NEW k \in Calls, ReadRules(k)
  PROVE  \E v : CallMoves(k, v)
<1> DEFINE c == call[k]
           rules == row[c.row].rules
           v == [c EXCEPT !.pc = "insert", !.rest = rules]
<1>0. /\ c \in CallState /\ Holds(c, row, past) /\ c.pc = "go" /\ c.op = "saveChannel"
      /\ UNCHANGED <<row, links, past>> /\ call' = [call EXCEPT ![k] = v]
  BY DEF IInv, TypeOK, Held, ReadRules, At, Becomes
<1>1. c.row \in Rows /\ c.todo = <<>>
  BY <1>0 DEF Holds, Named, Staged, SaveOps, Rows
<1>2. rules \in SUBSET Contents
  BY <1>1 DEF IInv, TypeOK, Row
<1> HIDE DEF rules
<1>3. /\ v \in CallState /\ v.pc = "insert" /\ v.op = c.op /\ v.user = c.user
      /\ v.memberOf = c.memberOf /\ v.adminOf = c.adminOf /\ v.todo = c.todo
      /\ v.row = c.row /\ v.to = c.to /\ v.queue = c.queue /\ v.alive = c.alive
  BY <1>0, <1>2 DEF CallState
<1> HIDE DEF v, c
<1>4. Holds(v, row, past)
  BY <1>0, <1>1, <1>3, GoesOn
<1>5. QED BY <1>0, <1>3, <1>4 DEF CallMoves

LEMMA ReadCurrentMoves ==
  ASSUME IInv, NEW k \in Calls, ReadCurrent(k)
  PROVE  \E v : CallMoves(k, v)
<1> USE TemplatesAssumption
<1> DEFINE c == call[k]
           cur == row[c.row]
<1>0. /\ c \in CallState /\ Holds(c, row, past) /\ c.pc = "go" /\ c.op = "updateTemplate"
      /\ UNCHANGED <<row, links, past>>
  BY DEF IInv, TypeOK, Held, ReadCurrent, At
<1>1. PICK project \in IF c.to # None THEN {c.to} ELSE {None, cur.project},
           global \in IF Super(k) THEN BOOLEAN ELSE {cur.global} :
        call' = [call EXCEPT ![k] = [c EXCEPT !.pc = "update", !.to = project, !.global = global,
                   !.alive = @ \cup ({project} \ (past.unfiled \cup {None}))]]
  BY Zenon DEF ReadCurrent, Becomes
<1>2. /\ c.row \in Templates /\ c.todo = <<>> /\ Named(c) /\ Standing(c, row, past)
      /\ c.to \in Projects \cup {None}
  BY <1>0 DEF Holds, Named, Staged
<1>3. project \in Projects \cup {None} /\ global \in BOOLEAN
  BY <1>2 DEF IInv, TypeOK, Row, Rows
<1> DEFINE alive == c.alive \cup ({project} \ (past.unfiled \cup {None}))
           v == [c EXCEPT !.pc = "update", !.to = project, !.global = global, !.alive = alive]
<1>4. alive \in SUBSET Projects /\ c.alive \subseteq alive
  BY <1>0, <1>3 DEF CallState
<1>5. /\ project # None /\ project # c.to => <<c.row, project>> \in past.filed
      /\ project # None /\ project # c.to => project \in alive \/ <<c.row, project>> \in past.origin
  <2>1. c.row \in Rows
    BY <1>2 DEF Rows
  <2>2. project # None /\ project # c.to => project = cur.project
    OBVIOUS
  <2>3. QED BY <1>2, <2>1, <2>2 DEF IInv, History
<1> HIDE DEF alive
<1>6. /\ v \in CallState /\ v.pc = "update" /\ v.op = c.op /\ v.user = c.user
      /\ v.memberOf = c.memberOf /\ v.adminOf = c.adminOf /\ v.todo = c.todo
      /\ v.row = c.row /\ v.to = project /\ v.queue = c.queue /\ v.alive = alive
  <2> DEFINE w == [c EXCEPT !.pc = "update", !.to = project]
  <2>1. project \in Rows \cup {None}
    BY <1>3 DEF Rows
  <2>2. v = [w EXCEPT !.global = global, !.alive = alive]
    OBVIOUS
  <2>3. /\ w \in CallState /\ w.pc = "update" /\ w.op = c.op /\ w.user = c.user
        /\ w.memberOf = c.memberOf /\ w.adminOf = c.adminOf /\ w.todo = c.todo
        /\ w.row = c.row /\ w.to = project /\ w.queue = c.queue
    BY <1>0, <2>1 DEF CallState
  <2> HIDE DEF c, w, v
  <2>4. QED BY <1>3, <1>4, <2>2, <2>3, ZenonT(40) DEF CallState
<1>7. call' = [call EXCEPT ![k] = v]
  BY <1>1 DEF alive
<1> HIDE DEF v, c
<1>8. Named(v) /\ Staged(v)
  BY <1>0, <1>2, <1>3, <1>6 DEF Named, Staged, SaveOps
<1>9. project # None => MayFile(v, row, past)
  <2>1. CASE project = c.to /\ project # None
    <3>1. MayFile(c, row, past)
      BY <1>0, <1>2, <2>1 DEF Standing, Has
    <3>2. QED BY <1>4, <1>6, <2>1, <3>1 DEF MayFile, Writable
  <2>2. CASE project # c.to /\ project # None
    BY <1>0, <1>5, <1>6, <2>2 DEF MayFile
  <2>3. QED BY <2>1, <2>2
<1>10. Standing(v, row, past)
  <2>1. c.row # None => row[c.row].st # "none"
    BY <1>2 DEF Standing
  <2>2. Has(v, Write(v.row)) \/ Writable(v, v.row, row, past)
    BY <1>0, <1>2, <1>6 DEF Standing, Has, Writable
  <2>3. \A t \in v.queue : Sourced(v, t, row, past)
    BY <1>0, <1>2, <1>6 DEF Standing, Sourced
  <2>4. QED BY <1>0, <1>6, <1>9, <2>1, <2>2, <2>3 DEF Standing, ApplyOps
<1>11. Holds(v, row, past)
  BY <1>6, <1>8, <1>10 DEF Holds, Applying
<1>12. QED BY <1>0, <1>6, <1>7, <1>11 DEF CallMoves

LEMMA ReadMembersMoves ==
  ASSUME IInv, NEW k \in Calls, ReadMembers(k)
  PROVE  \E v : CallMoves(k, v)
<1> DEFINE filed == {t \in Templates : Live(t) /\ row[t].project = call[k].row
                                         /\ row[t].kind = "channel"}
           c == [call[k] EXCEPT !.queue = filed]
<1>0. /\ call[k] \in CallState /\ Holds(call[k], row, past) /\ call[k].pc = "go"
      /\ call[k].op = "applyProject" /\ Users # {} /\ UNCHANGED <<row, links, past>>
  BY DEF IInv, TypeOK, Held, ReadMembers, At, CallState
<1>1. PICK v \in NextItem(c) : call' = [call EXCEPT ![k] = v]
  BY DEF ReadMembers, Becomes
<1>2. filed \in SUBSET Templates
  OBVIOUS
<1>3. /\ call[k].row \in Projects /\ call[k].todo = <<>> /\ Named(call[k])
      /\ Standing(call[k], row, past)
  BY <1>0 DEF Holds, Named, Staged
<1>4. \A t \in filed : row[t].st # "none" /\ <<t, call[k].row>> \in past.filed
  <2>1. None \notin Projects
    BY TemplatesAssumption
  <2>2. QED BY <1>3, <2>1 DEF Live, IInv, History
<1> HIDE DEF filed
<1>5. /\ c \in CallState /\ c.pc = "go" /\ c.op = "applyProject" /\ c.user = call[k].user
      /\ c.memberOf = call[k].memberOf /\ c.adminOf = call[k].adminOf /\ c.todo = call[k].todo
      /\ c.row = call[k].row /\ c.to = call[k].to /\ c.queue = filed /\ c.alive = call[k].alive
  BY <1>0, <1>2 DEF CallState
<1> HIDE DEF c
<1>6. Named(c)
  BY <1>0, <1>3, <1>5 DEF Named
<1>7. Standing(c, row, past)
  <2>1. \A t \in filed : Sourced(c, t, row, past)
    BY <1>0, <1>4, <1>5 DEF Sourced
  <2>2. c.row # None => row[c.row].st # "none"
    BY <1>3, <1>5 DEF Standing
  <2>3. Has(c, Read(c.row)) \/ Readable(c, c.row, row, past)
    BY <1>0, <1>3, <1>5 DEF Standing, Has, Readable, ApplyOps
  <2>4. QED BY <1>5, <2>1, <2>2, <2>3 DEF Standing, SaveOps
<1>8. v \in CallState /\ Holds(v, row, past)
  BY <1>0, <1>1, <1>3, <1>5, <1>6, <1>7, NextItemHolds DEF IInv, ApplyOps
<1>9. QED BY <1>0, <1>1, <1>8 DEF CallMoves

LEMMA ApplyChannelMoves ==
  ASSUME IInv, NEW k \in Calls, ApplyChannel(k)
  PROVE  \E v : CallMoves(k, v)
<1> DEFINE t == call[k].row
           c == [call[k] EXCEPT !.queue = {t}]
<1>0. /\ call[k] \in CallState /\ Holds(call[k], row, past) /\ call[k].pc = "go"
      /\ call[k].op = "applyTemplate" /\ Users # {} /\ UNCHANGED <<row, links, past>>
  BY DEF IInv, TypeOK, Held, ApplyChannel, At, CallState
<1>1. PICK w \in NextItem(c), base \in {row[t].name, <<>>} :
        call' = [call EXCEPT ![k] = [w EXCEPT !.base = base]]
  BY Zenon DEF ApplyChannel, Becomes
<1>2. t \in Templates /\ call[k].todo = <<>> /\ Named(call[k]) /\ Standing(call[k], row, past)
  BY <1>0 DEF Holds, Named, Staged
<1>3. row[t].st # "none" /\ base \in Name
  <2>1. t \in Rows /\ t # None /\ <<>> \in Name
    BY <1>2, TemplatesAssumption DEF Rows, Name
  <2>2. QED BY <1>2, <2>1 DEF Standing, IInv, TypeOK, Row
<1>4. /\ c \in CallState /\ c.pc = "go" /\ c.op = "applyTemplate" /\ c.user = call[k].user
      /\ c.memberOf = call[k].memberOf /\ c.adminOf = call[k].adminOf /\ c.todo = call[k].todo
      /\ c.row = t /\ c.to = call[k].to /\ c.queue = {t} /\ c.alive = call[k].alive
  BY <1>0, <1>2 DEF CallState
<1> HIDE DEF c
<1>5. Named(c)
  BY <1>0, <1>2, <1>4 DEF Named
<1>6. Standing(c, row, past)
  <2>1. Sourced(c, t, row, past)
    BY <1>3, <1>4 DEF Sourced
  <2>2. Has(c, Read(c.row)) \/ Readable(c, c.row, row, past)
    BY <1>0, <1>2, <1>4 DEF Standing, Has, Readable, ApplyOps
  <2>3. QED BY <1>3, <1>4, <2>1, <2>2 DEF Standing, SaveOps
<1>7. w \in CallState /\ Holds(w, row, past) /\ w.pc = "name"
  <2>1. w \in CallState /\ Holds(w, row, past) /\ w.pc \in {"name", "over"}
    BY <1>0, <1>1, <1>2, <1>4, <1>5, <1>6, NextItemHolds DEF IInv, ApplyOps
  <2>2. w.pc = "name"
    <3>1. c.queue # {}
      BY <1>4
    <3>2. PICK x \in c.queue :
            w = [c EXCEPT !.pc = "name", !.item = x, !.base = row[x].name, !.tries = 0,
                          !.queue = @ \ {x}, !.rest = {}, !.onto = None, !.left = {}, !.checked = FALSE, !.before = {}]
      BY <1>1, <3>1 DEF NextItem
    <3>3. QED BY <1>4, <3>2 DEF CallState
  <2>3. QED BY <2>1, <2>2
<1> DEFINE v == [w EXCEPT !.base = base]
<1>8. /\ v \in CallState /\ v.pc = "name" /\ v.op = w.op /\ v.user = w.user
      /\ v.memberOf = w.memberOf /\ v.adminOf = w.adminOf /\ v.todo = w.todo
      /\ v.row = w.row /\ v.to = w.to /\ v.queue = w.queue /\ v.alive = w.alive /\ v.item = w.item
  BY <1>3, <1>7 DEF CallState
<1>9. call' = [call EXCEPT ![k] = v]
  BY <1>1
<1> HIDE DEF v
<1>10. Named(v) /\ Standing(v, row, past)
  BY <1>7, <1>8, SameStanding DEF Holds
<1>11. Holds(v, row, past)
  BY <1>7, <1>8, <1>10 DEF Holds, Staged, Applying, Sourced
<1>12. QED BY <1>0, <1>8, <1>9, <1>11 DEF CallMoves

\* A name is settled on, and when it was looked up, it is free.
LEMMA SettlesMoves ==
  ASSUME IInv, NEW k \in Calls, call[k].pc = "name", NEW n \in Nat, NEW found \in BOOLEAN,
         Settles(k, n, found), UNCHANGED <<row, links, past>>,
         found => ~Taken(Candidate(call[k].base, n))
  PROVE  \E v : CallMoves(k, v)
<1> DEFINE c == call[k]
           there == {d \in Channels : row[d].st # "none"}
           v == [c EXCEPT !.pc = "make", !.tries = n, !.checked = found, !.before = there]
<1>1. c \in CallState /\ Holds(c, row, past) /\ call' = [call EXCEPT ![k] = v]
  BY DEF IInv, TypeOK, Held, Settles, Becomes
<1>2. there \in SUBSET Channels
  OBVIOUS
<1>3. found => \A d \in there : row[d].st # "none" /\ row[d].name # Candidate(c.base, n)
  BY DEF Taken
<1> HIDE DEF there
<1>4. /\ v \in CallState /\ v.pc = "make" /\ v.op = c.op /\ v.user = c.user
      /\ v.memberOf = c.memberOf /\ v.adminOf = c.adminOf /\ v.todo = c.todo
      /\ v.row = c.row /\ v.to = c.to /\ v.queue = c.queue /\ v.alive = c.alive /\ v.item = c.item
      /\ v.checked = found /\ v.before = there /\ v.base = c.base /\ v.tries = n
  <2>1. c \in CallState
    BY <1>1
  <2> HIDE DEF c
  <2>2. v \in CallState
    BY <1>2, <2>1, ZenonT(40) DEF CallState
  <2>3. v.checked = found
    BY <2>1, Zenon DEF CallState
  <2>4. QED BY <2>1, <2>2, <2>3, ZenonT(40) DEF CallState
<1> HIDE DEF v
<1>5. Named(v) /\ Standing(v, row, past)
  BY <1>1, <1>4, SameStanding DEF Holds
<1>6. Holds(v, row, past)
  BY <1>1, <1>3, <1>4, <1>5 DEF Holds, Staged, Applying, Sourced
<1>7. QED BY <1>1, <1>4, <1>6 DEF CallMoves

LEMMA FindNameMoves ==
  ASSUME IInv, NEW k \in Calls, FindName(k)
  PROVE  \E v : CallMoves(k, v)
<1> DEFINE c == call[k]
           taken == Taken(Candidate(c.base, c.tries))
<1>0. /\ c \in CallState /\ Holds(c, row, past) /\ c.pc = "name" /\ c.tries \in Nat
      /\ UNCHANGED <<row, links, past>>
  BY DEF IInv, TypeOK, Held, FindName, CallState
<1>1. CASE Becomes(k, [c EXCEPT !.tries = c.tries + 1])
  <2> DEFINE v == [c EXCEPT !.tries = c.tries + 1]
  <2>1. call' = [call EXCEPT ![k] = v]
    BY <1>1 DEF Becomes
  <2>2. /\ v \in CallState /\ v.pc = "name" /\ v.op = c.op /\ v.user = c.user
        /\ v.memberOf = c.memberOf /\ v.adminOf = c.adminOf /\ v.todo = c.todo
        /\ v.row = c.row /\ v.to = c.to /\ v.queue = c.queue /\ v.alive = c.alive /\ v.item = c.item
    BY <1>0, SMTT(30) DEF CallState
  <2> HIDE DEF v, c
  <2>3. Named(v) /\ Standing(v, row, past)
    BY <1>0, <2>2, SameStanding DEF Holds
  <2>4. Holds(v, row, past)
    BY <1>0, <2>2, <2>3 DEF Holds, Staged, Applying, Sourced
  <2>5. QED BY <1>0, <2>1, <2>2, <2>4 DEF CallMoves
<1>2. CASE Settles(k, MaxTries, FALSE)
  BY <1>0, <1>2, SettlesMoves, TemplatesAssumption
<1>3. CASE ~taken /\ Settles(k, c.tries, TRUE)
  BY <1>0, <1>3, SettlesMoves
<1>4. CASE Settles(k, c.tries, FALSE)
  BY <1>0, <1>4, SettlesMoves
<1>5. QED BY <1>1, <1>2, <1>3, <1>4 DEF FindName

\* A step that leaves fillings alone, goes on with one, or finishes it.
LEMMA WholeKept ==
  ASSUME IInv, NEW k \in Calls, NEW v, call' = [call EXCEPT ![k] = v], RowsKept,
         past.torn \subseteq past'.torn,
         \A d \in Channels : past.given[d] \subseteq past'.given[d],
         \A d \in Channels :
           \/ past'.from[d] = past.from[d]
           \/ row'[past'.from[d]].rules \subseteq past'.given[d]
           \/ v.pc = "fill" /\ v.onto = d,
         call[k].pc = "fill" =>
           \/ call[k].onto \in past'.torn
           \/ v.pc = "fill" /\ v.onto = call[k].onto
           \/ row[past.from[call[k].onto]].rules \subseteq past'.given[call[k].onto]
  PROVE  AppliedWhole'
<1>1. SUFFICES ASSUME NEW d \in Channels, past'.from[d] # None, d \notin past'.torn
      PROVE  \/ row'[past'.from[d]].rules \subseteq past'.given[d]
             \/ \E l \in Calls : call'[l].pc = "fill" /\ call'[l].onto = d
  BY DEF AppliedWhole
<1>2. call'[k] = v /\ \A l \in Calls : l # k => call'[l] = call[l]
  BY DEF IInv, TypeOK
<1>3. CASE v.pc = "fill" /\ v.onto = d
  BY <1>2, <1>3
<1>4. CASE past'.from[d] = past.from[d]
  <2>1. past.from[d] # None /\ d \notin past.torn /\ past.from[d] \in Templates
    BY <1>1, <1>4 DEF IInv, TypeOK
  <2>2. row'[past.from[d]].rules = row[past.from[d]].rules
    BY <2>1 DEF IInv, History, RowsKept
  <2>3. CASE row[past.from[d]].rules \subseteq past.given[d]
    BY <1>4, <2>2, <2>3
  <2>4. CASE \E l \in Calls : call[l].pc = "fill" /\ call[l].onto = d
    <3>1. PICK l \in Calls : call[l].pc = "fill" /\ call[l].onto = d
      BY <2>4
    <3>2. QED BY <1>1, <1>2, <1>4, <2>2, <3>1
  <2>5. QED BY <2>1, <2>3, <2>4 DEF IInv, AppliedWhole
<1>5. QED BY <1>1, <1>3, <1>4

LEMMA KeepsIInv ==
  ASSUME IInv, RowsKept, NamesKept, PastKept, TablesOK', History', AppliedWhole',
         NEW k \in Calls, NEW v, CallMoves(k, v)
  PROVE  IInv'
<1>1. call' \in [Calls -> CallState] /\ Held'
  BY CallsKept DEF IInv
<1>2. TypeOK'
  BY <1>1 DEF TypeOK, TablesOK
<1>3. QED BY <1>1, <1>2 DEF IInv

ReadStep(k) ==
    \/ Begin(k) \/ Look(k) \/ CheckRow(k) \/ CheckLinks(k) \/ Inherit(k)
    \/ ReadRules(k) \/ ReadCurrent(k) \/ ReadMembers(k) \/ ApplyChannel(k) \/ FindName(k)

LEMMA ReadStepKeepsIInv ==
  ASSUME IInv, NEW k \in Calls, ReadStep(k)
  PROVE  IInv'
<1>1. UNCHANGED <<row, links, past>> /\ call[k].pc # "fill"
  BY DEF ReadStep, Begin, Look, CheckRow, CheckLinks, Inherit, ReadRules, ReadCurrent,
         ReadMembers, ApplyChannel, FindName, At
<1>2. RowsKept /\ NamesKept /\ PastKept
  BY <1>1, NothingLost DEF IInv
<1>3. PICK v : CallMoves(k, v)
  BY BeginMoves, LookMoves, CheckRowMoves, CheckLinksMoves, InheritMoves, ReadRulesMoves,
     ReadCurrentMoves, ReadMembersMoves, ApplyChannelMoves, FindNameMoves, Zenon DEF ReadStep
<1>4. TablesOK'
  BY <1>1 DEF IInv, TypeOK, TablesOK
<1>5. History'
  BY <1>1 DEF IInv, History
<1>6. AppliedWhole'
  BY <1>1, <1>2, <1>3, WholeKept DEF CallMoves
<1>7. QED BY <1>2, <1>3, <1>4, <1>5, <1>6, KeepsIInv

-----------------------------------------------------------------------------
(* Steps that write.                                                        *)

LEMMA FreshRow ==
  ASSUME NEW u \in Users, NEW global \in BOOLEAN
  PROVE  /\ NoRow \in Row
         /\ [NoRow EXCEPT !.st = "live", !.owner = u, !.global = global] \in Row
<1>1. NoRow \in Row
  BY DEF NoRow, Row, Name
<1>2. QED BY <1>1 DEF Row

LEMMA RowEdits ==
  ASSUME NEW x \in Row
  PROVE  /\ [x EXCEPT !.st = "deleted"] \in Row
         /\ [x EXCEPT !.project = None] \in Row
         /\ \A rules \in SUBSET Contents : [x EXCEPT !.rules = rules] \in Row
BY DEF Row

LEMMA HistoryKept ==
  ASSUME IInv, RowsKept, PastKept, TablesOK',
         \A r \in Rows : links'[r] \subseteq past'.links[r],
         \A r \in Rows : row'[r].global => row[r].global \/ r \in past'.global,
         \A t \in Templates : row'[t].project # None =>
           \/ /\ row'[t].project = row[t].project
              /\ row[t].project \in past'.unfiled => row[t].project \in past.unfiled
           \/ /\ <<t, row'[t].project>> \in past'.filed
              /\ row'[t].project \in past'.unfiled => <<t, row'[t].project>> \in past'.origin,
         \A d \in Channels : past'.from[d] # None =>
           \/ past'.from[d] = past.from[d]
           \/ /\ row'[d].st # "none" /\ past'.from[d] \in Templates
              /\ row[past'.from[d]].st # "none"
  PROVE  History'
<1>1. \A r \in Rows : row'[r].global => r \in past'.global
  BY DEF IInv, History, PastKept
<1>2. \A t \in Templates : row'[t].project # None =>
        /\ <<t, row'[t].project>> \in past'.filed
        /\ row'[t].project \in past'.unfiled => <<t, row'[t].project>> \in past'.origin
  BY DEF IInv, History, PastKept
<1>3. \A d \in Channels : past'.from[d] # None =>
        row'[d].st # "none" /\ row'[past'.from[d]].st # "none"
  BY DEF IInv, TypeOK, History, RowsKept, Rows
<1>4. QED BY <1>1, <1>2, <1>3 DEF History

LEMMA RememberKeeps ==
  ASSUME IInv, Remember, RowsKept, row' \in [Rows -> Row], links' \in [Rows -> SUBSET Groups],
         \A t \in Templates : row'[t].project # None => row'[t].project = row[t].project
  PROVE  PastKept /\ TablesOK' /\ History' /\ past'.from = past.from /\ past'.torn = past.torn
<1>1. /\ \A r \in Rows : past'.links[r] = past.links[r] \cup links'[r]
      /\ past'.global = past.global \cup {r \in Rows : row'[r].global}
      /\ past'.filed = past.filed \cup {f \in Templates \X Projects : row'[f[1]].project = f[2]}
      /\ past'.unfiled = past.unfiled /\ past'.origin = past.origin /\ past'.from = past.from
      /\ past'.given = past.given /\ past'.torn = past.torn
  BY DEF Remember, IInv, TypeOK
<1>2. TablesOK'
  BY DEF Remember, IInv, TypeOK, TablesOK
<1>3. PastKept
  BY <1>1 DEF PastKept
<1>4. History'
  BY <1>1, <1>2, <1>3, HistoryKept
<1>5. QED BY <1>1, <1>2, <1>3, <1>4

LEMMA PublishNewMoves ==
  ASSUME IInv, RowsKept, PastKept, NEW k \in Calls, call[k].todo = <<>>,
         call[k].op \in SaveOps \cup {"createProject"}, NEW r \in Rows, PublishNew(k, r)
  PROVE  \E v : CallMoves(k, v) /\ v.pc \in {"link", "name", "over", "inherit"}
<1> DEFINE c == call[k]
<1>0. /\ c \in CallState /\ Named(c) /\ Standing(c, row, past) /\ Users # {}
      /\ Standing(c, row', past')
  BY StandingLasts DEF IInv, TypeOK, Held, Holds, CallState
<1>1. ASSUME NEW groups \in SUBSET Groups, InReach(k, groups),
             NEW v \in Linking(c, r, groups), Becomes(k, v)
      PROVE  CallMoves(k, v) /\ v.pc \in {"link", "name", "over", "inherit"}
  <2>1. InReachOf(c, groups, past')
    BY <1>1 DEF InReach, InReachOf, Super
  <2>2. v \in CallState /\ Holds(v, row', past') /\ v.pc \in {"link", "name", "over"}
    BY <1>0, <1>1, <2>1, LinkingHolds DEF IInv
  <2>3. QED BY <1>1, <2>2 DEF CallMoves, Becomes
<1>2. CASE \E groups \in SUBSET Groups :
             /\ InReach(k, groups)
             /\ \E v \in Linking(call[k], r, groups) : Becomes(k, v)
  BY <1>1, <1>2, Zenon
<1>3. CASE Answer(k)
  <2>1. CallMoves(k, Blank("over")) /\ Blank("over").pc = "over"
    BY <1>3, Answered DEF IInv, Blank
  <2>2. QED BY <2>1
<1>4. CASE c.to # None /\ Becomes(k, [c EXCEPT !.pc = "inherit", !.onto = r])
  <2> DEFINE v == [c EXCEPT !.pc = "inherit", !.onto = r]
  <2>1. c.op \in SaveOps /\ c.to \in Projects
    BY <1>0, <1>4 DEF Named
  <2>2. /\ v \in CallState /\ v.pc = "inherit" /\ v.op = c.op /\ v.user = c.user /\ v.onto = r
        /\ v.memberOf = c.memberOf /\ v.adminOf = c.adminOf /\ v.todo = c.todo
        /\ v.row = c.row /\ v.to = c.to /\ v.queue = c.queue /\ v.alive = c.alive
    BY <1>0, ZenonT(40) DEF CallState
  <2>3. call' = [call EXCEPT ![k] = v]
    BY <1>4 DEF Becomes
  <2> HIDE DEF v, c
  <2>4. Named(v) /\ Standing(v, row', past')
    BY <1>0, <2>2, SameStanding
  <2>5. Holds(v, row', past')
    BY <2>1, <2>2, <2>4 DEF Holds, Staged, Applying, c
  <2>6. QED BY <2>2, <2>3, <2>5 DEF CallMoves
<1>5. CASE \E v \in Linking(c, r, OwnGroups(k)) : Becomes(k, v)
  <2>1. OwnGroups(k) \in SUBSET Groups /\ InReach(k, OwnGroups(k))
    BY <1>0 DEF OwnGroups, InReach, CallState
  <2>2. QED BY <1>1, <1>5, <2>1
<1>6. QED BY <1>2, <1>3, <1>4, <1>5 DEF PublishNew

LEMMA RepublishMoves ==
  ASSUME IInv, RowsKept, PastKept, NEW k \in Calls, call[k].todo = <<>>,
         call[k].op \in {"updateProject", "updateTemplate"}, Republish(k)
  PROVE  \E v : CallMoves(k, v) /\ v.pc \in {"clear", "over"}
<1> DEFINE c == call[k]
<1>0. c \in CallState /\ Named(c) /\ Standing(c, row', past')
  BY StandingLasts DEF IInv, TypeOK, Held, Holds
<1>1. CASE Answer(k)
  <2>1. CallMoves(k, Blank("over")) /\ Blank("over").pc = "over"
    BY <1>1, Answered DEF IInv, Blank
  <2>2. QED BY <2>1
<1>2. ASSUME NEW groups \in SUBSET Groups, InReach(k, groups),
             Becomes(k, [c EXCEPT !.pc = "clear", !.left = groups, !.onto = c.row])
      PROVE  \E v : CallMoves(k, v) /\ v.pc \in {"clear", "over"}
  <2> DEFINE v == [c EXCEPT !.pc = "clear", !.left = groups, !.onto = c.row]
  <2>1. c.row \in Rows
    BY <1>0 DEF Named, Rows
  <2>2. /\ v \in CallState /\ v.pc = "clear" /\ v.op = c.op /\ v.user = c.user /\ v.onto = c.row
        /\ v.memberOf = c.memberOf /\ v.adminOf = c.adminOf /\ v.todo = c.todo /\ v.left = groups
        /\ v.row = c.row /\ v.to = c.to /\ v.queue = c.queue /\ v.alive = c.alive
    BY <1>0, ZenonT(40) DEF CallState
  <2>3. call' = [call EXCEPT ![k] = v]
    BY <1>2 DEF Becomes
  <2>4. c.user \in Supers \/ groups \subseteq c.memberOf
    BY <1>2 DEF InReach, Super
  <2>5. c.todo = <<>> /\ c.op \in {"updateProject", "updateTemplate"}
    OBVIOUS
  <2> HIDE DEF v, c
  <2>6. Named(v) /\ Standing(v, row', past')
    BY <1>0, <2>2, SameStanding
  <2>7. Holds(v, row', past')
    BY <2>1, <2>2, <2>4, <2>5, <2>6 DEF Holds, Staged, Applying
  <2>8. QED BY <2>2, <2>3, <2>7 DEF CallMoves
<1>3. QED BY <1>1, <1>2 DEF Republish

LEMMA ClearKeeps ==
  ASSUME IInv, NEW k \in Calls, Clear(k)
  PROVE  IInv'
<1> DEFINE c == call[k]
<1>0. /\ c \in CallState /\ Holds(c, row, past) /\ c.pc = "clear" /\ Users # {}
      /\ UNCHANGED <<row, past>>
  BY DEF IInv, TypeOK, Held, Clear, CallState
<1>1. RowsKept /\ NamesKept /\ PastKept
  BY <1>0 DEF RowsKept, NamesKept, PastKept
<1>2. PICK v \in Linking(c, c.onto, c.left) : call' = [call EXCEPT ![k] = v]
  BY DEF Clear, Becomes
<1>3. c.onto \in Rows /\ c.left \in SUBSET Groups /\ InReachOf(c, c.left, past)
      /\ c.todo = <<>> /\ Named(c) /\ Standing(c, row, past)
  BY <1>0 DEF Holds, Staged, InReachOf, CallState
<1>4. CallMoves(k, v)
  BY <1>0, <1>2, <1>3, LinkingHolds DEF IInv, CallMoves
<1>5. /\ links' \in [Rows -> SUBSET Groups]
      /\ \A r \in Rows : links'[r] \subseteq links[r]
  BY <1>3 DEF IInv, TypeOK, Clear
<1>6. TablesOK'
  BY <1>0, <1>5 DEF IInv, TypeOK, TablesOK
<1>7. History'
  BY <1>0, <1>5 DEF IInv, History
<1>8. AppliedWhole'
  BY <1>0, <1>1, <1>2, WholeKept
<1>9. QED BY <1>1, <1>4, <1>6, <1>7, <1>8, KeepsIInv

LEMMA LinkKeeps ==
  ASSUME IInv, NEW k \in Calls, Link(k)
  PROVE  IInv'
<1> DEFINE c == call[k]
<1>0. /\ c \in CallState /\ Holds(c, row, past) /\ c.pc = "link" /\ Users # {}
      /\ UNCHANGED row /\ Remember
  BY DEF IInv, TypeOK, Held, Link, CallState
<1>1. RowsKept /\ NamesKept
  BY <1>0 DEF RowsKept, NamesKept
<1>2. PICK g \in c.left :
        /\ links' = [links EXCEPT ![c.onto] = @ \cup {g}]
        /\ \E v \in Linking(c, c.onto, c.left \ {g}) : Becomes(k, v)
  BY Zenon DEF Link
<1>3. PICK v \in Linking(c, c.onto, c.left \ {g}) : call' = [call EXCEPT ![k] = v]
  BY <1>2 DEF Becomes
<1>4. c.onto \in Rows /\ c.left \in SUBSET Groups /\ c.todo = <<>> /\ Named(c) /\ InReachOf(c, c.left, past)
  BY <1>0 DEF Holds, Staged, CallState
<1>5. links' \in [Rows -> SUBSET Groups]
  BY <1>2, <1>4 DEF IInv, TypeOK
<1>6. PastKept /\ TablesOK' /\ History' /\ past'.from = past.from /\ past'.torn = past.torn
  <2>1. row' \in [Rows -> Row]
    BY <1>0 DEF IInv, TypeOK
  <2>2. QED BY <1>0, <1>1, <1>5, <2>1, RememberKeeps
<1>7. CallMoves(k, v)
  <2>1. Standing(c, row', past')
    BY <1>0, <1>1, <1>4, <1>6, StandingLasts DEF IInv, Holds
  <2>2. InReachOf(c, c.left \ {g}, past')
    BY <1>4, <1>6 DEF InReachOf, PastKept, Rows
  <2>3. c.left \ {g} \in SUBSET Groups
    BY <1>4
  <2>4. v \in CallState /\ Holds(v, row', past')
    BY <1>0, <1>3, <1>4, <2>1, <2>2, <2>3, LinkingHolds DEF IInv
  <2>5. QED BY <1>3, <2>4 DEF CallMoves
<1>8. AppliedWhole'
  BY <1>0, <1>1, <1>3, <1>6, WholeKept DEF PastKept
<1>9. QED BY <1>1, <1>6, <1>7, <1>8, KeepsIInv

LEMMA CreateProjectKeeps ==
  ASSUME IInv, NEW k \in Calls, CreateProject(k)
  PROVE  IInv'
<1> USE TemplatesAssumption
<1> DEFINE c == call[k]
<1>0. /\ c \in CallState /\ Holds(c, row, past) /\ c.pc = "insert" /\ c.op = "createProject"
      /\ UNCHANGED links /\ Remember
  BY DEF IInv, TypeOK, Held, CreateProject, At
<1>1. PICK p \in Projects, global \in BOOLEAN :
        /\ row[p].st = "none"
        /\ row' = [row EXCEPT ![p] = [NoRow EXCEPT !.st = "live", !.owner = c.user, !.global = global]]
        /\ PublishNew(k, p)
  BY Zenon DEF CreateProject
<1> DEFINE new == [NoRow EXCEPT !.st = "live", !.owner = c.user, !.global = global]
<1>2. p \in Rows /\ new \in Row
  <2>1. c.user \in Users
    BY <1>0 DEF CallState
  <2>2. new \in Row
    BY <2>1, FreshRow
  <2>3. QED BY <2>2 DEF Rows
<1>3. row' = [row EXCEPT ![p] = new] /\ row' \in [Rows -> Row]
  BY <1>1, <1>2 DEF IInv, TypeOK
<1> HIDE DEF new
<1>4. \A r \in Rows : r # p => row'[r] = row[r]
  BY <1>3 DEF IInv, TypeOK
<1>5. \A r \in Templates \cup Channels : r \in Rows /\ r # p
  BY DEF Rows
<1>6. RowsKept /\ NamesKept
  BY <1>1, <1>4, <1>5 DEF RowsKept, NamesKept
<1>7. PastKept /\ TablesOK' /\ History' /\ past'.from = past.from /\ past'.torn = past.torn
  <2>1. links' \in [Rows -> SUBSET Groups]
    BY <1>0 DEF IInv, TypeOK
  <2>2. \A t \in Templates : row'[t].project = row[t].project
    BY <1>4, <1>5
  <2>3. QED BY <1>0, <1>3, <1>6, <2>1, <2>2, RememberKeeps
<1>8. c.todo = <<>>
  BY <1>0 DEF Holds, Staged
<1>9. PICK v : CallMoves(k, v)
  BY <1>0, <1>1, <1>2, <1>6, <1>7, <1>8, PublishNewMoves
<1>10. AppliedWhole'
  BY <1>0, <1>6, <1>7, <1>9, WholeKept DEF PastKept, CallMoves
<1>11. QED BY <1>6, <1>7, <1>9, <1>10, KeepsIInv

LEMMA UpdateProjectKeeps ==
  ASSUME IInv, NEW k \in Calls, UpdateProject(k)
  PROVE  IInv'
<1> USE TemplatesAssumption
<1> DEFINE c == call[k]
<1>0. /\ c \in CallState /\ Holds(c, row, past) /\ c.pc = "go" /\ c.op = "updateProject"
      /\ UNCHANGED links /\ Remember /\ Republish(k)
  BY DEF IInv, TypeOK, Held, UpdateProject, At
<1>1. PICK global \in BOOLEAN :
        row' = IF Live(c.row) THEN [row EXCEPT ![c.row].global = global] ELSE row
  BY Zenon DEF UpdateProject
<1>2. c.row \in Projects /\ c.row \in Rows /\ c.todo = <<>>
  BY <1>0 DEF Holds, Named, Staged, Rows
<1>3. row' \in [Rows -> Row]
  BY <1>1, <1>2, SMTT(30) DEF IInv, TypeOK, Row
<1>4. \A r \in Rows : /\ row'[r].st = row[r].st /\ row'[r].owner = row[r].owner
                      /\ row'[r].rules = row[r].rules /\ row'[r].name = row[r].name
                      /\ row'[r].project = row[r].project
  BY <1>1, <1>2 DEF IInv, TypeOK, Row
<1>5. RowsKept /\ NamesKept
  BY <1>4 DEF RowsKept, NamesKept, Rows
<1>6. PastKept /\ TablesOK' /\ History' /\ past'.from = past.from /\ past'.torn = past.torn
  <2>1. links' \in [Rows -> SUBSET Groups]
    BY <1>0 DEF IInv, TypeOK
  <2>2. \A t \in Templates : row'[t].project = row[t].project
    BY <1>4 DEF Rows
  <2>3. QED BY <1>0, <1>3, <1>5, <2>1, <2>2, RememberKeeps
<1>7. PICK v : CallMoves(k, v)
  BY <1>0, <1>2, <1>5, <1>6, RepublishMoves
<1>8. AppliedWhole'
  BY <1>0, <1>5, <1>6, <1>7, WholeKept DEF PastKept, CallMoves
<1>9. QED BY <1>5, <1>6, <1>7, <1>8, KeepsIInv

\* Past and links stay, and the rows change in what nobody relies on.
LEMMA RowWriteKeeps ==
  ASSUME IInv, NEW k \in Calls, NEW v, RowsKept, NamesKept, UNCHANGED <<links, past>>,
         row' \in [Rows -> Row],
         \A r \in Rows : row'[r].global => row[r].global,
         \A t \in Templates : row'[t].project = row[t].project,
         call[k].pc # "fill", CallMoves(k, v)
  PROVE  IInv'
<1>1. PastKept
  BY DEF PastKept
<1>2. TablesOK'
  BY DEF IInv, TypeOK, TablesOK
<1>3. History'
  <2>1. \A r \in Rows : links'[r] \subseteq past'.links[r]
    BY DEF IInv, History
  <2>2. QED BY <1>1, <1>2, <2>1, HistoryKept
<1>4. AppliedWhole'
  BY WholeKept DEF CallMoves
<1>5. QED BY <1>1, <1>2, <1>3, <1>4, KeepsIInv

LEMMA DeleteProjectKeeps ==
  ASSUME IInv, NEW k \in Calls, DeleteProject(k)
  PROVE  IInv'
<1> USE TemplatesAssumption
<1> DEFINE c == call[k]
           v == [c EXCEPT !.pc = "unfile"]
<1>0. /\ c \in CallState /\ Holds(c, row, past) /\ c.pc = "go" /\ c.op = "deleteProject"
      /\ UNCHANGED <<links, past>> /\ call' = [call EXCEPT ![k] = v]
      /\ row' = IF Live(c.row) THEN [row EXCEPT ![c.row].st = "deleted"] ELSE row
  BY DEF IInv, TypeOK, Held, DeleteProject, At, Becomes
<1>1. c.row \in Rows /\ c.todo = <<>>
  BY <1>0 DEF Holds, Named, Staged, Rows
<1>2. row' \in [Rows -> Row]
  <2>1. [row[c.row] EXCEPT !.st = "deleted"] \in Row
    BY <1>1, RowEdits DEF IInv, TypeOK
  <2>2. QED BY <1>0, <2>1 DEF IInv, TypeOK
<1>3. \A r \in Rows : /\ row[r].st # "none" => row'[r].st # "none" /\ row'[r].owner = row[r].owner
                      /\ row'[r].rules = row[r].rules /\ row'[r].name = row[r].name
                      /\ row'[r].project = row[r].project /\ row'[r].global = row[r].global
  BY <1>0, <1>1 DEF IInv, TypeOK, Row
<1>4. RowsKept /\ NamesKept
  BY <1>3 DEF RowsKept, NamesKept, Rows
<1>5. CallMoves(k, v)
  <2>1. /\ v \in CallState /\ v.pc = "unfile" /\ v.op = c.op /\ v.user = c.user
        /\ v.memberOf = c.memberOf /\ v.adminOf = c.adminOf /\ v.todo = c.todo
        /\ v.row = c.row /\ v.to = c.to /\ v.queue = c.queue /\ v.alive = c.alive
    BY <1>0 DEF CallState
  <2>2. PastKept
    BY <1>0 DEF PastKept
  <2>3. Named(c) /\ Standing(c, row', past')
    BY <1>0, <1>4, <2>2, StandingLasts DEF IInv, Holds
  <2>4. call' = [call EXCEPT ![k] = v]
    BY <1>0
  <2> HIDE DEF v, c
  <2>5. Named(v) /\ Standing(v, row', past')
    BY <2>1, <2>3, SameStanding
  <2>6. Holds(v, row', past')
    BY <1>0, <1>1, <2>1, <2>5 DEF Holds, Staged, Applying
  <2>7. QED BY <2>1, <2>4, <2>6 DEF CallMoves
<1>6. \A t \in Templates : row'[t].project = row[t].project
  BY <1>3 DEF Rows
<1>7. QED BY <1>0, <1>2, <1>3, <1>4, <1>5, <1>6, RowWriteKeeps

LEMMA DeleteTemplateKeeps ==
  ASSUME IInv, NEW k \in Calls, DeleteTemplate(k)
  PROVE  IInv'
<1> DEFINE c == call[k]
<1>0. /\ c \in CallState /\ Holds(c, row, past) /\ c.pc = "go" /\ c.op = "deleteTemplate"
      /\ UNCHANGED <<links, past>> /\ Answer(k)
      /\ row' = IF Live(c.row) THEN [row EXCEPT ![c.row].st = "deleted"] ELSE row
  BY DEF IInv, TypeOK, Held, DeleteTemplate, At
<1>1. c.row \in Rows
  BY <1>0 DEF Holds, Named, Rows
<1>2. row' \in [Rows -> Row]
  <2>1. [row[c.row] EXCEPT !.st = "deleted"] \in Row
    BY <1>1, RowEdits DEF IInv, TypeOK
  <2>2. QED BY <1>0, <2>1 DEF IInv, TypeOK
<1>3. \A r \in Rows : /\ row[r].st # "none" => row'[r].st # "none" /\ row'[r].owner = row[r].owner
                      /\ row'[r].rules = row[r].rules /\ row'[r].name = row[r].name
                      /\ row'[r].project = row[r].project /\ row'[r].global = row[r].global
  BY <1>0, <1>1 DEF IInv, TypeOK, Row
<1>4. RowsKept /\ NamesKept
  BY <1>3 DEF RowsKept, NamesKept, Rows
<1>5. \A t \in Templates : row'[t].project = row[t].project
  BY <1>3 DEF Rows
<1>6. CallMoves(k, Blank("over"))
  BY <1>0, Answered DEF IInv
<1>7. QED BY <1>0, <1>2, <1>3, <1>4, <1>5, <1>6, RowWriteKeeps

LEMMA ApplyRuleKeeps ==
  ASSUME IInv, NEW k \in Calls, ApplyRule(k)
  PROVE  IInv'
<1> USE TemplatesAssumption
<1> DEFINE c == call[k]
           rules == row[c.to].rules \cup row[c.row].rules
<1>0. /\ c \in CallState /\ Holds(c, row, past) /\ c.pc = "go" /\ c.op = "applyTemplate"
      /\ UNCHANGED <<links, past>> /\ Answer(k)
      /\ row' = [row EXCEPT ![c.to].rules = @ \cup row[c.row].rules]
  BY DEF IInv, TypeOK, Held, ApplyRule, At
<1>1. c.row \in Templates /\ c.to \in Channels \cup {None}
  BY <1>0 DEF Holds, Named
<1>2. row[c.row].rules \in SUBSET Contents
  BY <1>1 DEF IInv, TypeOK, Row, Rows
<1>3. row' \in [Rows -> Row]
  <2>1. \A r \in Rows : [row[r] EXCEPT !.rules = @ \cup row[c.row].rules] \in Row
    BY <1>2 DEF IInv, TypeOK, Row
  <2>2. QED BY <1>0, <2>1 DEF IInv, TypeOK
<1>4. \A r \in Rows : /\ row'[r].st = row[r].st /\ row'[r].owner = row[r].owner
                      /\ row'[r].name = row[r].name /\ row'[r].project = row[r].project
                      /\ row'[r].global = row[r].global
                      /\ r \notin Channels => row'[r].rules = row[r].rules
  BY <1>0, <1>1 DEF IInv, TypeOK, Row, Rows
<1>5. RowsKept /\ NamesKept
  BY <1>4 DEF RowsKept, NamesKept, Rows
<1>6. \A t \in Templates : row'[t].project = row[t].project
  BY <1>4 DEF Rows
<1>7. CallMoves(k, Blank("over"))
  BY <1>0, Answered DEF IInv
<1>8. QED BY <1>0, <1>3, <1>4, <1>5, <1>6, <1>7, RowWriteKeeps

LEMMA UnfileKeeps ==
  ASSUME IInv, NEW k \in Calls, Unfile(k)
  PROVE  IInv'
<1> DEFINE c == call[k]
<1>0. /\ c \in CallState /\ Holds(c, row, past) /\ c.pc = "unfile" /\ UNCHANGED links /\ Answer(k)
      /\ row' = [r \in Rows |-> IF row[r].project = c.row
                                  THEN [row[r] EXCEPT !.project = None] ELSE row[r]]
      /\ past' = [past EXCEPT !.unfiled = @ \cup {c.row}]
  BY DEF IInv, TypeOK, Held, Unfile
<1>1. c.row \in Projects
  BY <1>0 DEF Holds, Named, Staged
<1>2. row' \in [Rows -> Row]
  BY <1>0, RowEdits DEF IInv, TypeOK
<1>3. \A r \in Rows : /\ row'[r].st = row[r].st /\ row'[r].owner = row[r].owner
                      /\ row'[r].rules = row[r].rules /\ row'[r].name = row[r].name
                      /\ row'[r].global = row[r].global
                      /\ row'[r].project = IF row[r].project = c.row THEN None ELSE row[r].project
  BY <1>0 DEF IInv, TypeOK, Row
<1>4. RowsKept /\ NamesKept
  BY <1>3 DEF RowsKept, NamesKept, Rows
<1>5. /\ past'.links = past.links /\ past'.global = past.global /\ past'.filed = past.filed
      /\ past'.unfiled = past.unfiled \cup {c.row} /\ past'.origin = past.origin
      /\ past'.from = past.from /\ past'.given = past.given /\ past'.torn = past.torn
  BY <1>0 DEF IInv, TypeOK
<1>6. PastKept
  BY <1>5 DEF PastKept
<1>7. TablesOK'
  BY <1>0, <1>1, <1>2 DEF IInv, TypeOK, TablesOK
<1>8. History'
  <2>1. \A t \in Templates : row'[t].project # None =>
          row'[t].project = row[t].project /\ row[t].project # c.row
    BY <1>3 DEF Rows
  <2>2. \A r \in Rows : links'[r] \subseteq past'.links[r]
    BY <1>0, <1>5 DEF IInv, History
  <2>3. QED BY <1>3, <1>5, <1>6, <1>7, <1>4, <2>1, <2>2, HistoryKept
<1>9. CallMoves(k, Blank("over"))
  BY <1>0, Answered DEF IInv
<1>10. AppliedWhole'
  BY <1>0, <1>4, <1>5, <1>9, WholeKept DEF CallMoves
<1>11. QED BY <1>4, <1>6, <1>7, <1>8, <1>9, <1>10, KeepsIInv

\* A template is filed where the request may file it.
LEMMA FilingKeeps ==
  ASSUME IInv, NEW k \in Calls, NEW t \in Templates, NEW p \in Projects \cup {None},
         Filing(k, t, p), RowsKept, row' \in [Rows -> Row], UNCHANGED links,
         \A u \in Templates : u # t => row'[u].project = row[u].project,
         row'[t].project = p,
         p # None => Super(k) \/ p \in call[k].alive \/ <<t, p>> \in past.origin
  PROVE  PastKept /\ TablesOK' /\ History' /\ past'.from = past.from /\ past'.torn = past.torn
<1>1. /\ past'.links = past.links
      /\ past'.global = past.global \cup {r \in Rows : row'[r].global}
      /\ past'.filed = IF p = None THEN past.filed ELSE past.filed \cup {<<t, p>>}
      /\ past'.unfiled = past.unfiled
      /\ past'.origin = IF p # None /\ (Super(k) \/ p \in call[k].alive)
                          THEN past.origin \cup {<<t, p>>} ELSE past.origin
      /\ past'.from = past.from /\ past'.given = past.given /\ past'.torn = past.torn
  BY DEF Filing, IInv, TypeOK
<1>2. PastKept
  BY <1>1 DEF PastKept
<1>3. TablesOK'
  <2> DEFINE F == IF p = None THEN past.filed ELSE past.filed \cup {<<t, p>>}
             G == IF p # None /\ (Super(k) \/ p \in call[k].alive)
                    THEN past.origin \cup {<<t, p>>} ELSE past.origin
             H == past.global \cup {r \in Rows : row'[r].global}
  <2>1. p # None => p \in Projects
    OBVIOUS
  <2>2. F \in SUBSET (Templates \X Projects) /\ G \in SUBSET (Templates \X Projects)
        /\ H \in SUBSET Rows
    BY <2>1 DEF IInv, TypeOK
  <2>3. past' = [past EXCEPT !.global = H, !.filed = F, !.origin = G]
    BY DEF Filing
  <2> HIDE DEF F, G, H
  <2>4. QED BY <2>2, <2>3 DEF IInv, TypeOK, TablesOK
<1>4. History'
  <2>1. \A r \in Rows : links'[r] \subseteq past'.links[r]
    BY <1>1 DEF IInv, History
  <2>2. ASSUME p # None
        PROVE  <<t, p>> \in past'.filed /\ <<t, p>> \in past'.origin
    BY <1>1, <2>2
  <2>3. ASSUME NEW u \in Templates, row'[u].project # None
        PROVE  \/ row'[u].project = row[u].project
               \/ <<u, row'[u].project>> \in past'.filed /\ <<u, row'[u].project>> \in past'.origin
    <3>1. CASE u = t
      BY <2>2, <2>3, <3>1
    <3>2. CASE u # t
      BY <3>2
    <3>3. QED BY <3>1, <3>2
  <2>4. QED BY <1>1, <1>2, <1>3, <2>1, <2>3, HistoryKept
<1>5. QED BY <1>1, <1>2, <1>3, <1>4

\* Who files a template may.
LEMMA SaverMayFile ==
  ASSUME NEW c, NEW R, NEW P, Holds(c, R, P), c.todo = <<>>, c.to # None,
         c.op \in SaveOps \cup {"updateTemplate"}
  PROVE  MayFile(c, R, P)
BY DEF Holds, Standing, Has

LEMMA InsertTemplateKeeps ==
  ASSUME IInv, NEW k \in Calls, InsertTemplate(k)
  PROVE  IInv'
<1> USE TemplatesAssumption
<1> DEFINE c == call[k]
<1>0. /\ c \in CallState /\ Holds(c, row, past) /\ c.pc \in {"insert", "go"} /\ c.op \in SaveOps
      /\ UNCHANGED links
  BY DEF IInv, TypeOK, Held, InsertTemplate, At, SaveOps
<1>1. PICK t \in Templates, global \in BOOLEAN :
        /\ row[t].st = "none"
        /\ row' = [row EXCEPT ![t] =
             [st |-> "live", owner |-> c.user, global |-> global,
              kind |-> IF c.op = "saveRule" THEN "rule" ELSE "channel",
              project |-> c.to, name |-> row[c.row].name, rules |-> c.rest]]
        /\ PublishNew(k, t)
        /\ Filing(k, t, c.to)
  BY Zenon DEF InsertTemplate
<1>2. c.row \in Channels /\ c.to \in Projects \cup {None} /\ c.todo = <<>>
  BY <1>0 DEF Holds, Named, Staged
<1> DEFINE kind == IF c.op = "saveRule" THEN "rule" ELSE "channel"
           new == [st |-> "live", owner |-> c.user, global |-> global, kind |-> kind,
                   project |-> c.to, name |-> row[c.row].name, rules |-> c.rest]
<1>3. t \in Rows /\ new \in Row /\ new.project = c.to
  <2>1. kind \in {"rule", "channel"}
    OBVIOUS
  <2>2. row[c.row].name \in Name
    BY <1>2 DEF IInv, TypeOK, Row, Rows
  <2>3. c.user \in Users /\ c.rest \in SUBSET Contents
    BY <1>0 DEF CallState
  <2> HIDE DEF kind, c
  <2>4. QED BY <1>2, <2>1, <2>2, <2>3 DEF Row, Rows
<1>4. row' = [row EXCEPT ![t] = new]
  BY <1>1
<1> HIDE DEF new
<1>5. row' \in [Rows -> Row] /\ row'[t] = new /\ \A r \in Rows : r # t => row'[r] = row[r]
  BY <1>3, <1>4 DEF IInv, TypeOK
<1>6. RowsKept /\ NamesKept
  BY <1>1, <1>5 DEF RowsKept, NamesKept, Rows
<1>7. PastKept /\ TablesOK' /\ History' /\ past'.from = past.from /\ past'.torn = past.torn
  <2>1. c.to # None => Super(k) \/ c.to \in c.alive \/ <<t, c.to>> \in past.origin
    BY <1>0, <1>2, SaverMayFile DEF MayFile, Super, SaveOps
  <2>2. \A u \in Templates : u # t => row'[u].project = row[u].project
    BY <1>5 DEF Rows
  <2>3. QED BY <1>0, <1>1, <1>2, <1>3, <1>5, <1>6, <2>1, <2>2, FilingKeeps
<1>8. PICK v : CallMoves(k, v)
  BY <1>0, <1>1, <1>2, <1>3, <1>6, <1>7, PublishNewMoves
<1>9. AppliedWhole'
  BY <1>0, <1>6, <1>7, <1>8, WholeKept DEF PastKept, CallMoves
<1>10. QED BY <1>6, <1>7, <1>8, <1>9, KeepsIInv

LEMMA UpdateTemplateKeeps ==
  ASSUME IInv, NEW k \in Calls, UpdateTemplate(k)
  PROVE  IInv'
<1> USE TemplatesAssumption
<1> DEFINE c == call[k]
<1>0. /\ c \in CallState /\ Holds(c, row, past) /\ c.pc = "update" /\ c.op = "updateTemplate"
      /\ UNCHANGED links /\ Republish(k)
      /\ row' = IF Live(c.row)
                  THEN [row EXCEPT ![c.row].project = c.to, ![c.row].global = c.global] ELSE row
      /\ IF Live(c.row) THEN Filing(k, c.row, c.to) ELSE UNCHANGED past
  BY DEF IInv, TypeOK, Held, UpdateTemplate, At
<1>1. c.row \in Templates /\ c.row \in Rows /\ c.to \in Projects \cup {None} /\ c.todo = <<>>
      /\ c.global \in BOOLEAN
  BY <1>0 DEF Holds, Named, Staged, Rows, CallState
<1>2. CASE Live(c.row)
  <2> DEFINE new == [row[c.row] EXCEPT !.project = c.to, !.global = c.global]
  <2>1. /\ row[c.row] \in Row /\ new \in Row /\ new.project = c.to /\ new.st = row[c.row].st
        /\ new.owner = row[c.row].owner /\ new.rules = row[c.row].rules
    <3>1. row[c.row] \in Row
      BY <1>1 DEF IInv, TypeOK
    <3>2. new = [row[c.row] EXCEPT !.project = c.to, !.global = c.global]
      OBVIOUS
    <3> HIDE DEF new, c
    <3>3. QED BY <1>1, <3>1, <3>2 DEF Row
  <2>2. row' = [row EXCEPT ![c.row] = new]
    BY <1>0, <1>1, <1>2 DEF IInv, TypeOK
  <2> HIDE DEF new
  <2>3. row' \in [Rows -> Row] /\ row'[c.row] = new /\ \A r \in Rows : r # c.row => row'[r] = row[r]
    BY <1>1, <2>1, <2>2 DEF IInv, TypeOK
  <2>4. RowsKept /\ NamesKept
    BY <1>1, <2>1, <2>3 DEF RowsKept, NamesKept, Rows
  <2>5. PastKept /\ TablesOK' /\ History' /\ past'.from = past.from /\ past'.torn = past.torn
    <3>1. c.to # None => Super(k) \/ c.to \in c.alive \/ <<c.row, c.to>> \in past.origin
      BY <1>0, <1>1, SaverMayFile DEF MayFile, Super
    <3>2. \A u \in Templates : u # c.row => row'[u].project = row[u].project
      BY <2>3 DEF Rows
    <3>3. Filing(k, c.row, c.to) /\ UNCHANGED links /\ row'[c.row].project = c.to
      BY <1>0, <1>2, <2>1, <2>3
    <3>4. c.to # None => Super(k) \/ c.to \in call[k].alive \/ <<c.row, c.to>> \in past.origin
      BY <3>1
    <3>5. c.row \in Templates /\ c.to \in Projects \cup {None}
      BY <1>1
    <3> HIDE DEF c
    <3>6. QED BY <2>3, <2>4, <3>2, <3>3, <3>4, <3>5, FilingKeeps
  <2>6. PICK v : CallMoves(k, v)
    BY <1>0, <1>1, <2>4, <2>5, RepublishMoves
  <2>7. AppliedWhole'
    BY <1>0, <2>4, <2>5, <2>6, WholeKept DEF PastKept, CallMoves
  <2>8. QED BY <2>4, <2>5, <2>6, <2>7, KeepsIInv
<1>3. CASE ~Live(c.row)
  <2>1. UNCHANGED <<row, links, past>>
    BY <1>0, <1>3
  <2>2. RowsKept /\ NamesKept /\ PastKept
    BY <2>1, NothingLost DEF IInv
  <2>3. PICK v : CallMoves(k, v)
    BY <1>0, <1>1, <2>2, RepublishMoves
  <2>4. row' \in [Rows -> Row] /\ \A t \in Templates : row'[t].project = row[t].project
    BY <2>1 DEF IInv, TypeOK
  <2>5. QED BY <1>0, <2>1, <2>2, <2>3, <2>4, RowWriteKeeps
<1>4. QED BY <1>2, <1>3

LEMMA FillingMoves ==
  ASSUME IInv, RowsKept, PastKept, NEW k \in Calls, call[k].todo = <<>>, call[k].op \in ApplyOps,
         call[k].item \in Templates, Sourced(call[k], call[k].item, row', past'),
         NEW d \in Channels, NEW rest \in SUBSET Contents, Filling(k, d, rest),
         row'[d].st # "none", past'.from[d] = call[k].item,
         row'[call[k].item].rules \subseteq past'.given[d] \cup rest
  PROVE  \E v : /\ CallMoves(k, v)
                /\ rest # {} => v.pc = "fill" /\ v.onto = d
<1> DEFINE c == call[k]
<1>0. c \in CallState /\ Named(c) /\ Standing(c, row', past') /\ Users # {}
  BY StandingLasts DEF IInv, TypeOK, Held, Holds, CallState
<1>1. CASE rest # {}
  <2> DEFINE v == [c EXCEPT !.pc = "fill", !.onto = d, !.rest = rest]
  <2>1. call' = [call EXCEPT ![k] = v]
    BY <1>1 DEF Filling, Becomes
  <2>2. d \in Rows
    BY DEF Rows
  <2>3. /\ v \in CallState /\ v.pc = "fill" /\ v.op = c.op /\ v.user = c.user /\ v.onto = d
        /\ v.memberOf = c.memberOf /\ v.adminOf = c.adminOf /\ v.todo = c.todo /\ v.item = c.item
        /\ v.row = c.row /\ v.to = c.to /\ v.queue = c.queue /\ v.alive = c.alive /\ v.rest = rest
    BY <1>0, <2>2 DEF CallState
  <2>4. c.todo = <<>> /\ c.op \in ApplyOps /\ c.item \in Templates /\ past'.from[d] = c.item
        /\ row'[c.item].rules \subseteq past'.given[d] \cup rest /\ Sourced(c, c.item, row', past')
    OBVIOUS
  <2> HIDE DEF v, c
  <2>5. Named(v) /\ Standing(v, row', past')
    BY <1>0, <2>3, SameStanding
  <2>6. Applying(v, row', past')
    BY <2>3, <2>4 DEF Applying, Sourced
  <2>7. Holds(v, row', past')
    BY <2>3, <2>4, <2>5, <2>6 DEF Holds, Staged
  <2>8. QED BY <1>1, <2>1, <2>3, <2>7 DEF CallMoves
<1>2. CASE rest = {}
  <2> DEFINE w == [c EXCEPT !.rest = {}]
             own == OwnGroups(k)
  <2>1. PICK v \in Linking(w, d, own) : call' = [call EXCEPT ![k] = v]
    BY <1>2 DEF Filling, Becomes
  <2>2. /\ w \in CallState /\ w.op = c.op /\ w.user = c.user
        /\ w.memberOf = c.memberOf /\ w.adminOf = c.adminOf /\ w.todo = c.todo
        /\ w.row = c.row /\ w.to = c.to /\ w.queue = c.queue /\ w.alive = c.alive
    BY <1>0 DEF CallState
  <2>3. own \in SUBSET Groups /\ (c.user \in Supers \/ own \subseteq c.memberOf)
    BY <1>0 DEF OwnGroups, Super, CallState
  <2>4. d \in Rows /\ c.todo = <<>>
    BY DEF Rows
  <2> HIDE DEF w, own, c
  <2>5. Named(w) /\ Standing(w, row', past')
    BY <1>0, <2>2, SameStanding
  <2>6. InReachOf(w, own, past')
    BY <2>2, <2>3 DEF InReachOf
  <2>7. v \in CallState /\ Holds(v, row', past') /\ v.pc \in {"link", "name", "over"}
    BY <1>0, <2>1, <2>2, <2>3, <2>4, <2>5, <2>6, LinkingHolds DEF IInv
  <2>8. QED BY <1>2, <2>1, <2>7 DEF CallMoves
<1>3. QED BY <1>1, <1>2

LEMMA MakeChannelKeeps ==
  ASSUME IInv, NEW k \in Calls, MakeChannel(k)
  PROVE  IInv'
<1> USE TemplatesAssumption
<1> DEFINE c == call[k]
           name == Candidate(c.base, c.tries)
           rules == row[c.item].rules
<1>0. /\ c \in CallState /\ Holds(c, row, past) /\ c.pc = "make" /\ UNCHANGED links
  BY DEF IInv, TypeOK, Held, MakeChannel
<1>1. PICK d \in Channels :
        /\ row[d].st = "none"
        /\ row' = [row EXCEPT ![d] = [NoRow EXCEPT !.st = "live", !.owner = c.user, !.name = name]]
        /\ past' = [past EXCEPT !.from[d] = c.item]
        /\ Filling(k, d, rules)
  BY Zenon DEF MakeChannel
<1>2. c.op \in ApplyOps /\ c.item \in Templates /\ c.todo = <<>> /\ Sourced(c, c.item, row, past)
  BY <1>0 DEF Holds, Staged, Applying
<1>3. name \in Name
  BY <1>0 DEF Candidate, Name, CallState
<1> DEFINE new == [NoRow EXCEPT !.st = "live", !.owner = c.user, !.name = name]
<1>4. new \in Row /\ new.st = "live" /\ new.global = FALSE
  <2>1. NoRow \in Row /\ NoRow.global = FALSE /\ c.user \in Users
    BY <1>0, FreshRow DEF NoRow, CallState
  <2> HIDE DEF c, name
  <2>2. QED BY <1>3, <2>1 DEF Row
<1> HIDE DEF name
<1>5. /\ row' \in [Rows -> Row] /\ row'[d] = new
      /\ \A r \in Rows : r # d => row'[r] = row[r]
  BY <1>1, <1>4 DEF IInv, TypeOK, Rows, name
<1> HIDE DEF new
<1>6. RowsKept /\ NamesKept
  BY <1>1, <1>5 DEF RowsKept, NamesKept, Rows
<1>7. /\ past'.links = past.links /\ past'.global = past.global /\ past'.filed = past.filed
      /\ past'.unfiled = past.unfiled /\ past'.origin = past.origin
      /\ past'.from = [past.from EXCEPT ![d] = c.item]
      /\ past'.given = past.given /\ past'.torn = past.torn
  BY <1>1 DEF IInv, TypeOK
<1>8. past'.from[d] = c.item /\ \A e \in Channels : e # d => past'.from[e] = past.from[e]
  BY <1>7 DEF IInv, TypeOK
<1>9. PastKept
  BY <1>1, <1>7, <1>8 DEF PastKept
<1>10. TablesOK'
  BY <1>0, <1>1, <1>2, <1>5 DEF IInv, TypeOK, TablesOK
<1>11. History'
  <2>1. \A r \in Rows : links'[r] \subseteq past'.links[r]
    BY <1>0, <1>7 DEF IInv, History
  <2>2. \A r \in Rows : row'[r].global => row[r].global
    BY <1>4, <1>5
  <2>3. \A t \in Templates : row'[t].project = row[t].project
    BY <1>5 DEF Rows
  <2>4. \A e \in Channels : past'.from[e] # None =>
           \/ past'.from[e] = past.from[e]
           \/ /\ row'[e].st # "none" /\ past'.from[e] \in Templates
              /\ row[past'.from[e]].st # "none"
    BY <1>2, <1>4, <1>5, <1>8 DEF Sourced
  <2>5. QED BY <1>6, <1>7, <1>9, <1>10, <2>1, <2>2, <2>3, <2>4, HistoryKept
<1>12. PICK v : /\ CallMoves(k, v)
                /\ rules # {} => v.pc = "fill" /\ v.onto = d
  <2>1. Sourced(c, c.item, row', past')
    BY <1>2, <1>5, <1>6, <1>9 DEF Sourced, RowsKept, PastKept, Rows
  <2>2. row'[c.item].rules = rules /\ rules \in SUBSET Contents
    BY <1>2, <1>5, SMTT(30) DEF IInv, TypeOK, Row, Rows
  <2>3. row'[d].st # "none"
    BY <1>4, <1>5
  <2>4. /\ call[k].todo = <<>> /\ call[k].op \in ApplyOps /\ call[k].item \in Templates
        /\ Sourced(call[k], call[k].item, row', past') /\ past'.from[d] = call[k].item
        /\ row'[call[k].item].rules \subseteq past'.given[d] \cup rules
    BY <1>2, <1>8, <2>1, <2>2
  <2>5. rules \in SUBSET Contents /\ Filling(k, d, rules)
    BY <1>1, <2>2
  <2> HIDE DEF rules, c
  <2>6. QED BY <1>6, <1>9, <2>3, <2>4, <2>5, FillingMoves
<1>13. AppliedWhole'
  <2>1. row'[c.item].rules = rules
    BY <1>2, <1>5 DEF Rows
  <2>2. \A e \in Channels :
           \/ past'.from[e] = past.from[e]
           \/ row'[past'.from[e]].rules \subseteq past'.given[e]
           \/ v.pc = "fill" /\ v.onto = e
    BY <1>8, <1>12, <2>1
  <2>3. call[k].pc # "fill" /\ call' = [call EXCEPT ![k] = v] /\ past.torn \subseteq past'.torn
        /\ \A e \in Channels : past.given[e] \subseteq past'.given[e]
    BY <1>0, <1>7, <1>12 DEF CallMoves
  <2> HIDE DEF rules, c
  <2>4. QED BY <1>6, <2>2, <2>3, WholeKept
<1>14. QED BY <1>6, <1>9, <1>10, <1>11, <1>12, <1>13, KeepsIInv

LEMMA FillKeeps ==
  ASSUME IInv, NEW k \in Calls, Fill(k)
  PROVE  IInv'
<1> USE TemplatesAssumption
<1> DEFINE c == call[k]
           d == c.onto
<1>0. /\ c \in CallState /\ Holds(c, row, past) /\ c.pc = "fill" /\ UNCHANGED links
  BY DEF IInv, TypeOK, Held, Fill
<1>1. PICK x \in c.rest :
        /\ row' = [row EXCEPT ![d].rules = @ \cup {x}]
        /\ past' = [past EXCEPT !.given[d] = @ \cup {x}]
        /\ Filling(k, d, c.rest \ {x})
  BY Zenon DEF Fill
<1>2. /\ c.op \in ApplyOps /\ c.item \in Templates /\ c.todo = <<>> /\ d \in Channels
      /\ Sourced(c, c.item, row, past) /\ row[d].st # "none" /\ past.from[d] = c.item
      /\ row[c.item].rules \subseteq past.given[d] \cup c.rest
  BY <1>0 DEF Holds, Staged, Applying
<1>3. x \in Contents /\ c.rest \in SUBSET Contents
  BY <1>0, <1>1 DEF CallState
<1>4. row' \in [Rows -> Row]
  <2>1. [row[d] EXCEPT !.rules = @ \cup {x}] \in Row
    <3>1. row[d] \in Row
      BY <1>2 DEF IInv, TypeOK, Rows
    <3>2. row[d].rules \cup {x} \in SUBSET Contents
      BY <1>3, <3>1 DEF Row
    <3>3. QED BY <3>1, <3>2, RowEdits
  <2>2. QED BY <1>1, <2>1 DEF IInv, TypeOK
<1>5. \A r \in Rows : /\ row'[r].st = row[r].st /\ row'[r].owner = row[r].owner
                      /\ row'[r].name = row[r].name /\ row'[r].project = row[r].project
                      /\ row'[r].global = row[r].global
                      /\ r \notin Channels => row'[r].rules = row[r].rules
  BY <1>1, <1>2 DEF IInv, TypeOK, Row, Rows
<1>6. RowsKept /\ NamesKept
  BY <1>5 DEF RowsKept, NamesKept, Rows
<1>7. /\ past'.links = past.links /\ past'.global = past.global /\ past'.filed = past.filed
      /\ past'.unfiled = past.unfiled /\ past'.origin = past.origin /\ past'.from = past.from
      /\ past'.given = [past.given EXCEPT ![d] = @ \cup {x}] /\ past'.torn = past.torn
  BY <1>1 DEF IInv, TypeOK
<1>8. /\ past'.given \in [Channels -> SUBSET Contents]
      /\ past'.given[d] = past.given[d] \cup {x}
      /\ \A e \in Channels : past.given[e] \subseteq past'.given[e]
  BY <1>2, <1>3, <1>7 DEF IInv, TypeOK
<1>9. PastKept
  BY <1>7, <1>8 DEF PastKept
<1>10. TablesOK'
  <2>1. past' = [past EXCEPT !.given = past'.given]
    BY <1>1 DEF IInv, TypeOK
  <2>2. QED BY <1>0, <1>4, <1>8, <2>1 DEF IInv, TypeOK, TablesOK
<1>11. History'
  <2>1. \A r \in Rows : links'[r] \subseteq past'.links[r]
    BY <1>0, <1>7 DEF IInv, History
  <2>2. \A t \in Templates : row'[t].project = row[t].project
    BY <1>5 DEF Rows
  <2>3. QED BY <1>5, <1>6, <1>7, <1>9, <1>10, <2>1, <2>2, HistoryKept
<1>12. PICK v : /\ CallMoves(k, v)
                /\ c.rest \ {x} # {} => v.pc = "fill" /\ v.onto = d
  <2>1. Sourced(c, c.item, row', past')
    BY <1>2, <1>6, <1>9 DEF Sourced, RowsKept, PastKept, Rows
  <2>2. row'[c.item].rules \subseteq past'.given[d] \cup (c.rest \ {x})
    BY <1>2, <1>6, <1>8 DEF RowsKept, Sourced
  <2>3. row'[d].st # "none" /\ past'.from[d] = c.item
    BY <1>2, <1>5, <1>7 DEF Rows
  <2>4. c.rest \ {x} \in SUBSET Contents
    BY <1>3
  <2> DEFINE rest == c.rest \ {x}
  <2>5. /\ call[k].todo = <<>> /\ call[k].op \in ApplyOps /\ call[k].item \in Templates
        /\ Sourced(call[k], call[k].item, row', past') /\ past'.from[d] = call[k].item
        /\ row'[call[k].item].rules \subseteq past'.given[d] \cup rest
    BY <1>2, <2>1, <2>2, <2>3
  <2>6. rest \in SUBSET Contents /\ Filling(k, d, rest) /\ d \in Channels /\ row'[d].st # "none"
    BY <1>1, <1>2, <2>3, <2>4
  <2> HIDE DEF rest, c, d
  <2>7. \E v : CallMoves(k, v) /\ (rest # {} => v.pc = "fill" /\ v.onto = d)
    BY <1>6, <1>9, <2>5, <2>6, FillingMoves
  <2>8. QED BY <2>7 DEF rest
<1>13. AppliedWhole'
  <2>1. c.rest \ {x} = {} => row[past.from[d]].rules \subseteq past'.given[d]
    BY <1>2, <1>8
  <2>2. QED BY <1>6, <1>7, <1>8, <1>12, <2>1, WholeKept DEF CallMoves
<1>14. QED BY <1>6, <1>9, <1>10, <1>11, <1>12, <1>13, KeepsIInv

\* A filling that is cut short is torn.
LEMMA TearKeeps ==
  ASSUME IInv, NEW k \in Calls, Tear(k), UNCHANGED <<row, links>>, NEW v,
         PastKept => CallMoves(k, v)
  PROVE  IInv'
<1>1. /\ past'.links = past.links /\ past'.global = past.global /\ past'.filed = past.filed
      /\ past'.unfiled = past.unfiled /\ past'.origin = past.origin /\ past'.from = past.from
      /\ past'.given = past.given
      /\ past'.torn = past.torn \cup IF call[k].pc = "fill" THEN {call[k].onto} ELSE {}
  BY DEF Tear, IInv, TypeOK
<1>2. RowsKept /\ NamesKept /\ PastKept
  BY <1>1 DEF RowsKept, NamesKept, PastKept
<1>3. call[k].pc = "fill" => call[k].onto \in Channels
  BY DEF IInv, Held, Holds, Staged
<1>4. TablesOK'
  <2> DEFINE torn == past.torn \cup IF call[k].pc = "fill" THEN {call[k].onto} ELSE {}
  <2>1. torn \in SUBSET Channels
    BY <1>3 DEF IInv, TypeOK
  <2>2. past' = [past EXCEPT !.torn = torn]
    BY DEF Tear
  <2> HIDE DEF torn
  <2>3. QED BY <2>1, <2>2 DEF IInv, TypeOK, TablesOK
<1>5. History'
  BY <1>1 DEF IInv, History
<1>6. CallMoves(k, v)
  BY <1>2
<1>7. AppliedWhole'
  <2>1. call[k].pc = "fill" => call[k].onto \in past'.torn
    BY <1>1
  <2>2. QED BY <1>1, <1>2, <1>6, <2>1, WholeKept DEF CallMoves
<1>8. QED BY <1>2, <1>4, <1>5, <1>6, <1>7, KeepsIInv

LEMMA ItemFailsKeeps ==
  ASSUME IInv, NEW k \in Calls, ItemFails(k)
  PROVE  IInv'
<1> DEFINE c == call[k]
<1>0. /\ c \in CallState /\ Holds(c, row, past) /\ c.pc \in {"make", "fill"} /\ Users # {}
      /\ c.op = "applyProject" /\ UNCHANGED <<row, links>> /\ Tear(k)
  BY DEF IInv, TypeOK, Held, ItemFails, CallState
<1>1. PICK v \in NextItem(c) : call' = [call EXCEPT ![k] = v]
  BY DEF ItemFails, Becomes
<1>2. ASSUME PastKept PROVE CallMoves(k, v)
  <2>1. RowsKept
    BY <1>0 DEF RowsKept
  <2>2. Named(c) /\ Standing(c, row', past') /\ c.todo = <<>>
    BY <1>0, <1>2, <2>1, StandingLasts DEF IInv, Holds, Staged
  <2>3. v \in CallState /\ Holds(v, row', past')
    BY <1>0, <1>1, <2>2, NextItemHolds DEF IInv, ApplyOps
  <2>4. QED BY <1>1, <2>3 DEF CallMoves
<1>3. QED BY <1>0, <1>2, TearKeeps

LEMMA RefusedKeeps ==
  ASSUME IInv, NEW k \in Calls, Refused(k)
  PROVE  IInv'
<1>1. CallMoves(k, Blank("over"))
  BY Answered DEF IInv, Refused
<1>2. QED BY <1>1, TearKeeps DEF Refused

(* A channel is renamed: whoever found its new name free no longer counts it. *)
LEMMA RenameKeeps ==
  ASSUME IInv, NEW k \in Calls, NEW d \in Channels, NEW name \in Name, Live(d),
         row' = [row EXCEPT ![d].name = name], call[k].pc = "new",
         call' = [l \in Calls |-> IF l = k THEN Blank("over")
                                  ELSE [call[l] EXCEPT !.before = @ \ {d}]],
         UNCHANGED <<links, past>>
  PROVE  IInv'
<1> USE TemplatesAssumption
<1>1. row' \in [Rows -> Row]
  <2>1. [row[d] EXCEPT !.name = name] \in Row
    BY SMTT(30) DEF IInv, TypeOK, Row, Rows
  <2>2. QED BY <2>1 DEF IInv, TypeOK
<1>2. \A r \in Rows : /\ row'[r].st = row[r].st /\ row'[r].owner = row[r].owner
                      /\ row'[r].rules = row[r].rules /\ row'[r].project = row[r].project
                      /\ row'[r].global = row[r].global
                      /\ r # d => row'[r].name = row[r].name
  BY DEF IInv, TypeOK, Row, Rows
<1>3. RowsKept /\ PastKept
  BY <1>2 DEF RowsKept, PastKept, Rows
<1>4. TablesOK'
  BY <1>1 DEF IInv, TypeOK, TablesOK
<1>5. History'
  <2>1. \A r \in Rows : links'[r] \subseteq past'.links[r]
    BY DEF IInv, History
  <2>2. \A t \in Templates : row'[t].project = row[t].project
    BY <1>2 DEF Rows
  <2>3. QED BY <1>2, <1>3, <1>4, <2>1, <2>2, HistoryKept
<1>6. ASSUME NEW l \in Calls
      PROVE  call'[l] \in CallState /\ Holds(call'[l], row', past')
             /\ (l # k => call'[l].pc = call[l].pc /\ call'[l].onto = call[l].onto)
  <2>1. CASE l = k
    <3>1. Users # {}
      BY DEF IInv, TypeOK, CallState
    <3>2. call'[l] = Blank("over")
      BY <2>1
    <3>3. QED BY <2>1, <3>1, <3>2, BlankHolds
  <2>2. CASE l # k
    <3> DEFINE c == call[l]
               rest == c.before \ {d}
               v == [c EXCEPT !.before = rest]
    <3>1. call'[l] = v /\ c \in CallState /\ Holds(c, row, past)
      BY <2>2 DEF IInv, TypeOK, Held
    <3>2. rest \in SUBSET Channels
      BY <3>1 DEF CallState
    <3>3. \A e \in rest : e \in Channels /\ e \in c.before /\ row'[e].name = row[e].name
                          /\ row'[e].st = row[e].st
      BY <1>2, <3>2 DEF Rows
    <3> HIDE DEF rest
    <3>4. /\ v \in CallState /\ v.pc = c.pc /\ v.op = c.op /\ v.user = c.user /\ v.onto = c.onto
          /\ v.memberOf = c.memberOf /\ v.adminOf = c.adminOf /\ v.todo = c.todo /\ v.item = c.item
          /\ v.row = c.row /\ v.to = c.to /\ v.queue = c.queue /\ v.alive = c.alive
          /\ v.rest = c.rest /\ v.left = c.left /\ v.checked = c.checked /\ v.before = rest /\ v.base = c.base /\ v.tries = c.tries
      BY <3>1, <3>2 DEF CallState
    <3> HIDE DEF v, c
    <3>5. Named(v) /\ Standing(v, row', past') /\ Staged(v)
      <4>1. Named(c) /\ Standing(c, row', past') /\ Staged(c)
        BY <1>3, <3>1, StandingLasts DEF IInv, Holds
      <4>2. QED BY <3>4, <4>1, SameStanding, SMTT(30) DEF Staged
    <3>6. Applying(v, row', past')
      <4>1. c.pc \in {"name", "make", "fill"} => Sourced(v, v.item, row', past')
        BY <1>3, <3>1, <3>4 DEF Holds, Applying, Sourced, Staged, RowsKept, PastKept, Rows
      <4>2. c.pc = "make" /\ c.checked =>
              \A e \in rest : row'[e].st # "none" /\ row'[e].name # Candidate(v.base, v.tries)
        BY <3>1, <3>3, <3>4 DEF Holds, Applying
      <4>3. c.pc = "fill" =>
              /\ row'[v.onto].st # "none"
              /\ past'.from[v.onto] = v.item
              /\ row'[v.item].rules \subseteq past'.given[v.onto] \cup v.rest
        BY <1>2, <3>1, <3>4 DEF Holds, Applying, Staged, Rows
      <4>4. QED BY <3>4, <4>1, <4>2, <4>3 DEF Applying
    <3>7. (v.pc = "clear" => v.user \in Supers \/ v.left \subseteq v.memberOf)
          /\ (v.pc = "link" => InReachOf(v, v.left, past'))
      BY <3>1, <3>4 DEF Holds, InReachOf
    <3>8. Holds(v, row', past')
      BY <3>5, <3>6, <3>7 DEF Holds
    <3>9. QED BY <3>1, <3>4, <3>8 DEF c
  <2>3. QED BY <2>1, <2>2
<1>7. Held'
  BY <1>6 DEF Held
<1>8. TypeOK'
  <2>1. call' \in [Calls -> CallState]
    <3>1. call' = [l \in Calls |-> call'[l]]
      OBVIOUS
    <3>2. QED BY <1>6, <3>1
  <2>2. QED BY <1>4, <2>1 DEF TypeOK, TablesOK
<1>9. AppliedWhole'
  <2>1. SUFFICES ASSUME NEW e \in Channels, past'.from[e] # None, e \notin past'.torn
        PROVE  \/ row'[past'.from[e]].rules \subseteq past'.given[e]
               \/ \E l \in Calls : call'[l].pc = "fill" /\ call'[l].onto = e
    BY DEF AppliedWhole
  <2>2. past.from[e] \in Rows
    BY <2>1 DEF IInv, TypeOK, Rows
  <2>3. QED BY <1>2, <1>6, <2>1, <2>2 DEF IInv, AppliedWhole
<1>10. QED BY <1>5, <1>7, <1>8, <1>9 DEF IInv

LEMMA ChannelWriteKeeps ==
  ASSUME IInv, NEW k \in Calls, ChannelWrite(k)
  PROVE  IInv'
<1> USE TemplatesAssumption
<1>1. PICK d \in Channels :
         \/ /\ row[d].st = "none"
            /\ \E name \in {<<>>, <<1>>}, u \in Users :
                 /\ Free(name)
                 /\ row' = [row EXCEPT ![d] = [NoRow EXCEPT !.st = "live", !.owner = u, !.name = name]]
            /\ Answer(k)
         \/ /\ Live(d)
            /\ \E name \in {<<>>, <<1>>} : Free(name) /\ row' = [row EXCEPT ![d].name = name]
            /\ call' = [l \in Calls |-> IF l = k THEN Blank("over")
                                        ELSE [call[l] EXCEPT !.before = @ \ {d}]]
         \/ Live(d) /\ row' = [row EXCEPT ![d].st = "deleted"] /\ Answer(k)
         \/ Live(d) /\ \E rules \in SUBSET Contents : row' = [row EXCEPT ![d].rules = rules] /\ Answer(k)
  BY Zenon DEF ChannelWrite
<1>2. d \in Rows /\ UNCHANGED <<links, past>> /\ call[k].pc = "new"
      /\ \A t \in Templates : t \in Rows /\ t # d
  BY DEF ChannelWrite, Rows
<1>3. \A name \in {<<>>, <<1>>} : name \in Name
  <2>1. <<>> \in Seq(Nat)
    OBVIOUS
  <2>2. <<1>> \in Seq(Nat)
    OBVIOUS
  <2>3. QED BY <2>1, <2>2 DEF Name
<1>4. ASSUME NEW new \in Row, row' = [row EXCEPT ![d] = new], Answer(k),
             row[d].st = "none" \/ (new.st # "none" /\ new.owner = row[d].owner /\ new.name = row[d].name),
             new.global => row[d].global
      PROVE  IInv'
  <2>1. /\ row' \in [Rows -> Row] /\ row'[d] = new
        /\ \A r \in Rows : r # d => row'[r] = row[r]
    BY <1>2, <1>4 DEF IInv, TypeOK
  <2>2. RowsKept /\ NamesKept
    BY <1>2, <1>4, <2>1 DEF RowsKept, NamesKept, Rows
  <2>3. \A t \in Templates : row'[t].project = row[t].project
    BY <1>2, <2>1
  <2>4. CallMoves(k, Blank("over"))
    BY <1>4, Answered DEF IInv
  <2>5. \A r \in Rows : row'[r].global => row[r].global
    BY <1>4, <2>1
  <2>6. QED BY <1>2, <2>1, <2>2, <2>3, <2>4, <2>5, RowWriteKeeps
<1>5. ASSUME NEW name \in {<<>>, << 1 >>}, NEW u \in Users, row[d].st = "none", Answer(k),
             row' = [row EXCEPT ![d] = [NoRow EXCEPT !.st = "live", !.owner = u, !.name = name]]
      PROVE  IInv'
  <2> DEFINE new == [NoRow EXCEPT !.st = "live", !.owner = u, !.name = name]
  <2>1. NoRow \in Row /\ NoRow.global = FALSE
    BY FreshRow DEF NoRow
  <2>2. new \in Row /\ new.global = FALSE
    BY <1>3, <2>1 DEF Row
  <2>3. row' = [row EXCEPT ![d] = new]
    BY <1>5
  <2> HIDE DEF new
  <2>4. QED BY <1>4, <1>5, <2>2, <2>3
<1>6. ASSUME Live(d), row' = [row EXCEPT ![d].st = "deleted"], Answer(k) PROVE IInv'
  <2> DEFINE new == [row[d] EXCEPT !.st = "deleted"]
  <2>1. row[d] \in Row
    BY <1>2 DEF IInv, TypeOK
  <2>2. new \in Row /\ new.st = "deleted" /\ new.owner = row[d].owner /\ new.name = row[d].name
        /\ new.global = row[d].global
    BY <2>1 DEF Row
  <2>3. row' = [row EXCEPT ![d] = new]
    BY <1>2, <1>6 DEF IInv, TypeOK
  <2> HIDE DEF new
  <2>4. QED BY <1>4, <1>6, <2>2, <2>3
<1>7. ASSUME NEW rules \in SUBSET Contents, Live(d), row' = [row EXCEPT ![d].rules = rules], Answer(k)
      PROVE  IInv'
  <2> DEFINE new == [row[d] EXCEPT !.rules = rules]
  <2>1. row[d] \in Row
    BY <1>2 DEF IInv, TypeOK
  <2>2. new \in Row /\ new.st = row[d].st /\ new.owner = row[d].owner /\ new.name = row[d].name
        /\ new.global = row[d].global
    BY <2>1 DEF Row
  <2>3. row' = [row EXCEPT ![d] = new]
    BY <1>2, <1>7 DEF IInv, TypeOK
  <2> HIDE DEF new
  <2>4. QED BY <1>4, <1>7, <2>2, <2>3 DEF Live
<1>8. ASSUME NEW name \in {<<>>, << 1 >>}, Live(d), row' = [row EXCEPT ![d].name = name],
             call' = [l \in Calls |-> IF l = k THEN Blank("over")
                                      ELSE [call[l] EXCEPT !.before = @ \ {d}]]
      PROVE  IInv'
  BY <1>2, <1>3, <1>8, RenameKeeps, Zenon
<1>9. QED BY <1>1, <1>5, <1>6, <1>7, <1>8, Zenon

-----------------------------------------------------------------------------
(* The invariant.                                                           *)

LEMMA InitIInv ==
  ASSUME Init
  PROVE  IInv
<1> USE TemplatesAssumption
<1>1. PICK owner \in Users, shared \in {{}, Groups},
            p \in Projects \cup {None}, t \in Templates, c \in Channels :
       \E filed \in {None, p} :
         /\ row = [r \in Rows |->
              CASE r = p -> [NoRow EXCEPT !.st = "live", !.owner = owner]
                [] r = c -> [NoRow EXCEPT !.st = "live", !.owner = owner, !.rules = Contents]
                [] r = t -> [NoRow EXCEPT !.st = "live", !.owner = owner, !.project = filed, !.rules = Contents]
                [] OTHER -> NoRow]
         /\ links = [r \in Rows |-> IF r \in {p, t, c} THEN shared ELSE {}]
  BY Zenon DEF Init
<1>2. PICK filed \in {None, p} :
         /\ row = [r \in Rows |->
              CASE r = p -> [NoRow EXCEPT !.st = "live", !.owner = owner]
                [] r = c -> [NoRow EXCEPT !.st = "live", !.owner = owner, !.rules = Contents]
                [] r = t -> [NoRow EXCEPT !.st = "live", !.owner = owner, !.project = filed, !.rules = Contents]
                [] OTHER -> NoRow]
         /\ links = [r \in Rows |-> IF r \in {p, t, c} THEN shared ELSE {}]
  BY <1>1
<1>3. /\ call = [k \in Calls |-> Blank("new")]
      /\ past = [links |-> links, global |-> {r \in Rows : row[r].global},
                 filed |-> {f \in Templates \X Projects : row[f[1]].project = f[2]},
                 unfiled |-> {}, origin |-> {}, from |-> [d \in Channels |-> None],
                 given |-> [d \in Channels |-> {}], torn |-> {}]
  BY DEF Init
<1>4. links \in [Rows -> SUBSET Groups]
  BY <1>1, <1>2
<1>5. row \in [Rows -> Row]
  <2> DEFINE a == [NoRow EXCEPT !.st = "live", !.owner = owner]
             b == [NoRow EXCEPT !.st = "live", !.owner = owner, !.rules = Contents]
             e == [NoRow EXCEPT !.st = "live", !.owner = owner, !.project = filed, !.rules = Contents]
  <2>1. NoRow \in Row
    BY FreshRow
  <2>2. a \in Row /\ b \in Row
    BY <2>1 DEF Row
  <2>3. e \in Row
    <3>1. filed \in Projects \cup {None}
      OBVIOUS
    <3>2. e = [b EXCEPT !.project = filed]
      BY DEF NoRow
    <3> HIDE DEF b, e
    <3>3. QED BY <2>2, <3>1, <3>2 DEF Row
  <2>4. row = [r \in Rows |-> CASE r = p -> a [] r = c -> b [] r = t -> e [] OTHER -> NoRow]
    BY <1>2
  <2> HIDE DEF a, b, e
  <2>5. QED BY <2>1, <2>2, <2>3, <2>4
<1>6. TypeOK
  <2>1. \A k \in Calls : Blank("new") \in CallState
    BY <1>1, BlankHolds
  <2>2. /\ {r \in Rows : row[r].global} \in SUBSET Rows
        /\ {f \in Templates \X Projects : row[f[1]].project = f[2]} \in SUBSET (Templates \X Projects)
        /\ [d \in Channels |-> None] \in [Channels -> Templates \cup {None}]
        /\ [d \in Channels |-> {}] \in [Channels -> SUBSET Contents]
    OBVIOUS
  <2>3. call \in [Calls -> CallState]
    BY <1>3, <2>1
  <2>4. QED BY <1>3, <1>4, <1>5, <2>2, <2>3 DEF TypeOK
<1>7. History
  <2>1. \A f \in Templates : row[f].project # None => <<f, row[f].project>> \in past.filed
    BY <1>3, <1>5 DEF Row, Rows
  <2>2. QED BY <1>3, <2>1 DEF History
<1>8. Held
  <2>1. \A k \in Calls : call[k] = Blank("new") /\ Users # {}
    BY <1>1, <1>3
  <2>2. QED BY <2>1, BlankHolds DEF Held
<1>9. AppliedWhole
  BY <1>3 DEF AppliedWhole
<1>10. QED BY <1>6, <1>7, <1>8, <1>9 DEF IInv

LEMMA IInvHolds == Spec => []IInv
<1>1. Init => IInv
  BY InitIInv
<1>2. IInv /\ [Next]_vars => IInv'
  <2> SUFFICES ASSUME IInv, [Next]_vars PROVE IInv'
    OBVIOUS
  <2>1. CASE UNCHANGED vars
    <3>1. TypeOK'
      BY <2>1 DEF IInv, TypeOK, vars
    <3>2. History'
      BY <2>1 DEF IInv, History, vars
    <3>3. Held'
      BY <2>1 DEF IInv, Held, vars
    <3>4. AppliedWhole'
      BY <2>1 DEF IInv, AppliedWhole, vars
    <3>5. QED BY <3>1, <3>2, <3>3, <3>4 DEF IInv
  <2>2. ASSUME NEW k \in Calls, Handle(k) PROVE IInv'
    <3>1. CASE ReadStep(k)
      BY <3>1, ReadStepKeepsIInv
    <3>2. CASE Refused(k) \/ ItemFails(k) \/ ChannelWrite(k)
      BY <3>2, RefusedKeeps, ItemFailsKeeps, ChannelWriteKeeps
    <3>3. CASE Clear(k) \/ Link(k) \/ CreateProject(k) \/ UpdateProject(k) \/ DeleteProject(k)
               \/ Unfile(k)
      BY <3>3, ClearKeeps, LinkKeeps, CreateProjectKeeps, UpdateProjectKeeps,
         DeleteProjectKeeps, UnfileKeeps
    <3>4. CASE InsertTemplate(k) \/ UpdateTemplate(k) \/ DeleteTemplate(k) \/ ApplyRule(k)
      BY <3>4, InsertTemplateKeeps, UpdateTemplateKeeps, DeleteTemplateKeeps, ApplyRuleKeeps
    <3>5. CASE MakeChannel(k) \/ Fill(k)
      BY <3>5, MakeChannelKeeps, FillKeeps
    <3>6. QED BY <2>2, <3>1, <3>2, <3>3, <3>4, <3>5, Zenon DEF Handle, ReadStep
  <2>3. QED BY <2>1, <2>2 DEF Next
<1>3. QED BY <1>1, <1>2, PTL DEF Spec

(* Every state is well-typed.                                               *)
THEOREM TypeCorrect == Spec => []TypeOK
<1>1. IInv => TypeOK
  BY DEF IInv
<1>2. QED BY <1>1, IInvHolds, PTL

(* The name that unique_channel_name looked up and found free meets only     *)
(* channels that were created or renamed since.                             *)
THEOREM FoundNamesStayFree == Spec => []NameFreeWhenFound
<1>1. IInv => NameFreeWhenFound
  BY DEF IInv, Held, Holds, Applying, NameFreeWhenFound
<1>2. QED BY <1>1, IInvHolds, PTL

(* A channel that instantiate_channel_full made has the rules of its        *)
(* template, or is being filled, or its filling was cut short.              *)
THEOREM ChannelsComeWhole == Spec => []AppliedWhole
<1>1. IInv => AppliedWhole
  BY DEF IInv
<1>2. QED BY <1>1, IInvHolds, PTL

(* A live template in a project that delete_project has emptied was filed   *)
(* there by a super-admin or a request that had come across the project.    *)
THEOREM StraysHaveAuthors == Spec => []StraysTraced
<1>1. IInv => StraysTraced
  BY TemplatesAssumption DEF IInv, History, StraysTraced
<1>2. QED BY <1>1, IInvHolds, PTL

-----------------------------------------------------------------------------
(* What a step may do.                                                      *)

LEMMA Moved ==
  ASSUME TypeOK, NEW k \in Calls, NEW v, Becomes(k, v), v.pc # call[k].pc
  PROVE  Acts(k)
BY DEF TypeOK, Becomes, Acts

LEMMA AnswerMoves ==
  ASSUME TypeOK, NEW k \in Calls, Answer(k), call[k].pc # "over"
  PROVE  Acts(k)
<1>1. Blank("over").pc = "over"
  BY DEF Blank
<1>2. QED BY <1>1, Moved DEF Answer

LEMMA LinkingPc ==
  ASSUME NEW c \in CallState, NEW r, NEW groups, NEW v \in Linking(c, r, groups)
  PROVE  v.pc \in {"link", "name", "over"}
<1>1. CASE groups # {}
  BY <1>1 DEF Linking, CallState
<1>2. CASE groups = {} /\ c.op = "applyProject" /\ c.queue # {}
  <2>1. PICK t \in c.queue :
          v = [c EXCEPT !.pc = "name", !.item = t, !.base = row[t].name, !.tries = 0,
                        !.queue = @ \ {t}, !.rest = {}, !.onto = None, !.left = {}, !.checked = FALSE, !.before = {}]
    BY <1>2 DEF Linking, NextItem
  <2>2. QED BY <2>1 DEF CallState
<1>3. CASE groups = {} /\ (c.op # "applyProject" \/ c.queue = {})
  <2>1. v = Blank("over")
    BY <1>3 DEF Linking, NextItem
  <2>2. QED BY <2>1 DEF Blank
<1>4. QED BY <1>1, <1>2, <1>3

LEMMA PublishNewActs ==
  ASSUME TypeOK, NEW k \in Calls, NEW r, PublishNew(k, r), call[k].pc \in {"insert", "go"}
  PROVE  Acts(k)
<1>0. call[k] \in CallState
  BY DEF TypeOK
<1>1. ASSUME NEW groups, NEW v \in Linking(call[k], r, groups), Becomes(k, v) PROVE Acts(k)
  BY <1>0, <1>1, LinkingPc, Moved
<1>2. CASE Answer(k)
  BY <1>2, AnswerMoves
<1>3. CASE Becomes(k, [call[k] EXCEPT !.pc = "inherit", !.onto = r])
  <2>1. [call[k] EXCEPT !.pc = "inherit", !.onto = r].pc = "inherit"
    BY <1>0 DEF CallState
  <2>2. QED BY <1>3, <2>1, Moved
<1>4. QED BY <1>1, <1>2, <1>3 DEF PublishNew

LEMMA RepublishActs ==
  ASSUME TypeOK, NEW k \in Calls, Republish(k), call[k].pc \in {"go", "update"}
  PROVE  Acts(k)
<1>1. CASE Answer(k)
  BY <1>1, AnswerMoves
<1>2. ASSUME NEW groups,
             Becomes(k, [call[k] EXCEPT !.pc = "clear", !.left = groups, !.onto = call[k].row])
      PROVE  Acts(k)
  <2>1. [call[k] EXCEPT !.pc = "clear", !.left = groups, !.onto = call[k].row].pc = "clear"
    BY DEF TypeOK, CallState
  <2>2. QED BY <1>2, <2>1, Moved
<1>3. QED BY <1>1, <1>2 DEF Republish

LEMMA FillingActs ==
  ASSUME TypeOK, NEW k \in Calls, NEW d, NEW rest, Filling(k, d, rest), call[k].pc = "make"
  PROVE  Acts(k)
<1>0. call[k] \in CallState
  BY DEF TypeOK
<1>1. CASE rest # {}
  <2>1. [call[k] EXCEPT !.pc = "fill", !.onto = d, !.rest = rest].pc = "fill"
    BY <1>0 DEF CallState
  <2>2. QED BY <1>1, <2>1, Moved DEF Filling
<1>2. CASE rest = {}
  <2> DEFINE w == [call[k] EXCEPT !.rest = {}]
  <2>1. w \in CallState
    BY <1>0 DEF CallState
  <2>2. PICK v \in Linking(w, d, OwnGroups(k)) : Becomes(k, v)
    BY <1>2 DEF Filling
  <2> HIDE DEF w
  <2>3. QED BY <2>1, <2>2, LinkingPc, Moved
<1>3. QED BY <1>1, <1>2

\* The three parts of WritesTraced, of the step of one request.
ChangedBy(k) ==
    \A r \in Projects \cup Templates : row[r].st # "none" /\ row'[r] # row[r] =>
        MayWrite(k, r) \/ (call[k].pc = "unfile" /\ MayWrite(k, call[k].row))

FiledBy(k) ==
    \A t \in Templates : row'[t].project \notin {None, row[t].project} =>
        MayWrite(k, row'[t].project) \/ <<t, row'[t].project>> \in past.filed

MadeBy(k) ==
    \A d \in Channels : past'.from[d] # past.from[d] =>
        \/ MayRead(k, past'.from[d])
        \/ \E p \in Projects : <<past'.from[d], p>> \in past.filed /\ MayRead(k, p)

TracedTo(k) == ChangedBy(k) /\ FiledBy(k) /\ MadeBy(k)

Untouched ==
    /\ \A r \in Projects \cup Templates : row[r].st # "none" => row'[r] = row[r]
    /\ \A t \in Templates : row'[t].project \in {None, row[t].project}
    /\ past'.from = past.from

LEMMA WritableMayWrite ==
  ASSUME NEW k \in Calls, NEW r
  PROVE  /\ Writable(call[k], r, row, past) => MayWrite(k, r)
         /\ Readable(call[k], r, row, past) => MayRead(k, r)
BY DEF Writable, MayWrite, Readable, MayRead, Super

\* A request past its checks could once write what it is about to write.
LEMMA Permitted ==
  ASSUME IInv, NEW k \in Calls, call[k].todo = <<>>,
         call[k].op \in {"updateProject", "deleteProject", "updateTemplate", "deleteTemplate"}
  PROVE  MayWrite(k, call[k].row)
<1>1. Writable(call[k], call[k].row, row, past)
  BY DEF IInv, Held, Holds, Standing, Has
<1>2. QED BY <1>1, WritableMayWrite

LEMMA OthersTouchNothing ==
  ASSUME IInv, NEW k \in Calls,
         \/ ReadStep(k) \/ Refused(k) \/ ItemFails(k) \/ ChannelWrite(k) \/ Clear(k) \/ Link(k)
         \/ CreateProject(k) \/ ApplyRule(k) \/ Fill(k)
  PROVE  Untouched
<1> USE TemplatesAssumption
<1>1. CASE ReadStep(k)
  BY <1>1 DEF ReadStep, Begin, Look, CheckRow, CheckLinks, Inherit, ReadRules, ReadCurrent,
              ReadMembers, ApplyChannel, FindName, Untouched
<1>2. CASE Refused(k) \/ ItemFails(k) \/ Clear(k) \/ Link(k)
  <2>1. UNCHANGED row
    BY <1>2 DEF Refused, ItemFails, Clear, Link
  <2>2. past'.from = past.from
    BY <1>2 DEF Refused, ItemFails, Clear, Link, Tear, Remember, IInv, TypeOK
  <2>3. QED BY <2>1, <2>2 DEF Untouched
<1>3. CASE ChannelWrite(k)
  <2>1. PICK d, x : d \in Channels /\ row' = [row EXCEPT ![d] = x]
    <3>1. PICK d \in Channels :
            \/ \E x : row' = [row EXCEPT ![d] = x]
            \/ \E name : row' = [row EXCEPT ![d].name = name]
            \/ row' = [row EXCEPT ![d].st = "deleted"]
            \/ \E rules : row' = [row EXCEPT ![d].rules = rules]
      BY <1>3, Zenon DEF ChannelWrite
    <3>2. QED BY <3>1
  <2>2. \A r \in Projects \cup Templates : row'[r] = row[r]
    BY <2>1 DEF IInv, TypeOK, Rows
  <2>3. QED BY <1>3, <2>2 DEF ChannelWrite, Untouched
<1>4. CASE CreateProject(k)
  <2>1. PICK p, x : p \in Projects /\ row[p].st = "none" /\ row' = [row EXCEPT ![p] = x]
    BY <1>4, Zenon DEF CreateProject
  <2>2. \A r \in Rows : r # p => row'[r] = row[r]
    BY <2>1 DEF IInv, TypeOK
  <2>3. past'.from = past.from
    BY <1>4 DEF CreateProject, Remember, IInv, TypeOK
  <2>4. QED BY <2>1, <2>2, <2>3 DEF Untouched, Rows
<1>5. CASE ApplyRule(k) \/ Fill(k)
  <2>1. PICK d, x : row' = [row EXCEPT ![d] = x] /\ d \notin Projects \cup Templates
    <3>1. call[k].op = "applyTemplate" => call[k].to \in Channels \cup {None}
      BY DEF IInv, Held, Holds, Named
    <3>2. call[k].pc = "fill" => call[k].onto \in Channels
      BY DEF IInv, Held, Holds, Staged
    <3>3. QED BY <1>5, <3>1, <3>2 DEF ApplyRule, Fill, At
  <2>2. \A r \in Projects \cup Templates : row'[r] = row[r]
    BY <2>1 DEF IInv, TypeOK, Rows
  <2>3. past'.from = past.from
    BY <1>5 DEF ApplyRule, Fill, IInv, TypeOK
  <2>4. QED BY <2>2, <2>3 DEF Untouched
<1>6. QED BY <1>1, <1>2, <1>3, <1>4, <1>5

LEMMA HandleTraced ==
  ASSUME IInv, NEW k \in Calls, Handle(k)
  PROVE  Untouched \/ (Acts(k) /\ TracedTo(k))
<1> USE TemplatesAssumption
<1> DEFINE c == call[k]
<1>0. c \in CallState /\ Holds(c, row, past)
  BY DEF IInv, TypeOK, Held
<1>1. ASSUME call[k].op \in {"updateProject", "deleteProject", "deleteTemplate"}, call[k].todo = <<>>,
             NEW x, row' = [row EXCEPT ![call[k].row] = x] \/ row' = row,
             \A t \in Templates : row'[t].project = row[t].project, past'.from = past.from
      PROVE  TracedTo(k)
  <2>1. MayWrite(k, call[k].row)
    BY <1>1, Permitted
  <2>2. \A r \in Projects \cup Templates : row'[r] # row[r] => r = call[k].row
    BY <1>1 DEF IInv, TypeOK, Rows
  <2>3. QED BY <1>1, <2>1, <2>2 DEF TracedTo, ChangedBy, FiledBy, MadeBy
<1>2. CASE UpdateProject(k)
  <2>1. PICK global \in BOOLEAN :
          row' = IF Live(c.row) THEN [row EXCEPT ![c.row].global = global] ELSE row
    BY <1>2, Zenon DEF UpdateProject
  <2>2. c.op = "updateProject" /\ c.todo = <<>> /\ c.pc = "go" /\ Republish(k) /\ Remember
    BY <1>0, <1>2 DEF UpdateProject, At, Holds, Staged
  <2>3. \A t \in Templates : row'[t].project = row[t].project
    BY <2>1 DEF IInv, TypeOK, Row, Rows
  <2>4. past'.from = past.from
    BY <2>2 DEF Remember, IInv, TypeOK
  <2>5. row' = [row EXCEPT ![c.row] = [row[c.row] EXCEPT !.global = global]] \/ row' = row
    BY <2>1 DEF IInv, TypeOK
  <2>6. QED BY <1>1, <2>2, <2>3, <2>4, <2>5, RepublishActs DEF IInv
<1>3. CASE DeleteProject(k) \/ DeleteTemplate(k)
  <2>1. /\ row' = IF Live(c.row) THEN [row EXCEPT ![c.row].st = "deleted"] ELSE row
        /\ c.op \in {"deleteProject", "deleteTemplate"} /\ c.todo = <<>> /\ past'.from = past.from
        /\ c.pc = "go"
    BY <1>0, <1>3 DEF DeleteProject, DeleteTemplate, At, Holds, Staged
  <2>2. \A t \in Templates : row'[t].project = row[t].project
    BY <2>1 DEF IInv, TypeOK, Row, Rows
  <2>3. row' = [row EXCEPT ![c.row] = [row[c.row] EXCEPT !.st = "deleted"]] \/ row' = row
    BY <2>1 DEF IInv, TypeOK
  <2>4. Acts(k)
    <3>1. CASE DeleteTemplate(k)
      BY <2>1, <3>1, AnswerMoves DEF DeleteTemplate, IInv
    <3>2. CASE DeleteProject(k)
      <4>1. [call[k] EXCEPT !.pc = "unfile"].pc = "unfile"
        BY <1>0 DEF CallState
      <4>2. QED BY <2>1, <3>2, <4>1, Moved DEF DeleteProject, IInv
    <3>3. QED BY <1>3, <3>1, <3>2
  <2>5. QED BY <1>1, <2>1, <2>2, <2>3, <2>4
<1>4. CASE Unfile(k)
  <2>1. /\ c.pc = "unfile" /\ c.op = "deleteProject" /\ c.todo = <<>> /\ Answer(k)
        /\ row' = [r \in Rows |-> IF row[r].project = c.row
                                    THEN [row[r] EXCEPT !.project = None] ELSE row[r]]
    BY <1>0, <1>4 DEF Unfile, Holds, Staged
  <2>2. MayWrite(k, call[k].row)
    BY <2>1, Permitted
  <2>3. past'.from = past.from
    BY <1>4 DEF Unfile, IInv, TypeOK
  <2>4. \A t \in Templates : row'[t].project \in {None, row[t].project}
    BY <2>1 DEF IInv, TypeOK, Row, Rows
  <2>5. Acts(k)
    BY <2>1, AnswerMoves DEF IInv
  <2>6. QED BY <2>1, <2>2, <2>3, <2>4, <2>5 DEF TracedTo, ChangedBy, FiledBy, MadeBy
<1>5. CASE InsertTemplate(k)
  <2>1. PICK t, new :
          t \in Templates /\ row[t].st = "none" /\ row' = [row EXCEPT ![t] = new] /\ new.project = c.to
          /\ PublishNew(k, t) /\ Filing(k, t, c.to)
    <3>1. PICK t \in Templates, global \in BOOLEAN :
        /\ row[t].st = "none"
        /\ row' = [row EXCEPT ![t] =
             [st |-> "live", owner |-> c.user, global |-> global,
              kind |-> IF c.op = "saveRule" THEN "rule" ELSE "channel",
              project |-> c.to, name |-> row[c.row].name, rules |-> c.rest]]
        /\ PublishNew(k, t)
        /\ Filing(k, t, c.to)
      BY <1>5, Zenon DEF InsertTemplate
    <3> DEFINE new == [st |-> "live", owner |-> c.user, global |-> global,
                       kind |-> IF c.op = "saveRule" THEN "rule" ELSE "channel",
                       project |-> c.to, name |-> row[c.row].name, rules |-> c.rest]
    <3>2. new.project = c.to
      OBVIOUS
    <3>3. row' = [row EXCEPT ![t] = new]
      BY <3>1
    <3> HIDE DEF new
    <3>4. QED BY <3>1, <3>2, <3>3
  <2>2. c.pc \in {"insert", "go"} /\ c.op \in SaveOps
    BY <1>5 DEF InsertTemplate, At, SaveOps
  <2>3. row'[t].project = c.to /\ \A r \in Rows : r # t => row'[r] = row[r]
    BY <2>1 DEF IInv, TypeOK, Rows
  <2>4. c.to # None => MayWrite(k, c.to)
    <3>1. c.todo = <<>>
      BY <1>0, <2>2 DEF Holds, Staged
    <3>2. c.to # None => Writable(c, c.to, row, past)
      BY <1>0, <2>2, <3>1, SaverMayFile DEF MayFile, SaveOps
    <3>3. QED BY <3>2, WritableMayWrite
  <2>5. past'.from = past.from
    BY <2>1 DEF Filing, IInv, TypeOK
  <2>6. ChangedBy(k)
    BY <2>1, <2>3 DEF ChangedBy, Rows
  <2>7. FiledBy(k)
    BY <2>3, <2>4 DEF FiledBy, Rows
  <2>8. QED BY <2>1, <2>2, <2>5, <2>6, <2>7, PublishNewActs DEF TracedTo, MadeBy, IInv
<1>6. CASE UpdateTemplate(k)
  <2>1. /\ c.pc = "update" /\ c.op = "updateTemplate" /\ c.todo = <<>> /\ Republish(k)
        /\ row' = IF Live(c.row)
                    THEN [row EXCEPT ![c.row].project = c.to, ![c.row].global = c.global] ELSE row
        /\ IF Live(c.row) THEN Filing(k, c.row, c.to) ELSE UNCHANGED past
    BY <1>0, <1>6 DEF UpdateTemplate, At, Holds, Staged
  <2>2. c.row \in Templates /\ c.row \in Rows
    BY <1>0, <2>1 DEF Holds, Named, Rows
  <2>3. \A r \in Rows : r # c.row => row'[r] = row[r]
    BY <2>1 DEF IInv, TypeOK
  <2>4. row'[c.row].project \in {c.to, row[c.row].project}
    BY <2>1, <2>2 DEF IInv, TypeOK, Row
  <2>5. MayWrite(k, c.row)
    BY <2>1, Permitted
  <2>6. c.to # None => MayWrite(k, c.to) \/ <<c.row, c.to>> \in past.filed
    <3>1. c.to # None => Writable(c, c.to, row, past) \/ <<c.row, c.to>> \in past.filed
      BY <1>0, <2>1, SaverMayFile DEF MayFile, SaveOps
    <3>2. QED BY <3>1, WritableMayWrite
  <2>7. past'.from = past.from
    BY <2>1 DEF Filing, IInv, TypeOK
  <2>8. ChangedBy(k)
    BY <2>3, <2>5 DEF ChangedBy, Rows
  <2>9. FiledBy(k)
    BY <2>3, <2>4, <2>6 DEF FiledBy, Rows
  <2>10. QED BY <2>1, <2>7, <2>8, <2>9, RepublishActs DEF TracedTo, MadeBy, IInv
<1>7. CASE MakeChannel(k)
  <2>1. PICK d, x :
          d \in Channels /\ row' = [row EXCEPT ![d] = x] /\ past' = [past EXCEPT !.from[d] = c.item]
          /\ Filling(k, d, row[c.item].rules) /\ c.pc = "make"
    <3>1. PICK d \in Channels :
            /\ row' = [row EXCEPT ![d] = [NoRow EXCEPT !.st = "live", !.owner = c.user,
                                                       !.name = Candidate(c.base, c.tries)]]
            /\ past' = [past EXCEPT !.from[d] = c.item]
            /\ Filling(k, d, row[c.item].rules)
      BY <1>7, Zenon DEF MakeChannel
    <3>2. QED BY <1>7, <3>1 DEF MakeChannel
  <2>2. \A r \in Projects \cup Templates : row'[r] = row[r]
    BY <2>1 DEF IInv, TypeOK, Rows
  <2>3. \A e \in Channels : past'.from[e] # past.from[e] => past'.from[e] = c.item
    BY <2>1 DEF IInv, TypeOK
  <2>4. c.op \in ApplyOps /\ c.todo = <<>> /\ Sourced(c, c.item, row, past)
    BY <1>0, <2>1 DEF Holds, Staged, Applying
  <2>5. Readable(c, c.row, row, past)
    BY <1>0, <2>4 DEF Holds, Standing, Has
  <2>6. MayRead(k, c.row)
    BY <2>5, WritableMayWrite
  <2>7. MayRead(k, c.item) \/ \E p \in Projects : <<c.item, p>> \in past.filed /\ MayRead(k, p)
    <3>1. c.op = "applyProject" => c.row \in Projects
      BY <1>0 DEF Holds, Named
    <3>2. QED BY <2>4, <2>6, <3>1 DEF Sourced, ApplyOps
  <2>8. MadeBy(k)
    BY <2>3, <2>7 DEF MadeBy
  <2>9. Acts(k)
    BY <2>1, FillingActs DEF IInv
  <2>10. QED BY <2>2, <2>8, <2>9 DEF TracedTo, ChangedBy, FiledBy
<1>8. CASE \/ ReadStep(k) \/ Refused(k) \/ ItemFails(k) \/ ChannelWrite(k) \/ Clear(k) \/ Link(k)
           \/ CreateProject(k) \/ ApplyRule(k) \/ Fill(k)
  BY <1>8, OthersTouchNothing
<1>9. QED
  BY <1>2, <1>3, <1>4, <1>5, <1>6, <1>7, <1>8, Zenon DEF Handle, ReadStep

(* Between a check and its use rows are unpublished, moved and deleted;     *)
(* still every write to a project or a template, every filing and every     *)
(* channel made traces back to a right that its request once had.           *)
THEOREM EveryWriteTraced == Spec => WritesTraced
<1> DEFINE A == /\ \A r \in Projects \cup Templates : row[r].st # "none" /\ row'[r] # row[r] =>
                     \E k \in Calls : Acts(k) /\
                       \/ MayWrite(k, r)
                       \/ call[k].pc = "unfile" /\ MayWrite(k, call[k].row)
                /\ \A t \in Templates : row'[t].project \notin {None, row[t].project} =>
                     \E k \in Calls : Acts(k) /\
                       (MayWrite(k, row'[t].project) \/ <<t, row'[t].project>> \in past.filed)
                /\ \A d \in Channels : past'.from[d] # past.from[d] =>
                     \E k \in Calls : Acts(k) /\
                       \/ MayRead(k, past'.from[d])
                       \/ \E p \in Projects : <<past'.from[d], p>> \in past.filed /\ MayRead(k, p)
<1>1. ASSUME IInv, Next
      PROVE  A
  <2>1. PICK k \in Calls : Handle(k)
    BY <1>1 DEF Next
  <2>2. CASE Untouched
    BY <2>2 DEF Untouched
  <2>3. CASE Acts(k) /\ TracedTo(k)
    BY <2>3 DEF TracedTo, ChangedBy, FiledBy, MadeBy
  <2>4. QED BY <1>1, <2>1, <2>2, <2>3, HandleTraced
<1>2. IInv /\ [Next]_vars => [A]_vars
  BY <1>1
<1>3. QED BY <1>2, IInvHolds, PTL DEF Spec, WritesTraced

\* The links that the step of one request adds or removes.
LinksBy(k) ==
    \A r \in Rows, g \in Groups : (g \in links[r]) # (g \in links'[r]) =>
        \/ Super(k) \/ g \in call[k].memberOf
        \/ call[k].op \in {"saveRule", "saveChannel"} /\ g \in past.links[call[k].to]

LEMMA HandleLinks ==
  ASSUME IInv, NEW k \in Calls, Handle(k)
  PROVE  links' = links \/ (Acts(k) /\ LinksBy(k))
<1> DEFINE c == call[k]
<1>0. c \in CallState /\ Holds(c, row, past)
  BY DEF IInv, TypeOK, Held
<1>1. CASE Clear(k)
  <2>1. /\ links' = [links EXCEPT ![c.onto] = IF Super(k) THEN {} ELSE @ \ c.memberOf]
        /\ \E v \in Linking(c, c.onto, c.left) : Becomes(k, v)
        /\ c.pc = "clear"
    BY <1>1 DEF Clear
  <2>2. Acts(k)
    BY <1>0, <2>1, LinkingPc, Moved DEF IInv
  <2>3. \A r \in Rows, g \in Groups : (g \in links[r]) # (g \in links'[r]) =>
          Super(k) \/ g \in c.memberOf
    BY <2>1 DEF IInv, TypeOK
  <2>4. QED BY <2>2, <2>3 DEF LinksBy
<1>2. CASE Link(k)
  <2>1. PICK g \in c.left :
          /\ links' = [links EXCEPT ![c.onto] = @ \cup {g}]
          /\ \E v \in Linking(c, c.onto, c.left \ {g}) : Becomes(k, v)
    BY <1>2, Zenon DEF Link
  <2>2. c.pc = "link" /\ InReachOf(c, c.left, past)
    BY <1>0, <1>2 DEF Link, Holds
  <2>3. Acts(k)
    <3>1. PICK v \in Linking(c, c.onto, c.left \ {g}) : Becomes(k, v)
      BY <2>1
    <3>2. CASE c.left \ {g} # {}
      <4>1. v = [c EXCEPT !.pc = "link", !.onto = c.onto, !.left = c.left \ {g}]
        BY <3>1, <3>2 DEF Linking
      <4>2. v.left = c.left \ {g}
        BY <1>0, <4>1 DEF CallState
      <4>3. v # c
        BY <2>1, <4>2
      <4>4. QED BY <3>1, <4>3 DEF Becomes, Acts, IInv, TypeOK
    <3>3. CASE c.left \ {g} = {}
      <4>1. v.pc # "link"
        <5>1. v \in IF c.op = "applyProject" THEN NextItem(c) ELSE {Blank("over")}
          BY <3>1, <3>3 DEF Linking
        <5>2. CASE v = Blank("over")
          BY <5>2 DEF Blank
        <5>3. CASE c.queue # {} /\ v \in NextItem(c)
          <6>1. PICK t \in c.queue :
                  v = [c EXCEPT !.pc = "name", !.item = t, !.base = row[t].name, !.tries = 0,
                                !.queue = @ \ {t}, !.rest = {}, !.onto = None, !.left = {},
                                !.checked = FALSE, !.before = {}]
            BY <5>3 DEF NextItem
          <6>2. QED BY <1>0, <6>1 DEF CallState
        <5>4. QED BY <5>1, <5>2, <5>3 DEF NextItem
      <4>2. QED BY <2>2, <3>1, <4>1, Moved DEF IInv
    <3>4. QED BY <3>2, <3>3
  <2>4. \A r \in Rows, h \in Groups : (h \in links[r]) # (h \in links'[r]) => h = g
    BY <2>1 DEF IInv, TypeOK
  <2>5. Super(k) \/ g \in c.memberOf \/ (c.op \in SaveOps /\ g \in past.links[c.to])
    BY <2>1, <2>2 DEF InReachOf, Super
  <2>6. QED BY <2>3, <2>4, <2>5 DEF LinksBy, SaveOps
<1>3. CASE ~Clear(k) /\ ~Link(k)
  BY <1>3 DEF Handle, Begin, Look, CheckRow, CheckLinks, Refused, Inherit, CreateProject,
     UpdateProject, DeleteProject, Unfile, ReadRules, InsertTemplate, ReadCurrent, UpdateTemplate,
     DeleteTemplate, ReadMembers, ApplyRule, ApplyChannel, FindName, MakeChannel, Fill, ItemFails,
     ChannelWrite
<1>4. QED BY <1>1, <1>2, <1>3

(* What a request links or unlinks is within its reach as it found it, or   *)
(* what the project of its template has been linked to.                     *)
THEOREM EveryLinkInReach == Spec => LinksInReach
<1> DEFINE A == \A r \in Rows, g \in Groups : (g \in links[r]) # (g \in links'[r]) =>
                  \E k \in Calls : Acts(k) /\
                    \/ Super(k) \/ g \in call[k].memberOf
                    \/ call[k].op \in {"saveRule", "saveChannel"} /\ g \in past.links[call[k].to]
<1>1. ASSUME IInv, Next
      PROVE  A
  <2>1. PICK k \in Calls : Handle(k)
    BY <1>1 DEF Next
  <2>2. QED BY <1>1, <2>1, HandleLinks DEF LinksBy
<1>2. IInv /\ [Next]_vars => [A]_vars
  BY <1>1
<1>3. QED BY <1>2, IInvHolds, PTL DEF Spec, LinksInReach
=============================================================================
