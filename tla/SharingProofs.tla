---------------------------- MODULE SharingProofs ----------------------------
(***************************************************************************)
(* Type correctness of Sharing; that every write traces back to a          *)
(* permission once held, and only super-admins make a channel org-wide;    *)
(* that the readers agree, and what concurrent saves agree on is settled.  *)
(***************************************************************************)
EXTENDS Sharing, TLAPS

SavePc == {"new", "owner", "links", "apply", "clear", "insert", "saved", "over", "lost"}

\* Every change of a call's point of control is typed.
LEMMA SavePcStep ==
  ASSUME TypeOK, NEW k \in Saves, NEW p \in SavePc, save' = [save EXCEPT ![k].pc = p]
  PROVE  /\ save' \in [Saves -> SaveState]
         /\ save'[k].pc = p /\ save'[k].user = save[k].user /\ save'[k].op = save[k].op
         /\ save'[k].ch = save[k].ch /\ save'[k].adminOf = save[k].adminOf
         /\ \A l \in Saves \ {k} : save'[l] = save[l]
<1> DEFINE v == [save[k] EXCEPT !.pc = p]
<1>1. save[k] \in SaveState
  BY DEF TypeOK
<1>2. /\ v \in SaveState
      /\ v.pc = p /\ v.user = save[k].user /\ v.op = save[k].op
      /\ v.ch = save[k].ch /\ v.adminOf = save[k].adminOf
  BY <1>1 DEF SaveState, SavePc
<1>3. save' = [save EXCEPT ![k] = v]
  OBVIOUS
<1> HIDE DEF v
<1>4. QED
  BY <1>2, <1>3 DEF TypeOK

\* A whole new state of a call is typed.
LEMMA SaveStep ==
  ASSUME TypeOK, NEW k \in Saves, NEW v \in SaveState, save' = [save EXCEPT ![k] = v]
  PROVE  save' \in [Saves -> SaveState]
BY DEF TypeOK

LEMMA RememberTyped ==
  ASSUME TypeOK, role' \in [Groups -> [Users -> Roles]], links' \in SUBSET (Chans \X Groups),
         Remember
  PROVE  /\ past' \in [admins : SUBSET (Users \X Groups), links : SUBSET (Chans \X Groups),
                       given : SUBSET (Chans \X Groups), groups : SUBSET Groups]
         /\ past.admins \subseteq past'.admins /\ AdminPairs' \subseteq past'.admins
         /\ past.links \subseteq past'.links /\ links' \subseteq past'.links
<1>1. AdminPairs' \in SUBSET (Users \X Groups)
  BY DEF AdminPairs
<1> DEFINE A == AdminPairs'
<1>2. past' = [past EXCEPT !.admins = @ \cup A, !.links = @ \cup links']
  BY DEF Remember
<1> HIDE DEF A
<1>3. QED
  BY <1>1, <1>2 DEF TypeOK, A

LEMMA InitTyped == Init => TypeOK
<1> SUFFICES ASSUME Init PROVE TypeOK
  OBVIOUS
<1>1. /\ group \in [Groups -> RowState]
      /\ role \in [Groups -> [Users -> Roles]]
      /\ chan \in [Chans -> ChanRow]
      /\ links \in SUBSET (Chans \X Groups)
  <2>1. group \in [Groups -> RowState] /\ role \in [Groups -> [Users -> Roles]]
    BY DEF Init, RowState
  <2>2. links \in SUBSET (Chans \X Groups)
    BY DEF Init
  <2>3. {[st |-> "none", owner |-> NoUser, global |-> FALSE]}
          \cup [st : {"live"}, owner : Users \cup {NoUser}, global : {FALSE}] \subseteq ChanRow
    <3>1. [st |-> "none", owner |-> NoUser, global |-> FALSE] \in ChanRow
      BY DEF ChanRow, RowState
    <3>2. ASSUME NEW v \in [st : {"live"}, owner : Users \cup {NoUser}, global : {FALSE}]
          PROVE  v \in ChanRow
      BY DEF ChanRow, RowState
    <3>3. QED
      BY <3>1, <3>2
  <2>4. chan \in [Chans -> ChanRow]
    BY <2>3 DEF Init
  <2>5. QED
    BY <2>1, <2>2, <2>4
<1>2. save \in [Saves -> SaveState]
  BY DEF Init, SaveState
<1>3. gcall \in [GroupCalls -> GroupCallState]
  BY DEF Init, GroupCallState
<1>4. AdminPairs \in SUBSET (Users \X Groups)
  BY DEF AdminPairs
<1>5. past \in [admins : SUBSET (Users \X Groups), links : SUBSET (Chans \X Groups),
                given : SUBSET (Chans \X Groups), groups : SUBSET Groups]
  BY <1>1, <1>4 DEF Init
<1>6. QED
  BY <1>1, <1>2, <1>3, <1>5 DEF TypeOK

\* What a call starts with: the identity is read from the tables.
LEMMA BeginTyped ==
  ASSUME TypeOK, NEW k \in Saves, Begin(k)
  PROVE  /\ TypeOK'
         /\ save'[k].pc \in {"over", "owner", "apply"}
         /\ save'[k].pc = "owner" => save'[k].op # "create"
         /\ save'[k].pc = "apply" => save'[k].op = "create" \/ save'[k].user \in Supers
         /\ save'[k].user \in Users
         /\ save'[k].adminOf = AdminOf(save'[k].user)
         /\ \A l \in Saves \ {k} : save'[l] = save[l]
<1>1. PICK u \in Users, op \in SaveOps, c \in Chans, sent \in SUBSET Groups,
           ids \in BOOLEAN, glob \in Globals :
         LET desired == IF op = "create" THEN CreateGroups(u, sent) ELSE sent
             refused == /\ op = "create"
                        /\ u \notin Supers
                        /\ desired = {} \/ ~ desired \subseteq MemberOf(u)
         IN  /\ op = "create" => c = save[k].ch
             /\ op # "create" => chan[c].st # "none"
             /\ op # "update" => ids = (op # "delete")
             /\ ~ids => sent = {}
             /\ save' = [save EXCEPT ![k] =
                  [@ EXCEPT !.pc = CASE refused -> "over"
                                     [] ~refused /\ (op = "create" \/ u \in Supers) -> "apply"
                                     [] OTHER -> "owner",
                            !.op = op, !.user = u, !.ch = c, !.desired = desired,
                            !.hasIds = ids, !.global = glob,
                            !.memberOf = MemberOf(u), !.adminOf = AdminOf(u)]]
  BY Zenon DEF Begin
<1> DEFINE desired == IF op = "create" THEN CreateGroups(u, sent) ELSE sent
           refused == /\ op = "create"
                      /\ u \notin Supers
                      /\ desired = {} \/ ~ desired \subseteq MemberOf(u)
           p == CASE refused -> "over"
                  [] ~refused /\ (op = "create" \/ u \in Supers) -> "apply"
                  [] OTHER -> "owner"
           v == [save[k] EXCEPT !.pc = p, !.op = op, !.user = u, !.ch = c,
                                !.desired = desired, !.hasIds = ids, !.global = glob,
                                !.memberOf = MemberOf(u), !.adminOf = AdminOf(u)]
<1>2. save' = [save EXCEPT ![k] = v]
  BY <1>1, Zenon
<1>3. MemberOf(u) \in SUBSET Groups /\ AdminOf(u) \in SUBSET Groups /\ desired \in SUBSET Groups
  BY DEF MemberOf, AdminOf, CreateGroups
<1>4. /\ p \in {"over", "owner", "apply"}
      /\ p = "owner" => op # "create"
      /\ p = "apply" => op = "create" \/ u \in Supers
  OBVIOUS
<1> HIDE DEF desired, refused, p
<1>5. /\ v \in SaveState /\ v.pc = p /\ v.op = op /\ v.user = u
      /\ v.adminOf = AdminOf(u)
  <2>1. save[k] \in SaveState
    BY DEF TypeOK
  <2>2. /\ op \in {"create", "update", "share", "delete"}
        /\ glob \in {"keep", "on", "off"}
        /\ u \in Users \cup {NoUser} /\ u \in Users
        /\ c \in Chans /\ ids \in BOOLEAN
    BY SharingAssumption
  <2> DEFINE x == [save[k] EXCEPT !.pc = p, !.op = op, !.user = u]
             y == [x EXCEPT !.ch = c, !.desired = desired, !.hasIds = ids]
             z == [y EXCEPT !.global = glob, !.memberOf = MemberOf(u), !.adminOf = AdminOf(u)]
  <2>3. v = z
    OBVIOUS
  <2> HIDE DEF v
  <2>4. x \in SaveState /\ x.pc = p /\ x.op = op /\ x.user = u
    BY <1>4, <2>1, <2>2 DEF SaveState
  <2> HIDE DEF x
  <2>5. y \in SaveState /\ y.pc = p /\ y.op = op /\ y.user = u
    BY <1>3, <2>2, <2>4 DEF SaveState
  <2> HIDE DEF y
  <2>6. /\ z \in SaveState /\ z.pc = p /\ z.op = op /\ z.user = u
        /\ z.adminOf = AdminOf(u)
    BY <1>3, <2>2, <2>5 DEF SaveState
  <2>7. QED
    BY <2>3, <2>6
<1> HIDE DEF v
<1>6. save'[k] = v /\ \A l \in Saves \ {k} : save'[l] = save[l]
  BY <1>2 DEF TypeOK
<1>7. save' \in [Saves -> SaveState]
  BY <1>2, <1>5, SaveStep
<1>8. TypeOK'
  BY <1>7 DEF TypeOK, Begin
<1>9. QED
  BY <1>4, <1>5, <1>6, <1>8
-----------------------------------------------------------------------------
(* The inductive invariant.                                                 *)

\* The history is complete: it has every admin and every link of now.
History == AdminPairs \subseteq past.admins /\ links \subseteq past.links

\* The right to write a channel, in the form in which it lasts.
Entitled(k) ==
    \/ save[k].user \in Supers
    \/ chan[save[k].ch].st # "none" /\ chan[save[k].ch].owner = save[k].user
    \/ \E g \in Groups : <<save[k].user, g>> \in past.admins /\ <<save[k].ch, g>> \in past.links

\* What a call holds at each point: an identity that was true once, and,
\* past the check, the right it was checked for.
Held(k) ==
    /\ save[k].pc # "new" => \A g \in save[k].adminOf : <<save[k].user, g>> \in past.admins
    /\ save[k].pc \in {"owner", "links"} => save[k].op # "create"
    /\ save[k].pc \in {"clear", "insert"} => Entitled(k)
    /\ save[k].pc = "apply" /\ save[k].op # "create" => Entitled(k)

GroupHeld(k) ==
    gcall[k].pc \in {"check", "commit"} /\ gcall[k].op \in {"addMember", "removeMember"} =>
      gcall[k].user \in Supers \/ <<gcall[k].user, gcall[k].g>> \in past.admins

IInv ==
    /\ TypeOK
    /\ History
    /\ \A k \in Saves : Held(k)
    /\ \A k \in GroupCalls : GroupHeld(k)

\* What no step undoes: rows stay, with their owners, and so does history.
RowsKept ==
    \A c \in Chans : chan[c].st # "none" => chan'[c].st # "none" /\ chan'[c].owner = chan[c].owner

PastKept == past.admins \subseteq past'.admins /\ past.links \subseteq past'.links

\* A permission to write c, as AuthorizedWrites has it.
Permitted(u, c) ==
    \/ u \in Supers
    \/ u = chan'[c].owner
    \/ \E g \in Groups : <<u, g>> \in past.admins /\ <<c, g>> \in past.links

\* A call that writes moves, and is permitted to.
WritesPermitted(k) ==
    \A c \in Chans : chan'[c] # chan[c] \/ LinksOf(c)' # LinksOf(c) =>
      save'[k] # save[k] /\ Permitted(save[k].user, c)

\* What a step of a channel handler does.
Kept(k) ==
    /\ TypeOK' /\ History' /\ RowsKept /\ PastKept /\ Held(k)'
    /\ gcall' = gcall /\ role' = role
    /\ \A l \in Saves \ {k} : save'[l] = save[l]
    /\ WritesPermitted(k)

LEMMA EntitledKept ==
  ASSUME TypeOK, RowsKept, PastKept, NEW k \in Saves, Entitled(k),
         save'[k].user = save[k].user, save'[k].ch = save[k].ch
  PROVE  Entitled(k)'
<1>1. save[k].ch \in Chans
  BY DEF TypeOK, SaveState
<1>2. QED
  BY <1>1 DEF Entitled, RowsKept, PastKept

LEMMA HeldKept ==
  ASSUME TypeOK, RowsKept, PastKept, NEW k \in Saves, Held(k), save'[k] = save[k]
  PROVE  Held(k)'
<1>1. Entitled(k) => Entitled(k)'
  BY EntitledKept
<1>2. QED
  BY <1>1 DEF Held, PastKept

\* A step that moves a call's point of control and may write the row of a
\* channel.
LEMMA PcKept ==
  ASSUME IInv, NEW k \in Saves, NEW p \in SavePc, save' = [save EXCEPT ![k].pc = p],
         UNCHANGED <<group, role, links, gcall, past>>,
         chan' \in [Chans -> ChanRow], RowsKept,
         save[k].pc # "new", save[k].pc # p,
         p \in {"owner", "links"} => save[k].op # "create",
         p \in {"clear", "insert"} \/ (p = "apply" /\ save[k].op # "create") => Entitled(k),
         \A c \in Chans : chan'[c] # chan[c] => Permitted(save[k].user, c)
  PROVE  Kept(k)
<1>0. TypeOK
  BY DEF IInv
<1>1. TypeOK'
  BY <1>0, SavePcStep DEF TypeOK
<1>2. History' /\ PastKept
  BY DEF IInv, History, AdminPairs, PastKept
<1>3. Entitled(k) => Entitled(k)'
  BY <1>0, <1>2, SavePcStep, EntitledKept
<1>4. Held(k)'
  BY <1>0, <1>2, <1>3, SavePcStep DEF IInv, Held, PastKept
<1>5. WritesPermitted(k)
  <2>1. save'[k] # save[k]
    <3>1. save'[k].pc # save[k].pc
      BY <1>0, SavePcStep
    <3>2. QED
      BY <3>1
  <2>2. \A c \in Chans : LinksOf(c)' = LinksOf(c)
    BY DEF LinksOf
  <2>3. QED
    BY <2>1, <2>2 DEF WritesPermitted, LinksOf
<1>6. QED
  BY <1>0, <1>1, <1>2, <1>4, <1>5, SavePcStep DEF Kept

LEMMA BeginKept ==
  ASSUME IInv, NEW k \in Saves, Begin(k)
  PROVE  Kept(k)
<1>0. TypeOK
  BY DEF IInv
<1>1. UNCHANGED <<group, role, chan, links, gcall, past>>
  BY DEF Begin
<1>2. History' /\ RowsKept /\ PastKept
  BY <1>1 DEF IInv, History, AdminPairs, RowsKept, PastKept
<1>3. \A g \in save'[k].adminOf : <<save'[k].user, g>> \in past.admins
  BY <1>0, BeginTyped DEF IInv, History, AdminPairs, AdminOf
<1>4. Held(k)'
  BY <1>0, <1>1, <1>3, BeginTyped DEF Held, Entitled
<1>5. links' = links /\ chan' = chan
  BY <1>1
<1>6. \A c \in Chans : chan'[c] = chan[c] /\ LinksOf(c)' = LinksOf(c)
  BY <1>5 DEF LinksOf
<1>7. WritesPermitted(k)
  BY <1>6 DEF WritesPermitted, LinksOf
<1>8. QED
  BY <1>0, <1>1, <1>2, <1>4, <1>7, BeginTyped DEF Kept

\* The check of a permission establishes the lasting form of it.
LEMMA CheckKept ==
  ASSUME IInv, NEW k \in Saves, CanWriteOwner(k) \/ CanWriteLinks(k)
  PROVE  Kept(k)
<1>1. UNCHANGED <<group, role, chan, links, gcall, past>>
  BY DEF CanWriteOwner, CanWriteLinks
<1>2. chan' \in [Chans -> ChanRow] /\ RowsKept
  BY <1>1 DEF IInv, TypeOK, RowsKept
<1>3. CASE CanWriteOwner(k)
  <2> DEFINE c == save[k].ch
             p == CASE chan[c].st # "live" -> "over"
                    [] chan[c].st = "live" /\ chan[c].owner = save[k].user -> "apply"
                    [] OTHER -> IF save[k].adminOf = {} THEN "over" ELSE "links"
  <2>1. save' = [save EXCEPT ![k].pc = p] /\ save[k].pc = "owner"
    BY <1>3, Zenon DEF CanWriteOwner
  <2>2. /\ p \in {"over", "apply", "links"}
        /\ p = "apply" => chan[c].st = "live" /\ chan[c].owner = save[k].user
    OBVIOUS
  <2>3. save[k].op # "create"
    BY <2>1 DEF IInv, Held
  <2>4. p = "apply" => Entitled(k)
    BY <2>2 DEF Entitled
  <2> HIDE DEF p, c
  <2>5. QED
    BY <1>1, <1>2, <2>1, <2>2, <2>3, <2>4, PcKept DEF SavePc
<1>4. CASE CanWriteLinks(k)
  <2> DEFINE p == IF LinksOf(save[k].ch) \cap save[k].adminOf # {} THEN "apply" ELSE "over"
  <2>1. save' = [save EXCEPT ![k].pc = p] /\ save[k].pc = "links"
    BY <1>4, Zenon DEF CanWriteLinks
  <2>2. p \in {"over", "apply"}
    OBVIOUS
  <2>3. p = "apply" => Entitled(k)
    BY <2>1 DEF IInv, Held, History, Entitled, LinksOf
  <2> HIDE DEF p
  <2>4. QED
    BY <1>1, <1>2, <2>1, <2>2, <2>3, PcKept DEF SavePc
<1>5. QED
  BY <1>3, <1>4

LEMMA DroppedKept ==
  ASSUME IInv, NEW k \in Saves, Dropped(k)
  PROVE  Kept(k)
<1>1. chan' \in [Chans -> ChanRow] /\ RowsKept
  BY DEF IInv, TypeOK, RowsKept, Dropped
<1>2. QED
  BY <1>1, PcKept DEF Dropped, Busy, SavePc

LEMMA ToggledTyped ==
  ASSUME TypeOK, NEW k \in Saves
  PROVE  Toggled(k) \in BOOLEAN
<1>1. chan[save[k].ch].global \in BOOLEAN
  BY DEF TypeOK, SaveState, ChanRow
<1>2. QED
  BY <1>1, Zenon DEF Toggled

\* Writing the is_global flag of one row.
LEMMA FlagWritten ==
  ASSUME TypeOK, NEW c \in Chans, NEW b \in BOOLEAN, chan' = [chan EXCEPT ![c].global = b]
  PROVE  /\ chan' \in [Chans -> ChanRow] /\ RowsKept
         /\ \A d \in Chans : chan'[d].owner = chan[d].owner
         /\ \A d \in Chans : chan'[d] # chan[d] => d = c
BY DEF TypeOK, ChanRow, RowsKept

\* The UPDATE of update_channel and the one of set_share.
LEMMA UpdateKept ==
  ASSUME IInv, NEW k \in Saves, UpdateRow(k)
  PROVE  Kept(k)
<1> DEFINE c == save[k].ch
           publish == save[k].hasIds /\ (Super(k) \/ save[k].desired \subseteq save[k].memberOf)
           p == IF publish THEN "clear" ELSE "over"
<1>1. /\ save[k].pc = "apply" /\ save[k].op = "update"
      /\ chan' = [chan EXCEPT ![c].global = Toggled(k)] \/ UNCHANGED chan
      /\ save' = [save EXCEPT ![k].pc = p]
      /\ UNCHANGED <<group, role, links, gcall, past>>
  BY Zenon DEF UpdateRow
<1>2. p \in {"clear", "over"}
  OBVIOUS
<1> HIDE DEF p
<1>3. c \in Chans /\ TypeOK
  BY DEF IInv, TypeOK, SaveState
<1>4. Entitled(k)
  BY <1>1 DEF IInv, Held
<1>5. /\ chan' \in [Chans -> ChanRow] /\ RowsKept
      /\ \A d \in Chans : chan'[d].owner = chan[d].owner
      /\ \A d \in Chans : chan'[d] # chan[d] => d = c
  <2>1. CASE chan' = [chan EXCEPT ![c].global = Toggled(k)]
    BY <1>3, <2>1, ToggledTyped, FlagWritten
  <2>2. CASE UNCHANGED chan
    BY <1>3, <2>2 DEF TypeOK, RowsKept
  <2>3. QED
    BY <1>1, <2>1, <2>2
<1>6. Permitted(save[k].user, c)
  BY <1>3, <1>4, <1>5 DEF Entitled, Permitted
<1>7. QED
  BY <1>1, <1>2, <1>4, <1>5, <1>6, PcKept DEF SavePc

LEMMA ShareKept ==
  ASSUME IInv, NEW k \in Saves, ShareRow(k)
  PROVE  Kept(k)
<1> DEFINE c == save[k].ch
<1>1. PICK p \in {"over", "clear"} :
        /\ save[k].pc = "apply" /\ save[k].op = "share"
        /\ chan' = [chan EXCEPT ![c].global = Toggled(k)] \/ UNCHANGED chan
        /\ save' = [save EXCEPT ![k].pc = p]
        /\ UNCHANGED <<group, role, links, gcall, past>>
  BY Zenon DEF ShareRow
<1>3. c \in Chans /\ TypeOK
  BY DEF IInv, TypeOK, SaveState
<1>4. Entitled(k)
  BY <1>1 DEF IInv, Held
<1>5. /\ chan' \in [Chans -> ChanRow] /\ RowsKept
      /\ \A d \in Chans : chan'[d].owner = chan[d].owner
      /\ \A d \in Chans : chan'[d] # chan[d] => d = c
  <2>1. CASE chan' = [chan EXCEPT ![c].global = Toggled(k)]
    BY <1>3, <2>1, ToggledTyped, FlagWritten
  <2>2. CASE UNCHANGED chan
    BY <1>3, <2>2 DEF TypeOK, RowsKept
  <2>3. QED
    BY <1>1, <2>1, <2>2
<1>6. Permitted(save[k].user, c)
  BY <1>3, <1>4, <1>5 DEF Entitled, Permitted
<1>7. QED
  BY <1>1, <1>4, <1>5, <1>6, PcKept DEF SavePc

\* delete_channel's soft delete.
LEMMA DeleteKept ==
  ASSUME IInv, NEW k \in Saves, DeleteRow(k)
  PROVE  Kept(k)
<1> DEFINE c == save[k].ch
<1>1. /\ save[k].pc = "apply" /\ save[k].op = "delete"
      /\ chan' = [chan EXCEPT ![c].st = "deleted"] \/ UNCHANGED chan
      /\ save' = [save EXCEPT ![k].pc = "over"]
      /\ UNCHANGED <<group, role, links, gcall, past>>
  BY Zenon DEF DeleteRow
<1>2. c \in Chans /\ TypeOK
  BY DEF IInv, TypeOK, SaveState
<1>3. Entitled(k)
  BY <1>1 DEF IInv, Held
<1>4. /\ chan' \in [Chans -> ChanRow] /\ RowsKept
      /\ \A d \in Chans : chan'[d].owner = chan[d].owner
      /\ \A d \in Chans : chan'[d] # chan[d] => d = c
  <2>1. CASE chan' = [chan EXCEPT ![c].st = "deleted"]
    <3> DEFINE v == [chan[c] EXCEPT !.st = "deleted"]
    <3>0. chan[c] \in ChanRow
      BY <1>2 DEF TypeOK
    <3>1. v \in ChanRow /\ v.st # "none" /\ v.owner = chan[c].owner
      BY <3>0 DEF ChanRow, RowState
    <3>2. chan' = [chan EXCEPT ![c] = v]
      BY <2>1
    <3> HIDE DEF v
    <3>3. QED
      BY <1>2, <3>1, <3>2 DEF TypeOK, RowsKept
  <2>2. CASE UNCHANGED chan
    BY <1>2, <2>2 DEF TypeOK, RowsKept
  <2>3. QED
    BY <1>1, <2>1, <2>2
<1>5. Permitted(save[k].user, c)
  BY <1>2, <1>3, <1>4 DEF Entitled, Permitted
<1>6. QED
  BY <1>1, <1>4, <1>5, PcKept DEF SavePc

\* create_channel's INSERT, owned by the caller.
LEMMA CreateKept ==
  ASSUME IInv, NEW k \in Saves, CreateRow(k)
  PROVE  Kept(k)
<1>0. TypeOK /\ save[k].pc = "apply" /\ UNCHANGED <<group, role, links, gcall, past>>
  BY DEF CreateRow, IInv
<1>1. CASE save' = [save EXCEPT ![k].pc = "over"] /\ UNCHANGED chan
  <2>1. chan' \in [Chans -> ChanRow] /\ RowsKept
    BY <1>0, <1>1 DEF TypeOK, RowsKept
  <2>2. QED
    BY <1>0, <1>1, <2>1, PcKept DEF SavePc
<1>2. ASSUME NEW c \in Chans,
             chan[c].st = "none",
             chan' = [chan EXCEPT ![c] =
                        [st |-> "live", owner |-> save[k].user,
                         global |-> Super(k) /\ save[k].global = "on"]],
             save' = [save EXCEPT ![k] =
                        [@ EXCEPT !.pc = "insert", !.ch = c, !.todo = save[k].desired]]
      PROVE  Kept(k)
  <2> DEFINE v == [save[k] EXCEPT !.pc = "insert", !.ch = c, !.todo = save[k].desired]
             b == Super(k) /\ save[k].global = "on"
             row == [st |-> "live", owner |-> save[k].user, global |-> b]
  <2>1. save[k] \in SaveState
    BY <1>0 DEF TypeOK
  <2>2. /\ v \in SaveState /\ v.pc = "insert" /\ v.user = save[k].user /\ v.ch = c
        /\ v.adminOf = save[k].adminOf
    BY <2>1 DEF SaveState
  <2>3. save' = [save EXCEPT ![k] = v] /\ chan' = [chan EXCEPT ![c] = row]
    BY <1>2, Zenon
  <2>4. b \in BOOLEAN
    BY Zenon
  <2> HIDE DEF v, b
  <2>5. row \in ChanRow /\ row.st = "live" /\ row.owner = save[k].user
    BY <2>1, <2>4 DEF ChanRow, RowState, SaveState
  <2> HIDE DEF row
  <2>6. /\ save' \in [Saves -> SaveState] /\ save'[k] = v
        /\ \A l \in Saves \ {k} : save'[l] = save[l]
    BY <1>0, <2>2, <2>3, SaveStep DEF TypeOK
  <2>7. chan' \in [Chans -> ChanRow] /\ RowsKept /\ chan'[c] = row
    BY <1>0, <1>2, <2>3, <2>5 DEF TypeOK, RowsKept
  <2>8. TypeOK' /\ History' /\ PastKept
    BY <1>0, <2>6, <2>7 DEF TypeOK, IInv, History, AdminPairs, PastKept
  <2>9. Held(k)'
    BY <1>0, <2>2, <2>5, <2>6, <2>7 DEF IInv, Held, Entitled
  <2>10. save'[k] # save[k]
    BY <1>0, <2>2, <2>6
  <2>11. \A d \in Chans : chan'[d] # chan[d] => Permitted(save[k].user, d)
    BY <1>0, <2>3, <2>5, <2>7 DEF TypeOK, Permitted
  <2>12. \A d \in Chans : LinksOf(d)' = LinksOf(d)
    BY <1>0 DEF LinksOf
  <2>13. WritesPermitted(k)
    BY <2>10, <2>11, <2>12 DEF WritesPermitted, LinksOf
  <2>14. QED
    BY <1>0, <2>6, <2>7, <2>8, <2>9, <2>13 DEF Kept
<1>3. QED
  BY <1>1, <1>2, Zenon DEF CreateRow

\* A step of a re-publication: it touches the links of one channel.
LEMMA PublishKept ==
  ASSUME IInv, NEW k \in Saves, NEW v \in SaveState, save' = [save EXCEPT ![k] = v],
         save[k].pc \in {"clear", "insert"}, v.pc \in {"insert", "saved"},
         v.user = save[k].user, v.op = save[k].op, v.ch = save[k].ch,
         v.adminOf = save[k].adminOf, v # save[k],
         links' \in SUBSET (Chans \X Groups),
         \A l \in Chans \X Groups : l[1] # save[k].ch => (l \in links' <=> l \in links),
         UNCHANGED <<group, role, chan, gcall>>, Remember
  PROVE  Kept(k)
<1>0. TypeOK /\ role' \in [Groups -> [Users -> Roles]]
  BY DEF IInv, TypeOK
<1>1. /\ save' \in [Saves -> SaveState] /\ save'[k] = v
      /\ \A l \in Saves \ {k} : save'[l] = save[l]
  BY <1>0, SaveStep DEF TypeOK
<1>2. TypeOK' /\ History' /\ PastKept
  BY <1>0, <1>1, RememberTyped DEF TypeOK, History, PastKept
<1>3. RowsKept
  BY DEF RowsKept
<1>4. Entitled(k) /\ save[k].ch \in Chans
  BY <1>0 DEF IInv, Held, TypeOK, SaveState
<1>5. Entitled(k)'
  BY <1>0, <1>1, <1>2, <1>3, <1>4, EntitledKept
<1>6. Held(k)'
  BY <1>0, <1>1, <1>2, <1>5 DEF IInv, Held, PastKept
<1>7. Permitted(save[k].user, save[k].ch)
  BY <1>4 DEF Entitled, Permitted
<1>8. \A c \in Chans : c # save[k].ch => LinksOf(c)' = LinksOf(c)
  BY DEF LinksOf
<1>9. WritesPermitted(k)
  BY <1>1, <1>7, <1>8 DEF WritesPermitted, LinksOf
<1>10. QED
  BY <1>1, <1>2, <1>3, <1>6, <1>9 DEF Kept

LEMMA ClearKept ==
  ASSUME IInv, NEW k \in Saves, Clear(k)
  PROVE  Kept(k)
<1> DEFINE v == [save[k] EXCEPT !.pc = "insert", !.todo = save[k].desired]
<1>1. /\ save[k].pc = "clear"
      /\ \/ links' = {l \in links : ~(l[1] = save[k].ch /\ l[2] \in Scope(k))}
         \/ UNCHANGED links
      /\ save' = [save EXCEPT ![k] = v]
      /\ UNCHANGED <<group, role, chan, gcall>>
      /\ Remember
  BY Zenon DEF Clear
<1>2. save[k] \in SaveState
  BY DEF IInv, TypeOK
<1>3. /\ v \in SaveState /\ v.pc = "insert" /\ v.user = save[k].user
      /\ v.op = save[k].op /\ v.ch = save[k].ch /\ v.adminOf = save[k].adminOf
  BY <1>2 DEF SaveState
<1> HIDE DEF v
<1>4. v # save[k]
  BY <1>1, <1>3
<1>5. /\ links' \in SUBSET (Chans \X Groups)
      /\ \A l \in Chans \X Groups : l[1] # save[k].ch => (l \in links' <=> l \in links)
  BY <1>1 DEF IInv, TypeOK
<1>6. QED
  BY <1>1, <1>3, <1>4, <1>5, PublishKept

LEMMA InsertKept ==
  ASSUME IInv, NEW k \in Saves, Insert(k)
  PROVE  Kept(k)
<1>0. /\ save[k].pc = "insert" /\ save[k] \in SaveState /\ links \in SUBSET (Chans \X Groups)
      /\ UNCHANGED <<group, role, chan, gcall>> /\ Remember
  BY DEF Insert, IInv, TypeOK
<1>1. CASE save' = [save EXCEPT ![k].pc = "saved"] /\ UNCHANGED links
  <2> DEFINE v == [save[k] EXCEPT !.pc = "saved"]
  <2>1. save' = [save EXCEPT ![k] = v]
    BY <1>1
  <2>2. /\ v \in SaveState /\ v.pc = "saved" /\ v.user = save[k].user
        /\ v.op = save[k].op /\ v.ch = save[k].ch /\ v.adminOf = save[k].adminOf
    BY <1>0 DEF SaveState
  <2> HIDE DEF v
  <2>3. v # save[k]
    BY <1>0, <2>2
  <2>4. QED
    BY <1>0, <1>1, <2>1, <2>2, <2>3, PublishKept
<1>2. ASSUME NEW g \in save[k].todo,
             links' = links \cup {<<save[k].ch, g>>} \/ UNCHANGED links,
             save' = [save EXCEPT ![k].todo = @ \ {g}]
      PROVE  Kept(k)
  <2> DEFINE v == [save[k] EXCEPT !.todo = @ \ {g}]
  <2>1. save' = [save EXCEPT ![k] = v]
    BY <1>2
  <2>2. /\ v \in SaveState /\ v.pc = "insert" /\ v.user = save[k].user
        /\ v.op = save[k].op /\ v.ch = save[k].ch /\ v.adminOf = save[k].adminOf
        /\ v.todo = save[k].todo \ {g}
    BY <1>0 DEF SaveState
  <2> HIDE DEF v
  <2>3. v # save[k]
    BY <2>2
  <2>4. g \in Groups /\ save[k].ch \in Chans
    BY <1>0 DEF SaveState
  <2>5. /\ links' \in SUBSET (Chans \X Groups)
        /\ \A l \in Chans \X Groups : l[1] # save[k].ch => (l \in links' <=> l \in links)
    BY <1>0, <1>2, <2>4
  <2>6. QED
    BY <1>0, <2>1, <2>2, <2>3, <2>5, PublishKept
<1>3. QED
  BY <1>1, <1>2, Zenon DEF Insert
-----------------------------------------------------------------------------
(* The group handlers.                                                      *)

\* Who changes the members of g moves, and is permitted to.
MembersPermitted(k) ==
    \A g \in Groups : role'[g] # role[g] =>
      /\ gcall'[k] # gcall[k]
      /\ gcall[k].user \in Supers \/ <<gcall[k].user, g>> \in past.admins

\* What a step of a group handler does.
GroupKept(k) ==
    /\ TypeOK' /\ History' /\ PastKept /\ GroupHeld(k)'
    /\ save' = save /\ chan' = chan /\ links' = links
    /\ \A l \in GroupCalls \ {k} : gcall'[l] = gcall[l]
    /\ MembersPermitted(k)

\* A group call that ends, having changed group, members and history or not.
LEMMA GroupOver ==
  ASSUME IInv, NEW k \in GroupCalls, gcall' = [gcall EXCEPT ![k].pc = "over"],
         group' \in [Groups -> RowState], role' \in [Groups -> [Users -> Roles]],
         UNCHANGED <<chan, links, save>>,
         Remember \/ UNCHANGED <<role, past>>,
         gcall[k].pc # "over",
         \A g \in Groups : role'[g] # role[g] =>
           gcall[k].user \in Supers \/ <<gcall[k].user, g>> \in past.admins
  PROVE  GroupKept(k)
<1> DEFINE v == [gcall[k] EXCEPT !.pc = "over"]
<1>0. TypeOK /\ links' \in SUBSET (Chans \X Groups) /\ gcall[k] \in GroupCallState
  BY DEF IInv, TypeOK
<1>1. v \in GroupCallState /\ v.pc = "over"
  BY <1>0 DEF GroupCallState
<1>2. gcall' = [gcall EXCEPT ![k] = v]
  OBVIOUS
<1> HIDE DEF v
<1>3. /\ gcall' \in [GroupCalls -> GroupCallState] /\ gcall'[k] = v
      /\ \A l \in GroupCalls \ {k} : gcall'[l] = gcall[l]
  BY <1>0, <1>1, <1>2 DEF TypeOK
<1>4. /\ past' \in [admins : SUBSET (Users \X Groups), links : SUBSET (Chans \X Groups),
                     given : SUBSET (Chans \X Groups), groups : SUBSET Groups]
      /\ History' /\ PastKept
  <2>1. CASE Remember
    BY <1>0, <2>1, RememberTyped DEF History, PastKept
  <2>2. CASE UNCHANGED <<role, past>>
    BY <1>0, <2>2 DEF IInv, TypeOK, History, AdminPairs, PastKept
  <2>3. QED
    BY <2>1, <2>2
<1>5. TypeOK'
  BY <1>0, <1>3, <1>4 DEF TypeOK
<1>6. GroupHeld(k)' /\ gcall'[k] # gcall[k]
  BY <1>1, <1>3 DEF GroupHeld
<1>7. QED
  BY <1>3, <1>4, <1>5, <1>6 DEF GroupKept, MembersPermitted

LEMMA GroupBeginKept ==
  ASSUME IInv, NEW k \in GroupCalls, GroupBegin(k)
  PROVE  GroupKept(k)
<1>1. PICK u \in Users, op \in GroupOps, g \in Groups, target \in Users, r \in {"admin", "member"} :
         LET allowed == IF op \in {"createGroup", "deleteGroup"}
                          THEN u \in Supers ELSE IsGroupAdmin(u, g)
         IN  gcall' = [gcall EXCEPT ![k] =
               [pc |-> IF allowed THEN IF op = "addMember" THEN "check" ELSE "commit" ELSE "over",
                op |-> op, user |-> u, g |-> g, target |-> target, newRole |-> r]]
  BY Zenon DEF GroupBegin
<1> DEFINE allowed == IF op \in {"createGroup", "deleteGroup"}
                        THEN u \in Supers ELSE IsGroupAdmin(u, g)
           p == IF allowed THEN IF op = "addMember" THEN "check" ELSE "commit" ELSE "over"
           v == [pc |-> p, op |-> op, user |-> u, g |-> g, target |-> target, newRole |-> r]
<1>2. gcall' = [gcall EXCEPT ![k] = v]
  BY <1>1, Zenon
<1>3. p \in {"check", "commit", "over"} /\ (p # "over" => allowed)
  OBVIOUS
<1>4. allowed /\ op \in {"addMember", "removeMember"} => u \in Supers \/ <<u, g>> \in past.admins
  BY DEF IsGroupAdmin, IInv, History, AdminPairs
<1> HIDE DEF p, allowed
<1>5. op \in {"createGroup", "deleteGroup", "addMember", "removeMember"}
  BY SharingAssumption
<1>6. v \in GroupCallState
  BY <1>3, <1>5 DEF GroupCallState
<1>7. UNCHANGED <<group, role, chan, links, save, past>> /\ TypeOK
  BY DEF GroupBegin, IInv
<1>8. /\ gcall' \in [GroupCalls -> GroupCallState] /\ gcall'[k] = v
      /\ \A l \in GroupCalls \ {k} : gcall'[l] = gcall[l]
  BY <1>2, <1>6, <1>7 DEF TypeOK
<1>9. TypeOK' /\ History' /\ PastKept
  BY <1>7, <1>8 DEF TypeOK, IInv, History, AdminPairs, PastKept
<1>10. GroupHeld(k)'
  BY <1>3, <1>4, <1>7, <1>8 DEF GroupHeld
<1>11. QED
  BY <1>7, <1>8, <1>9, <1>10 DEF GroupKept, MembersPermitted

LEMMA GroupCheckKept ==
  ASSUME IInv, NEW k \in GroupCalls, GroupCheck(k)
  PROVE  GroupKept(k)
<1> DEFINE p == IF group[gcall[k].g] = "live" THEN "commit" ELSE "over"
           v == [gcall[k] EXCEPT !.pc = p]
<1>1. /\ gcall[k].pc = "check" /\ gcall' = [gcall EXCEPT ![k] = v]
      /\ UNCHANGED <<group, role, chan, links, save, past>> /\ TypeOK
      /\ gcall[k] \in GroupCallState
  BY DEF GroupCheck, IInv, TypeOK
<1>2. p \in {"commit", "over"}
  OBVIOUS
<1> HIDE DEF p
<1>3. v \in GroupCallState /\ v.op = gcall[k].op /\ v.user = gcall[k].user /\ v.g = gcall[k].g
  BY <1>1, <1>2 DEF GroupCallState
<1> HIDE DEF v
<1>4. /\ gcall' \in [GroupCalls -> GroupCallState] /\ gcall'[k] = v
      /\ \A l \in GroupCalls \ {k} : gcall'[l] = gcall[l]
  BY <1>1, <1>3 DEF TypeOK
<1>5. TypeOK' /\ History' /\ PastKept
  BY <1>1, <1>4 DEF TypeOK, IInv, History, AdminPairs, PastKept
<1>6. GroupHeld(k)'
  BY <1>1, <1>3, <1>4 DEF IInv, GroupHeld
<1>7. QED
  BY <1>1, <1>4, <1>5, <1>6 DEF GroupKept, MembersPermitted

\* The statements of the group handlers.
LEMMA GroupCommitKept ==
  ASSUME IInv, NEW k \in GroupCalls,
         CreateGroup(k) \/ DeleteGroup(k) \/ AddMember(k) \/ RemoveMember(k) \/ GroupDropped(k)
  PROVE  GroupKept(k)
<1>0. /\ TypeOK /\ gcall[k] \in GroupCallState
      /\ group \in [Groups -> RowState] /\ role \in [Groups -> [Users -> Roles]]
  BY DEF IInv, TypeOK
<1>1. CASE CreateGroup(k) \/ DeleteGroup(k)
  <2>1. group' \in [Groups -> RowState]
    BY <1>0, <1>1 DEF CreateGroup, DeleteGroup, RowState
  <2>2. QED
    BY <1>0, <1>1, <2>1, GroupOver DEF CreateGroup, DeleteGroup
<1>2. CASE AddMember(k) \/ RemoveMember(k)
  <2>1. PICK r \in Roles :
          role' = [role EXCEPT ![gcall[k].g][gcall[k].target] = r]
    BY <1>0, <1>2 DEF AddMember, RemoveMember, GroupCallState, Roles
  <2>2. role' \in [Groups -> [Users -> Roles]]
    BY <1>0, <2>1 DEF GroupCallState
  <2>3. \A g \in Groups : role'[g] # role[g] => g = gcall[k].g
    BY <1>0, <2>1
  <2>4. gcall[k].user \in Supers \/ <<gcall[k].user, gcall[k].g>> \in past.admins
    BY <1>2 DEF AddMember, RemoveMember, IInv, GroupHeld
  <2>5. QED
    BY <1>0, <1>2, <2>2, <2>3, <2>4, GroupOver DEF AddMember, RemoveMember
<1>3. CASE GroupDropped(k)
  BY <1>0, <1>3, GroupOver DEF GroupDropped
<1>4. QED
  BY <1>1, <1>2, <1>3
-----------------------------------------------------------------------------
(* The theorems.                                                            *)

LEMMA SaveKept ==
  ASSUME IInv, NEW k \in Saves, Save(k)
  PROVE  Kept(k)
BY BeginKept, CheckKept, CreateKept, UpdateKept, ShareKept, DeleteKept, ClearKept,
   InsertKept, DroppedKept DEF Save

LEMMA GroupCallKept ==
  ASSUME IInv, NEW k \in GroupCalls, GroupCall(k)
  PROVE  GroupKept(k)
BY GroupBeginKept, GroupCheckKept, GroupCommitKept DEF GroupCall

LEMMA InitIInv == Init => IInv
<1> SUFFICES ASSUME Init PROVE IInv
  OBVIOUS
<1>1. TypeOK
  BY InitTyped
<1>2. History
  BY DEF Init, History
<1>3. \A k \in Saves : Held(k)
  BY DEF Init, Held
<1>4. \A k \in GroupCalls : GroupHeld(k)
  BY DEF Init, GroupHeld
<1>5. QED
  BY <1>1, <1>2, <1>3, <1>4 DEF IInv

LEMMA NextKeepsIInv == IInv /\ [Next]_vars => IInv'
<1> SUFFICES ASSUME IInv, [Next]_vars PROVE IInv'
  OBVIOUS
<1>1. ASSUME NEW k \in Saves, Save(k)
      PROVE  IInv'
  <2>1. Kept(k)
    BY <1>1, SaveKept
  <2>2. \A l \in Saves : Held(l)'
    BY <2>1, HeldKept DEF Kept, IInv
  <2>3. \A l \in GroupCalls : GroupHeld(l)'
    BY <2>1 DEF Kept, IInv, GroupHeld, PastKept
  <2>4. QED
    BY <2>1, <2>2, <2>3 DEF Kept, IInv
<1>2. ASSUME NEW k \in GroupCalls, GroupCall(k)
      PROVE  IInv'
  <2>1. GroupKept(k)
    BY <1>2, GroupCallKept
  <2>2. RowsKept
    BY <2>1 DEF GroupKept, RowsKept
  <2>3. \A l \in Saves : Held(l)'
    BY <2>1, <2>2, HeldKept DEF GroupKept, IInv
  <2>4. \A l \in GroupCalls : GroupHeld(l)'
    BY <2>1 DEF GroupKept, IInv, GroupHeld, PastKept
  <2>5. QED
    BY <2>1, <2>3, <2>4 DEF GroupKept, IInv
<1>3. CASE UNCHANGED vars
  BY <1>3 DEF vars, IInv, TypeOK, History, AdminPairs, Held, Entitled, GroupHeld
<1>4. QED
  BY <1>1, <1>2, <1>3 DEF Next

\* The tables and the calls keep their types: in particular no handler
\* stores a role that the CHECK of table group_members would refuse.
THEOREM TypeCorrect == Spec => []TypeOK
<1>1. IInv => TypeOK
  BY DEF IInv
<1>2. QED
  BY InitIInv, NextKeepsIInv, <1>1, PTL DEF Spec

\* Whatever changes between the check of a permission and its use, for any
\* number of concurrent calls of rbac.rs's and main.rs's handlers: who writes
\* a channel, its links or a membership is a super-admin, the owner, or once
\* administered the group that lets it.
THEOREM WritesAreAuthorized == Spec => AuthorizedWrites
<1> DEFINE A == /\ \A c \in Chans : chan'[c] # chan[c] \/ LinksOf(c)' # LinksOf(c) =>
                     \E k \in Saves :
                       /\ save'[k] # save[k]
                       /\ LET u == save[k].user IN
                          \/ u \in Supers
                          \/ u = chan'[c].owner
                          \/ \E g \in Groups : <<u, g>> \in past.admins /\ <<c, g>> \in past.links
                /\ \A g \in Groups : role'[g] # role[g] =>
                     \E k \in GroupCalls :
                       /\ gcall'[k] # gcall[k]
                       /\ gcall[k].user \in Supers \/ <<gcall[k].user, g>> \in past.admins
<1>1. ASSUME IInv, Next
      PROVE  A
  <2>1. ASSUME NEW k \in Saves, Save(k)
        PROVE  A
    <3>1. Kept(k)
      BY <1>1, <2>1, SaveKept
    <3>2. QED
      BY <3>1 DEF Kept, WritesPermitted, Permitted
  <2>2. ASSUME NEW k \in GroupCalls, GroupCall(k)
        PROVE  A
    <3>1. GroupKept(k)
      BY <1>1, <2>2, GroupCallKept
    <3>2. \A c \in Chans : LinksOf(c)' = LinksOf(c)
      BY <3>1 DEF GroupKept, LinksOf
    <3>3. QED
      BY <3>1, <3>2 DEF GroupKept, MembersPermitted, LinksOf
  <2>3. QED
    BY <1>1, <2>1, <2>2 DEF Next
<1>2. IInv /\ [Next]_vars => [A]_vars
  BY <1>1
<1>3. Spec => []IInv
  BY InitIInv, NextKeepsIInv, PTL DEF Spec
<1>4. QED
  BY <1>2, <1>3, PTL DEF Spec, AuthorizedWrites

-----------------------------------------------------------------------------
(* Reading and org-wide visibility.                                         *)

\* The look-up of one channel, the list of channels and the scope of the
\* event log (can_read, push_read_predicate, push_event_scope) agree, with any
\* groups and memberships and amid any number of calls.
THEOREM ReadScopesStayInStep == Spec => []ReadScopesAgree
<1>1. ReadScopesAgree
  <2> SUFFICES ASSUME NEW u \in Users, NEW c \in Chans
               PROVE  /\ u \notin Supers => (CanRead(u, c) <=> Listed(u, c))
                      /\ CanRead(u, c) <=> EventVisible(u, c)
    BY DEF ReadScopesAgree
  <2>1. LinksOf(c) \cap MemberOf(u) # {} <=> \E g \in MemberOf(u) : <<c, g>> \in links
    BY DEF LinksOf, MemberOf
  <2>2. QED
    BY <2>1 DEF CanRead, Listed, EventVisible
<1>2. QED
  BY <1>1, PTL

\* A row that is not there yet has no flag to inherit.
Flags == \A c \in Chans : chan[c].st = "none" => chan[c].global = FALSE

FlagsBySuper(k) == \A c \in Chans : chan'[c].global # chan[c].global => Super(k)

LEMMA ToggledBySuper ==
  ASSUME TypeOK, NEW k \in Saves, ~Super(k)
  PROVE  Toggled(k) = chan[save[k].ch].global
BY DEF Toggled

LEMMA FlagStep ==
  ASSUME IInv, Flags, NEW k \in Saves, Save(k)
  PROVE  Flags' /\ FlagsBySuper(k)
<1>0. /\ save[k].ch \in Chans /\ chan \in [Chans -> ChanRow]
      /\ \A c \in Chans : chan[c] \in ChanRow
  BY DEF IInv, TypeOK, SaveState
<1>1. CASE UNCHANGED chan
  BY <1>1 DEF Flags, FlagsBySuper
<1>2. CASE UpdateRow(k) \/ ShareRow(k)
  <2> DEFINE c == save[k].ch
  <2>1. CASE chan' = [chan EXCEPT ![c].global = Toggled(k)] /\ chan[c].st = "live"
    <3>1. /\ chan'[c].st = "live" /\ chan'[c].global = Toggled(k)
          /\ \A d \in Chans : d # c => chan'[d] = chan[d]
      BY <1>0, <2>1 DEF ChanRow
    <3>2. FlagsBySuper(k)
      BY <1>0, <3>1, ToggledBySuper DEF FlagsBySuper, IInv
    <3>3. QED
      BY <3>1, <3>2 DEF Flags
  <2>2. CASE chan' = chan
    BY <2>2, <1>1
  <2>3. QED
    BY <1>2, <2>1, <2>2, Zenon DEF UpdateRow, ShareRow
<1>3. CASE DeleteRow(k)
  <2> DEFINE c == save[k].ch
  <2>1. CASE chan' = [chan EXCEPT ![c].st = "deleted"]
    <3>1. /\ chan'[c].st = "deleted" /\ chan'[c].global = chan[c].global
          /\ \A d \in Chans : d # c => chan'[d] = chan[d]
      BY <1>0, <2>1 DEF ChanRow
    <3>2. QED
      BY <3>1 DEF Flags, FlagsBySuper
  <2>2. CASE chan' = chan
    BY <2>2, <1>1
  <2>3. QED
    BY <1>3, <2>1, <2>2, Zenon DEF DeleteRow
<1>4. ASSUME NEW c \in Chans, chan[c].st = "none",
             chan' = [chan EXCEPT ![c] =
                        [st |-> "live", owner |-> save[k].user,
                         global |-> Super(k) /\ save[k].global = "on"]]
      PROVE  Flags' /\ FlagsBySuper(k)
  <2>1. /\ chan'[c].st = "live" /\ chan'[c].global = (Super(k) /\ save[k].global = "on")
        /\ \A d \in Chans : d # c => chan'[d] = chan[d]
    BY <1>0, <1>4
  <2>2. Flags'
    BY <2>1 DEF Flags
  <2>3. ~Super(k) => chan'[c].global = FALSE
    BY <2>1, Zenon
  <2>4. QED
    BY <1>4, <2>1, <2>2, <2>3 DEF Flags, FlagsBySuper
<1>5. QED
  BY <1>1, <1>2, <1>3, <1>4, Zenon
     DEF Save, Begin, CanWriteOwner, CanWriteLinks, CreateRow, Clear, Insert, Dropped

LEMMA InitFlags == Init => Flags
<1> SUFFICES ASSUME Init, NEW c \in Chans PROVE chan[c].global = FALSE
  BY DEF Flags
<1>1. chan[c] \in {[st |-> "none", owner |-> NoUser, global |-> FALSE]}
                   \cup [st : {"live"}, owner : Users \cup {NoUser}, global : {FALSE}]
  BY DEF Init
<1>2. CASE chan[c] = [st |-> "none", owner |-> NoUser, global |-> FALSE]
  BY <1>2
<1>3. CASE chan[c] \in [st : {"live"}, owner : Users \cup {NoUser}, global : {FALSE}]
  BY <1>3
<1>4. QED
  BY <1>1, <1>2, <1>3

LEMMA NextKeepsFlags == IInv /\ Flags /\ [Next]_vars => Flags'
<1> SUFFICES ASSUME IInv, Flags, [Next]_vars PROVE Flags'
  OBVIOUS
<1>1. ASSUME NEW k \in Saves, Save(k) PROVE Flags'
  BY <1>1, FlagStep
<1>2. ASSUME NEW k \in GroupCalls, GroupCall(k) PROVE Flags'
  BY <1>2, GroupCallKept DEF GroupKept, Flags
<1>3. CASE UNCHANGED vars
  BY <1>3 DEF vars, Flags
<1>4. QED
  BY <1>1, <1>2, <1>3 DEF Next

\* create_channel, update_channel and set_share each decide for themselves
\* what becomes of is_global; a call of anyone but a super-admin leaves it,
\* whatever other calls write between its statements.
THEOREM OnlySupersChangeGlobal == Spec => GlobalBySuper
<1> DEFINE A == \A c \in Chans : chan'[c].global # chan[c].global =>
                  \E k \in Saves : save'[k] # save[k] /\ Super(k)
<1>1. ASSUME IInv, Flags, Next
      PROVE  A
  <2>1. ASSUME NEW k \in Saves, Save(k)
        PROVE  A
    <3>1. FlagsBySuper(k) /\ WritesPermitted(k)
      BY <1>1, <2>1, FlagStep, SaveKept DEF Kept
    <3>2. QED
      BY <3>1 DEF FlagsBySuper, WritesPermitted
  <2>2. ASSUME NEW k \in GroupCalls, GroupCall(k)
        PROVE  A
    BY <1>1, <2>2, GroupCallKept DEF GroupKept
  <2>3. QED
    BY <1>1, <2>1, <2>2 DEF Next
<1>2. IInv /\ Flags /\ [Next]_vars => [A]_vars
  BY <1>1
<1>3. Spec => [](IInv /\ Flags)
  BY InitIInv, NextKeepsIInv, InitFlags, NextKeepsFlags, PTL DEF Spec
<1>4. QED
  BY <1>2, <1>3, PTL DEF Spec, GlobalBySuper

-----------------------------------------------------------------------------
(* Concurrent saves settle.                                                 *)

\* The links that call k has replaced, or is about to insert.
Reach(k) == IF save[k].op = "create" THEN save[k].desired ELSE Scope(k)

Writers(c, g) ==
    {k \in Saves : save[k].pc \in {"insert", "saved"} /\ save[k].ch = c /\ g \in Reach(k)}

\* A call past its checks publishes within its reach, to a channel that exists.
Publishing(k) ==
    /\ save[k].pc \in {"clear", "insert", "saved"} \/ (save[k].pc = "apply" /\ save[k].op = "create")
         => save[k].desired \subseteq Scope(k)
    /\ save[k].pc \in {"owner", "links", "clear"} => save[k].op # "create"
    /\ save[k].pc \in {"owner", "links", "clear", "insert", "saved"}
         \/ (save[k].pc = "apply" /\ save[k].op # "create")
         => chan[save[k].ch].st # "none"
    /\ save[k].pc = "insert" => save[k].todo \subseteq save[k].desired
    /\ save[k].pc = "saved" => save[k].todo = {}

GroupsStay == \A g \in past.groups : g \in Groups /\ group[g] # "none"

\* The link of c to g, as the calls that wrote it so far agree on it.
Agreed(c, g) ==
    /\ Writers(c, g) = {} => (<<c, g>> \in links <=> <<c, g>> \in past.given)
    /\ Writers(c, g) # {} /\ (\A k \in Writers(c, g) : g \in save[k].desired) =>
         <<c, g>> \in links \/ \E k \in Writers(c, g) : g \in save[k].todo
    /\ Writers(c, g) # {} /\ (\A k \in Writers(c, g) : g \notin save[k].desired) =>
         <<c, g>> \notin links

NoneLost == \A k \in Saves : save[k].pc # "lost"

Settling ==
    /\ GroupsStay
    /\ \A k \in Saves : Publishing(k)
    /\ ~Faulty /\ NoneLost => \A c \in Chans, g \in past.groups : Agreed(c, g)

\* A step that moves a call's point of control keeps the rest of the call.
LEMMA PcOnly ==
  ASSUME TypeOK, NEW k \in Saves, NEW p \in SavePc, save' = [save EXCEPT ![k].pc = p]
  PROVE  /\ save'[k].pc = p /\ save'[k].user = save[k].user /\ save'[k].op = save[k].op
         /\ save'[k].ch = save[k].ch /\ save'[k].desired = save[k].desired
         /\ save'[k].memberOf = save[k].memberOf /\ save'[k].todo = save[k].todo
BY DEF TypeOK, SaveState

\* What a call asks to publish, when create_channel has let it through.
LEMMA BeginPublishing ==
  ASSUME IInv, NEW k \in Saves, Begin(k)
  PROVE  Publishing(k)'
<1>1. PICK u \in Users, op \in SaveOps, c \in Chans, sent \in SUBSET Groups,
           ids \in BOOLEAN, glob \in Globals :
         LET desired == IF op = "create" THEN CreateGroups(u, sent) ELSE sent
             refused == /\ op = "create"
                        /\ u \notin Supers
                        /\ desired = {} \/ ~ desired \subseteq MemberOf(u)
         IN  /\ op = "create" => c = save[k].ch
             /\ op # "create" => chan[c].st # "none"
             /\ op # "update" => ids = (op # "delete")
             /\ ~ids => sent = {}
             /\ save' = [save EXCEPT ![k] =
                  [@ EXCEPT !.pc = CASE refused -> "over"
                                     [] ~refused /\ (op = "create" \/ u \in Supers) -> "apply"
                                     [] OTHER -> "owner",
                            !.op = op, !.user = u, !.ch = c, !.desired = desired,
                            !.hasIds = ids, !.global = glob,
                            !.memberOf = MemberOf(u), !.adminOf = AdminOf(u)]]
  BY Zenon DEF Begin
<1> DEFINE desired == IF op = "create" THEN CreateGroups(u, sent) ELSE sent
           refused == /\ op = "create"
                      /\ u \notin Supers
                      /\ desired = {} \/ ~ desired \subseteq MemberOf(u)
           p == CASE refused -> "over"
                  [] ~refused /\ (op = "create" \/ u \in Supers) -> "apply"
                  [] OTHER -> "owner"
           v == [save[k] EXCEPT !.pc = p, !.op = op, !.user = u, !.ch = c,
                                !.desired = desired, !.hasIds = ids, !.global = glob,
                                !.memberOf = MemberOf(u), !.adminOf = AdminOf(u)]
<1>2. save' = [save EXCEPT ![k] = v] /\ (op # "create" => chan[c].st # "none") /\ chan' = chan
  BY <1>1, Zenon DEF Begin
<1>3. save[k] \in SaveState /\ save'[k] = v
  BY <1>2 DEF IInv, TypeOK
<1>4. /\ p \in {"over", "owner", "apply"}
      /\ p = "owner" => op # "create"
      /\ p = "apply" /\ op = "create" /\ u \notin Supers => desired \subseteq MemberOf(u)
  OBVIOUS
<1>5. desired \subseteq Groups
  BY DEF CreateGroups, MemberOf
<1> HIDE DEF desired, refused, p
<1>6. /\ v.pc = p /\ v.op = op /\ v.user = u /\ v.ch = c /\ v.desired = desired
      /\ v.memberOf = MemberOf(u)
  BY <1>3 DEF SaveState
<1> HIDE DEF v
<1>7. QED
  BY <1>2, <1>3, <1>4, <1>5, <1>6 DEF Publishing, Scope, Super

LEMMA PcPublishing ==
  ASSUME IInv, NEW k \in Saves, NEW p \in SavePc,
         save' = [save EXCEPT ![k].pc = p], RowsKept,
         p \notin {"apply", "clear", "insert", "saved"} \/ save[k].desired \subseteq Scope(k)
           \/ (p = "apply" /\ save[k].op # "create"),
         p \in {"owner", "links", "clear"} => save[k].op # "create",
         p \notin {"over", "lost", "new"} => chan[save[k].ch].st # "none",
         p # "insert", p = "saved" => save[k].todo = {}
  PROVE  Publishing(k)'
<1>1. save[k].ch \in Chans
  BY DEF IInv, TypeOK, SaveState
<1>2. QED
  BY <1>1, PcOnly DEF IInv, Publishing, RowsKept, Scope, Super

\* What a re-publication does to its call and to the links.
SameCall(k) ==
    /\ save'[k].user = save[k].user /\ save'[k].op = save[k].op /\ save'[k].ch = save[k].ch
    /\ save'[k].desired = save[k].desired /\ save'[k].memberOf = save[k].memberOf

Quiet(k) ==
    /\ save[k].pc \notin {"insert", "saved"} /\ save'[k].pc \notin {"insert", "saved"}
    /\ links' = links

Created(k) ==
    /\ save[k].pc = "apply" /\ save[k].op = "create" /\ save'[k].pc = "insert"
    /\ save'[k].user = save[k].user /\ save'[k].op = save[k].op
    /\ save'[k].desired = save[k].desired /\ save'[k].memberOf = save[k].memberOf
    /\ save'[k].todo = save[k].desired
    /\ save'[k].ch \in Chans /\ chan[save'[k].ch].st = "none" /\ chan'[save'[k].ch].st # "none"
    /\ links' = links

Cleared(k) ==
    /\ save[k].pc = "clear" /\ save'[k].pc = "insert" /\ SameCall(k)
    /\ save'[k].todo = save[k].desired
    /\ links' = {l \in links : ~(l[1] = save[k].ch /\ l[2] \in Scope(k))} \/ (Faulty /\ links' = links)

Inserted(k) ==
    /\ save[k].pc = "insert" /\ save'[k].pc = "insert" /\ SameCall(k)
    /\ \E g \in save[k].todo :
         /\ save'[k].todo = save[k].todo \ {g}
         /\ \/ links' = links \cup {<<save[k].ch, g>>}
            \/ /\ group[g] = "none" \/ chan[save[k].ch].st = "none" \/ Faulty
               /\ links' = links

Finished(k) ==
    /\ save[k].pc = "insert" /\ save'[k].pc = "saved" /\ SameCall(k)
    /\ save[k].todo = {} /\ save'[k].todo = {}
    /\ links' = links

Lost(k) == save[k].pc # "lost" /\ save'[k].pc = "lost"

LEMMA SaveSteps ==
  ASSUME IInv, \A l \in Saves : Publishing(l), NEW k \in Saves, Save(k)
  PROVE  /\ Publishing(k)' /\ save[k].pc # "lost"
         /\ Quiet(k) \/ Created(k) \/ Cleared(k) \/ Inserted(k) \/ Finished(k) \/ Lost(k)
<1>0. /\ TypeOK /\ save[k] \in SaveState /\ Publishing(k) /\ RowsKept
      /\ save[k].ch \in Chans /\ save[k].desired \subseteq Groups
  BY SaveKept DEF IInv, TypeOK, SaveState, Kept
<1> DEFINE Goal == /\ Publishing(k)' /\ save[k].pc # "lost"
                   /\ Quiet(k) \/ Created(k) \/ Cleared(k) \/ Inserted(k) \/ Finished(k) \/ Lost(k)
<1>1. CASE Begin(k)
  BY <1>0, <1>1, BeginPublishing, BeginTyped DEF Quiet, Begin
<1>2. ASSUME NEW p \in {"over", "apply", "links", "clear"}, save' = [save EXCEPT ![k].pc = p],
             save[k].pc \in {"owner", "links", "apply"}, links' = links,
             p \in {"apply", "links", "clear"} => save[k].op # "create" /\ chan[save[k].ch].st # "none",
             p = "clear" => save[k].desired \subseteq Scope(k)
      PROVE  Goal
  <2>1. Publishing(k)'
    BY <1>0, <1>2, PcPublishing DEF SavePc
  <2>2. Quiet(k)
    BY <1>0, <1>2, PcOnly DEF SavePc, Quiet
  <2>3. QED
    BY <1>2, <2>1, <2>2
<1>3. CASE CanWriteOwner(k)
  <2>1. save[k].pc = "owner" /\ \E p \in {"over", "apply", "links"} : save' = [save EXCEPT ![k].pc = p]
    BY <1>3, Zenon DEF CanWriteOwner
  <2>2. QED
    BY <1>0, <1>2, <1>3, <2>1 DEF CanWriteOwner, Publishing
<1>4. CASE CanWriteLinks(k)
  <2>1. save[k].pc = "links" /\ \E p \in {"over", "apply"} : save' = [save EXCEPT ![k].pc = p]
    BY <1>4, Zenon DEF CanWriteLinks
  <2>2. QED
    BY <1>0, <1>2, <1>4, <2>1 DEF CanWriteLinks, Publishing
<1>5. CASE UpdateRow(k)
  <2>1. /\ save[k].pc = "apply" /\ save[k].op = "update" /\ links' = links
        /\ \E p \in {"clear", "over"} :
             /\ save' = [save EXCEPT ![k].pc = p]
             /\ p = "clear" => Super(k) \/ save[k].desired \subseteq save[k].memberOf
    BY <1>5, Zenon DEF UpdateRow
  <2>2. QED
    BY <1>0, <1>2, <2>1 DEF Publishing, Scope
<1>6. CASE ShareRow(k)
  <2>1. /\ save[k].pc = "apply" /\ save[k].op = "share" /\ links' = links
        /\ \E p \in {"clear", "over"} :
             /\ save' = [save EXCEPT ![k].pc = p]
             /\ p = "clear" => Super(k) \/ save[k].desired \subseteq save[k].memberOf
    BY <1>6, Zenon DEF ShareRow
  <2>2. QED
    BY <1>0, <1>2, <2>1 DEF Publishing, Scope
<1>7. CASE DeleteRow(k)
  BY <1>0, <1>2, <1>7 DEF DeleteRow
<1>8. CASE Dropped(k)
  <2>1. Publishing(k)'
    BY <1>0, <1>8, PcPublishing DEF Dropped, SavePc
  <2>2. Lost(k)
    BY <1>0, <1>8, PcOnly DEF Dropped, SavePc, Lost, Busy
  <2>3. QED
    BY <2>1, <2>2 DEF Lost
<1>9. CASE CreateRow(k)
  <2>1. save[k].pc = "apply" /\ save[k].op = "create" /\ links' = links
    BY <1>9 DEF CreateRow
  <2>2. CASE save' = [save EXCEPT ![k].pc = "over"]
    BY <1>2, <2>1, <2>2
  <2>3. ASSUME NEW c \in Chans,
               chan[c].st = "none",
               chan' = [chan EXCEPT ![c] =
                          [st |-> "live", owner |-> save[k].user,
                           global |-> Super(k) /\ save[k].global = "on"]],
               save' = [save EXCEPT ![k] =
                          [@ EXCEPT !.pc = "insert", !.ch = c, !.todo = save[k].desired]]
        PROVE  Goal
    <3> DEFINE v == [save[k] EXCEPT !.pc = "insert", !.ch = c, !.todo = save[k].desired]
    <3>1. /\ v.pc = "insert" /\ v.user = save[k].user /\ v.op = save[k].op /\ v.ch = c
          /\ v.desired = save[k].desired /\ v.memberOf = save[k].memberOf /\ v.todo = save[k].desired
      BY <1>0 DEF SaveState
    <3>2. save'[k] = v
      BY <1>0, <2>3, Zenon DEF TypeOK
    <3> HIDE DEF v
    <3>3. chan'[c].st = "live"
      BY <1>0, <2>3 DEF TypeOK
    <3>4. Created(k)
      BY <2>1, <2>3, <3>1, <3>2, <3>3 DEF Created
    <3>5. Publishing(k)'
      BY <1>0, <2>1, <3>1, <3>2, <3>3 DEF Publishing, Scope, Super
    <3>6. QED
      BY <2>1, <3>4, <3>5
  <2>4. QED
    BY <1>9, <2>2, <2>3, Zenon DEF CreateRow
<1>10. CASE Clear(k)
  <2> DEFINE v == [save[k] EXCEPT !.pc = "insert", !.todo = save[k].desired]
  <2>1. /\ save[k].pc = "clear" /\ save' = [save EXCEPT ![k] = v] /\ chan' = chan
        /\ links' = {l \in links : ~(l[1] = save[k].ch /\ l[2] \in Scope(k))} \/ (Faulty /\ links' = links)
    BY <1>10, Zenon DEF Clear
  <2>2. /\ v.pc = "insert" /\ v.user = save[k].user /\ v.op = save[k].op /\ v.ch = save[k].ch
        /\ v.desired = save[k].desired /\ v.memberOf = save[k].memberOf /\ v.todo = save[k].desired
    BY <1>0 DEF SaveState
  <2>3. save'[k] = v
    BY <1>0, <2>1 DEF TypeOK
  <2> HIDE DEF v
  <2>4. Cleared(k)
    BY <2>1, <2>2, <2>3 DEF Cleared, SameCall
  <2>5. Publishing(k)'
    BY <1>0, <2>1, <2>2, <2>3 DEF Publishing, Scope, Super
  <2>6. QED
    BY <2>1, <2>4, <2>5
<1>11. CASE Insert(k)
  <2>1. save[k].pc = "insert" /\ chan' = chan
    BY <1>11 DEF Insert
  <2>2. CASE save[k].todo = {} /\ save' = [save EXCEPT ![k].pc = "saved"] /\ links' = links
    <3>1. Publishing(k)'
      BY <1>0, <2>1, <2>2, PcPublishing DEF SavePc, Publishing
    <3>2. Finished(k)
      BY <1>0, <2>1, <2>2, PcOnly DEF SavePc, Finished, SameCall
    <3>3. QED
      BY <2>1, <3>1, <3>2
  <2>3. ASSUME NEW g \in save[k].todo,
               \/ links' = links \cup {<<save[k].ch, g>>}
               \/ /\ group[g] = "none" \/ chan[save[k].ch].st = "none" \/ Faulty
                  /\ links' = links,
               save' = [save EXCEPT ![k].todo = @ \ {g}]
        PROVE  Goal
    <3> DEFINE v == [save[k] EXCEPT !.todo = @ \ {g}]
    <3>1. /\ v.pc = "insert" /\ v.user = save[k].user /\ v.op = save[k].op /\ v.ch = save[k].ch
          /\ v.desired = save[k].desired /\ v.memberOf = save[k].memberOf
          /\ v.todo = save[k].todo \ {g}
      BY <1>0, <2>1 DEF SaveState
    <3>2. save'[k] = v
      BY <1>0, <2>3 DEF TypeOK
    <3> HIDE DEF v
    <3>3. Inserted(k)
      BY <2>1, <2>3, <3>1, <3>2 DEF Inserted, SameCall
    <3>4. Publishing(k)'
      BY <1>0, <2>1, <3>1, <3>2 DEF Publishing, Scope, Super
    <3>5. QED
      BY <2>1, <3>3, <3>4
  <2>4. QED
    BY <1>11, <2>2, <2>3, Zenon DEF Insert
<1>12. QED
  BY <1>1, <1>3, <1>4, <1>5, <1>6, <1>7, <1>8, <1>9, <1>10, <1>11 DEF Save

\* What two states must have in common for a writer to be one in both.
LEMMA OtherWriters ==
  ASSUME NEW k \in Saves, \A l \in Saves \ {k} : save'[l] = save[l], NEW c, NEW g
  PROVE  \A l \in Saves \ {k} :
           /\ l \in Writers(c, g)' <=> l \in Writers(c, g)
           /\ save'[l].desired = save[l].desired /\ save'[l].todo = save[l].todo
BY DEF Writers, Reach, Scope, Super

LEMMA AgreedStep ==
  ASSUME IInv, \A l \in Saves : Publishing(l), GroupsStay, ~Faulty, NEW k \in Saves, Save(k),
         save'[k].pc # "lost", NEW c \in Chans, NEW g \in past.groups, Agreed(c, g)
  PROVE  Agreed(c, g)'
<1> DEFINE W == Writers(c, g)
           V == Writers(c, g)'
<1>1. /\ \A l \in Saves \ {k} :
           /\ l \in V <=> l \in W
           /\ save'[l].desired = save[l].desired /\ save'[l].todo = save[l].todo
      /\ W \subseteq Saves /\ V \subseteq Saves
  <2>1. \A l \in Saves \ {k} : save'[l] = save[l]
    BY SaveKept DEF Kept
  <2>2. QED
    BY <2>1, OtherWriters DEF Writers
<1>2. past'.given = past.given
  <2>1. past' = past \/ Remember
    BY DEF Save, Begin, CanWriteOwner, CanWriteLinks, CreateRow, UpdateRow, ShareRow, DeleteRow,
           Clear, Insert, Dropped
  <2>2. QED
    BY <2>1 DEF IInv, TypeOK, Remember
<1>3. /\ k \in W <=> save[k].pc \in {"insert", "saved"} /\ save[k].ch = c /\ g \in Reach(k)
      /\ k \in V <=> save'[k].pc \in {"insert", "saved"} /\ save'[k].ch = c /\ g \in Reach(k)'
  BY DEF Writers
<1>4. SameCall(k) => Reach(k)' = Reach(k)
  BY DEF SameCall, Reach, Scope, Super
<1>5. save[k].pc \in {"clear", "insert", "saved"} => save[k].desired \subseteq Reach(k)
  BY DEF Publishing, Reach
<1>6. g \in Groups /\ group[g] # "none"
  BY DEF GroupsStay
<1> HIDE DEF W, V
<1>7. /\ W = {} => (<<c, g>> \in links <=> <<c, g>> \in past.given)
      /\ W # {} /\ (\A l \in W : g \in save[l].desired) =>
           <<c, g>> \in links \/ \E l \in W : g \in save[l].todo
      /\ W # {} /\ (\A l \in W : g \notin save[l].desired) => <<c, g>> \notin links
  BY DEF Agreed, W
<1> DEFINE Goal ==
      /\ V = {} => (<<c, g>> \in links' <=> <<c, g>> \in past.given)
      /\ V # {} /\ (\A l \in V : g \in save'[l].desired) =>
           <<c, g>> \in links' \/ \E l \in V : g \in save'[l].todo
      /\ V # {} /\ (\A l \in V : g \notin save'[l].desired) => <<c, g>> \notin links'
<1>8. CASE Quiet(k)
  <2>1. V = W /\ k \notin W
    BY <1>1, <1>3, <1>8 DEF Quiet
  <2>2. Goal
    BY <1>1, <1>7, <1>8, <2>1 DEF Quiet
  <2>3. QED
    BY <1>2, <2>2 DEF Agreed, V
<1>9. CASE Created(k)
  <2>1. k \notin W /\ links' = links
    BY <1>3, <1>9 DEF Created
  <2>2. k \in V => save'[k].ch = c /\ g \in save'[k].desired /\ g \in save'[k].todo
    BY <1>3, <1>9 DEF Created, Reach
  <2>3. k \in V => W = {}
    <3> SUFFICES ASSUME k \in V, NEW l \in W PROVE FALSE
      OBVIOUS
    <3>1. l \in Saves /\ save[l].ch = c /\ save[l].pc \in {"insert", "saved"}
      BY DEF W, Writers
    <3>2. chan[c].st # "none"
      BY <3>1 DEF Publishing
    <3>3. QED
      BY <2>2, <3>2, <1>9 DEF Created
  <2>4. Goal
    BY <1>1, <1>7, <2>1, <2>2, <2>3
  <2>5. QED
    BY <1>2, <2>4 DEF Agreed, V
<1>10. CASE Cleared(k)
  <2>1. k \notin W
    BY <1>3, <1>10 DEF Cleared
  <2>2. k \in V <=> save[k].ch = c /\ g \in Scope(k)
    BY <1>3, <1>4, <1>10 DEF Cleared, SameCall, Reach, Publishing
  <2>3. /\ save'[k].desired = save[k].desired /\ save'[k].todo = save[k].desired
        /\ links' = {l \in links : ~(l[1] = save[k].ch /\ l[2] \in Scope(k))}
    BY <1>10 DEF Cleared, SameCall
  <2>4. <<c, g>> \in links' <=> <<c, g>> \in links /\ k \notin V
    BY <2>2, <2>3
  <2>5. Goal
    BY <1>1, <1>7, <2>1, <2>3, <2>4
  <2>6. QED
    BY <1>2, <2>5 DEF Agreed, V
<1>11. CASE Inserted(k)
  <2>1. PICK h \in save[k].todo :
          /\ save'[k].todo = save[k].todo \ {h}
          /\ \/ links' = links \cup {<<save[k].ch, h>>}
             \/ /\ group[h] = "none" \/ chan[save[k].ch].st = "none" \/ Faulty
                /\ links' = links
    BY <1>11 DEF Inserted
  <2>2. /\ k \in V <=> k \in W
        /\ save'[k].desired = save[k].desired /\ save[k].todo \subseteq save[k].desired
        /\ chan[save[k].ch].st # "none"
    BY <1>3, <1>4, <1>11 DEF Inserted, SameCall, Publishing
  <2>3. V = W
    <3>1. \A l \in Saves : l \in V <=> l \in W
      BY <1>1, <2>2
    <3>2. QED
      BY <1>1, <3>1
  <2>4. CASE h = g /\ save[k].ch = c
    <3>1. k \in W /\ g \in save[k].desired
      BY <1>3, <1>5, <1>11, <2>2, <2>4 DEF Inserted
    <3>2. <<c, g>> \in links'
      BY <1>6, <2>1, <2>2, <2>4
    <3>3. Goal
      BY <2>2, <2>3, <3>1, <3>2
    <3>4. QED
      BY <1>2, <3>3 DEF Agreed, V
  <2>5. CASE ~(h = g /\ save[k].ch = c)
    <3>1. <<c, g>> \in links' <=> <<c, g>> \in links
      BY <2>1, <2>5
    <3>2. k \in W => save[k].ch = c
      BY <1>3
    <3>3. \A l \in W : g \in save[l].todo => g \in save'[l].todo
      BY <1>1, <2>1, <2>5, <3>2
    <3>4. \A l \in W : save'[l].desired = save[l].desired
      BY <1>1, <2>2
    <3>5. Goal
      BY <1>7, <2>3, <3>1, <3>3, <3>4
    <3>6. QED
      BY <1>2, <3>5 DEF Agreed, V
  <2>6. QED
    BY <2>4, <2>5
<1>12. CASE Finished(k)
  <2>1. (k \in V <=> k \in W) /\ save'[k].desired = save[k].desired /\ save'[k].todo = save[k].todo
        /\ links' = links
    BY <1>3, <1>4, <1>12 DEF Finished, SameCall
  <2>2. Goal
    <3>1. \A l \in Saves : l \in V <=> l \in W
      BY <1>1, <2>1
    <3>2. V = W
      BY <1>1, <3>1
    <3>3. \A l \in W : save'[l].desired = save[l].desired /\ save'[l].todo = save[l].todo
      BY <1>1, <2>1
    <3>4. QED
      BY <1>7, <2>1, <3>2, <3>3
  <2>3. QED
    BY <1>2, <2>2 DEF Agreed, V
<1>13. QED
  BY <1>8, <1>9, <1>10, <1>11, <1>12, SaveSteps DEF Lost

LEMMA SaveKeepsSettling ==
  ASSUME IInv, Settling, NEW k \in Saves, Save(k)
  PROVE  Settling'
<1>0. /\ \A l \in Saves \ {k} : save'[l] = save[l]
      /\ RowsKept /\ TypeOK /\ \A l \in Saves : Publishing(l)
  BY SaveKept DEF Kept, IInv, Settling
<1>1. past'.groups = past.groups /\ group' = group
  <2>1. past' = past \/ Remember
    BY DEF Save, Begin, CanWriteOwner, CanWriteLinks, CreateRow, UpdateRow, ShareRow, DeleteRow,
           Clear, Insert, Dropped
  <2>2. group' = group
    BY DEF Save, Begin, CanWriteOwner, CanWriteLinks, CreateRow, UpdateRow, ShareRow, DeleteRow,
           Clear, Insert, Dropped
  <2>3. QED
    BY <2>1, <2>2 DEF IInv, TypeOK, Remember
<1>2. GroupsStay'
  BY <1>1 DEF GroupsStay, Settling
<1>3. ASSUME NEW l \in Saves PROVE Publishing(l)'
  <2>1. CASE l = k
    BY <1>0, <2>1, SaveSteps
  <2>2. CASE l # k
    <3>1. save'[l] = save[l] /\ save[l].ch \in Chans /\ Publishing(l)
      BY <1>0, <2>2 DEF TypeOK, SaveState
    <3>2. QED
      BY <1>0, <3>1 DEF Publishing, RowsKept, Scope, Super
  <2>3. QED
    BY <2>1, <2>2
<1>4. ASSUME ~Faulty, NoneLost', NEW c \in Chans, NEW g \in past.groups
      PROVE  Agreed(c, g)'
  <2>1. save'[k].pc # "lost" /\ NoneLost
    BY <1>0, <1>4, SaveSteps DEF NoneLost
  <2>2. Agreed(c, g) /\ GroupsStay
    BY <1>4, <2>1 DEF Settling
  <2>3. QED
    BY <1>0, <1>4, <2>1, <2>2, AgreedStep
<1>5. QED
  BY <1>1, <1>2, <1>3, <1>4 DEF Settling

LEMMA GroupCallKeepsSettling ==
  ASSUME IInv, Settling, NEW k \in GroupCalls, GroupCall(k)
  PROVE  Settling'
<1>1. save' = save /\ chan' = chan /\ links' = links
  BY GroupCallKept DEF GroupKept
<1>2. past'.groups = past.groups /\ past'.given = past.given
  <2>1. past' = past \/ Remember
    BY DEF GroupCall, GroupBegin, GroupCheck, CreateGroup, DeleteGroup, AddMember, RemoveMember,
           GroupDropped
  <2>2. QED
    BY <2>1 DEF IInv, TypeOK, Remember
<1>3. \A g \in Groups : group[g] # "none" => group'[g] # "none"
  <2>1. TypeOK /\ gcall[k] \in GroupCallState
    BY DEF IInv, TypeOK
  <2>2. QED
    BY <2>1 DEF GroupCall, GroupBegin, GroupCheck, CreateGroup, DeleteGroup, AddMember, RemoveMember,
           GroupDropped, TypeOK, GroupCallState
<1>4. GroupsStay'
  BY <1>2, <1>3 DEF Settling, GroupsStay
<1>5. \A l \in Saves : Publishing(l)'
  BY <1>1 DEF Settling, Publishing, Scope, Super
<1>6. NoneLost' => NoneLost
  BY <1>1 DEF NoneLost
<1>7. ASSUME NEW c \in Chans, NEW g \in past.groups, Agreed(c, g)
      PROVE  Agreed(c, g)'
  <2>1. Writers(c, g)' = Writers(c, g)
    BY <1>1 DEF Writers, Reach, Scope, Super
  <2>2. QED
    BY <1>1, <1>2, <1>7, <2>1 DEF Agreed
<1>8. QED
  BY <1>2, <1>4, <1>5, <1>6, <1>7 DEF Settling

LEMMA InitSettling == Init => Settling
<1> SUFFICES ASSUME Init PROVE Settling
  OBVIOUS
<1>1. \A k \in Saves : save[k].pc = "new"
  BY DEF Init
<1>2. GroupsStay /\ past.given = links
  BY DEF Init, GroupsStay
<1>3. \A c \in Chans, g \in past.groups : Agreed(c, g)
  BY <1>1, <1>2 DEF Agreed, Writers
<1>4. QED
  BY <1>1, <1>2, <1>3 DEF Settling, Publishing

LEMMA NextKeepsSettling == IInv /\ Settling /\ [Next]_vars => Settling'
<1> SUFFICES ASSUME IInv, Settling, [Next]_vars PROVE Settling'
  OBVIOUS
<1>1. CASE UNCHANGED vars
  BY <1>1 DEF vars, Settling, GroupsStay, Publishing, NoneLost, Agreed, Writers, Reach, Scope, Super
<1>2. QED
  BY <1>1, SaveKeepsSettling, GroupCallKeepsSettling DEF Next

\* No interleaving of the DELETEs and INSERTs of set_groups_scoped and
\* link_groups, by any number of saves of any channels, loses what all the
\* saves in reach of a link agree on, nor touches a link out of their reach.
THEOREM SavesSettle == Spec => []SettledLinks
<1>1. Settling => SettledLinks
  <2> SUFFICES ASSUME Settling, ~Faulty, \A k \in Saves : save[k].pc \in {"new", "saved", "over"},
                      NEW c \in Chans, NEW g \in past.groups
               PROVE  LET K == Savers(c, g) IN
                      /\ K = {} => (<<c, g>> \in links <=> <<c, g>> \in past.given)
                      /\ K # {} /\ (\A k \in K : g \in save[k].desired) => <<c, g>> \in links
                      /\ K # {} /\ (\A k \in K : g \notin save[k].desired) => <<c, g>> \notin links
    BY Zenon DEF SettledLinks
  <2>1. Savers(c, g) = Writers(c, g)
    BY DEF Savers, Writers, Reach
  <2>2. Agreed(c, g)
    BY DEF Settling, NoneLost
  <2>3. \A k \in Writers(c, g) : save[k].todo = {}
    BY DEF Settling, Publishing, Writers
  <2>4. QED
    BY <2>1, <2>2, <2>3 DEF Agreed
<1>2. QED
  BY InitIInv, NextKeepsIInv, InitSettling, NextKeepsSettling, <1>1, PTL DEF Spec
=============================================================================
