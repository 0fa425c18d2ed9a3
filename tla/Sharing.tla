------------------------------ MODULE Sharing ------------------------------
(***************************************************************************)
(* Groups and the sharing of channels: tables groups, group_members,       *)
(* channels (owner, is_global) and channel_groups, and the handlers that   *)
(* change them.                                                            *)
(*                                                                         *)
(* A handler resolves the caller's identity once, then runs its SQL        *)
(* statements one by one with no transaction.  Each statement is an        *)
(* action, so membership, rows and links may change between the check of a *)
(* permission and its use, and between the DELETE and the INSERTs of a     *)
(* re-publication.  A client that goes away stops its handler between two  *)
(* statements; a restart of the server does so to all of them.             *)
(***************************************************************************)
EXTENDS Naturals, FiniteSets

CONSTANTS
    Users,      \* rows of table users
    Supers,     \* the users whose token says role "admin"
    Groups,     \* identifiers of rows of table groups
    Chans,      \* identifiers of rows of table channels
    Saves,      \* calls of channel handlers, each made at most once
    GroupCalls, \* calls of group and membership handlers, likewise
    SaveOps,    \* channel handlers in use
    GroupOps,   \* group handlers in use
    Globals,    \* values of the is_global field of a call: "keep", "on", "off"
    Faulty,     \* may a statement on a link table fail?
    NoUser

ASSUME SharingAssumption ==
    /\ Supers \subseteq Users
    /\ NoUser \notin Users
    /\ SaveOps \subseteq {"create", "update", "share", "delete"}
    /\ GroupOps \subseteq {"createGroup", "deleteGroup", "addMember", "removeMember"}
    /\ Globals \subseteq {"keep", "on", "off"}
    /\ Faulty \in BOOLEAN

VARIABLES
    group,      \* table groups
    role,       \* table group_members: the role of each user in each group
    chan,       \* table channels
    links,      \* table channel_groups
    save,       \* the calls of channel handlers
    gcall,      \* the calls of group handlers
    past        \* history: who ever was an admin, what ever was linked, and
                \* the links and the groups at the start

vars == <<group, role, chan, links, save, gcall, past>>

-----------------------------------------------------------------------------
Roles == {"none", "member", "admin"}

RowState == {"none", "live", "deleted"}

ChanRow == [st : RowState, owner : Users \cup {NoUser}, global : BOOLEAN]

\* A call: what the client sent, the identity (Eff) resolved at its start,
\* and the links it has still to insert.
SaveState == [pc : {"new", "owner", "links", "apply", "clear", "insert",
                    "saved", "over", "lost"},
              op : {"create", "update", "share", "delete"},
              user : Users \cup {NoUser}, ch : Chans, desired : SUBSET Groups,
              hasIds : BOOLEAN, global : {"keep", "on", "off"},
              memberOf : SUBSET Groups, adminOf : SUBSET Groups, todo : SUBSET Groups]

GroupCallState == [pc : {"new", "check", "commit", "over"},
                   op : {"createGroup", "deleteGroup", "addMember", "removeMember"},
                   user : Users \cup {NoUser}, g : Groups, target : Users,
                   newRole : {"admin", "member"}]

TypeOK ==
    /\ group \in [Groups -> RowState]
    /\ role \in [Groups -> [Users -> Roles]]
    /\ chan \in [Chans -> ChanRow]
    /\ links \in SUBSET (Chans \X Groups)
    /\ save \in [Saves -> SaveState]
    /\ gcall \in [GroupCalls -> GroupCallState]
    /\ past \in [admins : SUBSET (Users \X Groups), links : SUBSET (Chans \X Groups),
                 given : SUBSET (Chans \X Groups), groups : SUBSET Groups]

\* effective(): the groups of a user, by role.
MemberOf(u) == {g \in Groups : role[g][u] # "none"}
AdminOf(u) == {g \in Groups : role[g][u] = "admin"}

AdminPairs == {p \in Users \X Groups : role[p[2]][p[1]] = "admin"}

LinksOf(c) == {g \in Groups : <<c, g>> \in links}

(* Any database the handlers can have left: every channel is owned (the     *)
(* seeded one by nobody) and linked in some way, every user has some role   *)
(* in every group.  What roles a super-admin has makes no difference.       *)
Init ==
    /\ group \in [Groups -> {"none", "live"}]
    /\ role \in [Groups -> [Users -> Roles]]
    /\ \A g \in Groups, u \in Users :
         group[g] = "none" \/ u \in Supers => role[g][u] = "none"
    /\ chan \in [Chans -> {[st |-> "none", owner |-> NoUser, global |-> FALSE]}
                          \cup [st : {"live"}, owner : Users \cup {NoUser}, global : {FALSE}]]
    /\ links \in SUBSET (Chans \X Groups)
    /\ \A l \in links : chan[l[1]].st # "none" /\ group[l[2]] # "none"
    /\ \E c \in Chans : save = [k \in Saves |->
         [pc |-> "new", op |-> "share", user |-> NoUser, ch |-> c, desired |-> {},
          hasIds |-> FALSE, global |-> "keep", memberOf |-> {}, adminOf |-> {},
          todo |-> {}]]
    /\ \E g \in Groups, u \in Users : gcall = [k \in GroupCalls |->
         [pc |-> "new", op |-> "addMember", user |-> NoUser, g |-> g,
          target |-> u, newRole |-> "member"]]
    /\ past = [admins |-> AdminPairs, links |-> links, given |-> links,
               groups |-> {g \in Groups : group[g] # "none"}]

-----------------------------------------------------------------------------
(* Who may do what, as the predicates of rbac.rs read it from the tables.   *)

\* can_read: two statements, evaluated here in one state.
CanRead(u, c) ==
    \/ u \in Supers
    \/ /\ chan[c].st = "live"
       /\ chan[c].global \/ chan[c].owner = u \/ LinksOf(c) \cap MemberOf(u) # {}

\* push_read_predicate appended to "deleted_at IS NULL": what a list shows.
Listed(u, c) ==
    /\ chan[c].st = "live"
    /\ \/ u \in Supers
       \/ chan[c].owner = u
       \/ chan[c].global
       \/ MemberOf(u) # {} /\ \E g \in MemberOf(u) : <<c, g>> \in links

\* A mutant of the next predicate: without "deleted_at IS NULL".
EventVisibleDeleted(u, c) ==
    u \in Supers \/ chan[c].owner = u \/ chan[c].global
                 \/ \E g \in MemberOf(u) : <<c, g>> \in links

\* push_event_scope: may the user see the events of this channel?
EventVisible(u, c) ==
    u \in Supers \/ /\ chan[c].st = "live"
                    /\ \/ chan[c].owner = u
                       \/ chan[c].global
                       \/ \E g \in MemberOf(u) : <<c, g>> \in links

-----------------------------------------------------------------------------
(* The channel handlers.                                                    *)

Remember == past' = [past EXCEPT !.admins = @ \cup AdminPairs', !.links = @ \cup links']

Super(k) == save[k].user \in Supers

\* The links a call may replace: set_groups_scoped's manageable.
Scope(k) == IF Super(k) THEN Groups ELSE save[k].memberOf

\* create_channel's choice of groups: those sent, else the only membership.
CreateGroups(u, sent) ==
    IF sent = {} /\ u \notin Supers /\ Cardinality(MemberOf(u)) = 1 THEN MemberOf(u) ELSE sent

\* effective(), and what each handler decides before its next statement.  A
\* client names a row it has seen: on any other identifier nothing has effect.
Begin(k) ==
    /\ save[k].pc = "new"
    /\ \E u \in Users, op \in SaveOps, c \in Chans, sent \in SUBSET Groups,
          ids \in BOOLEAN, glob \in Globals :
         LET desired == IF op = "create" THEN CreateGroups(u, sent) ELSE sent
             refused == /\ op = "create"
                        /\ u \notin Supers
                        /\ desired = {} \/ ~ desired \subseteq MemberOf(u)
         IN  /\ op = "create" => c = save[k].ch
             /\ op # "create" => chan[c].st # "none"
             /\ op # "update" => ids = (op # "delete")
             /\ ~ids => sent = {}
             /\ save' = [save EXCEPT ![k] =
                  [@ EXCEPT !.pc = CASE refused -> "over"
                                     [] ~refused /\ (op = "create" \/ u \in Supers) -> "apply"
                                     [] OTHER -> "owner",
                            !.op = op, !.user = u, !.ch = c, !.desired = desired,
                            !.hasIds = ids, !.global = glob,
                            !.memberOf = MemberOf(u), !.adminOf = AdminOf(u)]]
    /\ UNCHANGED <<group, role, chan, links, gcall, past>>

\* can_write, first statement: the owner of a live row.
CanWriteOwner(k) ==
    LET c == save[k].ch IN
    /\ save[k].pc = "owner"
    /\ save' = [save EXCEPT ![k].pc =
         CASE chan[c].st # "live" -> "over"
           [] chan[c].st = "live" /\ chan[c].owner = save[k].user -> "apply"
           [] OTHER -> IF save[k].adminOf = {} THEN "over" ELSE "links"]
    /\ UNCHANGED <<group, role, chan, links, gcall, past>>

\* can_write, second statement: a link to a group the caller administers.
CanWriteLinks(k) ==
    /\ save[k].pc = "links"
    /\ save' = [save EXCEPT ![k].pc =
         IF LinksOf(save[k].ch) \cap save[k].adminOf # {} THEN "apply" ELSE "over"]
    /\ UNCHANGED <<group, role, chan, links, gcall, past>>

ToggledByAnyone(k) == IF save[k].global # "keep"
                        THEN save[k].global = "on" ELSE chan[save[k].ch].global

\* The new is_global: as sent by a super-admin, else as it was.
Toggled(k) == IF Super(k) /\ save[k].global # "keep"
                THEN save[k].global = "on" ELSE chan[save[k].ch].global

\* INSERT INTO channels, owned by the caller; it fails when the name is taken.
CreateRow(k) ==
    /\ save[k].pc = "apply" /\ save[k].op = "create"
    /\ \/ \E c \in Chans :
            /\ chan[c].st = "none"
            /\ chan' = [chan EXCEPT ![c] =
                          [st |-> "live", owner |-> save[k].user,
                           global |-> Super(k) /\ save[k].global = "on"]]
            /\ save' = [save EXCEPT ![k] =
                          [@ EXCEPT !.pc = "insert", !.ch = c, !.todo = save[k].desired]]
       \/ /\ save' = [save EXCEPT ![k].pc = "over"]
          /\ UNCHANGED chan
    /\ UNCHANGED <<group, role, links, gcall, past>>

\* update_channel's UPDATE of a live row.  When it fails (the name is taken,
\* the row is gone) the links are re-published all the same.
UpdateRow(k) ==
    LET c == save[k].ch
        publish == save[k].hasIds /\ (Super(k) \/ save[k].desired \subseteq save[k].memberOf)
    IN  /\ save[k].pc = "apply" /\ save[k].op = "update"
        /\ \/ /\ chan[c].st = "live"
              /\ chan' = [chan EXCEPT ![c].global = Toggled(k)]
           \/ UNCHANGED chan
        /\ save' = [save EXCEPT ![k].pc = IF publish THEN "clear" ELSE "over"]
        /\ UNCHANGED <<group, role, links, gcall, past>>

\* set_share: the groups sent must be the caller's; then the UPDATE of
\* is_global, by a super-admin only.
ShareRow(k) ==
    LET c == save[k].ch IN
    /\ save[k].pc = "apply" /\ save[k].op = "share"
    /\ \/ /\ ~Super(k)
          /\ ~ save[k].desired \subseteq save[k].memberOf
          /\ save' = [save EXCEPT ![k].pc = "over"]
          /\ UNCHANGED chan
       \/ /\ Super(k) \/ save[k].desired \subseteq save[k].memberOf
          /\ save' = [save EXCEPT ![k].pc = "clear"]
          /\ chan' = IF chan[c].st = "live"
                       THEN [chan EXCEPT ![c].global = Toggled(k)] ELSE chan
    /\ UNCHANGED <<group, role, links, gcall, past>>

\* delete_channel's soft delete.
DeleteRow(k) ==
    LET c == save[k].ch IN
    /\ save[k].pc = "apply" /\ save[k].op = "delete"
    /\ save' = [save EXCEPT ![k].pc = "over"]
    /\ chan' = IF chan[c].st = "live"
                 THEN [chan EXCEPT ![c].st = "deleted"] ELSE chan
    /\ UNCHANGED <<group, role, links, gcall, past>>

\* A mutant of the next action: every caller has a super-admin's reach.
ClearAll(k) ==
    /\ save[k].pc = "clear"
    /\ links' = {l \in links : l[1] # save[k].ch}
    /\ save' = [save EXCEPT ![k] = [@ EXCEPT !.pc = "insert", !.todo = save[k].desired]]
    /\ UNCHANGED <<group, role, chan, gcall>>
    /\ Remember

\* set_groups_scoped: DELETE the links in the caller's reach.
Clear(k) ==
    /\ save[k].pc = "clear"
    /\ \/ links' = {l \in links : ~(l[1] = save[k].ch /\ l[2] \in Scope(k))}
       \/ Faulty /\ UNCHANGED links
    /\ save' = [save EXCEPT ![k] = [@ EXCEPT !.pc = "insert", !.todo = save[k].desired]]
    /\ UNCHANGED <<group, role, chan, gcall>>
    /\ Remember

\* link_groups: one INSERT OR IGNORE for each group, whose failure (a group
\* or a channel that does not exist) is ignored.
Insert(k) ==
    /\ save[k].pc = "insert"
    /\ \/ \E g \in save[k].todo :
            /\ \/ /\ group[g] # "none" /\ chan[save[k].ch].st # "none"
                  /\ links' = links \cup {<<save[k].ch, g>>}
               \/ /\ group[g] = "none" \/ chan[save[k].ch].st = "none" \/ Faulty
                  /\ UNCHANGED links
            /\ save' = [save EXCEPT ![k].todo = @ \ {g}]
       \/ /\ save[k].todo = {}
          /\ save' = [save EXCEPT ![k].pc = "saved"]
          /\ UNCHANGED links
    /\ UNCHANGED <<group, role, chan, gcall>>
    /\ Remember

Busy(k) == save[k].pc \notin {"new", "saved", "over", "lost"}

\* The client goes away and the runtime drops the handler.
Dropped(k) ==
    /\ Busy(k)
    /\ save' = [save EXCEPT ![k].pc = "lost"]
    /\ UNCHANGED <<group, role, chan, links, gcall, past>>

Save(k) == \/ Begin(k) \/ CanWriteOwner(k) \/ CanWriteLinks(k)
           \/ CreateRow(k) \/ UpdateRow(k) \/ ShareRow(k) \/ DeleteRow(k)
           \/ Clear(k) \/ Insert(k) \/ Dropped(k)

-----------------------------------------------------------------------------
(* The group handlers.                                                      *)

\* Eff::is_member, which guards the read-only group handlers.
IsGroupMember(u, g) == u \in Supers \/ role[g][u] # "none"

\* Eff::is_group_admin.
IsGroupAdmin(u, g) == u \in Supers \/ role[g][u] = "admin"

\* effective() and the check of the caller's authority.
GroupBegin(k) ==
    /\ gcall[k].pc = "new"
    /\ \E u \in Users, op \in GroupOps, g \in Groups, target \in Users, r \in {"admin", "member"} :
         LET allowed == IF op \in {"createGroup", "deleteGroup"}
                          THEN u \in Supers ELSE IsGroupAdmin(u, g)
         IN  gcall' = [gcall EXCEPT ![k] =
               [pc |-> IF allowed THEN IF op = "addMember" THEN "check" ELSE "commit" ELSE "over",
                op |-> op, user |-> u, g |-> g, target |-> target, newRole |-> r]]
    /\ UNCHANGED <<group, role, chan, links, save, past>>

\* add_member looks for a live group before it inserts.
GroupCheck(k) ==
    /\ gcall[k].pc = "check"
    /\ gcall' = [gcall EXCEPT ![k].pc = IF group[gcall[k].g] = "live" THEN "commit" ELSE "over"]
    /\ UNCHANGED <<group, role, chan, links, save, past>>

CreateGroup(k) ==
    /\ gcall[k].pc = "commit" /\ gcall[k].op = "createGroup"
    /\ group[gcall[k].g] = "none"
    /\ group' = [group EXCEPT ![gcall[k].g] = "live"]
    /\ gcall' = [gcall EXCEPT ![k].pc = "over"]
    /\ UNCHANGED <<role, chan, links, save, past>>

\* A soft delete: memberships and links stay.
DeleteGroup(k) ==
    /\ gcall[k].pc = "commit" /\ gcall[k].op = "deleteGroup"
    /\ group' = [group EXCEPT ![gcall[k].g] = IF @ = "live" THEN "deleted" ELSE @]
    /\ gcall' = [gcall EXCEPT ![k].pc = "over"]
    /\ UNCHANGED <<role, chan, links, save, past>>

\* A mutant of the next action: a role the handler did not validate.
AddMemberAnyRole(k) ==
    /\ gcall[k].pc = "commit" /\ gcall[k].op = "addMember"
    /\ role' = [role EXCEPT ![gcall[k].g][gcall[k].target] = "owner"]
    /\ gcall' = [gcall EXCEPT ![k].pc = "over"]
    /\ UNCHANGED <<group, chan, links, save>>
    /\ Remember

\* INSERT ... ON CONFLICT DO UPDATE SET role.
AddMember(k) ==
    /\ gcall[k].pc = "commit" /\ gcall[k].op = "addMember"
    /\ role' = [role EXCEPT ![gcall[k].g][gcall[k].target] = gcall[k].newRole]
    /\ gcall' = [gcall EXCEPT ![k].pc = "over"]
    /\ UNCHANGED <<group, chan, links, save>>
    /\ Remember

RemoveMember(k) ==
    /\ gcall[k].pc = "commit" /\ gcall[k].op = "removeMember"
    /\ role' = [role EXCEPT ![gcall[k].g][gcall[k].target] = "none"]
    /\ gcall' = [gcall EXCEPT ![k].pc = "over"]
    /\ UNCHANGED <<group, chan, links, save>>
    /\ Remember

\* The statement fails, or the client went away.
GroupDropped(k) ==
    /\ gcall[k].pc \in {"check", "commit"}
    /\ gcall' = [gcall EXCEPT ![k].pc = "over"]
    /\ UNCHANGED <<group, role, chan, links, save, past>>

GroupCall(k) == \/ GroupBegin(k) \/ GroupCheck(k) \/ CreateGroup(k) \/ DeleteGroup(k)
                \/ AddMember(k) \/ RemoveMember(k) \/ GroupDropped(k)

Next == (\E k \in Saves : Save(k)) \/ (\E k \in GroupCalls : GroupCall(k))

Spec == Init /\ [][Next]_vars

-----------------------------------------------------------------------------
(* What makes sharing correct.                                              *)

\* The permission of a write survives the gap between its check and its use
\* in one form: who changes a channel or its links is a super-admin, its
\* owner, or once administered a group that the channel was once shared to,
\* and who changes a membership is a super-admin or once administered that
\* group, whatever the changes of roles and links in between.
AuthorizedWrites ==
    [][/\ \A c \in Chans : chan'[c] # chan[c] \/ LinksOf(c)' # LinksOf(c) =>
            \E k \in Saves :
              /\ save'[k] # save[k]
              /\ LET u == save[k].user IN
                 \/ u \in Supers
                 \/ u = chan'[c].owner
                 \/ \E g \in Groups : <<u, g>> \in past.admins /\ <<c, g>> \in past.links
       /\ \A g \in Groups : role'[g] # role[g] =>
            \E k \in GroupCalls :
              /\ gcall'[k] # gcall[k]
              /\ gcall[k].user \in Supers \/ <<gcall[k].user, g>> \in past.admins]_vars

\* Only a super-admin's call makes a channel org-wide, whatever the handler.
GlobalBySuper ==
    [][\A c \in Chans : chan'[c].global # chan[c].global =>
         \E k \in Saves : save'[k] # save[k] /\ Super(k)]_vars

Savers(c, g) ==
    {k \in Saves : /\ save[k].pc = "saved" /\ save[k].ch = c
                   /\ g \in IF save[k].op = "create" THEN save[k].desired ELSE Scope(k)}

\* Concurrent saves of one channel: once all have finished, a link to a group
\* that every save in reach of it wanted is there, one that none of them
\* wanted is gone, and a link out of the reach of all of them is as it was.
\* No interleaving of their DELETEs and INSERTs loses an agreed outcome.
SettledLinks ==
    (~Faulty /\ \A k \in Saves : save[k].pc \in {"new", "saved", "over"}) =>
      \A c \in Chans, g \in past.groups :
        LET K == Savers(c, g) IN
        /\ K = {} => (<<c, g>> \in links <=> <<c, g>> \in past.given)
        /\ K # {} /\ (\A k \in K : g \in save[k].desired) => <<c, g>> \in links
        /\ K # {} /\ (\A k \in K : g \notin save[k].desired) => <<c, g>> \notin links

\* The three places that decide what a user may read agree in every state
\* the handlers can leave: the look-up of one channel (can_read), the list of
\* channels and the scope of the event log.
ReadScopesAgree ==
    \A u \in Users, c \in Chans : chan[c].st # "none" =>
      /\ u \notin Supers => (CanRead(u, c) <=> Listed(u, c))
      /\ CanRead(u, c) <=> EventVisible(u, c)
=============================================================================
