------------------------------ MODULE Accounts ------------------------------
(***************************************************************************)
(* Users, login sessions and API tokens: tables users and api_tokens, the  *)
(* JWTs that are out, the middleware that lets a call in and the handlers  *)
(* behind it.                                                              *)
(*                                                                         *)
(* A JWT carries the user's id and the role the user had when it was       *)
(* signed.  The server keeps no session; it believes the JWT and looks up  *)
(* the rest, one SQL statement at a time, so users may be demoted,         *)
(* disabled or deleted between any two statements of a call.  Only         *)
(* change_password runs in a transaction.                                  *)
(***************************************************************************)
EXTENDS Naturals, FiniteSets

CONSTANTS
    Users,      \* ids of table users, in the order AUTOINCREMENT gives them
    Tokens,     \* ids of table api_tokens, likewise, from 1 too
    Groups,     \* live rows of table groups
    Calls,      \* requests, each made at most once
    Ops,        \* the handlers in use
    Passwords,
    Faulty,     \* may the middleware's look-up of the password flag fail?
    NoGroup

ASSUME AccountsAssumption ==
    /\ Users \subseteq Nat /\ 1 \in Users
    /\ Tokens \subseteq Nat \ {0}
    /\ NoGroup \notin Groups
    /\ Faulty \in BOOLEAN
    /\ Ops \subseteq {"login", "createUser", "updateUser", "deleteUser", "createToken",
                      "revokeToken", "changePassword", "setMember", "ownRow"}

VARIABLES
    user,       \* table users
    token,      \* table api_tokens
    member,     \* table group_members
    owners,     \* users to whom a channel, rule, project or template refers
    sessions,   \* the claims of the session JWTs ever signed
    apis,       \* the claims of the API JWTs ever signed, with the row of each
    call,       \* the requests
    past        \* history: who ever was a super-admin, a group admin, a member

vars == <<user, token, member, owners, sessions, apis, call, past>>

tables == <<user, token, member, owners>>

-----------------------------------------------------------------------------
Roles == {"admin", "user"}

RowState == {"none", "row", "gone"}     \* ids are never used again

UserRow == [st : RowState, role : Roles, enabled : BOOLEAN, pw : Passwords, must : BOOLEAN]

TokenRow == [st : RowState, user : Users, revoked : BOOLEAN]

\* A request: the claims of its JWT, what the statements so far have read,
\* and, as history, the row of its API JWT, whether that row was revoked and
\* whether the user has been flagged ever since the request came in.
CallState ==
    [pc : {"new", "auth", "claims", "run", "visible", "apply", "join", "sign", "over"},
     op : {"login", "createUser", "updateUser", "deleteUser", "createToken",
           "revokeToken", "changePassword"},
     kind : {"session", "api"}, sub : Users, role : Roles,
     adminOf : SUBSET Groups, seen : SUBSET Users,
     id : {0} \cup Users \cup Tokens, group : Groups \cup {NoGroup}, held : Roles,
     revoked : BOOLEAN, flagged : BOOLEAN]

TypeOK ==
    /\ user \in [Users -> UserRow]
    /\ token \in [Tokens -> TokenRow]
    /\ member \in [Groups -> [Users -> {"none", "member", "admin"}]]
    /\ owners \in SUBSET Users
    /\ sessions \in SUBSET (Users \X Roles)
    /\ apis \in SUBSET (Users \X Roles \X Tokens)
    /\ call \in [Calls -> CallState]
    /\ past \in [supers : SUBSET Users, admins : SUBSET (Users \X Groups),
                 members : SUBSET (Users \X Groups)]

\* A request that holds nothing, before it comes in and after the answer.
Blank(pc) ==
    [pc |-> pc, op |-> "login", kind |-> "session", sub |-> 1, role |-> "user",
     adminOf |-> {}, seen |-> {}, id |-> 0, group |-> NoGroup, held |-> "user",
     revoked |-> FALSE, flagged |-> FALSE]

Exists(u) == user[u].st = "row"

SuperAdmins == {u \in Users : Exists(u) /\ user[u].role = "admin"}
GroupAdmins == {p \in Users \X Groups : member[p[2]][p[1]] = "admin"}
Members == {p \in Users \X Groups : member[p[2]][p[1]] # "none"}

Remember ==
    past' = [supers  |-> past.supers \cup SuperAdmins',
             admins  |-> past.admins \cup GroupAdmins',
             members |-> past.members \cup Members']

(* A database in use: the seeded admin, a second user in any state, room   *)
(* for more; JWTs made with the roles of the moment.                       *)
Init ==
    /\ \E p \in Passwords, r \in Roles, e \in BOOLEAN, m \in BOOLEAN :
         user = [u \in Users |->
           [st |-> IF u > 2 THEN "none" ELSE "row",
            role |-> IF u = 1 THEN "admin" ELSE r,
            enabled |-> u = 1 \/ e, pw |-> p, must |-> u # 1 /\ m]]
    /\ token \in [Tokens -> TokenRow]
    /\ \A t \in Tokens :
         /\ token[t].st = "none" => token[t].user = 1
         /\ token[t].st # "gone" /\ ~token[t].revoked
         /\ token[t].st = "row" => Exists(token[t].user) /\ \A s \in Tokens : s < t => token[s].st = "row"
    /\ member \in [Groups -> [Users -> {"none", "member", "admin"}]]
    /\ \A g \in Groups, u \in Users : u = 1 \/ ~Exists(u) => member[g][u] = "none"
    /\ owners = {}
    /\ sessions = {<<u, user[u].role>> : u \in {v \in Users : Exists(v)}}
    /\ apis = {<<token[t].user, user[token[t].user].role, t>> : t \in {s \in Tokens : token[s].st = "row"}}
    /\ call = [k \in Calls |-> Blank("new")]
    /\ past = [supers |-> SuperAdmins, admins |-> GroupAdmins, members |-> Members]

-----------------------------------------------------------------------------
At(k, pc, op) == call[k].pc = pc /\ call[k].op = op

Goto(k, pc) == call' = [call EXCEPT ![k].pc = pc]

Answer(k) == call' = [call EXCEPT ![k] = Blank("over")]

Super(k) == call[k].role = "admin"

(* The middleware and extract_claims.                                      *)

Arrive(k) ==
    /\ call[k].pc = "new"
    /\ \E op \in Ops \ {"login", "setMember", "ownRow"} :
         \/ \E s \in sessions :
              call' = [call EXCEPT ![k] = [@ EXCEPT !.pc = "auth", !.op = op, !.kind = "session",
                         !.sub = s[1], !.role = s[2], !.flagged = Exists(s[1]) /\ user[s[1]].must]]
         \/ \E a \in apis :
              call' = [call EXCEPT ![k] = [@ EXCEPT !.pc = "auth", !.op = op, !.kind = "api",
                         !.sub = a[1], !.role = a[2],
                         !.revoked = token[a[3]].st # "row" \/ token[a[3]].revoked]]
    /\ UNCHANGED <<tables, sessions, apis, past>>

\* validate_token of an API JWT: the row looked up is the one whose id is
\* the sub of the claims, and that is the user's id.
Unrevoked(sub) == sub \in Tokens /\ token[sub].st = "row" /\ ~token[sub].revoked

\* A mutant of the next action: the flag holds API tokens back, not sessions.
ValidateApiFlag(k) ==
    /\ call[k].pc = "auth"
    /\ \/ /\ call[k].kind = "api"
          /\ Unrevoked(call[k].sub) /\ ~user[call[k].sub].must
          /\ Goto(k, IF call[k].op = "changePassword" THEN "run" ELSE "claims")
       \/ call[k].kind = "session" /\ Goto(k, "run")
    /\ UNCHANGED <<tables, sessions, apis, past>>

\* The middleware: a user who must change the password is kept from every
\* other endpoint, unless the look-up of the flag fails.
Validate(k) ==
    /\ call[k].pc = "auth"
    /\ \/ /\ call[k].kind = "api" /\ Unrevoked(call[k].sub)
          /\ Goto(k, IF call[k].op = "changePassword" THEN "run" ELSE "claims")
       \/ /\ call[k].kind = "session"
          /\ \/ call[k].op = "changePassword"
             \/ ~(Exists(call[k].sub) /\ user[call[k].sub].must)
             \/ Faulty
          /\ Goto(k, "run")
    /\ UNCHANGED <<tables, sessions, apis, past>>

\* extract_claims: the handler validates the token again.
Revalidate(k) ==
    /\ call[k].pc = "claims"
    /\ Unrevoked(call[k].sub)
    /\ Goto(k, "run")
    /\ UNCHANGED <<tables, sessions, apis, past>>

(* Logging in.                                                             *)

\* The SELECT and the check of the password.
LoginRead(k) ==
    /\ call[k].pc = "new" /\ "login" \in Ops
    /\ \E u \in Users, p \in Passwords :
         /\ Exists(u) /\ user[u].enabled /\ user[u].pw = p
         /\ call' = [call EXCEPT ![k] = [@ EXCEPT !.pc = "sign", !.op = "login", !.sub = u,
                                                  !.held = user[u].role]]
    /\ UNCHANGED <<tables, sessions, apis, past>>

\* The UPDATE of last_login, then the JWT, from what was read.
LoginSign(k) ==
    /\ At(k, "sign", "login")
    /\ sessions' = sessions \cup {<<call[k].sub, call[k].held>>}
    /\ Answer(k)
    /\ UNCHANGED <<tables, apis, past>>

(* Managing users.                                                         *)

AdminOf(u) == {g \in Groups : member[g][u] = "admin"}

\* effective(): the caller's groups.
Identify(k) ==
    /\ call[k].pc = "run" /\ call[k].op \in {"createUser", "updateUser"}
    /\ LET admins == AdminOf(call[k].sub)
           next == IF call[k].op = "updateUser" /\ ~Super(k) THEN "visible" ELSE "apply"
       IN  /\ call[k].op = "createUser" => Super(k) \/ admins # {}
           /\ call' = [call EXCEPT ![k] = [@ EXCEPT !.pc = next, !.adminOf = admins]]
    /\ UNCHANGED <<tables, sessions, apis, past>>

\* users_in_admin_groups.
ReadVisible(k) ==
    /\ call[k].pc = "visible"
    /\ call' = [call EXCEPT ![k] = [@ EXCEPT !.pc = "apply",
         !.seen = {u \in Users : \E g \in call[k].adminOf : member[g][u] # "none"}]]
    /\ UNCHANGED <<tables, sessions, apis, past>>

\* The id AUTOINCREMENT gives the next row.
IsNext(rows, id) == rows[id].st = "none" /\ \A i \in DOMAIN rows : i < id => rows[i].st # "none"

\* The group a new user joins: one the caller administers, the only one if
\* none is named; a super-admin names any or none.
Joins(k, g) ==
    IF Super(k) THEN g \in Groups \cup {NoGroup} ELSE g \in call[k].adminOf

\* create_user's INSERT; a group admin creates plain users only.
CreateUser(k) ==
    /\ At(k, "apply", "createUser")
    /\ \E u \in Users, g \in Groups \cup {NoGroup}, r \in Roles, p \in Passwords :
         /\ Joins(k, g) /\ IsNext(user, u)
         /\ user' = [user EXCEPT ![u] = [st |-> "row", role |-> IF Super(k) THEN r ELSE "user",
                                         enabled |-> TRUE, pw |-> p, must |-> TRUE]]
         /\ call' = [call EXCEPT ![k] = IF g = NoGroup THEN Blank("over")
                       ELSE [@ EXCEPT !.pc = "join", !.id = u, !.group = g]]
    /\ UNCHANGED <<token, member, owners, sessions, apis>>
    /\ Remember

\* INSERT OR IGNORE INTO group_members; the foreign key refuses a user who
\* has been deleted meanwhile, and the error is ignored.
JoinGroup(k) ==
    /\ At(k, "join", "createUser")
    /\ member' = IF Exists(call[k].id) /\ member[call[k].group][call[k].id] = "none"
                   THEN [member EXCEPT ![call[k].group][call[k].id] = "member"]
                   ELSE member
    /\ Answer(k)
    /\ UNCHANGED <<user, token, owners, sessions, apis>>
    /\ Remember

\* A mutant of the next definition: an absent role is written as well.
EditedNoKeep(row, r, e, p) ==
    [row EXCEPT !.role = r, !.enabled = IF e = "keep" THEN @ ELSE (e = "on"),
                !.pw = IF p = "keep" THEN @ ELSE p, !.must = (p # "keep") \/ @]

\* update_user: the fields of the request, each kept when it is absent.
Edited(row, r, e, p) ==
    [row EXCEPT !.role = IF r = "keep" THEN @ ELSE r,
                !.enabled = IF e = "keep" THEN @ ELSE (e = "on"),
                !.pw = IF p = "keep" THEN @ ELSE p,
                !.must = (p # "keep") \/ @]

\* Mutants of the next definition.
MayEditUnguarded(k, u, r, e) == Super(k) \/ (u \in call[k].seen /\ r # "admin")
MayEditGrant(k, u, r, e) ==
    /\ Super(k) \/ u \in call[k].seen
    /\ u = 1 => r \in {"keep", "admin"} /\ e # "off"

\* The refusals of update_user: out of the caller's groups, granting
\* super-admin, demoting or disabling the bootstrap admin.
MayEdit(k, u, r, e) ==
    /\ Super(k) \/ (u \in call[k].seen /\ r # "admin")
    /\ u = 1 => r \in {"keep", "admin"} /\ e # "off"

UpdateUser(k) ==
    /\ At(k, "apply", "updateUser")
    /\ \E u \in Users, r \in Roles \cup {"keep"}, e \in {"keep", "on", "off"}, p \in Passwords \cup {"keep"} :
         /\ MayEdit(k, u, r, e)
         /\ user' = [user EXCEPT ![u] = IF Exists(u) THEN Edited(@, r, e, p) ELSE @]
    /\ Answer(k)
    /\ UNCHANGED <<token, member, owners, sessions, apis>>
    /\ Remember

\* A mutant of the next action: no ON DELETE CASCADE on api_tokens.
DeleteUserKeepTokens(k) ==
    /\ At(k, "run", "deleteUser") /\ Super(k)
    /\ \E u \in Users \ {1, call[k].sub} :
         /\ Exists(u) /\ u \notin owners
         /\ user' = [user EXCEPT ![u].st = "gone"]
         /\ member' = [g \in Groups |-> [member[g] EXCEPT ![u] = "none"]]
    /\ Answer(k)
    /\ UNCHANGED <<token, owners, sessions, apis, past>>

\* delete_user: never oneself, never the bootstrap admin.  Tokens and
\* memberships go with the row; what the user owns makes the DELETE fail.
DeleteUser(k) ==
    /\ At(k, "run", "deleteUser") /\ Super(k)
    /\ \E u \in Users \ {1, call[k].sub} :
         /\ Exists(u) /\ u \notin owners
         /\ user' = [user EXCEPT ![u].st = "gone"]
         /\ token' = [t \in Tokens |->
              IF token[t].st = "row" /\ token[t].user = u
                THEN [token[t] EXCEPT !.st = "gone"] ELSE token[t]]
         /\ member' = [g \in Groups |-> [member[g] EXCEPT ![u] = "none"]]
    /\ Answer(k)
    /\ UNCHANGED <<owners, sessions, apis, past>>

\* change_password, in one transaction: the flag goes with the old password.
ChangePassword(k) ==
    /\ At(k, "run", "changePassword")
    /\ LET u == call[k].sub IN
       \E p \in Passwords :
         /\ Exists(u) /\ user[u].enabled
         /\ p # user[u].pw
         /\ user' = [user EXCEPT ![u].pw = p, ![u].must = FALSE]
         /\ call' = [l \in Calls |-> IF l = k THEN Blank("over")
                       ELSE [call[l] EXCEPT !.flagged = @ /\ call[l].sub # u]]
    /\ UNCHANGED <<token, member, owners, sessions, apis, past>>

(* API tokens.                                                             *)

\* create_api_token reads the user, to sign with the role of that moment.
TokenRead(k) ==
    /\ At(k, "run", "createToken")
    /\ Exists(call[k].sub)
    /\ call' = [call EXCEPT ![k] = [@ EXCEPT !.pc = "apply", !.held = user[call[k].sub].role]]
    /\ UNCHANGED <<tables, sessions, apis, past>>

\* Its INSERT, which fails when the user is gone.
TokenInsert(k) ==
    /\ At(k, "apply", "createToken")
    /\ Exists(call[k].sub)
    /\ \E t \in Tokens :
         /\ IsNext(token, t)
         /\ token' = [token EXCEPT ![t] = [st |-> "row", user |-> call[k].sub, revoked |-> FALSE]]
         /\ call' = [call EXCEPT ![k] = [@ EXCEPT !.pc = "sign", !.id = t]]
    /\ UNCHANGED <<user, member, owners, sessions, apis, past>>

\* The JWT, the UPDATE of token_hash, the answer.
TokenSign(k) ==
    /\ At(k, "sign", "createToken")
    /\ apis' = apis \cup {<<call[k].sub, call[k].held, call[k].id>>}
    /\ Answer(k)
    /\ UNCHANGED <<tables, sessions, past>>

\* revoke_api_token: the row is the caller's, or the caller a super-admin.
RevokeCheck(k) ==
    /\ At(k, "run", "revokeToken")
    /\ \E t \in Tokens :
         /\ token[t].st = "row" /\ (token[t].user = call[k].sub \/ Super(k))
         /\ call' = [call EXCEPT ![k] = [@ EXCEPT !.pc = "apply", !.id = t]]
    /\ UNCHANGED <<tables, sessions, apis, past>>

Revoke(k) ==
    /\ At(k, "apply", "revokeToken")
    /\ token' = [token EXCEPT ![call[k].id].revoked = @ \/ token[call[k].id].st = "row"]
    /\ Answer(k)
    /\ UNCHANGED <<user, member, owners, sessions, apis, past>>

(* Around the handlers.                                                    *)

\* An error answer (a refusal, a JWT past its time, a statement that fails),
\* a client that goes away, a crash.
Refused(k) ==
    /\ call[k].pc \notin {"new", "over"}
    /\ Answer(k)
    /\ UNCHANGED <<tables, sessions, apis, past>>

(* Calls of other handlers that bear on users.                             *)

\* add_member and remove_member, whose authority module Sharing is about.
SetMember(k) ==
    /\ call[k].pc = "new" /\ "setMember" \in Ops
    /\ \E g \in Groups, u \in Users, r \in {"none", "member", "admin"} :
         /\ Exists(u) /\ member[g][u] # r
         /\ member' = [member EXCEPT ![g][u] = r]
    /\ Answer(k)
    /\ UNCHANGED <<user, token, owners, sessions, apis>>
    /\ Remember

\* An INSERT with an owner_user_id, create_channel's for instance.
OwnRow(k) ==
    /\ call[k].pc = "new" /\ "ownRow" \in Ops
    /\ \E u \in Users : Exists(u) /\ owners' = owners \cup {u}
    /\ Answer(k)
    /\ UNCHANGED <<user, token, member, sessions, apis, past>>

Handle(k) ==
    \/ Arrive(k) \/ Validate(k) \/ Revalidate(k) \/ LoginRead(k) \/ LoginSign(k)
    \/ Identify(k) \/ ReadVisible(k) \/ CreateUser(k) \/ JoinGroup(k) \/ UpdateUser(k)
    \/ DeleteUser(k) \/ ChangePassword(k) \/ TokenRead(k) \/ TokenInsert(k) \/ TokenSign(k)
    \/ RevokeCheck(k) \/ Revoke(k) \/ Refused(k)
    \/ SetMember(k) \/ OwnRow(k)

Next == \E k \in Calls : Handle(k)

Spec == Init /\ [][Next]_vars

-----------------------------------------------------------------------------
\* Whatever is created for a user while the user is being deleted, no token,
\* membership or owned row is left without its user.
NoOrphans ==
    /\ \A t \in Tokens : token[t].st = "row" => Exists(token[t].user)
    /\ \A g \in Groups, u \in Users : member[g][u] # "none" => Exists(u)
    /\ \A u \in owners : Exists(u)

\* No sequence of role changes, disablings and deletions by any number of
\* admins, with JWTs however old, shuts the bootstrap admin out.
FirstAdminStays == Exists(1) /\ user[1].role = "admin" /\ user[1].enabled

Wrote(k) == call[k].pc \in {"run", "apply"} /\ call'[k].pc # call[k].pc

WritesByAuthority ==
    \A u \in Users : user'[u] # user[u] =>
      \E k \in Calls :
        /\ Wrote(k)
        /\ LET s == call[k].sub IN
           \/ s \in past.supers
           \/ s = u /\ user'[u] = [user[u] EXCEPT !.pw = user'[u].pw, !.must = FALSE]
           \/ /\ \E g \in Groups : /\ <<s, g>> \in past.admins
                                   /\ user[u].st = "none" \/ <<u, g>> \in past.members
              /\ user'[u].role = "admin" => user[u].st = "row" /\ user[u].role = "admin"

\* update_user and create_user act on an identity read statements earlier and
\* on a role signed perhaps a year ago.  Still, a user's row is only ever
\* changed by its user (the password), by someone who was a super-admin once,
\* or by someone who administered a group that had the user as a member; and
\* the latter never make a super-admin.
UserWritesAuthorized == [][WritesByAuthority]_vars

\* A session of a user who must change the password, and has had to since the
\* request came in, gets no further than the middleware, except to change it.
ForcedChange ==
    \A k \in Calls :
      /\ call[k].flagged /\ Exists(call[k].sub)
      /\ call[k].op # "changePassword"
      => call[k].pc \in {"auth", "over"}

\* "For API tokens, check if revoked": an API token whose row is revoked or
\* gone when the request comes in is refused.
RevokedRefused == \A k \in Calls : call[k].revoked => call[k].pc \in {"auth", "over"}
=============================================================================
