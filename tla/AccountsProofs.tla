--------------------------- MODULE AccountsProofs ---------------------------
(***************************************************************************)
(* Type correctness of Accounts; that nothing outlives its user, that the  *)
(* bootstrap admin is never shut out, that every write to a user's row     *)
(* traces back to an authority once held, and that a user who must change  *)
(* the password gets to do nothing else.                                   *)
(***************************************************************************)
EXTENDS Accounts, TLAPS

PastType == [supers : SUBSET Users, admins : SUBSET (Users \X Groups),
             members : SUBSET (Users \X Groups)]

(* The history holds what the tables hold and what the JWTs claim.          *)
History ==
    /\ SuperAdmins \subseteq past.supers
    /\ GroupAdmins \subseteq past.admins
    /\ Members \subseteq past.members
    /\ \A s \in sessions : s[2] = "admin" => s[1] \in past.supers
    /\ \A a \in apis : a[2] = "admin" => a[1] \in past.supers

(* What a request has read was true once.                                   *)
Holds(c, p) ==
    /\ c.role = "admin" => c.sub \in p.supers
    /\ c.held = "admin" => c.sub \in p.supers
    /\ \A g \in c.adminOf : <<c.sub, g>> \in p.admins
    /\ \A u \in c.seen : \E g \in Groups : <<c.sub, g>> \in p.admins /\ <<u, g>> \in p.members
    /\ c.pc = "new" => c.role = "user" /\ c.held = "user" /\ c.adminOf = {} /\ c.seen = {}
    /\ c.pc = "sign" => c.op = "login" \/ c.id \in Tokens

Held == \A k \in Calls : Holds(call[k], past)

IInv == TypeOK /\ NoOrphans /\ FirstAdminStays /\ History /\ Held

PastKept ==
    /\ past.supers \subseteq past'.supers
    /\ past.admins \subseteq past'.admins
    /\ past.members \subseteq past'.members

-----------------------------------------------------------------------------
(* One request moves to the state v.                                        *)
CallMoves(k, v) ==
    /\ v \in CallState /\ Holds(v, past')
    /\ call' = [call EXCEPT ![k] = v]

LEMMA HoldsLonger ==
  ASSUME NEW c, NEW p, NEW q, Holds(c, p),
         p.supers \subseteq q.supers, p.admins \subseteq q.admins, p.members \subseteq q.members
  PROVE  Holds(c, q)
BY DEF Holds

LEMMA CallsKept ==
  ASSUME TypeOK, Held, PastKept, NEW k \in Calls, NEW v, CallMoves(k, v)
  PROVE  call' \in [Calls -> CallState] /\ Held'
<1>1. call' \in [Calls -> CallState]
  BY DEF TypeOK, CallMoves
<1>2. ASSUME NEW l \in Calls PROVE Holds(call'[l], past')
  <2>1. CASE l = k
    BY <2>1 DEF TypeOK, CallMoves
  <2>2. CASE l # k
    <3>1. call'[l] = call[l] /\ Holds(call[l], past)
      BY <2>2 DEF TypeOK, CallMoves, Held
    <3>2. QED BY <3>1, HoldsLonger DEF PastKept
  <2>3. QED BY <2>1, <2>2
<1>3. QED BY <1>1, <1>2 DEF Held

LEMMA BlankHolds ==
  ASSUME NEW pc \in {"new", "over"}, NEW p
  PROVE  Blank(pc) \in CallState /\ Holds(Blank(pc), p)
<1>1. Blank(pc) \in CallState
  BY AccountsAssumption DEF Blank, CallState, Roles
<1>2. Holds(Blank(pc), p)
  BY DEF Blank, Holds
<1>3. QED BY <1>1, <1>2

LEMMA Answered ==
  ASSUME NEW k \in Calls, Answer(k)
  PROVE  CallMoves(k, Blank("over"))
BY BlankHolds DEF Answer, CallMoves

(* A request that goes on with what it has.                                 *)
LEMMA GoesOn ==
  ASSUME TypeOK, Held, PastKept, NEW k \in Calls,
         NEW pc \in {"auth", "claims", "run", "visible", "apply", "join"}, Goto(k, pc)
  PROVE  \E v : CallMoves(k, v)
<1> DEFINE v == [call[k] EXCEPT !.pc = pc]
<1>0. call[k] \in CallState
  BY DEF TypeOK
<1>1. v \in CallState
  BY <1>0 DEF CallState
<1>2. Holds(v, past')
  <2>1. /\ v.role = call[k].role /\ v.held = call[k].held /\ v.sub = call[k].sub
        /\ v.adminOf = call[k].adminOf /\ v.seen = call[k].seen /\ v.pc \notin {"new", "sign"}
    BY DEF TypeOK, CallState
  <2>2. Holds(v, past)
    <3> HIDE DEF v
    <3> QED BY <2>1 DEF Held, Holds
  <2>3. QED BY <2>2, HoldsLonger DEF PastKept
<1>3. call' = [call EXCEPT ![k] = v]
  BY DEF Goto
<1>4. QED BY <1>1, <1>2, <1>3 DEF CallMoves

-----------------------------------------------------------------------------
(* Steps that write to no table.                                            *)

LEMMA ArriveMoves ==
  ASSUME IInv, NEW k \in Calls, Arrive(k)
  PROVE  \E v : CallMoves(k, v)
<1> USE AccountsAssumption
<1>0. call[k] \in CallState /\ Holds(call[k], past) /\ call[k].pc = "new" /\ past' = past
  BY DEF IInv, TypeOK, Held, Arrive
<1>1. PICK op \in Ops \ {"login", "setMember", "ownRow"} :
         \/ \E s \in sessions :
              call' = [call EXCEPT ![k] = [@ EXCEPT !.pc = "auth", !.op = op, !.kind = "session",
                         !.sub = s[1], !.role = s[2], !.flagged = Exists(s[1]) /\ user[s[1]].must]]
         \/ \E a \in apis :
              call' = [call EXCEPT ![k] = [@ EXCEPT !.pc = "auth", !.op = op, !.kind = "api",
                         !.sub = a[1], !.role = a[2],
                         !.revoked = token[a[3]].st # "row" \/ token[a[3]].revoked]]
  BY Zenon DEF Arrive
<1>2. op \in {"createUser", "updateUser", "deleteUser", "createToken", "revokeToken",
              "changePassword"}
  OBVIOUS
<1>3. ASSUME NEW s \in sessions,
             call' = [call EXCEPT ![k] = [@ EXCEPT !.pc = "auth", !.op = op, !.kind = "session",
                         !.sub = s[1], !.role = s[2], !.flagged = Exists(s[1]) /\ user[s[1]].must]]
      PROVE  \E v : CallMoves(k, v)
  <2>1. s[1] \in Users /\ s[2] \in Roles /\ (s[2] = "admin" => s[1] \in past.supers)
    BY DEF IInv, TypeOK, History
  <2>2. (Exists(s[1]) /\ user[s[1]].must) \in BOOLEAN
    BY DEF Exists
  <2> DEFINE f == Exists(s[1]) /\ user[s[1]].must
             w == [call[k] EXCEPT !.pc = "auth", !.op = op, !.kind = "session"]
             v == [w EXCEPT !.sub = s[1], !.role = s[2], !.flagged = f]
  <2>3. f \in BOOLEAN
    BY <2>2
  <2>4. call' = [call EXCEPT ![k] = v]
    BY <1>3
  <2> HIDE DEF f
  <2>5. w \in CallState /\ w.held = "user" /\ w.adminOf = {} /\ w.seen = {} /\ w.pc = "auth"
    BY <1>0, <1>2 DEF CallState, Holds
  <2>6. v \in CallState /\ v.held = "user" /\ v.adminOf = {} /\ v.seen = {} /\ v.pc = "auth"
        /\ v.sub = s[1] /\ v.role = s[2]
    <3> HIDE DEF w
    <3> QED BY <2>1, <2>3, <2>5 DEF CallState
  <2>7. Holds(v, past')
    <3> HIDE DEF v
    <3> QED BY <1>0, <2>1, <2>6 DEF Holds
  <2>8. QED BY <2>4, <2>6, <2>7 DEF CallMoves
<1>4. ASSUME NEW a \in apis,
             call' = [call EXCEPT ![k] = [@ EXCEPT !.pc = "auth", !.op = op, !.kind = "api",
                         !.sub = a[1], !.role = a[2],
                         !.revoked = token[a[3]].st # "row" \/ token[a[3]].revoked]]
      PROVE  \E v : CallMoves(k, v)
  <2>1. a[1] \in Users /\ a[2] \in Roles /\ (a[2] = "admin" => a[1] \in past.supers)
    BY DEF IInv, TypeOK, History
  <2> DEFINE f == token[a[3]].st # "row" \/ token[a[3]].revoked
             w == [call[k] EXCEPT !.pc = "auth", !.op = op, !.kind = "api"]
             v == [w EXCEPT !.sub = a[1], !.role = a[2], !.revoked = f]
  <2>3. f \in BOOLEAN
    OBVIOUS
  <2>4. call' = [call EXCEPT ![k] = v]
    BY <1>4
  <2> HIDE DEF f
  <2>5. w \in CallState /\ w.held = "user" /\ w.adminOf = {} /\ w.seen = {} /\ w.pc = "auth"
    BY <1>0, <1>2 DEF CallState, Holds
  <2>6. v \in CallState /\ v.held = "user" /\ v.adminOf = {} /\ v.seen = {} /\ v.pc = "auth"
        /\ v.sub = a[1] /\ v.role = a[2]
    <3> HIDE DEF w
    <3> QED BY <2>1, <2>3, <2>5 DEF CallState
  <2>7. Holds(v, past')
    <3> HIDE DEF v
    <3> QED BY <1>0, <2>1, <2>6 DEF Holds
  <2>8. QED BY <2>4, <2>6, <2>7 DEF CallMoves
<1>5. QED BY <1>1, <1>3, <1>4

\* A step to a state of the request that reads some of its fields anew.
LEMMA Reads ==
  ASSUME IInv, NEW k \in Calls, NEW v \in CallState, past' = past,
         call' = [call EXCEPT ![k] = v], Holds(v, past)
  PROVE  \E w : CallMoves(k, w)
BY DEF CallMoves

LEMMA LoginReadMoves ==
  ASSUME IInv, NEW k \in Calls, LoginRead(k)
  PROVE  \E v : CallMoves(k, v)
<1>0. call[k] \in CallState /\ Holds(call[k], past) /\ call[k].pc = "new" /\ past' = past
  BY DEF IInv, TypeOK, Held, LoginRead
<1>1. PICK u \in Users, p \in Passwords :
         /\ Exists(u) /\ user[u].enabled /\ user[u].pw = p
         /\ call' = [call EXCEPT ![k] = [@ EXCEPT !.pc = "sign", !.op = "login", !.sub = u,
                                                  !.held = user[u].role]]
  BY Zenon DEF LoginRead
<1>2. user[u].role \in Roles /\ (user[u].role = "admin" => u \in past.supers)
  BY <1>1 DEF IInv, TypeOK, UserRow, History, SuperAdmins, Exists
<1> DEFINE w == [call[k] EXCEPT !.pc = "sign", !.op = "login"]
           v == [w EXCEPT !.sub = u, !.held = user[u].role]
<1>3. call' = [call EXCEPT ![k] = v]
  BY <1>1
<1>4. w \in CallState /\ w.role = "user" /\ w.adminOf = {} /\ w.seen = {}
      /\ w.pc = "sign" /\ w.op = "login"
  BY <1>0 DEF CallState, Holds
<1>5. v \in CallState /\ v.role = "user" /\ v.adminOf = {} /\ v.seen = {}
      /\ v.pc = "sign" /\ v.op = "login" /\ v.sub = u /\ v.held = user[u].role
  <2> HIDE DEF w
  <2> QED BY <1>2, <1>4 DEF CallState
<1> HIDE DEF v
<1>6. Holds(v, past)
  BY <1>2, <1>5 DEF Holds
<1>7. QED BY <1>0, <1>3, <1>5, <1>6, Reads

LEMMA IdentifyMoves ==
  ASSUME IInv, NEW k \in Calls, Identify(k)
  PROVE  \E v : CallMoves(k, v)
<1>0. call[k] \in CallState /\ Holds(call[k], past) /\ past' = past
  BY DEF IInv, TypeOK, Held, Identify
<1> DEFINE next == IF call[k].op = "updateUser" /\ ~Super(k) THEN "visible" ELSE "apply"
           A == AdminOf(call[k].sub)
           v == [call[k] EXCEPT !.pc = next, !.adminOf = A]
<1>1. call' = [call EXCEPT ![k] = v]
  BY DEF Identify
<1>2. A \in SUBSET Groups /\ \A g \in A : <<call[k].sub, g>> \in past.admins
  <2>1. call[k].sub \in Users
    BY <1>0 DEF CallState
  <2>2. QED BY <2>1 DEF AdminOf, GroupAdmins, IInv, History
<1>3. next \in {"visible", "apply"}
  OBVIOUS
<1> HIDE DEF next, A
<1>4. /\ v \in CallState /\ v.role = call[k].role /\ v.held = call[k].held
      /\ v.sub = call[k].sub /\ v.adminOf = A /\ v.seen = call[k].seen /\ v.pc \notin {"new", "sign"}
  BY <1>0, <1>2, <1>3 DEF CallState
<1> HIDE DEF v
<1>5. Holds(v, past)
  BY <1>0, <1>2, <1>4 DEF Holds
<1>6. QED BY <1>0, <1>1, <1>4, <1>5, Reads

LEMMA ReadVisibleMoves ==
  ASSUME IInv, NEW k \in Calls, ReadVisible(k)
  PROVE  \E v : CallMoves(k, v)
<1>0. call[k] \in CallState /\ Holds(call[k], past) /\ past' = past
  BY DEF IInv, TypeOK, Held, ReadVisible
<1> DEFINE S == {u \in Users : \E g \in call[k].adminOf : member[g][u] # "none"}
           v == [call[k] EXCEPT !.pc = "apply", !.seen = S]
<1>1. call' = [call EXCEPT ![k] = v]
  BY DEF ReadVisible
<1>2. call[k].adminOf \in SUBSET Groups
  BY <1>0 DEF CallState
<1>3. \A u \in S : \E g \in Groups : <<call[k].sub, g>> \in past.admins /\ <<u, g>> \in past.members
  BY <1>0, <1>2 DEF Holds, IInv, History, Members
<1>4. S \in SUBSET Users
  OBVIOUS
<1> HIDE DEF S
<1>5. /\ v \in CallState /\ v.role = call[k].role /\ v.held = call[k].held
      /\ v.sub = call[k].sub /\ v.adminOf = call[k].adminOf /\ v.seen = S /\ v.pc \notin {"new", "sign"}
  BY <1>0, <1>4 DEF CallState
<1> HIDE DEF v
<1>6. Holds(v, past)
  BY <1>0, <1>3, <1>5 DEF Holds
<1>7. QED BY <1>0, <1>1, <1>5, <1>6, Reads

LEMMA TokenReadMoves ==
  ASSUME IInv, NEW k \in Calls, TokenRead(k)
  PROVE  \E v : CallMoves(k, v)
<1>0. /\ call[k] \in CallState /\ Holds(call[k], past) /\ past' = past
      /\ Exists(call[k].sub)
  BY DEF IInv, TypeOK, Held, TokenRead
<1> DEFINE r == user[call[k].sub].role
           v == [call[k] EXCEPT !.pc = "apply", !.held = r]
<1>1. call' = [call EXCEPT ![k] = v]
  BY DEF TokenRead
<1>2. call[k].sub \in Users
  BY <1>0 DEF CallState
<1>3. r \in Roles /\ (r = "admin" => call[k].sub \in past.supers)
  BY <1>0, <1>2 DEF IInv, TypeOK, UserRow, History, SuperAdmins
<1> HIDE DEF r
<1>4. /\ v \in CallState /\ v.role = call[k].role /\ v.held = r /\ v.sub = call[k].sub
      /\ v.adminOf = call[k].adminOf /\ v.seen = call[k].seen /\ v.pc \notin {"new", "sign"}
  BY <1>0, <1>3 DEF CallState
<1> HIDE DEF v
<1>5. Holds(v, past)
  BY <1>0, <1>3, <1>4 DEF Holds
<1>6. QED BY <1>0, <1>1, <1>4, <1>5, Reads

LEMMA RevokeCheckMoves ==
  ASSUME IInv, NEW k \in Calls, RevokeCheck(k)
  PROVE  \E v : CallMoves(k, v)
<1>0. call[k] \in CallState /\ Holds(call[k], past) /\ past' = past
  BY DEF IInv, TypeOK, Held, RevokeCheck
<1>1. PICK t \in Tokens :
         /\ token[t].st = "row" /\ (token[t].user = call[k].sub \/ Super(k))
         /\ call' = [call EXCEPT ![k] = [@ EXCEPT !.pc = "apply", !.id = t]]
  BY Zenon DEF RevokeCheck
<1> DEFINE v == [call[k] EXCEPT !.pc = "apply", !.id = t]
<1>2. call' = [call EXCEPT ![k] = v]
  BY <1>1
<1>3. /\ v \in CallState /\ v.role = call[k].role /\ v.held = call[k].held
      /\ v.sub = call[k].sub /\ v.adminOf = call[k].adminOf /\ v.seen = call[k].seen
      /\ v.pc \notin {"new", "sign"}
  BY <1>0 DEF CallState
<1> HIDE DEF v
<1>4. Holds(v, past)
  BY <1>0, <1>3 DEF Holds
<1>5. QED BY <1>0, <1>2, <1>3, <1>4, Reads

ReadStep(k) ==
    \/ Arrive(k) \/ Validate(k) \/ Revalidate(k) \/ LoginRead(k) \/ Identify(k)
    \/ ReadVisible(k) \/ TokenRead(k) \/ RevokeCheck(k) \/ Refused(k)

LEMMA ReadStepKeepsIInv ==
  ASSUME IInv, NEW k \in Calls, ReadStep(k)
  PROVE  IInv'
<1>1. UNCHANGED <<tables, sessions, apis, past>>
  BY DEF ReadStep, Arrive, Validate, Revalidate, LoginRead, Identify, ReadVisible, TokenRead,
         RevokeCheck, Refused
<1>2. PastKept
  BY <1>1 DEF PastKept
<1>3. PICK v : CallMoves(k, v)
  <2>1. CASE Validate(k)
    <3>1. \E pc \in {"claims", "run"} : Goto(k, pc)
      BY <2>1 DEF Validate
    <3>2. QED BY <1>2, <3>1, GoesOn DEF IInv
  <2>2. CASE Revalidate(k)
    BY <1>2, <2>2, GoesOn DEF IInv, Revalidate
  <2>3. CASE Refused(k)
    BY <2>3, Answered DEF Refused
  <2>4. QED
    BY <2>1, <2>2, <2>3, ArriveMoves, LoginReadMoves, IdentifyMoves, ReadVisibleMoves,
       TokenReadMoves, RevokeCheckMoves DEF ReadStep
<1>4. call' \in [Calls -> CallState] /\ Held'
  BY <1>2, <1>3, CallsKept DEF IInv
<1>5. TypeOK'
  BY <1>1, <1>4 DEF IInv, TypeOK, tables
<1>6. NoOrphans' /\ FirstAdminStays'
  BY <1>1 DEF IInv, NoOrphans, FirstAdminStays, Exists, tables
<1>7. History'
  BY <1>1 DEF IInv, History, SuperAdmins, GroupAdmins, Members, Exists, tables
<1>8. QED BY <1>4, <1>5, <1>6, <1>7 DEF IInv

-----------------------------------------------------------------------------
(* Steps that write.                                                        *)

\* What is remembered covers the tables that come, and all that was.
LEMMA Remembered ==
  ASSUME IInv, Remember, user' \in [Users -> UserRow], UNCHANGED <<sessions, apis>>,
         member' \in [Groups -> [Users -> {"none", "member", "admin"}]]
  PROVE  past' \in PastType /\ PastKept /\ History'
<1> DEFINE S == SuperAdmins'
           A == GroupAdmins'
           M == Members'
<1>1. S \in SUBSET Users /\ A \in SUBSET (Users \X Groups) /\ M \in SUBSET (Users \X Groups)
  BY DEF SuperAdmins, GroupAdmins, Members
<1>2. past' = [supers |-> past.supers \cup S, admins |-> past.admins \cup A,
               members |-> past.members \cup M]
  BY DEF Remember
<1>3. past \in PastType
  BY DEF IInv, TypeOK, PastType
<1> HIDE DEF S, A, M
<1>4. past' \in PastType /\ PastKept
  BY <1>1, <1>2, <1>3 DEF PastType, PastKept
<1>5. S \subseteq past'.supers /\ A \subseteq past'.admins /\ M \subseteq past'.members
  BY <1>2
<1>6. History'
  BY <1>4, <1>5 DEF History, IInv, PastKept, S, A, M
<1>7. QED BY <1>4, <1>6

LEMMA CreateUserKeepsIInv ==
  ASSUME IInv, NEW k \in Calls, CreateUser(k)
  PROVE  IInv'
<1>1. PICK u \in Users, g \in Groups \cup {NoGroup}, r \in Roles, p \in Passwords :
         /\ Joins(k, g) /\ IsNext(user, u)
         /\ user' = [user EXCEPT ![u] = [st |-> "row", role |-> IF Super(k) THEN r ELSE "user",
                                         enabled |-> TRUE, pw |-> p, must |-> TRUE]]
         /\ call' = [call EXCEPT ![k] = IF g = NoGroup THEN Blank("over")
                       ELSE [@ EXCEPT !.pc = "join", !.id = u, !.group = g]]
  BY Zenon DEF CreateUser
<1>2. UNCHANGED <<token, member, owners, sessions, apis>> /\ Remember
  BY DEF CreateUser
<1> DEFINE row == [st |-> "row", role |-> IF Super(k) THEN r ELSE "user",
                   enabled |-> TRUE, pw |-> p, must |-> TRUE]
<1>3. row \in UserRow /\ row.st = "row"
  BY DEF UserRow, RowState, Roles
<1>4. user' = [user EXCEPT ![u] = row]
  BY <1>1
<1> HIDE DEF row
<1>5. /\ user' \in [Users -> UserRow] /\ user'[u] = row
      /\ \A w \in Users \ {u} : user'[w] = user[w]
  BY <1>3, <1>4 DEF IInv, TypeOK
<1>6. user[u].st = "none"
  BY <1>1 DEF IsNext
<1>7. past' \in PastType /\ PastKept /\ History'
  BY <1>2, <1>5, Remembered DEF IInv, TypeOK
<1>8. PICK v : CallMoves(k, v)
  <2>1. CASE g = NoGroup
    BY <1>1, <2>1, BlankHolds DEF CallMoves
  <2>2. CASE g # NoGroup
    <3> DEFINE w == [call[k] EXCEPT !.pc = "join", !.id = u, !.group = g]
    <3>0. call[k] \in CallState /\ Holds(call[k], past)
      BY DEF IInv, TypeOK, Held
    <3>1. /\ w \in CallState /\ w.role = call[k].role /\ w.held = call[k].held
          /\ w.sub = call[k].sub /\ w.adminOf = call[k].adminOf /\ w.seen = call[k].seen
          /\ w.pc \notin {"new", "sign"}
      BY <3>0 DEF CallState
    <3>2. call' = [call EXCEPT ![k] = w]
      BY <1>1, <2>2
    <3> HIDE DEF w
    <3>3. Holds(w, past)
      BY <3>0, <3>1 DEF Holds
    <3>4. Holds(w, past')
      BY <1>7, <3>3, HoldsLonger DEF PastKept
    <3>5. QED BY <3>1, <3>2, <3>4 DEF CallMoves
  <2>3. QED BY <2>1, <2>2
<1>9. call' \in [Calls -> CallState] /\ Held'
  BY <1>7, <1>8, CallsKept DEF IInv
<1>10. TypeOK'
  BY <1>2, <1>5, <1>7, <1>9 DEF IInv, TypeOK, PastType
<1>11. \A w \in Users : Exists(w) => Exists(w)'
  BY <1>3, <1>5 DEF Exists
<1>12. NoOrphans'
  <2>1. NoOrphans /\ token \in [Tokens -> TokenRow] /\ owners \in SUBSET Users
    BY DEF IInv, TypeOK
  <2>2. QED BY <1>2, <1>11, <2>1 DEF NoOrphans, TokenRow
<1>13. FirstAdminStays'
  <2>1. u # 1
    BY <1>6 DEF IInv, FirstAdminStays, Exists
  <2>2. QED BY <1>5, <2>1, AccountsAssumption DEF IInv, FirstAdminStays, Exists
<1>14. QED BY <1>7, <1>9, <1>10, <1>12, <1>13 DEF IInv

LEMMA JoinGroupKeepsIInv ==
  ASSUME IInv, NEW k \in Calls, JoinGroup(k)
  PROVE  IInv'
<1> DEFINE g == call[k].group
           u == call[k].id
<1>1. /\ member' = IF Exists(u) /\ member[g][u] = "none"
                     THEN [member EXCEPT ![g][u] = "member"] ELSE member
      /\ UNCHANGED <<user, token, owners, sessions, apis>> /\ Remember /\ Answer(k)
  BY DEF JoinGroup
<1> HIDE DEF g, u
<1>2. member' \in [Groups -> [Users -> {"none", "member", "admin"}]]
  BY <1>1 DEF IInv, TypeOK
<1>3. past' \in PastType /\ PastKept /\ History'
  BY <1>1, <1>2, Remembered DEF IInv, TypeOK
<1>4. call' \in [Calls -> CallState] /\ Held'
  BY <1>1, <1>3, Answered, CallsKept DEF IInv
<1>5. TypeOK'
  BY <1>1, <1>2, <1>3, <1>4 DEF IInv, TypeOK, PastType
<1>6. NoOrphans'
  <2>1. ASSUME NEW h \in Groups, NEW w \in Users, member'[h][w] # "none" PROVE Exists(w)
    <3>1. member[h][w] # "none" \/ (w = u /\ Exists(u))
      BY <1>1, <2>1 DEF IInv, TypeOK
    <3>2. QED BY <3>1 DEF IInv, NoOrphans
  <2>2. QED BY <1>1, <2>1 DEF IInv, NoOrphans, Exists
<1>7. FirstAdminStays'
  BY <1>1 DEF IInv, FirstAdminStays, Exists
<1>8. QED BY <1>3, <1>4, <1>5, <1>6, <1>7 DEF IInv

LEMMA UpdateUserKeepsIInv ==
  ASSUME IInv, NEW k \in Calls, UpdateUser(k)
  PROVE  IInv'
<1>1. PICK u \in Users, r \in Roles \cup {"keep"}, e \in {"keep", "on", "off"},
           p \in Passwords \cup {"keep"} :
         /\ MayEdit(k, u, r, e)
         /\ user' = [user EXCEPT ![u] = IF Exists(u) THEN Edited(@, r, e, p) ELSE @]
  BY Zenon DEF UpdateUser
<1>2. UNCHANGED <<token, member, owners, sessions, apis>> /\ Remember /\ Answer(k)
  BY DEF UpdateUser
<1> DEFINE row == IF Exists(u) THEN Edited(user[u], r, e, p) ELSE user[u]
<1>3. user' = [user EXCEPT ![u] = row]
  BY <1>1
<1>4. /\ row \in UserRow /\ row.st = user[u].st
      /\ row.role = IF Exists(u) /\ r # "keep" THEN r ELSE user[u].role
      /\ row.enabled = IF Exists(u) /\ e # "keep" THEN (e = "on") ELSE user[u].enabled
  <2>1. user[u] \in UserRow
    BY DEF IInv, TypeOK
  <2>2. CASE Exists(u)
    BY <2>1, <2>2 DEF Edited, UserRow, Roles
  <2>3. CASE ~Exists(u)
    BY <2>1, <2>3
  <2>4. QED BY <2>2, <2>3
<1> HIDE DEF row
<1>5. /\ user' \in [Users -> UserRow] /\ user'[u] = row
      /\ \A w \in Users \ {u} : user'[w] = user[w]
  BY <1>3, <1>4 DEF IInv, TypeOK
<1>6. past' \in PastType /\ PastKept /\ History'
  BY <1>2, <1>5, Remembered DEF IInv, TypeOK
<1>7. call' \in [Calls -> CallState] /\ Held'
  BY <1>2, <1>6, Answered, CallsKept DEF IInv
<1>8. TypeOK'
  BY <1>2, <1>5, <1>6, <1>7 DEF IInv, TypeOK, PastType
<1>9. \A w \in Users : Exists(w) => Exists(w)'
  BY <1>4, <1>5 DEF Exists
<1>10. NoOrphans'
  <2>1. NoOrphans /\ token \in [Tokens -> TokenRow] /\ owners \in SUBSET Users
    BY DEF IInv, TypeOK
  <2>2. QED BY <1>2, <1>9, <2>1 DEF NoOrphans, TokenRow
<1>11. FirstAdminStays'
  <2>1. CASE u = 1
    <3>1. r \in {"keep", "admin"} /\ e # "off"
      BY <1>1, <2>1 DEF MayEdit
    <3>2. QED BY <1>4, <1>5, <2>1, <3>1 DEF IInv, FirstAdminStays, Exists
  <2>2. CASE u # 1
    BY <1>5, <2>2, AccountsAssumption DEF IInv, FirstAdminStays, Exists
  <2>3. QED BY <2>1, <2>2
<1>12. QED BY <1>6, <1>7, <1>8, <1>10, <1>11 DEF IInv

LEMMA DeleteUserKeepsIInv ==
  ASSUME IInv, NEW k \in Calls, DeleteUser(k)
  PROVE  IInv'
<1>1. PICK u \in Users \ {1, call[k].sub} :
         /\ Exists(u) /\ u \notin owners
         /\ user' = [user EXCEPT ![u].st = "gone"]
         /\ token' = [t \in Tokens |->
              IF token[t].st = "row" /\ token[t].user = u
                THEN [token[t] EXCEPT !.st = "gone"] ELSE token[t]]
         /\ member' = [g \in Groups |-> [member[g] EXCEPT ![u] = "none"]]
  BY Zenon DEF DeleteUser
<1>2. UNCHANGED <<owners, sessions, apis, past>> /\ Answer(k)
  BY DEF DeleteUser
<1> DEFINE row == [user[u] EXCEPT !.st = "gone"]
<1>3. row \in UserRow /\ row.st = "gone"
  <2>1. user[u] \in UserRow
    BY DEF IInv, TypeOK
  <2>2. QED BY <2>1 DEF UserRow, RowState
<1>4. user' = [user EXCEPT ![u] = row]
  BY <1>1
<1> HIDE DEF row
<1>5. /\ user' \in [Users -> UserRow] /\ user'[u].st = "gone"
      /\ \A w \in Users \ {u} : user'[w] = user[w]
  BY <1>3, <1>4 DEF IInv, TypeOK
<1>6. /\ token' \in [Tokens -> TokenRow]
      /\ \A t \in Tokens : token'[t].st = "row" =>
           token[t].st = "row" /\ token'[t].user = token[t].user /\ token[t].user # u
  <2>1. ASSUME NEW t \in Tokens
        PROVE  /\ token'[t] \in TokenRow
               /\ token'[t].st = "row" =>
                    token[t].st = "row" /\ token'[t].user = token[t].user /\ token[t].user # u
    <3>1. token[t] \in TokenRow
      BY DEF IInv, TypeOK
    <3>2. CASE token[t].st = "row" /\ token[t].user = u
      <4>1. token'[t] = [token[t] EXCEPT !.st = "gone"]
        BY <1>1, <3>2
      <4>2. QED BY <3>1, <4>1 DEF TokenRow, RowState
    <3>3. CASE ~(token[t].st = "row" /\ token[t].user = u)
      <4>1. token'[t] = token[t]
        BY <1>1, <3>3
      <4>2. QED BY <3>1, <3>3, <4>1
    <3>4. QED BY <3>2, <3>3
  <2>2. token' = [t \in Tokens |-> token'[t]]
    BY <1>1
  <2>3. QED BY <2>1, <2>2
<1>7. /\ member' \in [Groups -> [Users -> {"none", "member", "admin"}]]
      /\ \A g \in Groups, w \in Users :
           member'[g][w] = IF w = u THEN "none" ELSE member[g][w]
  BY <1>1 DEF IInv, TypeOK
<1>8. PastKept
  BY <1>2 DEF PastKept
<1>9. call' \in [Calls -> CallState] /\ Held'
  BY <1>2, <1>8, Answered, CallsKept DEF IInv
<1>10. TypeOK'
  BY <1>2, <1>5, <1>6, <1>7, <1>9 DEF IInv, TypeOK
<1>11. NoOrphans'
  <2>1. NoOrphans /\ token \in [Tokens -> TokenRow] /\ owners \in SUBSET Users
    BY DEF IInv, TypeOK
  <2>2. ASSUME NEW t \in Tokens, token'[t].st = "row"
        PROVE  user'[token'[t].user].st = "row"
    <3>1. token[t].user \in Users /\ token[t].st = "row"
      BY <1>6, <2>1, <2>2 DEF TokenRow
    <3>2. user[token[t].user].st = "row"
      BY <2>1, <3>1 DEF NoOrphans, Exists
    <3>3. QED BY <1>5, <1>6, <2>2, <3>1, <3>2
  <2>3. \A g \in Groups, w \in Users : member'[g][w] # "none" => user'[w].st = "row"
    BY <1>5, <1>7, <2>1 DEF NoOrphans, Exists
  <2>4. \A w \in owners' : user'[w].st = "row"
    BY <1>1, <1>2, <1>5, <2>1 DEF NoOrphans, Exists
  <2>5. QED BY <2>2, <2>3, <2>4 DEF NoOrphans, Exists
<1>12. FirstAdminStays'
  BY <1>5, AccountsAssumption DEF IInv, FirstAdminStays, Exists
<1>13. History'
  <2>1. /\ SuperAdmins' \subseteq SuperAdmins /\ GroupAdmins' \subseteq GroupAdmins
        /\ Members' \subseteq Members
    BY <1>5, <1>7 DEF SuperAdmins, GroupAdmins, Members, Exists
  <2>2. QED BY <1>2, <2>1 DEF IInv, History
<1>14. QED BY <1>9, <1>10, <1>11, <1>12, <1>13 DEF IInv

LEMMA ChangePasswordKeepsIInv ==
  ASSUME IInv, NEW k \in Calls, ChangePassword(k)
  PROVE  IInv'
<1> DEFINE u == call[k].sub
           blank == Blank("over")
<1>1. PICK p \in Passwords :
         /\ Exists(u) /\ user[u].enabled
         /\ p # user[u].pw
         /\ user' = [user EXCEPT ![u].pw = p, ![u].must = FALSE]
         /\ call' = [l \in Calls |-> IF l = k THEN Blank("over")
                       ELSE [call[l] EXCEPT !.flagged = @ /\ call[l].sub # u]]
  BY Zenon DEF ChangePassword
<1>2. UNCHANGED <<token, member, owners, sessions, apis, past>>
  BY DEF ChangePassword
<1>3. u \in Users
  BY DEF IInv, TypeOK, CallState
<1> DEFINE row == [user[u] EXCEPT !.pw = p, !.must = FALSE]
<1>4. row \in UserRow /\ row.st = user[u].st /\ row.role = user[u].role
      /\ row.enabled = user[u].enabled
  <2>1. user[u] \in UserRow
    BY <1>3 DEF IInv, TypeOK
  <2>2. QED BY <2>1 DEF UserRow
<1>5. user' = [user EXCEPT ![u] = row]
  BY <1>1, <1>3 DEF IInv, TypeOK
<1>6. blank \in CallState /\ Holds(blank, past)
  BY BlankHolds
<1>7. ASSUME NEW l \in Calls PROVE call'[l] \in CallState /\ Holds(call'[l], past')
  <2>1. CASE l = k
    BY <1>1, <1>2, <1>6, <2>1
  <2>2. CASE l # k
    <3> DEFINE f == call[l].flagged /\ call[l].sub # u
               v == [call[l] EXCEPT !.flagged = f]
    <3>1. f \in BOOLEAN
      OBVIOUS
    <3>2. call'[l] = v
      BY <1>1, <2>2
    <3>3. call[l] \in CallState /\ Holds(call[l], past)
      BY DEF IInv, TypeOK, Held
    <3> HIDE DEF f
    <3>4. /\ v \in CallState /\ v.role = call[l].role /\ v.held = call[l].held
          /\ v.sub = call[l].sub /\ v.adminOf = call[l].adminOf /\ v.seen = call[l].seen
          /\ v.pc = call[l].pc /\ v.op = call[l].op /\ v.id = call[l].id
      BY <3>1, <3>3 DEF CallState
    <3> HIDE DEF v
    <3>5. Holds(v, past)
      BY <3>3, <3>4 DEF Holds
    <3>6. QED BY <1>2, <3>2, <3>4, <3>5
  <2>3. QED BY <2>1, <2>2
<1> HIDE DEF row, u, blank
<1>8. /\ user' \in [Users -> UserRow] /\ user'[u] = row
      /\ \A w \in Users \ {u} : user'[w] = user[w]
  BY <1>3, <1>4, <1>5 DEF IInv, TypeOK
<1>9. \A w \in Users : /\ user'[w].st = user[w].st /\ user'[w].role = user[w].role
                       /\ user'[w].enabled = user[w].enabled
  BY <1>3, <1>4, <1>8
<1>10. call' \in [Calls -> CallState] /\ Held'
  <2>1. call' = [l \in Calls |-> call'[l]]
    BY <1>1
  <2>2. QED BY <1>7, <2>1 DEF Held
<1>11. TypeOK'
  BY <1>2, <1>8, <1>10 DEF IInv, TypeOK
<1>12. NoOrphans'
  <2>1. NoOrphans /\ token \in [Tokens -> TokenRow] /\ owners \in SUBSET Users
    BY DEF IInv, TypeOK
  <2>2. QED BY <1>2, <1>9, <2>1 DEF NoOrphans, TokenRow, Exists
<1>13. FirstAdminStays'
  BY <1>9, AccountsAssumption DEF IInv, FirstAdminStays, Exists
<1>14. History'
  BY <1>2, <1>9 DEF IInv, History, SuperAdmins, GroupAdmins, Members, Exists
<1>15. QED BY <1>10, <1>11, <1>12, <1>13, <1>14 DEF IInv

\* Steps that leave the users and memberships as they are.
LEMMA QuietHistory ==
  ASSUME IInv, UNCHANGED <<user, member, past>>,
         \A s \in sessions' : s[2] = "admin" => s[1] \in past.supers,
         \A a \in apis' : a[2] = "admin" => a[1] \in past.supers
  PROVE  PastKept /\ FirstAdminStays' /\ History'
BY DEF IInv, PastKept, FirstAdminStays, History, SuperAdmins, GroupAdmins, Members, Exists

LEMMA LoginSignKeepsIInv ==
  ASSUME IInv, NEW k \in Calls, LoginSign(k)
  PROVE  IInv'
<1>1. /\ sessions' = sessions \cup {<<call[k].sub, call[k].held>>}
      /\ UNCHANGED <<tables, apis, past>> /\ Answer(k)
  BY DEF LoginSign
<1>2. /\ call[k].sub \in Users /\ call[k].held \in Roles
      /\ call[k].held = "admin" => call[k].sub \in past.supers
  BY DEF IInv, TypeOK, CallState, Held, Holds
<1>3. /\ sessions' \in SUBSET (Users \X Roles)
      /\ \A s \in sessions' : s[2] = "admin" => s[1] \in past.supers
  BY <1>1, <1>2 DEF IInv, TypeOK, History
<1>4. PastKept /\ FirstAdminStays' /\ History'
  BY <1>1, <1>3, QuietHistory DEF IInv, History, tables
<1>5. call' \in [Calls -> CallState] /\ Held'
  BY <1>1, <1>4, Answered, CallsKept DEF IInv
<1>6. TypeOK' /\ NoOrphans'
  BY <1>1, <1>3, <1>5 DEF IInv, TypeOK, NoOrphans, Exists, tables
<1>7. QED BY <1>4, <1>5, <1>6 DEF IInv

LEMMA TokenSignKeepsIInv ==
  ASSUME IInv, NEW k \in Calls, TokenSign(k)
  PROVE  IInv'
<1>1. /\ apis' = apis \cup {<<call[k].sub, call[k].held, call[k].id>>}
      /\ UNCHANGED <<tables, sessions, past>> /\ Answer(k) /\ At(k, "sign", "createToken")
  BY DEF TokenSign
<1>2. /\ call[k].sub \in Users /\ call[k].held \in Roles /\ call[k].id \in Tokens
      /\ call[k].held = "admin" => call[k].sub \in past.supers
  BY <1>1 DEF IInv, TypeOK, CallState, Held, Holds, At
<1>3. /\ apis' \in SUBSET (Users \X Roles \X Tokens)
      /\ \A a \in apis' : a[2] = "admin" => a[1] \in past.supers
  BY <1>1, <1>2 DEF IInv, TypeOK, History
<1>4. PastKept /\ FirstAdminStays' /\ History'
  BY <1>1, <1>3, QuietHistory DEF IInv, History, tables
<1>5. call' \in [Calls -> CallState] /\ Held'
  BY <1>1, <1>4, Answered, CallsKept DEF IInv
<1>6. TypeOK' /\ NoOrphans'
  BY <1>1, <1>3, <1>5 DEF IInv, TypeOK, NoOrphans, Exists, tables
<1>7. QED BY <1>4, <1>5, <1>6 DEF IInv

LEMMA TokenInsertKeepsIInv ==
  ASSUME IInv, NEW k \in Calls, TokenInsert(k)
  PROVE  IInv'
<1>1. PICK t \in Tokens :
         /\ IsNext(token, t)
         /\ token' = [token EXCEPT ![t] = [st |-> "row", user |-> call[k].sub, revoked |-> FALSE]]
         /\ call' = [call EXCEPT ![k] = [@ EXCEPT !.pc = "sign", !.id = t]]
  BY Zenon DEF TokenInsert
<1>2. UNCHANGED <<user, member, owners, sessions, apis, past>> /\ Exists(call[k].sub)
  BY DEF TokenInsert
<1>3. call[k] \in CallState /\ Holds(call[k], past) /\ call[k].sub \in Users
  BY DEF IInv, TypeOK, Held, CallState
<1> DEFINE v == [call[k] EXCEPT !.pc = "sign", !.id = t]
           row == [st |-> "row", user |-> call[k].sub, revoked |-> FALSE]
<1>4. /\ v \in CallState /\ v.role = call[k].role /\ v.held = call[k].held
      /\ v.sub = call[k].sub /\ v.adminOf = call[k].adminOf /\ v.seen = call[k].seen
      /\ v.pc = "sign" /\ v.id = t
  BY <1>3 DEF CallState
<1>5. call' = [call EXCEPT ![k] = v]
  BY <1>1
<1>6. row \in TokenRow /\ row.user = call[k].sub
  BY <1>3 DEF TokenRow, RowState
<1>7. token' = [token EXCEPT ![t] = row]
  BY <1>1
<1> HIDE DEF v, row
<1>8. Holds(v, past)
  BY <1>3, <1>4 DEF Holds
<1>9. PastKept /\ FirstAdminStays' /\ History'
  BY <1>2, QuietHistory DEF IInv, History
<1>10. call' \in [Calls -> CallState] /\ Held'
  BY <1>2, <1>4, <1>5, <1>8, <1>9, CallsKept DEF IInv, CallMoves
<1>11. TypeOK'
  BY <1>2, <1>6, <1>7, <1>10 DEF IInv, TypeOK
<1>12. NoOrphans'
  <2>1. ASSUME NEW s \in Tokens, token'[s].st = "row" PROVE Exists(token'[s].user)
    BY <1>2, <1>6, <1>7, <2>1 DEF IInv, TypeOK, NoOrphans
  <2>2. QED BY <1>2, <2>1 DEF IInv, NoOrphans, Exists
<1>13. QED BY <1>9, <1>10, <1>11, <1>12 DEF IInv

LEMMA RevokeKeepsIInv ==
  ASSUME IInv, NEW k \in Calls, Revoke(k)
  PROVE  IInv'
<1> DEFINE t == call[k].id
           row == [token[t] EXCEPT !.revoked = @ \/ token[t].st = "row"]
<1>1. /\ token' = [token EXCEPT ![t].revoked = @ \/ token[t].st = "row"]
      /\ UNCHANGED <<user, member, owners, sessions, apis, past>> /\ Answer(k)
  BY DEF Revoke
<1>2. ASSUME NEW s \in Tokens
      PROVE  /\ token'[s] \in TokenRow /\ token'[s].st = token[s].st
             /\ token'[s].user = token[s].user
  <2>1. token[s] \in TokenRow
    BY DEF IInv, TypeOK
  <2>2. CASE s = t
    <3>1. token'[s] = row
      BY <1>1, <2>2 DEF IInv, TypeOK
    <3>2. QED BY <2>1, <2>2, <3>1 DEF TokenRow
  <2>3. CASE s # t
    BY <1>1, <2>1, <2>3 DEF IInv, TypeOK
  <2>4. QED BY <2>2, <2>3
<1>3. token' \in [Tokens -> TokenRow]
  <2>1. token' = [s \in Tokens |-> token'[s]]
    BY <1>1 DEF IInv, TypeOK
  <2>2. QED BY <1>2, <2>1
<1>4. PastKept /\ FirstAdminStays' /\ History'
  BY <1>1, QuietHistory DEF IInv, History
<1>5. call' \in [Calls -> CallState] /\ Held'
  BY <1>1, <1>4, Answered, CallsKept DEF IInv
<1>6. TypeOK'
  BY <1>1, <1>3, <1>5 DEF IInv, TypeOK
<1>7. NoOrphans'
  BY <1>1, <1>2 DEF IInv, NoOrphans, Exists
<1>8. QED BY <1>4, <1>5, <1>6, <1>7 DEF IInv

LEMMA SetMemberKeepsIInv ==
  ASSUME IInv, NEW k \in Calls, SetMember(k)
  PROVE  IInv'
<1>1. PICK g \in Groups, u \in Users, r \in {"none", "member", "admin"} :
         /\ Exists(u) /\ member[g][u] # r
         /\ member' = [member EXCEPT ![g][u] = r]
  BY Zenon DEF SetMember
<1>2. UNCHANGED <<user, token, owners, sessions, apis>> /\ Remember /\ Answer(k)
  BY DEF SetMember
<1>3. member' \in [Groups -> [Users -> {"none", "member", "admin"}]]
  BY <1>1 DEF IInv, TypeOK
<1>4. past' \in PastType /\ PastKept /\ History'
  BY <1>2, <1>3, Remembered DEF IInv, TypeOK
<1>5. call' \in [Calls -> CallState] /\ Held'
  BY <1>2, <1>4, Answered, CallsKept DEF IInv
<1>6. TypeOK'
  BY <1>2, <1>3, <1>4, <1>5 DEF IInv, TypeOK, PastType
<1>7. NoOrphans'
  <2>1. ASSUME NEW h \in Groups, NEW w \in Users, member'[h][w] # "none" PROVE Exists(w)
    <3>1. member[h][w] # "none" \/ w = u
      BY <1>1, <2>1 DEF IInv, TypeOK
    <3>2. QED BY <1>1, <3>1 DEF IInv, NoOrphans
  <2>2. QED BY <1>2, <2>1 DEF IInv, NoOrphans, Exists
<1>8. FirstAdminStays'
  BY <1>2 DEF IInv, FirstAdminStays, Exists
<1>9. QED BY <1>4, <1>5, <1>6, <1>7, <1>8 DEF IInv

LEMMA OwnRowKeepsIInv ==
  ASSUME IInv, NEW k \in Calls, OwnRow(k)
  PROVE  IInv'
<1>1. PICK u \in Users : Exists(u) /\ owners' = owners \cup {u}
  BY DEF OwnRow
<1>2. UNCHANGED <<user, token, member, sessions, apis, past>> /\ Answer(k)
  BY DEF OwnRow
<1>3. PastKept /\ FirstAdminStays' /\ History'
  BY <1>2, QuietHistory DEF IInv, History
<1>4. call' \in [Calls -> CallState] /\ Held'
  BY <1>2, <1>3, Answered, CallsKept DEF IInv
<1>5. TypeOK'
  BY <1>1, <1>2, <1>4 DEF IInv, TypeOK
<1>6. NoOrphans'
  BY <1>1, <1>2 DEF IInv, NoOrphans, Exists
<1>7. QED BY <1>3, <1>4, <1>5, <1>6 DEF IInv

-----------------------------------------------------------------------------
LEMMA InitIInv == Init => IInv
<1> SUFFICES ASSUME Init PROVE IInv
  OBVIOUS
<1> USE AccountsAssumption
<1>1. PICK p \in Passwords, r \in Roles, e \in BOOLEAN, m \in BOOLEAN :
         user = [u \in Users |->
           [st |-> IF u > 2 THEN "none" ELSE "row",
            role |-> IF u = 1 THEN "admin" ELSE r,
            enabled |-> u = 1 \/ e, pw |-> p, must |-> u # 1 /\ m]]
  BY DEF Init
<1>2. user \in [Users -> UserRow] /\ FirstAdminStays
  <2>1. ASSUME NEW u \in Users
        PROVE  [st |-> IF u > 2 THEN "none" ELSE "row",
                role |-> IF u = 1 THEN "admin" ELSE r,
                enabled |-> u = 1 \/ e, pw |-> p, must |-> u # 1 /\ m] \in UserRow
    <3>1. (u = 1 \/ e) \in BOOLEAN /\ (u # 1 /\ m) \in BOOLEAN
      OBVIOUS
    <3>2. QED BY <3>1 DEF UserRow, RowState, Roles
  <2>2. user \in [Users -> UserRow]
    BY <1>1, <2>1
  <2>3. FirstAdminStays
    <3>1. user[1].st = "row" /\ user[1].role = "admin"
      BY <1>1
    <3>2. user[1].enabled = (1 = 1 \/ e)
      BY <1>1
    <3>3. QED BY <3>1, <3>2 DEF FirstAdminStays, Exists
  <2>4. QED BY <2>2, <2>3
<1>3. /\ token \in [Tokens -> TokenRow]
      /\ \A t \in Tokens : token[t].st = "row" => Exists(token[t].user)
      /\ member \in [Groups -> [Users -> {"none", "member", "admin"}]]
      /\ \A g \in Groups, u \in Users : member[g][u] # "none" => u = 1 \/ Exists(u)
      /\ owners = {}
  BY DEF Init
<1>4. NoOrphans
  BY <1>2, <1>3 DEF NoOrphans, FirstAdminStays
<1>5. /\ sessions = {<<u, user[u].role>> : u \in {w \in Users : Exists(w)}}
      /\ apis = {<<token[t].user, user[token[t].user].role, t>> :
                   t \in {s \in Tokens : token[s].st = "row"}}
      /\ call = [k \in Calls |-> Blank("new")]
      /\ past = [supers |-> SuperAdmins, admins |-> GroupAdmins, members |-> Members]
  BY DEF Init
<1>6. past \in PastType
  BY <1>5 DEF PastType, SuperAdmins, GroupAdmins, Members
<1>7. /\ sessions \in SUBSET (Users \X Roles)
      /\ \A s \in sessions : s[2] = "admin" => s[1] \in past.supers
  BY <1>2, <1>5 DEF UserRow, SuperAdmins
<1>8. /\ apis \in SUBSET (Users \X Roles \X Tokens)
      /\ \A a \in apis : a[2] = "admin" => a[1] \in past.supers
  <2>1. ASSUME NEW t \in Tokens, token[t].st = "row"
        PROVE  /\ token[t].user \in Users /\ user[token[t].user].role \in Roles
               /\ user[token[t].user].role = "admin" => token[t].user \in past.supers
    <3>1. token[t].user \in Users /\ Exists(token[t].user)
      BY <1>3, <2>1 DEF TokenRow
    <3>2. QED BY <1>2, <1>5, <3>1 DEF UserRow, SuperAdmins
  <2>2. QED BY <1>5, <2>1
<1>9. History
  BY <1>5, <1>7, <1>8 DEF History
<1>10. call \in [Calls -> CallState] /\ Held
  BY <1>5, BlankHolds DEF Held
<1>11. TypeOK
  BY <1>2, <1>3, <1>6, <1>7, <1>8, <1>10 DEF TypeOK, PastType
<1>12. QED BY <1>2, <1>4, <1>9, <1>10, <1>11 DEF IInv

LEMMA NextKeepsIInv ==
  ASSUME IInv, [Next]_vars
  PROVE  IInv'
<1>1. CASE UNCHANGED vars
  BY <1>1 DEF vars, IInv, TypeOK, NoOrphans, FirstAdminStays, History, Held, Exists,
              SuperAdmins, GroupAdmins, Members
<1>2. CASE Next
  <2>1. PICK k \in Calls : Handle(k)
    BY <1>2 DEF Next
  <2>2. CASE ReadStep(k)
    BY <2>2, ReadStepKeepsIInv
  <2>3. CASE ~ReadStep(k)
    BY <2>1, <2>3, CreateUserKeepsIInv, JoinGroupKeepsIInv, UpdateUserKeepsIInv,
       DeleteUserKeepsIInv, ChangePasswordKeepsIInv, LoginSignKeepsIInv, TokenSignKeepsIInv,
       TokenInsertKeepsIInv, RevokeKeepsIInv, SetMemberKeepsIInv, OwnRowKeepsIInv
       DEF Handle, ReadStep
  <2>4. QED BY <2>2, <2>3
<1>3. QED BY <1>1, <1>2

-----------------------------------------------------------------------------
(* Who writes to a user's row.                                              *)

LEMMA WroteBy ==
  ASSUME TypeOK, NEW k \in Calls, NEW v, call' = [call EXCEPT ![k] = v],
         call[k].pc \in {"run", "apply"}, v.pc # call[k].pc
  PROVE  Wrote(k)
BY DEF TypeOK, Wrote

LEMMA CreateUserAuthorized ==
  ASSUME IInv, NEW k \in Calls, CreateUser(k)
  PROVE  WritesByAuthority
<1>1. PICK w \in Users, g \in Groups \cup {NoGroup}, r \in Roles, p \in Passwords :
         /\ Joins(k, g) /\ IsNext(user, w)
         /\ user' = [user EXCEPT ![w] = [st |-> "row", role |-> IF Super(k) THEN r ELSE "user",
                                         enabled |-> TRUE, pw |-> p, must |-> TRUE]]
         /\ call' = [call EXCEPT ![k] = IF g = NoGroup THEN Blank("over")
                       ELSE [@ EXCEPT !.pc = "join", !.id = w, !.group = g]]
  BY Zenon DEF CreateUser
<1> DEFINE v == IF g = NoGroup THEN Blank("over")
                ELSE [call[k] EXCEPT !.pc = "join", !.id = w, !.group = g]
<1>2. call[k] \in CallState /\ call[k].pc = "apply" /\ Holds(call[k], past)
  BY DEF IInv, TypeOK, Held, CreateUser, At
<1>3. v.pc \in {"over", "join"}
  BY <1>2 DEF Blank, CallState
<1>4. call' = [call EXCEPT ![k] = v]
  BY <1>1
<1> HIDE DEF v
<1>5. Wrote(k)
  BY <1>2, <1>3, <1>4, WroteBy DEF IInv
<1>6. /\ \A u \in Users : user'[u] # user[u] => u = w
      /\ user'[w].role = IF Super(k) THEN r ELSE "user"
  BY <1>1 DEF IInv, TypeOK
<1>7. user[w].st = "none"
  BY <1>1 DEF IsNext
<1>8. CASE Super(k)
  BY <1>2, <1>5, <1>8 DEF WritesByAuthority, Super, Holds
<1>9. CASE ~Super(k)
  <2>1. g \in Groups /\ <<call[k].sub, g>> \in past.admins
    BY <1>1, <1>2, <1>9 DEF Joins, Holds, CallState
  <2>2. QED BY <1>5, <1>6, <1>7, <1>9, <2>1 DEF WritesByAuthority
<1>10. QED BY <1>8, <1>9

LEMMA UpdateUserAuthorized ==
  ASSUME IInv, NEW k \in Calls, UpdateUser(k)
  PROVE  WritesByAuthority
<1>1. PICK w \in Users, r \in Roles \cup {"keep"}, e \in {"keep", "on", "off"},
           p \in Passwords \cup {"keep"} :
         /\ MayEdit(k, w, r, e)
         /\ user' = [user EXCEPT ![w] = IF Exists(w) THEN Edited(@, r, e, p) ELSE @]
  BY Zenon DEF UpdateUser
<1>2. call[k] \in CallState /\ call[k].pc = "apply" /\ Holds(call[k], past) /\ Answer(k)
  BY DEF IInv, TypeOK, Held, UpdateUser, At
<1>3. Wrote(k)
  BY <1>2, WroteBy DEF IInv, Answer, Blank
<1>4. /\ \A u \in Users : user'[u] # user[u] => u = w /\ Exists(w)
      /\ Exists(w) => user'[w].role = IF r = "keep" THEN user[w].role ELSE r
  <2>1. user[w] \in UserRow /\ user \in [Users -> UserRow]
    BY DEF IInv, TypeOK
  <2>2. CASE Exists(w)
    <3>1. user' = [user EXCEPT ![w] = Edited(user[w], r, e, p)]
      BY <1>1, <2>2
    <3>2. Edited(user[w], r, e, p).role = IF r = "keep" THEN user[w].role ELSE r
      BY <2>1 DEF Edited, UserRow
    <3>3. QED BY <2>1, <2>2, <3>1, <3>2
  <2>3. CASE ~Exists(w)
    BY <1>1, <2>1, <2>3
  <2>4. QED BY <2>2, <2>3
<1>5. CASE Super(k)
  BY <1>2, <1>3, <1>5 DEF WritesByAuthority, Super, Holds
<1>6. CASE ~Super(k)
  <2>1. w \in call[k].seen /\ r # "admin"
    BY <1>1, <1>6 DEF MayEdit
  <2>2. PICK g \in Groups : <<call[k].sub, g>> \in past.admins /\ <<w, g>> \in past.members
    BY <1>2, <2>1 DEF Holds
  <2>3. QED BY <1>3, <1>4, <2>1, <2>2 DEF WritesByAuthority, Exists
<1>7. QED BY <1>5, <1>6

LEMMA ChangePasswordAuthorized ==
  ASSUME IInv, NEW k \in Calls, ChangePassword(k)
  PROVE  WritesByAuthority
<1> DEFINE s == call[k].sub
<1>1. PICK p \in Passwords :
         /\ user' = [user EXCEPT ![s].pw = p, ![s].must = FALSE]
         /\ call' = [l \in Calls |-> IF l = k THEN Blank("over")
                       ELSE [call[l] EXCEPT !.flagged = @ /\ call[l].sub # s]]
  BY Zenon DEF ChangePassword
<1>2. call[k].pc = "run" /\ s \in Users /\ user[s] \in UserRow
  BY DEF ChangePassword, At, IInv, TypeOK, CallState
<1>3. Wrote(k)
  <2>1. call'[k] = Blank("over")
    BY <1>1
  <2>2. QED BY <1>2, <2>1 DEF Wrote, Blank
<1>4. user' = [user EXCEPT ![s] = [user[s] EXCEPT !.pw = p, !.must = FALSE]]
  BY <1>1, <1>2 DEF IInv, TypeOK
<1>5. /\ \A u \in Users : user'[u] # user[u] => u = s
      /\ user'[s] = [user[s] EXCEPT !.pw = user'[s].pw, !.must = FALSE]
  BY <1>2, <1>4 DEF IInv, TypeOK, UserRow
<1> HIDE DEF s
<1>6. QED BY <1>3, <1>5 DEF WritesByAuthority, s

LEMMA DeleteUserAuthorized ==
  ASSUME IInv, NEW k \in Calls, DeleteUser(k)
  PROVE  WritesByAuthority
<1>1. call[k].pc = "run" /\ call[k].role = "admin" /\ Answer(k)
  BY DEF DeleteUser, At, Super
<1>2. Wrote(k)
  BY <1>1, WroteBy DEF IInv, Answer, Blank
<1>3. call[k].sub \in past.supers
  BY <1>1 DEF IInv, Held, Holds
<1>4. QED BY <1>2, <1>3 DEF WritesByAuthority

LEMMA StepAuthorized ==
  ASSUME IInv, [Next]_vars
  PROVE  [WritesByAuthority]_vars
<1>1. CASE UNCHANGED user
  BY <1>1 DEF WritesByAuthority
<1>2. CASE user' # user
  <2>1. PICK k \in Calls : Handle(k)
    BY <1>2 DEF Next, vars
  <2>2. CreateUser(k) \/ UpdateUser(k) \/ ChangePassword(k) \/ DeleteUser(k)
    BY <1>2, <2>1 DEF Handle, Arrive, Validate, Revalidate, LoginRead, LoginSign, Identify,
       ReadVisible, JoinGroup, TokenRead, TokenInsert, TokenSign, RevokeCheck, Revoke, Refused,
       SetMember, OwnRow, tables
  <2>3. QED
    BY <2>2, CreateUserAuthorized, UpdateUserAuthorized, ChangePasswordAuthorized,
       DeleteUserAuthorized
<1>3. QED BY <1>1, <1>2

-----------------------------------------------------------------------------
\* Whatever the calls and however they interleave, every table, JWT and
\* request keeps its type.
THEOREM TypeCorrect == Spec => []TypeOK
<1>1. IInv => TypeOK
  BY DEF IInv
<1>2. QED BY <1>1, InitIInv, NextKeepsIInv, PTL DEF Spec

\* delete_user cascades to tokens and memberships and is refused for owners,
\* and no later statement brings one back for the user it removed.
THEOREM NothingOutlivesItsUser == Spec => []NoOrphans
<1>1. IInv => NoOrphans
  BY DEF IInv
<1>2. QED BY <1>1, InitIInv, NextKeepsIInv, PTL DEF Spec

\* update_user's and delete_user's guards keep the bootstrap admin in place
\* for any number of users, groups and JWTs.
THEOREM FirstAdminNeverLeaves == Spec => []FirstAdminStays
<1>1. IInv => FirstAdminStays
  BY DEF IInv
<1>2. QED BY <1>1, InitIInv, NextKeepsIInv, PTL DEF Spec

\* Every change of a user's row by create_user, update_user, delete_user or
\* change_password traces back to an authority its caller has or once had.
THEOREM WritesAreAuthorized == Spec => UserWritesAuthorized
<1>1. QED BY InitIInv, NextKeepsIInv, StepAuthorized, PTL DEF Spec, UserWritesAuthorized

-----------------------------------------------------------------------------
(* The flag that forces a change of password.                               *)

\* A request that came in flagged has a user with a row, a session, and, as
\* long as the row is there, the flag; what it may do is in ForcedChange.
Forced(k) ==
    /\ call[k].pc = "new" => ~call[k].flagged
    /\ call[k].flagged =>
         /\ user[call[k].sub].st # "none" /\ call[k].kind = "session"
         /\ Exists(call[k].sub) => user[call[k].sub].must
         /\ Exists(call[k].sub) /\ call[k].op # "changePassword" => call[k].pc \in {"auth", "over"}

FInv == \A k \in Calls : Forced(k)

\* No row comes back, and no flag is lowered while its user is there.
FlagsStay ==
    \A u \in Users : user[u].st # "none" =>
      /\ user'[u].st # "none"
      /\ user'[u].st = "row" => Exists(u) /\ (user[u].must => user'[u].must)

LEMMA ForcedLonger ==
  ASSUME IInv, FlagsStay, NEW k \in Calls, Forced(k), call'[k] = call[k]
  PROVE  Forced(k)'
<1>1. call[k].sub \in Users
  BY DEF IInv, TypeOK, CallState
<1>2. QED
  BY <1>1 DEF Forced, FlagsStay, Exists

\* A request past the middleware goes on as the one it is.
LEMMA ForcedGoesOn ==
  ASSUME IInv, FlagsStay, NEW k \in Calls, Forced(k), call[k].pc \notin {"new", "auth", "over"},
         call'[k].pc # "new", call'[k].flagged = call[k].flagged, call'[k].sub = call[k].sub,
         call'[k].op = call[k].op, call'[k].kind = call[k].kind
  PROVE  Forced(k)'
<1>1. call[k].sub \in Users
  BY DEF IInv, TypeOK, CallState
<1>2. QED
  BY <1>1 DEF Forced, FlagsStay, Exists

LEMMA FlagsStayStep ==
  ASSUME IInv, NEW k \in Calls, Handle(k), ~ChangePassword(k)
  PROVE  FlagsStay
<1>0. user \in [Users -> UserRow]
  BY DEF IInv, TypeOK
<1>1. CASE user' = user
  BY <1>1 DEF FlagsStay, Exists
<1>2. CASE CreateUser(k)
  <2>1. PICK u \in Users : user[u].st = "none" /\ \E w : user' = [user EXCEPT ![u] = w]
    BY <1>2 DEF CreateUser, IsNext
  <2>2. \A v \in Users : v # u => user'[v] = user[v]
    BY <1>0, <2>1
  <2>3. QED
    BY <2>1, <2>2 DEF FlagsStay, Exists
<1>3. CASE UpdateUser(k)
  <2>1. PICK u \in Users, r \in Roles \cup {"keep"}, e \in {"keep", "on", "off"},
             p \in Passwords \cup {"keep"} :
          user' = [user EXCEPT ![u] = IF Exists(u) THEN Edited(@, r, e, p) ELSE @]
    BY <1>3 DEF UpdateUser
  <2>2. user[u] \in UserRow
    BY <1>0
  <2>3. LET w == Edited(user[u], r, e, p) IN
        w.st = user[u].st /\ w.must = ((p # "keep") \/ user[u].must)
    BY <2>2 DEF Edited, UserRow
  <2>4. QED
    BY <1>0, <2>1, <2>3, Zenon DEF FlagsStay, Exists
<1>4. CASE DeleteUser(k)
  <2>1. PICK u \in Users : user' = [user EXCEPT ![u].st = "gone"]
    BY <1>4 DEF DeleteUser
  <2>2. user'[u].st = "gone" /\ \A v \in Users : v # u => user'[v] = user[v]
    BY <1>0, <2>1 DEF UserRow
  <2>3. QED
    BY <2>2 DEF FlagsStay, Exists
<1>5. QED
  BY <1>1, <1>2, <1>3, <1>4
     DEF Handle, Arrive, Validate, Revalidate, LoginRead, LoginSign, Identify, ReadVisible,
         JoinGroup, TokenRead, TokenInsert, TokenSign, RevokeCheck, Revoke, Refused, SetMember,
         OwnRow, tables

\* change_password lowers a flag, of which no request in flight then speaks.
LEMMA ChangePasswordKeepsForced ==
  ASSUME IInv, FInv, NEW k \in Calls, ChangePassword(k)
  PROVE  FInv'
<1>0. call \in [Calls -> CallState] /\ user \in [Users -> UserRow]
  BY DEF IInv, TypeOK
<1> DEFINE u == call[k].sub
<1>1. u \in Users
  BY <1>0 DEF CallState
<1>2. PICK p \in Passwords :
        /\ Exists(u)
        /\ user' = [user EXCEPT ![u].pw = p, ![u].must = FALSE]
        /\ call' = [l \in Calls |-> IF l = k THEN Blank("over")
                      ELSE [call[l] EXCEPT !.flagged = @ /\ call[l].sub # u]]
  BY DEF ChangePassword
<1>3. /\ user'[u].st = user[u].st
      /\ \A v \in Users : v # u => user'[v] = user[v]
  BY <1>0, <1>1, <1>2 DEF UserRow
<1> HIDE DEF u
<1>4. ASSUME NEW l \in Calls PROVE Forced(l)'
  <2>1. CASE l = k
    <3>1. call'[l] = Blank("over")
      BY <1>2, <2>1
    <3>2. QED
      BY <3>1 DEF Forced, Blank
  <2>2. CASE l # k
    <3> DEFINE b == call[l].flagged /\ call[l].sub # u
               v == [call[l] EXCEPT !.flagged = b]
    <3>1. call'[l] = v
      BY <1>2, <2>2
    <3>2. v.flagged = b /\ v.pc = call[l].pc /\ v.sub = call[l].sub /\ v.op = call[l].op
          /\ v.kind = call[l].kind /\ call[l].sub \in Users
      <4> HIDE DEF b
      <4> QED BY <1>0 DEF CallState
    <3> HIDE DEF v
    <3>3. CASE ~b
      BY <3>1, <3>2, <3>3 DEF Forced, FInv
    <3>4. CASE b
      <4>1. user'[call[l].sub] = user[call[l].sub]
        BY <1>3, <3>2, <3>4
      <4>2. QED
        BY <3>1, <3>2, <3>4, <4>1 DEF Forced, FInv, Exists
    <3>5. QED BY <3>3, <3>4
  <2>3. QED BY <2>1, <2>2
<1>5. QED BY <1>4 DEF FInv

LEMMA ArriveForced ==
  ASSUME IInv, FInv, NEW k \in Calls, Arrive(k)
  PROVE  Forced(k)'
<1>0. call[k] \in CallState /\ call[k].pc = "new" /\ user' = user /\ ~call[k].flagged
      /\ call \in [Calls -> CallState]
  BY DEF IInv, TypeOK, Arrive, tables, FInv, Forced
<1>1. PICK op \in Ops :
         \/ \E s \in sessions :
              call' = [call EXCEPT ![k] = [@ EXCEPT !.pc = "auth", !.op = op, !.kind = "session",
                         !.sub = s[1], !.role = s[2], !.flagged = Exists(s[1]) /\ user[s[1]].must]]
         \/ \E a \in apis :
              call' = [call EXCEPT ![k] = [@ EXCEPT !.pc = "auth", !.op = op, !.kind = "api",
                         !.sub = a[1], !.role = a[2],
                         !.revoked = token[a[3]].st # "row" \/ token[a[3]].revoked]]
  BY Zenon DEF Arrive
<1>2. ASSUME NEW s \in sessions,
             call' = [call EXCEPT ![k] = [@ EXCEPT !.pc = "auth", !.op = op, !.kind = "session",
                         !.sub = s[1], !.role = s[2], !.flagged = Exists(s[1]) /\ user[s[1]].must]]
      PROVE  Forced(k)'
  <2> DEFINE f == Exists(s[1]) /\ user[s[1]].must
             v == [call[k] EXCEPT !.pc = "auth", !.op = op, !.kind = "session",
                         !.sub = s[1], !.role = s[2], !.flagged = f]
  <2>1. call'[k] = v
    BY <1>0, <1>2
  <2>2. v.pc = "auth" /\ v.kind = "session" /\ v.sub = s[1] /\ v.flagged = f
    <3> HIDE DEF f
    <3> QED BY <1>0 DEF CallState
  <2> HIDE DEF v
  <2>3. QED BY <1>0, <2>1, <2>2 DEF Forced, Exists
<1>3. ASSUME NEW a \in apis,
             call' = [call EXCEPT ![k] = [@ EXCEPT !.pc = "auth", !.op = op, !.kind = "api",
                         !.sub = a[1], !.role = a[2],
                         !.revoked = token[a[3]].st # "row" \/ token[a[3]].revoked]]
      PROVE  Forced(k)'
  <2> DEFINE f == token[a[3]].st # "row" \/ token[a[3]].revoked
             v == [call[k] EXCEPT !.pc = "auth", !.op = op, !.kind = "api",
                         !.sub = a[1], !.role = a[2], !.revoked = f]
  <2>1. call'[k] = v
    BY <1>0, <1>3
  <2>2. v.pc = "auth" /\ v.flagged = call[k].flagged
    <3> HIDE DEF f
    <3> QED BY <1>0 DEF CallState
  <2> HIDE DEF v
  <2>3. QED BY <1>0, <2>1, <2>2 DEF Forced
<1>4. QED BY <1>1, <1>2, <1>3

\* The middleware holds a flagged session back.
LEMMA ValidateForced ==
  ASSUME IInv, FInv, ~Faulty, NEW k \in Calls, Validate(k)
  PROVE  Forced(k)'
<1>0. call[k] \in CallState /\ user' = user /\ Forced(k) /\ call \in [Calls -> CallState]
  BY DEF IInv, TypeOK, Validate, tables, FInv
<1>1. PICK pc \in {"run", "claims"} : Goto(k, pc)
  BY DEF Validate
<1>2. call'[k].pc = pc /\ call'[k].flagged = call[k].flagged /\ call'[k].sub = call[k].sub
      /\ call'[k].op = call[k].op /\ call'[k].kind = call[k].kind
  BY <1>0, <1>1 DEF Goto, CallState
<1>3. call[k].flagged /\ Exists(call[k].sub) => call[k].op = "changePassword"
  BY <1>0 DEF Validate, Forced
<1>4. QED BY <1>0, <1>2, <1>3 DEF Forced, Exists

LEMMA StepForced ==
  ASSUME IInv, FInv, ~Faulty, NEW k \in Calls, Handle(k), ~ChangePassword(k)
  PROVE  FInv'
<1>0. call \in [Calls -> CallState] /\ call[k] \in CallState /\ FlagsStay
  BY FlagsStayStep DEF IInv, TypeOK
<1>1. CASE call' = [call EXCEPT ![k] = Blank("over")]
  <2>1. call'[k] = Blank("over")
    BY <1>0, <1>1
  <2>2. Forced(k)'
    BY <2>1 DEF Forced, Blank
  <2>3. \A l \in Calls \ {k} : call'[l] = call[l]
    BY <1>0, <1>1
  <2>4. QED BY <1>0, <2>2, <2>3, ForcedLonger DEF FInv
<1>2. ASSUME NEW v, call' = [call EXCEPT ![k] = v], Forced(k)'
      PROVE  FInv'
  <2>1. \A l \in Calls \ {k} : call'[l] = call[l]
    BY <1>0, <1>2
  <2>2. QED BY <1>0, <1>2, <2>1, ForcedLonger DEF FInv
<1>3. CASE Arrive(k) \/ Validate(k)
  <2>1. \E v : call' = [call EXCEPT ![k] = v]
    BY <1>3 DEF Arrive, Validate, Goto
  <2>2. QED BY <1>2, <1>3, <2>1, ArriveForced, ValidateForced
<1>4. ASSUME NEW v, call' = [call EXCEPT ![k] = v], v.pc # "new", v.flagged = call[k].flagged,
             v.sub = call[k].sub, v.op = call[k].op, v.kind = call[k].kind,
             call[k].pc \notin {"new", "auth", "over"}
      PROVE  FInv'
  <2>1. call'[k] = v
    BY <1>0, <1>4
  <2>2. Forced(k)'
    BY <1>0, <1>4, <2>1, ForcedGoesOn DEF FInv
  <2>3. QED BY <1>2, <1>4, <2>2
<1>5. CASE LoginRead(k)
  <2>1. PICK u, r : call' = [call EXCEPT ![k] = [@ EXCEPT !.pc = "sign", !.op = "login",
                                                              !.sub = u, !.held = r]]
    BY <1>5 DEF LoginRead
  <2> DEFINE v == [call[k] EXCEPT !.pc = "sign", !.op = "login", !.sub = u, !.held = r]
  <2>2. call' = [call EXCEPT ![k] = v] /\ call'[k] = v
    BY <1>0, <2>1
  <2>3. v.pc = "sign" /\ v.flagged = call[k].flagged
    BY <1>0 DEF CallState
  <2> HIDE DEF v
  <2>4. ~call[k].flagged
    BY <1>5 DEF LoginRead, FInv, Forced
  <2>5. Forced(k)'
    BY <2>2, <2>3, <2>4 DEF Forced
  <2>6. QED BY <1>2, <2>2, <2>5
<1>6. CASE Revalidate(k)
  <2> DEFINE v == [call[k] EXCEPT !.pc = "run"]
  <2>1. call' = [call EXCEPT ![k] = v] /\ call[k].pc = "claims"
    BY <1>6 DEF Revalidate, Goto
  <2>2. v.pc # "new" /\ v.flagged = call[k].flagged /\ v.sub = call[k].sub /\ v.op = call[k].op
        /\ v.kind = call[k].kind
    BY <1>0 DEF CallState
  <2> HIDE DEF v
  <2>3. QED BY <1>4, <2>1, <2>2
<1>7. ASSUME NEW pc \in {"visible", "apply"}, NEW a,
             call' = [call EXCEPT ![k] = [@ EXCEPT !.pc = pc, !.adminOf = a]], call[k].pc = "run"
      PROVE  FInv'
  <2> DEFINE v == [call[k] EXCEPT !.pc = pc, !.adminOf = a]
  <2>1. call' = [call EXCEPT ![k] = v]
    BY <1>7
  <2>2. v.pc # "new" /\ v.flagged = call[k].flagged /\ v.sub = call[k].sub /\ v.op = call[k].op
        /\ v.kind = call[k].kind
    BY <1>0 DEF CallState
  <2> HIDE DEF v
  <2>3. QED BY <1>4, <1>7, <2>1, <2>2
<1>8. CASE Identify(k)
  <2>1. \E pc \in {"visible", "apply"} : \E a :
          call' = [call EXCEPT ![k] = [@ EXCEPT !.pc = pc, !.adminOf = a]] /\ call[k].pc = "run"
    BY <1>8 DEF Identify
  <2>2. QED BY <1>7, <2>1
<1>9. CASE ReadVisible(k)
  <2>1. PICK S : call' = [call EXCEPT ![k] = [@ EXCEPT !.pc = "apply", !.seen = S]] /\ call[k].pc = "visible"
    BY <1>9 DEF ReadVisible
  <2> DEFINE v == [call[k] EXCEPT !.pc = "apply", !.seen = S]
  <2>2. v.pc # "new" /\ v.flagged = call[k].flagged /\ v.sub = call[k].sub /\ v.op = call[k].op
        /\ v.kind = call[k].kind /\ call' = [call EXCEPT ![k] = v]
    BY <1>0, <2>1 DEF CallState
  <2> HIDE DEF v
  <2>3. QED BY <1>4, <2>1, <2>2
<1>10. CASE TokenRead(k)
  <2>1. PICK r : call' = [call EXCEPT ![k] = [@ EXCEPT !.pc = "apply", !.held = r]] /\ call[k].pc = "run"
    BY <1>10 DEF TokenRead, At
  <2> DEFINE v == [call[k] EXCEPT !.pc = "apply", !.held = r]
  <2>2. v.pc # "new" /\ v.flagged = call[k].flagged /\ v.sub = call[k].sub /\ v.op = call[k].op
        /\ v.kind = call[k].kind /\ call' = [call EXCEPT ![k] = v]
    BY <1>0, <2>1 DEF CallState
  <2> HIDE DEF v
  <2>3. QED BY <1>4, <2>1, <2>2
<1>11. CASE TokenInsert(k) \/ RevokeCheck(k)
  <2>1. PICK pc, t :
          /\ call' = [call EXCEPT ![k] = [@ EXCEPT !.pc = pc, !.id = t]]
          /\ call[k].pc \in {"run", "apply"} /\ pc \in {"sign", "apply"}
    BY <1>11 DEF TokenInsert, RevokeCheck, At
  <2> DEFINE v == [call[k] EXCEPT !.pc = pc, !.id = t]
  <2>2. v.pc # "new" /\ v.flagged = call[k].flagged /\ v.sub = call[k].sub /\ v.op = call[k].op
        /\ v.kind = call[k].kind /\ call' = [call EXCEPT ![k] = v]
    BY <1>0, <2>1 DEF CallState
  <2> HIDE DEF v
  <2>3. QED BY <1>4, <2>1, <2>2
<1>12. CASE CreateUser(k)
  <2>1. PICK u, g : /\ call[k].pc = "apply"
                    /\ call' = [call EXCEPT ![k] = IF g = NoGroup THEN Blank("over")
                                 ELSE [@ EXCEPT !.pc = "join", !.id = u, !.group = g]]
    BY <1>12, Zenon DEF CreateUser, At
  <2>2. CASE g = NoGroup
    BY <1>1, <2>1, <2>2
  <2>3. CASE g # NoGroup
    <3> DEFINE v == [call[k] EXCEPT !.pc = "join", !.id = u, !.group = g]
    <3>1. v.pc # "new" /\ v.flagged = call[k].flagged /\ v.sub = call[k].sub /\ v.op = call[k].op
          /\ v.kind = call[k].kind /\ call' = [call EXCEPT ![k] = v]
      BY <1>0, <2>1, <2>3 DEF CallState
    <3> HIDE DEF v
    <3>2. QED BY <1>4, <2>1, <3>1
  <2>4. QED BY <2>2, <2>3
<1>13. QED
  BY <1>1, <1>3, <1>5, <1>6, <1>8, <1>9, <1>10, <1>11, <1>12
     DEF Handle, LoginSign, JoinGroup, UpdateUser, DeleteUser, TokenSign, Revoke, Refused,
         SetMember, OwnRow, Answer

LEMMA InitForced == Init => FInv
<1> SUFFICES ASSUME Init, NEW k \in Calls PROVE Forced(k)
  BY DEF FInv
<1>1. call[k] = Blank("new")
  BY DEF Init
<1>2. QED BY <1>1 DEF Blank, Forced

LEMMA NextKeepsForced == ~Faulty /\ IInv /\ FInv /\ [Next]_vars => FInv'
<1> SUFFICES ASSUME ~Faulty, IInv, FInv, [Next]_vars PROVE FInv'
  OBVIOUS
<1>1. CASE UNCHANGED vars
  BY <1>1 DEF vars, FInv, Forced, Exists
<1>2. QED BY <1>1, StepForced, ChangePasswordKeepsForced DEF Next

\* jwt_auth.rs: as long as the look-up of the flag answers, the middleware
\* holds back every session of a user who must change the password, though
\* flags are raised, passwords changed and users deleted amid the requests.
THEOREM FlaggedSessionsWait == ASSUME ~Faulty PROVE Spec => []ForcedChange
<1>1. FInv => ForcedChange
  BY DEF FInv, Forced, ForcedChange
<1>2. QED BY <1>1, InitIInv, NextKeepsIInv, InitForced, NextKeepsForced, PTL DEF Spec
=============================================================================
