-------------------------- MODULE EsamServerProofs --------------------------
(***************************************************************************)
(* Proofs about EsamServer, for any number of channels, rules, requests    *)
(* and administrators: rows keep their types; the inductive invariant; and *)
(* the theorems that follow from it: type correctness, referential         *)
(* integrity, the audit trail, and that a deleted row serves no later      *)
(* request.                                                                *)
(***************************************************************************)
EXTENDS EsamServer, FiniteSetTheorems, WellFoundedInduction, TLAPS

\* A row that is there has the type of a stored row.
LEMMA StoredRows ==
  ASSUME TypeOK
  PROVE  /\ \A c \in Channels : chan[c].st # "none" => chan[c] \in StoredChan
         /\ \A r \in Rules : rule[r].st # "none" => rule[r] \in StoredRule
<1>1. NoChanRow.st = "none" /\ NoRuleRow.st = "none"
  BY DEF NoChanRow, NoRuleRow
<1>2. QED
  BY <1>1 DEF TypeOK, ChanRow, RuleRow

\* The initial state is well-typed.
LEMMA InitTypeOK == Init => TypeOK
<1> SUFFICES ASSUME Init PROVE TypeOK
  OBVIOUS
<1>1. NoChanRow \in ChanRow /\ NoRuleRow \in RuleRow
  BY DEF ChanRow, RuleRow
<1>2. AdmIdle \in AdmState
  BY DEF AdmIdle, AdmState
<1>3. (CHOOSE s \in Signals : TRUE) \in Signals
  BY EsamServerAssumption
<1>4. req \in [Requests -> ReqState]
  BY <1>3, EsamServerAssumption DEF Init, ReqState, Status
<1>5. restarts \in 0..MaxRestarts
  BY EsamServerAssumption DEF Init
<1>6. QED
  BY <1>1, <1>2, <1>4, <1>5 DEF Init, TypeOK, ServerState

\* An administrator about to insert a rule knows a channel.
AdmChannel == \A a \in Admins : adm[a].pc = "create" => adm[a].ch \in Channels

\* The start-up's steps and a crash keep the variables well-typed.
LEMMA BootTypeOK == TypeOK /\ (Boot \/ Crash) => TypeOK'
<1> SUFFICES ASSUME TypeOK, Boot \/ Crash PROVE TypeOK'
  OBVIOUS
<1> USE EsamServerAssumption
<1>1. NoChanRow \in ChanRow /\ NoRuleRow \in RuleRow
  BY DEF ChanRow, RuleRow
<1>2. CASE BootPurge
  <2>1. chan' \in [Channels -> ChanRow] /\ rule' \in [Rules -> RuleRow]
    BY <1>1, <1>2 DEF TypeOK, BootPurge
  <2>2. QED
    BY <1>2, <2>1 DEF TypeOK, BootPurge, ServerState
<1>3. CASE BootChannel
  <2>1. [st |-> "live", name |-> Default, enabled |-> TRUE,
         minTier |-> 0] \in ChanRow
    BY DEF ChanRow, StoredChan
  <2>2. QED
    BY <1>3, <2>1 DEF TypeOK, BootChannel, ServerState
<1>4. CASE BootRule
  <2>1. ASSUME NEW c \in Channels
        PROVE  [st |-> "live", ch |-> c, prio |-> 0, enabled |-> TRUE,
                match |-> Signals, action |-> "noop"] \in RuleRow
    BY DEF RuleRow, StoredRule
  <2>2. rule' \in [Rules -> RuleRow]
    BY <1>4, <2>1 DEF TypeOK, BootRule
  <2>3. QED
    BY <1>4, <2>2 DEF TypeOK, BootRule, ServerState
<1>5. CASE Crash
  <2>1. AdmIdle \in AdmState
    BY DEF AdmIdle, AdmState
  <2>2. ASSUME NEW q \in Requests PROVE [req[q] EXCEPT !.pc = "lost"] \in ReqState
    BY DEF TypeOK, ReqState
  <2>3. req' \in [Requests -> ReqState]
    BY <1>5, <2>2 DEF TypeOK, Crash
  <2>4. restarts' \in 0..MaxRestarts
    BY <1>5 DEF TypeOK, Crash
  <2>5. QED
    BY <1>5, <2>1, <2>3, <2>4 DEF TypeOK, Crash, ServerState
<1>6. QED
  BY <1>2, <1>3, <1>4, <1>5 DEF Boot

\* The ESAM handler's steps keep the variables well-typed.
LEMMA EsamTypeOK == ASSUME NEW q \in Requests, TypeOK, Esam(q) PROVE TypeOK'
<1> USE EsamServerAssumption
<1>0. req[q] \in ReqState
  BY DEF TypeOK
<1>1. CASE EsamRejected(q)
  <2>1. PICK path \in Names \cup {NoName} :
          req' = [req EXCEPT ![q] = [@ EXCEPT !.pc = "log", !.name = path,
                                              !.status = "unverified"]]
    BY <1>1 DEF EsamRejected
  <2>2. [req[q] EXCEPT !.pc = "log", !.name = path, !.status = "unverified"] \in ReqState
    BY <1>0 DEF ReqState, Status
  <2>3. QED
    BY <1>1, <2>1, <2>2 DEF TypeOK, EsamRejected
<1>2. CASE EsamUnparseable(q)
  <2>1. [req[q] EXCEPT !.pc = "log", !.status = "bad"] \in ReqState
    BY <1>0 DEF ReqState, Status
  <2>2. QED
    BY <1>2, <2>1 DEF TypeOK, EsamUnparseable
<1>3. CASE EsamArrive(q)
  <2>1. PICK path, acq, scope \in Names \cup {NoName}, tier \in Tiers, sig \in Signals :
          /\ ~SesameOn => tier = 0
          /\ tier < 2 => scope = NoName
          /\ req' = [req EXCEPT ![q] =
                       [@ EXCEPT !.pc = "lookup", !.name = ChannelName(path, acq),
                                 !.sig = sig, !.tier = tier, !.scope = scope,
                                 !.goneRules = GoneRules, !.goneChans = GoneChans]]
    BY <1>3, Zenon DEF EsamArrive
  <2>2. ChannelName(path, acq) \in Names \cup {NoName}
    BY DEF ChannelName
  <2>3. tier \in 0..3 /\ GoneRules \in SUBSET Rules /\ GoneChans \in SUBSET Channels
    BY DEF GoneRules, GoneChans
  <2>4. [req[q] EXCEPT !.pc = "lookup", !.name = ChannelName(path, acq),
                       !.sig = sig, !.tier = tier, !.scope = scope,
                       !.goneRules = GoneRules, !.goneChans = GoneChans] \in ReqState
    BY <1>0, <2>2, <2>3 DEF ReqState
  <2>5. QED
    BY <1>3, <2>1, <2>4 DEF TypeOK, EsamArrive
<1>4. CASE EsamLookup(q)
  <2>1. ASSUME NEW c \in Channels PROVE [req[q] EXCEPT !.pc = "rules", !.ch = c] \in ReqState
    BY <1>0 DEF ReqState
  <2>2. /\ [req[q] EXCEPT !.pc = "done", !.status = "refused"] \in ReqState
        /\ [req[q] EXCEPT !.pc = "log", !.status = "missing"] \in ReqState
    BY <1>0 DEF ReqState, Status
  <2>3. req' \in [Requests -> ReqState]
    BY <1>4, <2>1, <2>2 DEF TypeOK, EsamLookup
  <2>4. QED
    BY <1>4, <2>3 DEF TypeOK, EsamLookup
<1>5. CASE EsamReadRules(q)
  <2>1. ASSUME NEW r \in Rules, rule[r].st = "live"
        PROVE  [req[q] EXCEPT !.pc = "log", !.status = "ok", !.rule = r,
                              !.action = rule[r].action] \in ReqState
    <3>1. rule[r].action \in Actions
      BY <2>1, StoredRows DEF StoredRule
    <3>2. QED
      BY <1>0, <3>1 DEF ReqState, Status
  <2>2. /\ [req[q] EXCEPT !.pc = "log", !.status = "ok"] \in ReqState
        /\ [req[q] EXCEPT !.pc = "log", !.status = "error"] \in ReqState
    BY <1>0 DEF ReqState, Status
  <2>3. \A r \in FirstMatches(req[q].ch, req[q].sig) : r \in Rules /\ rule[r].st = "live"
    BY DEF FirstMatches, Eligible
  <2> DEFINE matched(r) == [req[q] EXCEPT !.pc = "log", !.status = "ok",
                                          !.rule = r, !.action = rule[r].action]
             unmatched  == [req[q] EXCEPT !.pc = "log", !.status = "ok"]
             failed     == [req[q] EXCEPT !.pc = "log", !.status = "error"]
  <2>4. \/ \E r \in FirstMatches(req[q].ch, req[q].sig) : req' = [req EXCEPT ![q] = matched(r)]
        \/ req' = [req EXCEPT ![q] = unmatched]
        \/ req' = [req EXCEPT ![q] = failed]
    BY <1>5, Zenon DEF EsamReadRules
  <2>5. \A r \in FirstMatches(req[q].ch, req[q].sig) : matched(r) \in ReqState
    BY <2>1, <2>3
  <2>6. unmatched \in ReqState /\ failed \in ReqState
    BY <2>2
  <2> HIDE DEF matched, unmatched, failed
  <2>7. req' \in [Requests -> ReqState]
    BY <2>4, <2>5, <2>6 DEF TypeOK
  <2>8. QED
    BY <1>5, <2>7 DEF TypeOK, EsamReadRules
<1>6. CASE EsamLog(q)
  <2>1. [req[q] EXCEPT !.pc = "done"] \in ReqState
    BY <1>0 DEF ReqState
  <2>2. EventOf(q) \in EventRow
    BY <1>0 DEF EventOf, EventRow, ReqState
  <2>3. QED
    BY <1>6, <2>1, <2>2 DEF TypeOK, EsamLog
<1>7. CASE EsamDropped(q)
  <2>1. [req[q] EXCEPT !.pc = "lost"] \in ReqState
    BY <1>0 DEF ReqState
  <2>2. QED
    BY <1>7, <2>1 DEF TypeOK, EsamDropped
<1>8. QED
  BY <1>1, <1>2, <1>3, <1>4, <1>5, <1>6, <1>7 DEF Esam

\* Channel administration keeps the variables well-typed.
LEMMA ChannelAdminTypeOK == TypeOK /\ ChannelAdmin => TypeOK'
<1> SUFFICES ASSUME TypeOK, ChannelAdmin PROVE TypeOK'
  OBVIOUS
<1> USE EsamServerAssumption
<1>1. CASE CreateChannel
  <2>1. ASSUME NEW n \in Names, NEW en \in BOOLEAN
        PROVE  [st |-> "live", name |-> n, enabled |-> en,
                minTier |-> 0] \in ChanRow
    BY DEF ChanRow, StoredChan
  <2>2. chan' \in [Channels -> ChanRow]
    BY <1>1, <2>1 DEF TypeOK, CreateChannel
  <2>3. QED
    BY <1>1, <2>2 DEF TypeOK, CreateChannel
<1>2. CASE UpdateChannel
  <2>1. ASSUME NEW c \in Channels, Live(c), NEW n \in Names, NEW en \in BOOLEAN
        PROVE  [chan[c] EXCEPT !.name = n, !.enabled = en] \in ChanRow
    <3>1. chan[c] \in StoredChan
      BY <2>1, StoredRows DEF Live
    <3>2. QED
      BY <3>1 DEF StoredChan, ChanRow
  <2>2. PICK c \in Channels, n \in Names, en \in BOOLEAN :
          /\ Live(c)
          /\ n = chan[c].name \/ ~NameTaken(n)
          /\ chan' = [chan EXCEPT ![c] = [@ EXCEPT !.name = n, !.enabled = en]]
    BY <1>2, Zenon DEF UpdateChannel
  <2> DEFINE v == [chan[c] EXCEPT !.name = n, !.enabled = en]
  <2>3. v \in ChanRow
    BY <2>1, <2>2
  <2>4. chan' = [chan EXCEPT ![c] = v]
    BY <2>2, Zenon
  <2> HIDE DEF v
  <2>5. chan' \in [Channels -> ChanRow]
    BY <2>3, <2>4 DEF TypeOK
  <2>6. QED
    BY <1>2, <2>5 DEF TypeOK, UpdateChannel
<1>3. CASE DeleteChannel
  <2>1. ASSUME NEW c \in Channels, Live(c)
        PROVE  [chan[c] EXCEPT !.st = "deleted", !.enabled = FALSE] \in ChanRow
    <3>1. chan[c] \in StoredChan
      BY <2>1, StoredRows DEF Live
    <3>2. QED
      BY <3>1 DEF StoredChan, ChanRow
  <2>2. chan' \in [Channels -> ChanRow]
    BY <1>3, <2>1 DEF TypeOK, DeleteChannel
  <2>3. QED
    BY <1>3, <2>2 DEF TypeOK, DeleteChannel
<1>4. CASE OperatorSetsTier
  <2>1. ASSUME NEW c \in Channels, chan[c].st # "none", NEW t \in Tiers
        PROVE  [chan[c] EXCEPT !.minTier = t] \in ChanRow
    <3>1. chan[c] \in StoredChan
      BY <2>1, StoredRows
    <3>2. QED
      BY <3>1 DEF StoredChan, ChanRow
  <2>2. chan' \in [Channels -> ChanRow]
    BY <1>4, <2>1 DEF TypeOK, OperatorSetsTier
  <2>3. QED
    BY <1>4, <2>2 DEF TypeOK, OperatorSetsTier
<1>5. QED
  BY <1>1, <1>2, <1>3, <1>4 DEF ChannelAdmin

\* Rule administration keeps the variables well-typed.
LEMMA RuleAdminTypeOK == TypeOK /\ AdmChannel /\ RuleAdmin => TypeOK'
<1> SUFFICES ASSUME TypeOK, AdmChannel, RuleAdmin PROVE TypeOK'
  OBVIOUS
<1> USE EsamServerAssumption
<1>0. AdmIdle \in AdmState
  BY DEF AdmIdle, AdmState
<1>1. CASE UpdateRule
  <2>1. ASSUME NEW r \in Rules, rule[r].st = "live", NEW p \in Int, NEW en \in BOOLEAN,
               NEW m \in SUBSET Signals, NEW act \in Actions
        PROVE  [rule[r] EXCEPT !.prio = p, !.enabled = en, !.match = m, !.action = act]
                  \in RuleRow
    <3>1. rule[r] \in StoredRule
      BY <2>1, StoredRows
    <3>2. QED
      BY <3>1 DEF StoredRule, RuleRow
  <2>2. PICK r \in Rules, p \in Priorities, en \in BOOLEAN,
             m \in SUBSET Signals, act \in Actions :
          /\ rule[r].st = "live"
          /\ rule' = [rule EXCEPT ![r] = [@ EXCEPT !.prio = p, !.enabled = en,
                                                 !.match = m, !.action = act]]
    BY <1>1, Zenon DEF UpdateRule
  <2> DEFINE v == [rule[r] EXCEPT !.prio = p, !.enabled = en, !.match = m, !.action = act]
  <2>3. v \in RuleRow
    BY <2>1, <2>2
  <2>4. rule' = [rule EXCEPT ![r] = v]
    BY <2>2, Zenon
  <2> HIDE DEF v
  <2>5. rule' \in [Rules -> RuleRow]
    BY <2>3, <2>4 DEF TypeOK
  <2>6. QED
    BY <1>1, <2>5 DEF TypeOK, UpdateRule
<1>2. CASE DeleteRule
  <2>1. ASSUME NEW r \in Rules, rule[r].st = "live"
        PROVE  [rule[r] EXCEPT !.st = "deleted", !.enabled = FALSE] \in RuleRow
    <3>1. rule[r] \in StoredRule
      BY <2>1, StoredRows
    <3>2. QED
      BY <3>1 DEF StoredRule, RuleRow
  <2>2. rule' \in [Rules -> RuleRow]
    BY <1>2, <2>1 DEF TypeOK, DeleteRule
  <2>3. QED
    BY <1>2, <2>2 DEF TypeOK, DeleteRule
<1>3. ASSUME NEW a \in Admins, CreateRuleRead(a) PROVE TypeOK'
  <2>1. PICK c \in Channels : \E p \in NextPriorities(c) :
          adm' = [adm EXCEPT ![a] =
                    [pc |-> "create", ch |-> c, nextp |-> p, first |-> NoRule]]
    BY <1>3 DEF CreateRuleRead
  <2>2. NextPriorities(c) \subseteq Int
    <3>1. \A r \in LiveRules(c) : rule[r].prio \in Int
      BY StoredRows DEF LiveRules, StoredRule
    <3>2. QED
      BY <3>1 DEF NextPriorities
  <2>3. ASSUME NEW p \in Int
        PROVE  [pc |-> "create", ch |-> c, nextp |-> p, first |-> NoRule] \in AdmState
    BY DEF AdmState
  <2>4. adm' \in [Admins -> AdmState]
    BY <2>1, <2>2, <2>3 DEF TypeOK
  <2>5. QED
    BY <1>3, <2>4 DEF TypeOK, CreateRuleRead
<1>4. ASSUME NEW a \in Admins, NEW p \in Int, InsertRule(a, p) PROVE TypeOK'
  <2>1. adm[a].ch \in Channels
    BY <1>4 DEF InsertRule, AdmChannel
  <2>2. ASSUME NEW en \in BOOLEAN, NEW m \in SUBSET Signals, NEW act \in Actions
        PROVE  [st |-> "live", ch |-> adm[a].ch, prio |-> p,
                enabled |-> en, match |-> m, action |-> act] \in RuleRow
    BY <2>1 DEF RuleRow, StoredRule
  <2>3. rule' \in [Rules -> RuleRow]
    BY <1>4, <2>2 DEF TypeOK, InsertRule
  <2>4. QED
    BY <1>0, <1>4, <2>3 DEF TypeOK, InsertRule
<1>5. ASSUME NEW a \in Admins, CreateRuleInsert(a) PROVE TypeOK'
  BY <1>4, <1>5 DEF CreateRuleInsert
<1>6. ASSUME NEW a \in Admins, CreateRuleAppend(a) PROVE TypeOK'
  <2>1. adm[a].nextp \in Int
    BY DEF TypeOK, AdmState
  <2>2. QED
    BY <1>4, <1>6, <2>1 DEF CreateRuleAppend
<1>7. ASSUME NEW a \in Admins, CreateRuleAbandon(a) PROVE TypeOK'
  BY <1>0, <1>7 DEF TypeOK, CreateRuleAbandon
<1>8. ASSUME NEW a \in Admins, ReorderCheck(a) PROVE TypeOK'
  <2>1. ASSUME NEW r \in Rules, rule[r].st = "live"
        PROVE  [pc |-> "reorder", ch |-> rule[r].ch, nextp |-> 0, first |-> r] \in AdmState
    BY <2>1, StoredRows DEF AdmState, StoredRule
  <2>2. adm' \in [Admins -> AdmState]
    BY <1>8, <2>1 DEF TypeOK, ReorderCheck
  <2>3. QED
    BY <1>8, <2>2 DEF TypeOK, ReorderCheck
<1>9. ASSUME NEW a \in Admins, ReorderCommit(a) PROVE TypeOK'
  <2>1. PICK s \in ReorderLists(adm[a].first) :
          rule' = [r \in Rules |->
                    IF rule[r].st # "none" /\ \E i \in DOMAIN s : s[i] = r
                      THEN [rule[r] EXCEPT !.prio = 10 * (LastPosition(s, r) - 1)]
                      ELSE rule[r]]
    BY <1>9 DEF ReorderCommit
  <2>2. PICK n \in 1..MaxReorder : s \in [1..n -> Rules]
    BY DEF ReorderLists
  <2>3. ASSUME NEW r \in Rules, \E i \in DOMAIN s : s[i] = r
        PROVE  10 * (LastPosition(s, r) - 1) \in Int
    <3> DEFINE P == {i \in DOMAIN s : \E j \in DOMAIN s : i <= j /\ s[j] = r}
    <3>1. P \in SUBSET (1..n) /\ n \in Int
      BY <2>2
    <3> HIDE DEF P
    <3>2. IsFiniteSet(P)
      <4>1. IsFiniteSet(1..n)
        BY <3>1, FS_Interval, 1 \in Int
      <4>2. QED
        BY <3>1, <4>1, FS_Subset
    <3>3. QED
      BY <3>2, FS_CardinalityType DEF LastPosition, P
  <2>4. ASSUME NEW r \in Rules, rule[r].st # "none", NEW p \in Int
        PROVE  [rule[r] EXCEPT !.prio = p] \in RuleRow
    <3>1. rule[r] \in StoredRule
      BY <2>4, StoredRows
    <3>2. QED
      BY <3>1 DEF StoredRule, RuleRow
  <2>5. rule' \in [Rules -> RuleRow]
    BY <2>1, <2>3, <2>4 DEF TypeOK
  <2>6. QED
    BY <1>0, <1>9, <2>5 DEF TypeOK, ReorderCommit
<1>10. QED
  BY <1>1, <1>2, <1>3, <1>5, <1>6, <1>7, <1>8, <1>9 DEF RuleAdmin

-----------------------------------------------------------------------------
(* The invariant.                                                           *)

\* What a request at a point of the handler has established: nothing is
\* resolved before the look-up, no deleted row was, and while it reads the
\* tables no row that was deleted when it arrived comes back.
Progress(q) ==
    /\ InFlight(q) => server = "up"
    /\ req[q].pc \in {"idle", "lookup"} =>
         req[q].ch = NoChannel /\ req[q].rule = NoRule /\ req[q].status = "none"
    /\ req[q].pc = "rules" =>
         req[q].ch \notin req[q].goneChans /\ req[q].rule = NoRule /\ req[q].status = "none"
    /\ req[q].pc = "log" => req[q].status # "refused"
    /\ req[q].pc \in {"lookup", "rules"} =>
         /\ \A r \in req[q].goneRules : rule[r].st = "deleted"
         /\ \A c \in req[q].goneChans : chan[c].st = "deleted"

IInv ==
    /\ TypeOK
    /\ AdmChannel
    /\ \A q \in Requests : Progress(q)
    /\ RulesHaveChannels
    /\ EventsHaveRules
    /\ RequestsHaveRows
    /\ NamesUnique
    /\ EventsTellAnswers
    /\ AnswersAreLogged
    /\ DeletedNeverServes

\* No step but the purge of the start-up removes a row, and none revives one.
RowsKept ==
    /\ \A c \in Channels : chan[c].st # "none" => chan'[c].st # "none"
    /\ \A c \in Channels : chan[c].st = "deleted" => chan'[c].st = "deleted"
    /\ \A r \in Rules : rule[r].st # "none" => rule'[r].st # "none"
    /\ \A r \in Rules : rule[r].st = "deleted" => rule'[r].st = "deleted"

\* The steps that change table channels keep its rows and its names unique.
LEMMA ChannelStep ==
  ASSUME TypeOK, BootChannel \/ ChannelAdmin
  PROVE  RowsKept /\ (NamesUnique => NamesUnique')
<1> USE EsamServerAssumption
<1>1. CASE BootChannel
  <2>1. CASE UNCHANGED chan
    BY <1>1, <2>1 DEF BootChannel, RowsKept, NamesUnique
  <2>2. CASE ~NameTaken(Default) /\ \E c \in Channels :
               /\ chan[c].st = "none"
               /\ chan' = [chan EXCEPT ![c] =
                             [st |-> "live", name |-> Default, enabled |-> TRUE,
                              minTier |-> 0]]
    BY <1>1, <2>2 DEF BootChannel, RowsKept, NamesUnique, NameTaken, TypeOK
  <2>3. QED
    BY <1>1, <2>1, <2>2 DEF BootChannel
<1>2. CASE CreateChannel
  BY <1>2 DEF CreateChannel, RowsKept, NamesUnique, NameTaken, TypeOK
<1>3. CASE UpdateChannel
  <2>1. PICK c \in Channels, n \in Names, en \in BOOLEAN :
          /\ Live(c)
          /\ n = chan[c].name \/ ~NameTaken(n)
          /\ chan' = [chan EXCEPT ![c] = [@ EXCEPT !.name = n, !.enabled = en]]
    BY <1>3, Zenon DEF UpdateChannel
  <2> DEFINE v == [chan[c] EXCEPT !.name = n, !.enabled = en]
  <2>2. chan[c] \in StoredChan
    BY <2>1, StoredRows DEF Live
  <2>3. v.st = "live" /\ v.name = n
    BY <2>1, <2>2 DEF Live, StoredChan
  <2>4. chan' = [chan EXCEPT ![c] = v]
    BY <2>1, Zenon
  <2> HIDE DEF v
  <2>5. rule' = rule
    BY <1>3 DEF UpdateChannel
  <2>6. QED
    BY <2>1, <2>3, <2>4, <2>5 DEF RowsKept, NamesUnique, NameTaken, Live, TypeOK
<1>4. CASE DeleteChannel
  <2>1. PICK c \in Channels :
          /\ Live(c)
          /\ chan' = [chan EXCEPT ![c] = [@ EXCEPT !.st = "deleted", !.enabled = FALSE]]
    BY <1>4, Zenon DEF DeleteChannel
  <2> DEFINE v == [chan[c] EXCEPT !.st = "deleted", !.enabled = FALSE]
  <2>2. chan[c] \in StoredChan
    BY <2>1, StoredRows DEF Live
  <2>3. v.st = "deleted" /\ v.name = chan[c].name
    BY <2>2 DEF StoredChan
  <2>4. chan' = [chan EXCEPT ![c] = v]
    BY <2>1, Zenon
  <2> HIDE DEF v
  <2>5. rule' = rule
    BY <1>4 DEF DeleteChannel
  <2>6. QED
    BY <2>1, <2>3, <2>4, <2>5 DEF RowsKept, NamesUnique, Live, TypeOK
<1>5. CASE OperatorSetsTier
  <2>1. PICK c \in Channels, t \in Tiers :
          /\ chan[c].st # "none"
          /\ chan' = [chan EXCEPT ![c].minTier = t]
    BY <1>5, Zenon DEF OperatorSetsTier
  <2> DEFINE v == [chan[c] EXCEPT !.minTier = t]
  <2>2. chan[c] \in StoredChan
    BY <2>1, StoredRows
  <2>3. v.st = chan[c].st /\ v.name = chan[c].name
    BY <2>2 DEF StoredChan
  <2>4. chan' = [chan EXCEPT ![c] = v]
    BY <2>1, Zenon
  <2> HIDE DEF v
  <2>5. rule' = rule
    BY <1>5 DEF OperatorSetsTier
  <2>6. QED
    BY <2>1, <2>3, <2>4, <2>5 DEF RowsKept, NamesUnique, TypeOK
<1>6. QED
  BY <1>1, <1>2, <1>3, <1>4, <1>5 DEF ChannelAdmin

\* The steps that change table rules keep its rows, their channels, and what
\* an administrator knows.
LEMMA RuleStep ==
  ASSUME TypeOK, AdmChannel, RulesHaveChannels, BootRule \/ RuleAdmin
  PROVE  RowsKept /\ RulesHaveChannels' /\ AdmChannel'
<1> USE EsamServerAssumption
<1>0. chan' = chan
  BY DEF BootRule, RuleAdmin, UpdateRule, DeleteRule, CreateRuleRead, CreateRuleInsert,
         CreateRuleAppend, CreateRuleAbandon, ReorderCheck, ReorderCommit, InsertRule
<1> DEFINE Kept == RowsKept /\ RulesHaveChannels'
           Owned(v) == v.st # "none" /\ v.ch \in Channels /\ chan[v.ch].st # "none"
<1>1. ASSUME NEW r \in Rules, NEW v, Owned(v), rule[r].st = "deleted" => v.st = "deleted",
             rule' = [rule EXCEPT ![r] = v]
      PROVE  Kept
  BY <1>0, <1>1 DEF RowsKept, RulesHaveChannels, TypeOK
<1>2. ASSUME rule' = rule PROVE Kept
  BY <1>0, <1>2 DEF RowsKept, RulesHaveChannels
<1>3. ASSUME NEW a \in Admins, adm' = [adm EXCEPT ![a] = AdmIdle] PROVE AdmChannel'
  BY <1>3 DEF AdmChannel, TypeOK, AdmIdle
<1>4. ASSUME adm' = adm PROVE AdmChannel'
  BY <1>4 DEF AdmChannel
<1>5. CASE BootRule
  <2>1. PICK c \in Channels :
         /\ Live(c) /\ chan[c].name = Default
         /\ \/ /\ \E r \in Rules : rule[r].st = "live" /\ rule[r].ch = c
               /\ UNCHANGED rule
            \/ /\ ~ \E r \in Rules : rule[r].st = "live" /\ rule[r].ch = c
               /\ \E r \in Rules :
                    /\ rule[r].st = "none"
                    /\ rule' = [rule EXCEPT ![r] =
                                  [st |-> "live", ch |-> c, prio |-> 0,
                                   enabled |-> TRUE, match |-> Signals,
                                   action |-> "noop"]]
    BY <1>5, Zenon DEF BootRule
  <2> DEFINE v == [st |-> "live", ch |-> c, prio |-> 0, enabled |-> TRUE,
                   match |-> Signals, action |-> "noop"]
  <2>2. Owned(v)
    BY <2>1 DEF Live
  <2>3. CASE rule' = rule
    BY <1>2, <1>4, <1>5, <2>3 DEF BootRule
  <2>4. ASSUME NEW r \in Rules, rule[r].st = "none", rule' = [rule EXCEPT ![r] = v] PROVE Kept
    <3> HIDE DEF v, Owned, Kept
    <3>1. QED
      BY <1>1, <2>2, <2>4
  <2>5. QED
    BY <1>4, <1>5, <2>1, <2>3, <2>4 DEF BootRule
<1>6. CASE UpdateRule
  <2>1. PICK r \in Rules, p \in Priorities, en \in BOOLEAN,
             m \in SUBSET Signals, act \in Actions :
          /\ rule[r].st = "live"
          /\ rule' = [rule EXCEPT ![r] = [@ EXCEPT !.prio = p, !.enabled = en,
                                                 !.match = m, !.action = act]]
    BY <1>6, Zenon DEF UpdateRule
  <2> DEFINE v == [rule[r] EXCEPT !.prio = p, !.enabled = en, !.match = m, !.action = act]
  <2>2. rule[r] \in StoredRule
    BY <2>1, StoredRows
  <2>3. v.st = "live" /\ v.ch = rule[r].ch /\ rule[r].ch \in Channels
    BY <2>1, <2>2 DEF StoredRule
  <2>4. rule' = [rule EXCEPT ![r] = v]
    BY <2>1, Zenon
  <2> HIDE DEF v
  <2>5. Owned(v)
    BY <2>1, <2>3 DEF RulesHaveChannels
  <2> HIDE DEF Kept, Owned
  <2>6. Kept
    BY <1>1, <2>1, <2>4, <2>5
  <2>7. QED
    BY <1>4, <1>6, <2>6 DEF UpdateRule, Kept
<1>7. CASE DeleteRule
  <2>1. PICK r \in Rules :
          /\ rule[r].st = "live"
          /\ rule' = [rule EXCEPT ![r] = [@ EXCEPT !.st = "deleted", !.enabled = FALSE]]
    BY <1>7, Zenon DEF DeleteRule
  <2> DEFINE v == [rule[r] EXCEPT !.st = "deleted", !.enabled = FALSE]
  <2>2. rule[r] \in StoredRule
    BY <2>1, StoredRows
  <2>3. v.st = "deleted" /\ v.ch = rule[r].ch /\ rule[r].ch \in Channels
    BY <2>2 DEF StoredRule
  <2>4. rule' = [rule EXCEPT ![r] = v]
    BY <2>1, Zenon
  <2> HIDE DEF v
  <2>5. Owned(v)
    BY <2>1, <2>3 DEF RulesHaveChannels
  <2> HIDE DEF Kept, Owned
  <2>6. Kept
    BY <1>1, <2>1, <2>4, <2>5
  <2>7. QED
    BY <1>4, <1>7, <2>6 DEF DeleteRule, Kept
<1>8. ASSUME NEW a \in Admins, CreateRuleRead(a) PROVE Kept /\ AdmChannel'
  <2>1. PICK c \in Channels : \E p \in NextPriorities(c) :
          adm' = [adm EXCEPT ![a] =
                    [pc |-> "create", ch |-> c, nextp |-> p, first |-> NoRule]]
    BY <1>8 DEF CreateRuleRead
  <2>2. AdmChannel'
    BY <2>1 DEF AdmChannel, TypeOK
  <2>3. QED
    BY <1>2, <1>8, <2>2 DEF CreateRuleRead
<1>9. ASSUME NEW a \in Admins, NEW prio, InsertRule(a, prio) PROVE Kept /\ AdmChannel'
  <2>1. PICK r \in Rules, en \in BOOLEAN, m \in SUBSET Signals, act \in Actions :
         /\ rule[r].st = "none"
         /\ rule' = [rule EXCEPT ![r] =
                       [st |-> "live", ch |-> adm[a].ch, prio |-> prio,
                        enabled |-> en, match |-> m, action |-> act]]
    BY <1>9, Zenon DEF InsertRule
  <2> DEFINE v == [st |-> "live", ch |-> adm[a].ch, prio |-> prio,
                   enabled |-> en, match |-> m, action |-> act]
  <2>2. Owned(v)
    BY <1>9 DEF InsertRule, AdmChannel
  <2>3. rule' = [rule EXCEPT ![r] = v]
    BY <2>1, Zenon
  <2> HIDE DEF v, Kept, Owned
  <2>4. Kept
    BY <1>1, <2>1, <2>2, <2>3
  <2>5. QED
    BY <1>3, <1>9, <2>4 DEF InsertRule
<1>10. ASSUME NEW a \in Admins, ReorderCommit(a) PROVE Kept /\ AdmChannel'
  <2>1. PICK s \in ReorderLists(adm[a].first) :
          rule' = [r \in Rules |->
                    IF rule[r].st # "none" /\ \E i \in DOMAIN s : s[i] = r
                      THEN [rule[r] EXCEPT !.prio = 10 * (LastPosition(s, r) - 1)]
                      ELSE rule[r]]
    BY <1>10 DEF ReorderCommit
  <2>2. ASSUME NEW r \in Rules PROVE rule'[r].st = rule[r].st /\ rule'[r].ch = rule[r].ch
    <3>1. CASE rule'[r] = rule[r]
      BY <3>1
    <3>2. CASE rule[r].st # "none" /\ rule'[r] =
                 [rule[r] EXCEPT !.prio = 10 * (LastPosition(s, r) - 1)]
      <4> DEFINE p == 10 * (LastPosition(s, r) - 1)
      <4>1. rule[r] \in StoredRule
        BY <3>2, StoredRows
      <4>2. rule'[r] = [rule[r] EXCEPT !.prio = p]
        BY <3>2, Zenon
      <4> HIDE DEF p
      <4>3. QED
        BY <4>1, <4>2 DEF StoredRule
    <3>3. QED
      BY <2>1, <3>1, <3>2
  <2>3. Kept
    BY <1>0, <2>2 DEF RowsKept, RulesHaveChannels
  <2>4. QED
    BY <1>3, <1>10, <2>3 DEF ReorderCommit
<1>11. ASSUME NEW a \in Admins, CreateRuleAbandon(a) \/ ReorderCheck(a) PROVE Kept /\ AdmChannel'
  <2>1. Kept
    BY <1>2, <1>11 DEF CreateRuleAbandon, ReorderCheck
  <2>2. CASE CreateRuleAbandon(a)
    BY <1>3, <2>1, <2>2 DEF CreateRuleAbandon
  <2>3. CASE ReorderCheck(a)
    BY <2>1, <2>3 DEF ReorderCheck, AdmChannel, TypeOK
  <2>4. QED
    BY <1>11, <2>2, <2>3
<1>12. QED
  BY <1>5, <1>6, <1>7, <1>8, <1>9, <1>10, <1>11
     DEF RuleAdmin, CreateRuleInsert, CreateRuleAppend

\* A step that keeps rows and leaves requests and events alone keeps what
\* the invariant says about them.
LEMMA RowsKeptStep ==
  ASSUME IInv, RowsKept, req' = req, events' = events, server = "up" => server' = "up"
  PROVE  /\ \A q \in Requests : Progress(q)'
         /\ EventsHaveRules' /\ RequestsHaveRows'
         /\ EventsTellAnswers' /\ AnswersAreLogged' /\ DeletedNeverServes'
<1>1. ASSUME NEW q \in Requests PROVE Progress(q)'
  <2>1. Progress(q) /\ req[q] \in ReqState
    BY DEF IInv, TypeOK
  <2>2. req[q].goneRules \subseteq Rules /\ req[q].goneChans \subseteq Channels
    BY <2>1 DEF ReqState
  <2>3. QED
    BY <2>1, <2>2 DEF Progress, InFlight, RowsKept
<1>2. EventsHaveRules'
  <2>1. \A e \in events : e.rule \in Rules \cup {NoRule}
    BY DEF IInv, TypeOK, EventRow
  <2>2. QED
    BY <2>1 DEF IInv, EventsHaveRules, RowsKept
<1>3. RequestsHaveRows'
  <2>1. \A q \in Requests : req[q].rule \in Rules \cup {NoRule} /\ req[q].ch \in Channels \cup {NoChannel}
    BY DEF IInv, TypeOK, ReqState
  <2>2. QED
    BY <2>1 DEF IInv, RequestsHaveRows, RowsKept, InFlight
<1>4. EventsTellAnswers' /\ AnswersAreLogged' /\ DeletedNeverServes'
  BY DEF IInv, EventsTellAnswers, AnswersAreLogged, DeletedNeverServes, EventOf
<1>5. QED
  BY <1>1, <1>2, <1>3, <1>4

\* The purge of the start-up: no request is in flight, and no event refers
\* to a row that goes.
LEMMA PurgeStep == IInv /\ BootPurge => IInv'
<1> SUFFICES ASSUME IInv, BootPurge PROVE IInv'
  OBVIOUS
<1> USE EsamServerAssumption
<1>1. TypeOK'
  BY BootTypeOK DEF IInv, Boot
<1>2. req' = req /\ events' = events /\ adm' = adm /\ server # "up"
  BY DEF BootPurge
<1>3. \A q \in Requests : ~InFlight(q)
  BY <1>2 DEF IInv, Progress
<1>4. \A q \in Requests : Progress(q)'
  BY <1>2, <1>3 DEF IInv, Progress, InFlight
<1>5. RequestsHaveRows' /\ AdmChannel'
  BY <1>2, <1>3 DEF IInv, RequestsHaveRows, InFlight, AdmChannel
<1>6. EventsTellAnswers' /\ AnswersAreLogged' /\ DeletedNeverServes'
  BY <1>2 DEF IInv, EventsTellAnswers, AnswersAreLogged, DeletedNeverServes, EventOf
<1> DEFINE P == {c \in Channels : chan[c].st = "deleted" /\ chan[c].name = Default}
           R == {r \in Rules : rule[r].st # "none" /\ rule[r].ch \in P}
<1>7. CASE UNCHANGED <<chan, rule>>
  BY <1>1, <1>2, <1>4, <1>5, <1>6, <1>7
     DEF IInv, RulesHaveChannels, EventsHaveRules, NamesUnique
<1>8. CASE /\ ~ \E e \in events : e.rule \in R
           /\ chan' = [c \in Channels |-> IF c \in P THEN NoChanRow ELSE chan[c]]
           /\ rule' = [r \in Rules |-> IF r \in R THEN NoRuleRow ELSE rule[r]]
  <2>1. P \subseteq Channels /\ R \subseteq Rules
    OBVIOUS
  <2>2. \A r \in Rules : rule[r].st # "none" /\ rule[r].ch \in P => r \in R
    OBVIOUS
  <2>3. NoChanRow.st = "none" /\ NoRuleRow.st = "none"
    BY DEF NoChanRow, NoRuleRow
  <2>4. \A e \in events : e.rule \in Rules \cup {NoRule}
    BY DEF IInv, TypeOK, EventRow
  <2>5. \A r \in Rules : rule[r].st # "none" => rule[r].ch \in Channels
    BY StoredRows DEF IInv, StoredRule
  <2> HIDE DEF P, R
  <2>6. RulesHaveChannels'
    BY <1>8, <2>2, <2>3, <2>5 DEF IInv, RulesHaveChannels
  <2>7. EventsHaveRules'
    BY <1>2, <1>8, <2>3, <2>4 DEF IInv, EventsHaveRules
  <2>8. NamesUnique'
    BY <1>8, <2>3 DEF IInv, NamesUnique
  <2>9. QED
    BY <1>1, <1>4, <1>5, <1>6, <2>6, <2>7, <2>8 DEF IInv
<1>9. QED
  BY <1>7, <1>8, Zenon DEF BootPurge

\* A crash loses the requests in flight and nothing else.
LEMMA CrashStep == IInv /\ Crash => IInv'
<1> SUFFICES ASSUME IInv, Crash PROVE IInv'
  OBVIOUS
<1> USE EsamServerAssumption
<1>1. TypeOK'
  BY BootTypeOK DEF IInv
<1>2. chan' = chan /\ rule' = rule /\ events' = events
  BY DEF Crash
<1>3. AdmChannel'
  BY DEF Crash, AdmChannel, AdmIdle
<1>4. ASSUME NEW q \in Requests
      PROVE  \/ InFlight(q) /\ req'[q].pc = "lost" /\ req'[q].status = req[q].status
                /\ req'[q].rule = req[q].rule /\ req'[q].ch = req[q].ch
                /\ req'[q].goneRules = req[q].goneRules /\ req'[q].goneChans = req[q].goneChans
             \/ ~InFlight(q) /\ req'[q] = req[q]
  BY DEF Crash, IInv, TypeOK, ReqState
<1>5. \A q \in Requests : ~InFlight(q)'
  BY <1>4 DEF InFlight
<1>6. \A q \in Requests : Progress(q)'
  BY <1>4, <1>5 DEF IInv, Progress, InFlight
<1>7. RequestsHaveRows'
  BY <1>5 DEF RequestsHaveRows
<1>8. EventsTellAnswers'
  <2>1. \A e \in events : e.req \in Requests
    BY DEF IInv, TypeOK, EventRow
  <2>2. QED
    BY <1>2, <1>4, <2>1 DEF IInv, EventsTellAnswers, EventOf, InFlight
<1>9. AnswersAreLogged' /\ DeletedNeverServes'
  BY <1>2, <1>4 DEF IInv, AnswersAreLogged, DeletedNeverServes, InFlight
<1>10. QED
  BY <1>1, <1>2, <1>3, <1>6, <1>7, <1>8, <1>9
     DEF IInv, RulesHaveChannels, EventsHaveRules, NamesUnique

\* A step of the ESAM handler that logs nothing keeps the invariant if what
\* it makes of its own request agrees with it.
LEMMA QuietStep ==
  ASSUME IInv, TypeOK', NEW q \in Requests, NEW v \in ReqState,
         req' = [req EXCEPT ![q] = v], req[q].pc # "done",
         UNCHANGED <<chan, rule, events, adm, server>>,
         Progress(q)',
         v.pc \in {"lookup", "rules", "log"} =>
            /\ v.ch # NoChannel => chan[v.ch].st # "none"
            /\ v.rule # NoRule => rule[v.rule].st # "none",
         v.pc = "done" => v.status = "refused",
         v.status = "ok" => v.rule \notin v.goneRules /\ v.ch \notin v.goneChans
  PROVE  IInv'
<1>1. req'[q] = v /\ \A p \in Requests : p # q => req'[p] = req[p]
  BY DEF IInv, TypeOK
<1>2. \A p \in Requests : Progress(p)'
  BY <1>1 DEF IInv, Progress, InFlight
<1>3. RequestsHaveRows'
  BY <1>1 DEF IInv, RequestsHaveRows, InFlight
<1>4. \A e \in events : e.req \in Requests /\ e.req # q
  BY DEF IInv, TypeOK, EventRow, EventsTellAnswers
<1>5. EventsTellAnswers' /\ AnswersAreLogged'
  BY <1>1, <1>4 DEF IInv, EventsTellAnswers, AnswersAreLogged, EventOf
<1>6. DeletedNeverServes'
  BY <1>1 DEF IInv, DeletedNeverServes
<1>7. RulesHaveChannels' /\ EventsHaveRules' /\ NamesUnique' /\ AdmChannel'
  BY DEF IInv, RulesHaveChannels, EventsHaveRules, NamesUnique, AdmChannel
<1>8. QED
  BY <1>2, <1>3, <1>5, <1>6, <1>7 DEF IInv

\* The ESAM handler keeps the invariant.
LEMMA EsamStep == ASSUME IInv, NEW q \in Requests, Esam(q) PROVE IInv'
<1> USE EsamServerAssumption
<1>1. TypeOK' /\ TypeOK
  BY EsamTypeOK DEF IInv
<1>2. Progress(q) /\ req[q] \in ReqState /\ req'[q] \in ReqState
  BY <1>1 DEF IInv, TypeOK
<1>3. CASE EsamRejected(q)
  <2>1. PICK path \in Names \cup {NoName} :
          req' = [req EXCEPT ![q] = [@ EXCEPT !.pc = "log", !.name = path,
                                              !.status = "unverified"]]
    BY <1>3, Zenon DEF EsamRejected
  <2> DEFINE v == [req[q] EXCEPT !.pc = "log", !.name = path, !.status = "unverified"]
  <2>2. v.pc = "log" /\ v.status = "unverified" /\ v.ch = req[q].ch /\ v.rule = req[q].rule
    BY <1>2 DEF ReqState
  <2>3. req' = [req EXCEPT ![q] = v]
    BY <2>1, Zenon
  <2> HIDE DEF v
  <2>4. req'[q] = v
    BY <1>1, <2>3 DEF TypeOK
  <2>5. Progress(q)'
    BY <1>3, <2>2, <2>4 DEF Progress, InFlight, EsamRejected
  <2>6. req[q].ch = NoChannel /\ req[q].rule = NoRule /\ req[q].pc = "idle"
    BY <1>2, <1>3 DEF Progress, EsamRejected
  <2>7. UNCHANGED <<chan, rule, events, adm, server>>
    BY <1>3 DEF EsamRejected
  <2>8. QED
    BY <1>1, <1>2, <2>2, <2>3, <2>4, <2>5, <2>6, <2>7, QuietStep
<1>4. CASE EsamUnparseable(q)
  <2> DEFINE v == [req[q] EXCEPT !.pc = "log", !.status = "bad"]
  <2>1. req[q].ch = NoChannel /\ req[q].rule = NoRule /\ req[q].pc = "idle"
    BY <1>2, <1>4 DEF Progress, EsamUnparseable
  <2>2. v.pc = "log" /\ v.status = "bad" /\ v.ch = req[q].ch /\ v.rule = req[q].rule
    BY <1>2 DEF ReqState
  <2>3. req' = [req EXCEPT ![q] = v]
    BY <1>4, Zenon DEF EsamUnparseable
  <2> HIDE DEF v
  <2>4. req'[q] = v
    BY <1>1, <2>3 DEF TypeOK
  <2>5. Progress(q)'
    BY <1>4, <2>2, <2>4 DEF Progress, InFlight, EsamUnparseable
  <2>6. UNCHANGED <<chan, rule, events, adm, server>>
    BY <1>4 DEF EsamUnparseable
  <2>7. QED
    BY <1>1, <1>2, <2>1, <2>2, <2>3, <2>4, <2>5, <2>6, QuietStep
<1>5. CASE EsamArrive(q)
  <2>1. PICK path, acq, scope \in Names \cup {NoName}, tier \in Tiers, sig \in Signals :
          /\ ~SesameOn => tier = 0
          /\ tier < 2 => scope = NoName
          /\ req' = [req EXCEPT ![q] =
                       [@ EXCEPT !.pc = "lookup", !.name = ChannelName(path, acq),
                                 !.sig = sig, !.tier = tier, !.scope = scope,
                                 !.goneRules = GoneRules, !.goneChans = GoneChans]]
    BY <1>5, Zenon DEF EsamArrive
  <2> DEFINE v == [req[q] EXCEPT !.pc = "lookup", !.name = ChannelName(path, acq),
                                 !.sig = sig, !.tier = tier, !.scope = scope,
                                 !.goneRules = GoneRules, !.goneChans = GoneChans]
  <2>2. /\ v.pc = "lookup" /\ v.status = req[q].status
        /\ v.ch = req[q].ch /\ v.rule = req[q].rule
        /\ v.goneRules = GoneRules /\ v.goneChans = GoneChans
    BY <1>2 DEF ReqState
  <2>3. req' = [req EXCEPT ![q] = v]
    BY <2>1, Zenon
  <2> HIDE DEF v
  <2>4. req'[q] = v
    BY <1>1, <2>3 DEF TypeOK
  <2>5. /\ req[q].ch = NoChannel /\ req[q].rule = NoRule
        /\ req[q].pc = "idle" /\ req[q].status = "none"
    BY <1>2, <1>5 DEF Progress, EsamArrive
  <2>6. UNCHANGED <<chan, rule, events, adm, server>> /\ server = "up"
    BY <1>5 DEF EsamArrive
  <2>7. Progress(q)'
    BY <2>2, <2>4, <2>5, <2>6 DEF Progress, InFlight, GoneRules, GoneChans
  <2>8. QED
    BY <1>1, <1>2, <2>2, <2>3, <2>4, <2>5, <2>6, <2>7, QuietStep
<1>6. CASE EsamLookup(q)
  <2> DEFINE found(c) == [req[q] EXCEPT !.pc = "rules", !.ch = c]
             refused  == [req[q] EXCEPT !.pc = "done", !.status = "refused"]
             missing  == [req[q] EXCEPT !.pc = "log", !.status = "missing"]
  <2>1. \/ \E c \in Channels : Serving(c, req[q].name) /\ req' = [req EXCEPT ![q] = found(c)]
        \/ req' = [req EXCEPT ![q] = refused]
        \/ req' = [req EXCEPT ![q] = missing]
    BY <1>6, Zenon DEF EsamLookup
  <2>2. /\ req[q].ch = NoChannel /\ req[q].rule = NoRule
        /\ req[q].pc = "lookup" /\ req[q].status = "none" /\ server = "up"
    BY <1>2, <1>6 DEF Progress, EsamLookup, InFlight
  <2>3. UNCHANGED <<chan, rule, events, adm, server>>
    BY <1>6 DEF EsamLookup
  <2>4. ASSUME NEW c \in Channels, Serving(c, req[q].name), req' = [req EXCEPT ![q] = found(c)]
        PROVE  IInv'
    <3>1. /\ found(c).pc = "rules" /\ found(c).ch = c /\ found(c).status = "none"
          /\ found(c).rule = NoRule /\ found(c).goneRules = req[q].goneRules
          /\ found(c).goneChans = req[q].goneChans
      BY <1>2, <2>2 DEF ReqState
    <3> HIDE DEF found
    <3>2. req'[q] = found(c)
      BY <1>1, <2>4 DEF TypeOK
    <3>3. c \notin req[q].goneChans
      BY <1>2, <2>2, <2>4 DEF Progress, Serving, Live
    <3>4. Progress(q)'
      BY <1>2, <2>2, <2>3, <3>1, <3>2, <3>3 DEF Progress, InFlight
    <3>5. chan[c].st # "none"
      BY <2>4 DEF Serving, Live
    <3>6. QED
      BY <1>1, <1>2, <2>2, <2>3, <2>4, <3>1, <3>2, <3>4, <3>5, QuietStep
  <2>5. ASSUME req' = [req EXCEPT ![q] = refused] PROVE IInv'
    <3>1. refused.pc = "done" /\ refused.status = "refused"
      BY <1>2 DEF ReqState
    <3> HIDE DEF refused
    <3>2. req'[q] = refused
      BY <1>1, <2>5 DEF TypeOK
    <3>3. Progress(q)'
      BY <3>1, <3>2 DEF Progress, InFlight
    <3>4. QED
      BY <1>1, <1>2, <2>2, <2>3, <2>5, <3>1, <3>2, <3>3, QuietStep
  <2>6. ASSUME req' = [req EXCEPT ![q] = missing] PROVE IInv'
    <3>1. /\ missing.pc = "log" /\ missing.status = "missing"
          /\ missing.ch = NoChannel /\ missing.rule = NoRule
      BY <1>2, <2>2 DEF ReqState
    <3> HIDE DEF missing
    <3>2. req'[q] = missing
      BY <1>1, <2>6 DEF TypeOK
    <3>3. Progress(q)'
      BY <2>2, <2>3, <3>1, <3>2 DEF Progress, InFlight
    <3>4. QED
      BY <1>1, <1>2, <2>2, <2>3, <2>6, <3>1, <3>2, <3>3, QuietStep
  <2>7. QED
    BY <2>1, <2>4, <2>5, <2>6
<1>7. CASE EsamReadRules(q)
  <2> DEFINE matched(r) == [req[q] EXCEPT !.pc = "log", !.status = "ok",
                                          !.rule = r, !.action = rule[r].action]
             answered(x) == [req[q] EXCEPT !.pc = "log", !.status = x]
  <2>1. \/ \E r \in FirstMatches(req[q].ch, req[q].sig) : req' = [req EXCEPT ![q] = matched(r)]
        \/ req' = [req EXCEPT ![q] = answered("ok")]
        \/ req' = [req EXCEPT ![q] = answered("error")]
    BY <1>7, Zenon DEF EsamReadRules
  <2>2. /\ req[q].rule = NoRule /\ req[q].ch \notin req[q].goneChans
        /\ req[q].pc = "rules" /\ server = "up" /\ InFlight(q)
    BY <1>2, <1>7 DEF Progress, EsamReadRules, InFlight
  <2>3. UNCHANGED <<chan, rule, events, adm, server>>
    BY <1>7 DEF EsamReadRules
  <2>4. req[q].ch # NoChannel => chan[req[q].ch].st # "none"
    BY <2>2 DEF IInv, RequestsHaveRows
  <2>5. req[q].goneRules \subseteq Rules
    BY <1>2 DEF ReqState
  <2>6. ASSUME NEW r \in FirstMatches(req[q].ch, req[q].sig), req' = [req EXCEPT ![q] = matched(r)]
        PROVE  IInv'
    <3>1. /\ matched(r).pc = "log" /\ matched(r).ch = req[q].ch /\ matched(r).status = "ok"
          /\ matched(r).rule = r /\ matched(r).goneRules = req[q].goneRules
          /\ matched(r).goneChans = req[q].goneChans
      BY <1>2 DEF ReqState
    <3> HIDE DEF matched
    <3>2. req'[q] = matched(r)
      BY <1>1, <2>6 DEF TypeOK
    <3>3. rule[r].st = "live"
      BY <2>6 DEF FirstMatches, Eligible
    <3>4. r \notin req[q].goneRules
      BY <1>2, <2>2, <3>3 DEF Progress
    <3>5. Progress(q)'
      BY <2>2, <2>3, <3>1, <3>2 DEF Progress, InFlight
    <3>6. QED
      BY <1>1, <1>2, <2>2, <2>3, <2>4, <2>6, <3>1, <3>2, <3>3, <3>4, <3>5, QuietStep
  <2>7. ASSUME NEW x \in {"ok", "error"}, req' = [req EXCEPT ![q] = answered(x)] PROVE IInv'
    <3>1. /\ answered(x).pc = "log" /\ answered(x).ch = req[q].ch /\ answered(x).status = x
          /\ answered(x).rule = NoRule /\ answered(x).goneRules = req[q].goneRules
          /\ answered(x).goneChans = req[q].goneChans
      BY <1>2, <2>2 DEF ReqState
    <3> HIDE DEF answered
    <3>2. req'[q] = answered(x)
      BY <1>1, <2>7 DEF TypeOK
    <3>3. NoRule \notin req[q].goneRules
      BY <2>5
    <3>4. Progress(q)'
      BY <2>2, <2>3, <2>7, <3>1, <3>2 DEF Progress, InFlight
    <3>5. QED
      BY <1>1, <1>2, <2>2, <2>3, <2>4, <2>7, <3>1, <3>2, <3>3, <3>4, QuietStep
  <2>8. QED
    BY <2>1, <2>6, <2>7
<1>8. CASE EsamLog(q)
  <2> DEFINE v == [req[q] EXCEPT !.pc = "done"]
  <2>1. req' = [req EXCEPT ![q] = v] /\ req[q].pc = "log"
    BY <1>8, Zenon DEF EsamLog
  <2>2. /\ v.pc = "done" /\ v.name = req[q].name /\ v.rule = req[q].rule /\ v.ch = req[q].ch
        /\ v.action = req[q].action /\ v.status = req[q].status
        /\ v.goneRules = req[q].goneRules /\ v.goneChans = req[q].goneChans
    BY <1>2 DEF ReqState
  <2> HIDE DEF v
  <2>3. req'[q] = v /\ \A p \in Requests : p # q => req'[p] = req[p]
    BY <1>1, <2>1 DEF TypeOK
  <2>4. UNCHANGED <<chan, rule, adm, server>>
    BY <1>8 DEF EsamLog
  <2>5. EventOf(q)' = EventOf(q) /\ EventOf(q).req = q /\ EventOf(q).rule = req[q].rule
    BY <2>2, <2>3 DEF EventOf
  <2>6. \A e \in events : e.req \in Requests /\ e.req # q
    BY <2>1 DEF IInv, TypeOK, EventRow, EventsTellAnswers
  <2>7. \A p \in Requests : p # q => EventOf(p)' = EventOf(p)
    BY <2>3 DEF EventOf
  <2>8. events' = events \cup {EventOf(q)} \/ (events' = events /\ "log" \in DbFaults)
    BY <1>8, <2>1 DEF EsamLog, IInv, RequestsHaveRows, InFlight
  <2>9. \A p \in Requests : Progress(p)'
    BY <2>2, <2>3, <2>4 DEF IInv, Progress, InFlight
  <2>10. RequestsHaveRows' /\ DeletedNeverServes'
    BY <2>2, <2>3, <2>4 DEF IInv, RequestsHaveRows, DeletedNeverServes, InFlight
  <2>11. EventsHaveRules'
    BY <1>8, <2>4, <2>5 DEF EsamLog, IInv, EventsHaveRules
  <2>12. EventsTellAnswers'
    <3>1. ASSUME NEW e \in events PROVE req'[e.req].pc = "done" /\ e = EventOf(e.req)'
      BY <2>3, <2>6, <2>7 DEF IInv, EventsTellAnswers
    <3>2. req'[EventOf(q).req].pc = "done" /\ EventOf(q) = EventOf(q)'
      BY <2>2, <2>3, <2>5
    <3>3. \A e \in events' : e \in events \/ e = EventOf(q)
      BY <2>8
    <3>4. QED
      BY <2>5, <3>1, <3>2, <3>3 DEF EventsTellAnswers
  <2>13. AnswersAreLogged'
    <3>1. req[q].status # "refused"
      BY <1>2, <2>1 DEF Progress
    <3>2. "log" \notin DbFaults => events' = events \cup {EventOf(q)}
      BY <2>8
    <3>3. QED
      BY <2>2, <2>3, <2>5, <2>6, <3>1, <3>2 DEF IInv, AnswersAreLogged
  <2>14. RulesHaveChannels' /\ NamesUnique' /\ AdmChannel'
    BY <2>4 DEF IInv, RulesHaveChannels, NamesUnique, AdmChannel
  <2>15. QED
    BY <1>1, <2>9, <2>10, <2>11, <2>12, <2>13, <2>14 DEF IInv
<1>9. CASE EsamDropped(q)
  <2> DEFINE v == [req[q] EXCEPT !.pc = "lost"]
  <2>1. req' = [req EXCEPT ![q] = v] /\ InFlight(q)
    BY <1>9, Zenon DEF EsamDropped
  <2>2. /\ v.pc = "lost" /\ v.rule = req[q].rule /\ v.ch = req[q].ch
        /\ v.status = req[q].status
        /\ v.goneRules = req[q].goneRules /\ v.goneChans = req[q].goneChans
    BY <1>2 DEF ReqState
  <2> HIDE DEF v
  <2>3. req'[q] = v
    BY <1>1, <2>1 DEF TypeOK
  <2>4. UNCHANGED <<chan, rule, events, adm, server>>
    BY <1>9 DEF EsamDropped
  <2>5. Progress(q)'
    BY <2>2, <2>3 DEF Progress, InFlight
  <2>6. req[q].pc # "done"
    BY <2>1 DEF InFlight
  <2>7. v.status = "ok" => v.rule \notin v.goneRules /\ v.ch \notin v.goneChans
    BY <2>2 DEF IInv, DeletedNeverServes
  <2>8. QED
    BY <1>1, <1>2, <2>1, <2>2, <2>3, <2>4, <2>5, <2>6, <2>7, QuietStep
<1>10. QED
  BY <1>3, <1>4, <1>5, <1>6, <1>7, <1>8, <1>9 DEF Esam

\* Every step of the system keeps the invariant.
LEMMA NextKeepsIInv == IInv /\ [Next]_vars => IInv'
<1> SUFFICES ASSUME IInv, [Next]_vars PROVE IInv'
  OBVIOUS
<1>1. CASE BootChannel \/ ChannelAdmin
  <2>1. /\ UNCHANGED <<rule, events, req, adm>>
        /\ server = "up" => server' = "up"
    BY <1>1 DEF BootChannel, ChannelAdmin, CreateChannel, UpdateChannel, DeleteChannel,
                OperatorSetsTier
  <2>2. TypeOK'
    BY <1>1, BootTypeOK, ChannelAdminTypeOK DEF IInv, Boot
  <2>3. RowsKept /\ NamesUnique'
    BY <1>1, ChannelStep DEF IInv
  <2>4. \A r \in Rules : rule[r].st # "none" => rule[r].ch \in Channels
    BY StoredRows DEF IInv, StoredRule
  <2>5. RulesHaveChannels' /\ AdmChannel'
    BY <2>1, <2>3, <2>4 DEF IInv, RulesHaveChannels, AdmChannel, RowsKept
  <2>6. QED
    BY <2>1, <2>2, <2>3, <2>5, RowsKeptStep DEF IInv
<1>2. CASE BootRule \/ RuleAdmin
  <2>1. /\ UNCHANGED <<chan, events, req>>
        /\ server = "up" => server' = "up"
    BY <1>2 DEF BootRule, RuleAdmin, UpdateRule, DeleteRule, CreateRuleRead, CreateRuleInsert,
         CreateRuleAppend, CreateRuleAbandon, ReorderCheck, ReorderCommit, InsertRule
  <2>2. TypeOK'
    BY <1>2, BootTypeOK, RuleAdminTypeOK DEF IInv, Boot
  <2>3. RowsKept /\ RulesHaveChannels' /\ AdmChannel'
    BY <1>2, RuleStep DEF IInv
  <2>4. NamesUnique'
    BY <2>1 DEF IInv, NamesUnique
  <2>5. QED
    BY <2>1, <2>2, <2>3, <2>4, RowsKeptStep DEF IInv
<1>3. CASE BootPurge
  BY <1>3, PurgeStep
<1>4. CASE Crash
  BY <1>4, CrashStep
<1>5. CASE \E q \in Requests : Esam(q)
  BY <1>5, EsamStep
<1>6. CASE UNCHANGED vars
  BY <1>6 DEF vars, IInv, TypeOK, AdmChannel, Progress, InFlight, RulesHaveChannels,
              EventsHaveRules, RequestsHaveRows, NamesUnique, EventsTellAnswers,
              AnswersAreLogged, DeletedNeverServes, EventOf
<1>7. QED
  BY <1>1, <1>2, <1>3, <1>4, <1>5, <1>6 DEF Next, Boot

\* The initial state satisfies the invariant.
LEMMA InitIInv == Init => IInv
<1> SUFFICES ASSUME Init PROVE IInv
  OBVIOUS
<1>1. TypeOK
  BY InitTypeOK
<1>2. ASSUME NEW q \in Requests
      PROVE  /\ req[q].pc = "idle" /\ req[q].ch = NoChannel
             /\ req[q].rule = NoRule /\ req[q].status = "none"
  BY DEF Init
<1>3. \A q \in Requests : Progress(q)
  BY <1>2 DEF Progress, InFlight
<1>4. RequestsHaveRows /\ AnswersAreLogged /\ DeletedNeverServes
  BY <1>2 DEF RequestsHaveRows, AnswersAreLogged, DeletedNeverServes, InFlight
<1>5. AdmChannel /\ RulesHaveChannels /\ EventsHaveRules /\ NamesUnique /\ EventsTellAnswers
  BY DEF Init, AdmChannel, AdmIdle, RulesHaveChannels, EventsHaveRules, NamesUnique,
         EventsTellAnswers, NoChanRow, NoRuleRow
<1>6. QED
  BY <1>1, <1>3, <1>4, <1>5 DEF IInv

\* The invariant holds of every reachable state, for every number of
\* channels, rules, requests and administrators, and any faults.
THEOREM Inductive == Spec => []IInv
<1>1. QED
  BY InitIInv, NextKeepsIInv, PTL DEF Spec

\* Type correctness: whatever the handlers and the start-up do, every table
\* row and every handler's local state keeps its shape.
THEOREM TypeCorrect == Spec => []TypeOK
<1>1. IInv => TypeOK
  BY DEF IInv
<1>2. QED
  BY <1>1, Inductive, PTL

\* Referential integrity: the cascading hard delete of the start-up, the soft
\* deletes and the multi-statement handlers leave no dangling reference.
THEOREM ReferentialIntegrity == Spec => []NoDanglingReferences
<1>1. IInv => NoDanglingReferences
  BY DEF IInv, NoDanglingReferences
<1>2. QED
  BY <1>1, Inductive, PTL

\* The event log agrees with the answers of handle_esam_impl.
THEOREM AuditTrailHolds == Spec => []AuditTrail
<1>1. IInv => AuditTrail
  BY DEF IInv, AuditTrail
<1>2. QED
  BY <1>1, Inductive, PTL

\* A request is answered by no rule and no channel whose delete was
\* acknowledged before the request came in.
THEOREM DeletedRowsNeverServe == Spec => []DeletedNeverServes
<1>1. IInv => DeletedNeverServes
  BY DEF IInv
<1>2. QED
  BY <1>1, Inductive, PTL

\* Every completed start-up leaves a live default channel.
THEOREM BootLeavesDefault == Spec => BootServesDefault
<1>1. ASSUME [Next]_vars, server # "up", server' = "up"
      PROVE  \E c \in Channels : chan'[c].st = "live" /\ chan'[c].name = Default
  <2>1. CASE Boot
    BY <1>1, <2>1 DEF Boot, BootPurge, BootChannel, BootRule, HasDefault, Live
  <2>2. CASE Crash
    BY <1>1, <2>2 DEF Crash
  <2>3. CASE \E q \in Requests : Esam(q)
    BY <1>1, <2>3 DEF Esam, EsamRejected, EsamUnparseable, EsamArrive, EsamLookup,
                      EsamReadRules, EsamLog, EsamDropped
  <2>4. CASE ChannelAdmin
    BY <1>1, <2>4 DEF ChannelAdmin, CreateChannel, UpdateChannel, DeleteChannel, OperatorSetsTier
  <2>5. CASE RuleAdmin
    BY <1>1, <2>5 DEF RuleAdmin, UpdateRule, DeleteRule, CreateRuleRead, CreateRuleInsert,
                      CreateRuleAppend, CreateRuleAbandon, ReorderCheck, ReorderCommit, InsertRule
  <2>6. CASE UNCHANGED vars
    BY <1>1, <2>6 DEF vars
  <2>7. QED
    BY <1>1, <2>1, <2>2, <2>3, <2>4, <2>5, <2>6 DEF Next
<1>2. QED
  BY <1>1, PTL DEF Spec, BootServesDefault

-----------------------------------------------------------------------------
(* The server implements AnswerService.                                     *)

LEMMA Phases ==
    /\ Phase("idle") = "new" /\ Phase("lookup") = "asked" /\ Phase("rules") = "routed"
    /\ Phase("log") = "decided" /\ Phase("done") = "answered" /\ Phase("lost") = "lost"
BY DEF Phase

\* What the service has of a request.
LEMMA AskedNow ==
  ASSUME NEW q \in Requests
  PROVE  /\ Asked[q] = AskedFrom(req[q]) /\ Asked[q].st = Phase(req[q].pc)
         /\ Asked[q].name = req[q].name /\ Asked[q].sig = req[q].sig
         /\ Asked[q].tier = req[q].tier /\ Asked[q].scope = req[q].scope
         /\ Asked[q].ch = req[q].ch /\ Asked[q].rule = req[q].rule
         /\ Asked[q].action = req[q].action /\ Asked[q].status = req[q].status
BY DEF Asked, AskedFrom

\* A step on one request is, in the service, a step on that request.
LEMMA OneAsked ==
  ASSUME TypeOK, NEW q \in Requests, NEW v, req' = [req EXCEPT ![q] = v]
  PROVE  Asked' = [Asked EXCEPT ![q] = AskedFrom(v)]
BY DEF TypeOK, Asked

\* Where a request is in the service is told by its pc.
LEMMA WhereAsked ==
  ASSUME TypeOK, NEW q \in Requests
  PROVE  /\ \A st : Service!Is(q, st) <=> Phase(req[q].pc) = st
         /\ Service!InHand(q) <=> InFlight(q)
<1>1. req[q].pc \in {"idle", "lookup", "rules", "log", "done", "lost"}
  BY DEF TypeOK, ReqState
<1>2. \A st : Service!Is(q, st) <=> Phase(req[q].pc) = st
  BY AskedNow DEF Service!Is
<1>3. QED
  BY <1>1, <1>2, Phases DEF Service!InHand, InFlight

\* A request that comes in is asked of the service, or rejected by it.
LEMMA ArrivalServed ==
  ASSUME IInv, NEW q \in Requests,
         EsamRejected(q) \/ EsamUnparseable(q) \/ EsamArrive(q)
  PROVE  Service!Ask(q) \/ Service!Reject(q)
<1> USE EsamServerAssumption
<1>1. TypeOK /\ req[q] \in ReqState
  BY DEF IInv, TypeOK
<1>2. Service!Is(q, "new") /\ UNCHANGED <<chan, rule, events>>
  BY <1>1, WhereAsked, Phases DEF EsamRejected, EsamUnparseable, EsamArrive
<1>3. CASE EsamRejected(q)
  <2>1. PICK path \in Names \cup {NoName} :
          req' = [req EXCEPT ![q] = [@ EXCEPT !.pc = "log", !.name = path,
                                              !.status = "unverified"]]
    BY <1>3, Zenon DEF EsamRejected
  <2> DEFINE v == [req[q] EXCEPT !.pc = "log", !.name = path, !.status = "unverified"]
  <2>2. req' = [req EXCEPT ![q] = v]
    BY <2>1, Zenon
  <2> DEFINE s == [Asked[q] EXCEPT !.st = "decided", !.name = path, !.status = "unverified"]
  <2>3. /\ v.pc = "log" /\ v.name = path /\ v.sig = req[q].sig
        /\ v.tier = req[q].tier /\ v.scope = req[q].scope /\ v.ch = req[q].ch
        /\ v.rule = req[q].rule /\ v.action = req[q].action /\ v.status = "unverified"
    BY <1>1 DEF ReqState
  <2>4. s = [AskedFrom(req[q]) EXCEPT !.st = "decided", !.name = path, !.status = "unverified"]
    BY AskedNow
  <2> HIDE DEF v, s
  <2>5. Phase(v.pc) = "decided"
    BY <2>3 DEF Phase
  <2>6. AskedFrom(v) = s
    BY <2>3, <2>4, <2>5 DEF AskedFrom
  <2>7. Asked' = [Asked EXCEPT ![q] = s]
    BY <1>1, <2>2, <2>6, OneAsked
  <2>8. QED
    BY <1>1, <1>2, <1>3, <2>2, <2>7, AskedNow
       DEF s, EsamRejected, Service!Reject, Service!TablesStay
<1>4. CASE EsamUnparseable(q)
  <2> DEFINE v == [req[q] EXCEPT !.pc = "log", !.status = "bad"]
  <2>1. req' = [req EXCEPT ![q] = v]
    BY <1>4, Zenon DEF EsamUnparseable
  <2> DEFINE s == [Asked[q] EXCEPT !.st = "decided", !.status = "bad"]
  <2>2. /\ v.pc = "log" /\ v.name = req[q].name /\ v.sig = req[q].sig
        /\ v.tier = req[q].tier /\ v.scope = req[q].scope /\ v.ch = req[q].ch
        /\ v.rule = req[q].rule /\ v.action = req[q].action /\ v.status = "bad"
    BY <1>1 DEF ReqState
  <2>3. s = [AskedFrom(req[q]) EXCEPT !.st = "decided", !.status = "bad"]
    BY AskedNow
  <2> HIDE DEF v, s
  <2>4. Phase(v.pc) = "decided"
    BY <2>2 DEF Phase
  <2>5. AskedFrom(v) = s
    BY <2>2, <2>3, <2>4 DEF AskedFrom
  <2>6. Asked' = [Asked EXCEPT ![q] = s]
    BY <1>1, <2>1, <2>5, OneAsked
  <2>7. QED
    BY <1>1, <1>2, <2>1, <2>6, AskedNow DEF s, Service!Reject, Service!Settle, Service!TablesStay
<1>5. CASE EsamArrive(q)
  <2>1. PICK path, acq, scope \in Names \cup {NoName}, tier \in Tiers, sig \in Signals :
          /\ ~SesameOn => tier = 0
          /\ tier < 2 => scope = NoName
          /\ req' = [req EXCEPT ![q] =
                       [@ EXCEPT !.pc = "lookup", !.name = ChannelName(path, acq),
                                 !.sig = sig, !.tier = tier, !.scope = scope,
                                 !.goneRules = GoneRules, !.goneChans = GoneChans]]
    BY <1>5, Zenon DEF EsamArrive
  <2> DEFINE name == ChannelName(path, acq)
             v == [req[q] EXCEPT !.pc = "lookup", !.name = name,
                                 !.sig = sig, !.tier = tier, !.scope = scope,
                                 !.goneRules = GoneRules, !.goneChans = GoneChans]
  <2>2. req' = [req EXCEPT ![q] = v] /\ name \in Names \cup {NoName}
    BY <2>1 DEF ChannelName
  <2> HIDE DEF name
  <2> DEFINE s == [Asked[q] EXCEPT !.st = "asked", !.name = name, !.sig = sig,
                                   !.tier = tier, !.scope = scope]
  <2>3. /\ v.pc = "lookup" /\ v.name = name /\ v.sig = sig
        /\ v.tier = tier /\ v.scope = scope /\ v.ch = req[q].ch
        /\ v.rule = req[q].rule /\ v.action = req[q].action /\ v.status = req[q].status
    BY <1>1 DEF ReqState
  <2>4. s = [AskedFrom(req[q]) EXCEPT !.st = "asked", !.name = name, !.sig = sig,
                                         !.tier = tier, !.scope = scope]
    BY AskedNow
  <2> HIDE DEF v, s
  <2>5. Phase(v.pc) = "asked"
    BY <2>3 DEF Phase
  <2>6. AskedFrom(v) = s
    BY <2>3, <2>4, <2>5 DEF AskedFrom
  <2>7. Asked' = [Asked EXCEPT ![q] = s]
    BY <1>1, <2>2, <2>6, OneAsked
  <2>8. QED
    BY <1>1, <1>2, <2>2, <2>7, AskedNow DEF s, Service!Ask, Service!TablesStay
<1>6. QED
  BY <1>3, <1>4, <1>5

\* The look-up of the channel routes a request, or settles it.
LEMMA LookupServed ==
  ASSUME IInv, NEW q \in Requests, EsamLookup(q)
  PROVE  Service!Route(q) \/ Service!TurnAway(q) \/ Service!NotFound(q)
<1>1. TypeOK /\ req[q] \in ReqState
  BY DEF IInv, TypeOK
<1>2. Service!Is(q, "asked") /\ UNCHANGED <<chan, rule, events>>
  BY <1>1, WhereAsked, Phases DEF EsamLookup
<1>3. \A c : /\ Service!Serves(c, req[q].name) <=> Serving(c, req[q].name)
             /\ Service!Admits(c, q) <=> PolicyAdmits(q, c)
  BY AskedNow DEF Service!Serves, Serving, Live, Service!Admits, PolicyAdmits
<1>4. Asked[q].name = req[q].name
  BY AskedNow
<1>5. ASSUME NEW c \in Channels, Serving(c, req[q].name), PolicyAdmits(q, c),
             req' = [req EXCEPT ![q] = [@ EXCEPT !.pc = "rules", !.ch = c]]
      PROVE  Service!Route(q)
  <2> DEFINE v == [req[q] EXCEPT !.pc = "rules", !.ch = c]
  <2>1. req' = [req EXCEPT ![q] = v]
    BY <1>5, Zenon
  <2> DEFINE s == [Asked[q] EXCEPT !.st = "routed", !.ch = c]
  <2>2. /\ v.pc = "rules" /\ v.name = req[q].name /\ v.sig = req[q].sig
        /\ v.tier = req[q].tier /\ v.scope = req[q].scope /\ v.ch = c
        /\ v.rule = req[q].rule /\ v.action = req[q].action /\ v.status = req[q].status
    BY <1>1 DEF ReqState
  <2>3. s = [AskedFrom(req[q]) EXCEPT !.st = "routed", !.ch = c]
    BY AskedNow
  <2> HIDE DEF v, s
  <2>4. Phase(v.pc) = "routed"
    BY <2>2 DEF Phase
  <2>5. AskedFrom(v) = s
    BY <2>2, <2>3, <2>4 DEF AskedFrom
  <2>6. Asked' = [Asked EXCEPT ![q] = s]
    BY <1>1, <2>1, <2>5, OneAsked
  <2>7. QED
    BY <1>1, <1>2, <1>3, <1>4, <1>5, <2>1, <2>6, AskedNow DEF s, Service!Route, Service!TablesStay
<1>6. ASSUME NEW c \in Channels, Serving(c, req[q].name), ~PolicyAdmits(q, c),
             req' = [req EXCEPT ![q] = [@ EXCEPT !.pc = "done", !.status = "refused"]]
      PROVE  Service!TurnAway(q)
  <2> DEFINE v == [req[q] EXCEPT !.pc = "done", !.status = "refused"]
  <2>1. req' = [req EXCEPT ![q] = v]
    BY <1>6, Zenon
  <2> DEFINE s == [Asked[q] EXCEPT !.st = "answered", !.status = "refused"]
  <2>2. /\ v.pc = "done" /\ v.name = req[q].name /\ v.sig = req[q].sig
        /\ v.tier = req[q].tier /\ v.scope = req[q].scope /\ v.ch = req[q].ch
        /\ v.rule = req[q].rule /\ v.action = req[q].action /\ v.status = "refused"
    BY <1>1 DEF ReqState
  <2>3. s = [AskedFrom(req[q]) EXCEPT !.st = "answered", !.status = "refused"]
    BY AskedNow
  <2> HIDE DEF v, s
  <2>4. Phase(v.pc) = "answered"
    BY <2>2 DEF Phase
  <2>5. AskedFrom(v) = s
    BY <2>2, <2>3, <2>4 DEF AskedFrom
  <2>6. Asked' = [Asked EXCEPT ![q] = s]
    BY <1>1, <2>1, <2>5, OneAsked
  <2>7. QED
    BY <1>1, <1>2, <1>3, <1>4, <1>6, <2>1, <2>6, AskedNow
       DEF s, Service!TurnAway, Service!Settle, Service!TablesStay
<1>7. ASSUME (~ \E c \in Channels : Serving(c, req[q].name)) \/ "lookup" \in DbFaults,
             req' = [req EXCEPT ![q] = [@ EXCEPT !.pc = "log", !.status = "missing"]]
      PROVE  Service!NotFound(q)
  <2> DEFINE v == [req[q] EXCEPT !.pc = "log", !.status = "missing"]
  <2>1. req' = [req EXCEPT ![q] = v]
    BY <1>7, Zenon
  <2> DEFINE s == [Asked[q] EXCEPT !.st = "decided", !.status = "missing"]
  <2>2. /\ v.pc = "log" /\ v.name = req[q].name /\ v.sig = req[q].sig
        /\ v.tier = req[q].tier /\ v.scope = req[q].scope /\ v.ch = req[q].ch
        /\ v.rule = req[q].rule /\ v.action = req[q].action /\ v.status = "missing"
    BY <1>1 DEF ReqState
  <2>3. s = [AskedFrom(req[q]) EXCEPT !.st = "decided", !.status = "missing"]
    BY AskedNow
  <2> HIDE DEF v, s
  <2>4. Phase(v.pc) = "decided"
    BY <2>2 DEF Phase
  <2>5. AskedFrom(v) = s
    BY <2>2, <2>3, <2>4 DEF AskedFrom
  <2>6. Asked' = [Asked EXCEPT ![q] = s]
    BY <1>1, <2>1, <2>5, OneAsked
  <2>7. QED
    BY <1>1, <1>2, <1>3, <1>4, <1>7, <2>1, <2>6, AskedNow
       DEF s, Service!NotFound, Service!Settle, Service!TablesStay
<1>8. QED
  BY <1>5, <1>6, <1>7, Zenon DEF EsamLookup

\* Of finitely many rules with a priority some rule has the smallest.
LEMMA SomeFirst ==
  ASSUME NEW S \in SUBSET Rules, S # {}, \A r \in S : rule[r].prio \in Int
  PROVE  \E r \in S : \A s \in S : rule[r].prio <= rule[s].prio
<1> DEFINE Before(r) == {s \in S : rule[s].prio < rule[r].prio}
           Counts == {Cardinality(Before(r)) : r \in S}
<1>1. \A r \in S : IsFiniteSet(Before(r)) /\ Cardinality(Before(r)) \in Nat
  BY EsamServerAssumption, FS_Subset, FS_CardinalityType
<1>2. PICK n \in Counts : \A m \in Counts : ~ (<<m, n>> \in OpToRel(<, Nat))
  <2>1. Counts \subseteq Nat /\ Counts # {}
    BY <1>1
  <2>2. QED BY <2>1, NatLessThanWellFounded, WFMin, Zenon
<1>3. PICK r \in S : n = Cardinality(Before(r))
  BY <1>2
<1>4. ASSUME NEW s \in S, rule[s].prio < rule[r].prio PROVE FALSE
  <2>1. Before(s) \in SUBSET (Before(r) \ {s}) /\ s \in Before(r)
    BY <1>4
  <2>2. Cardinality(Before(s)) < Cardinality(Before(r))
    <3> HIDE DEF Before
    <3>1. IsFiniteSet(Before(r) \ {s}) /\ Cardinality(Before(r) \ {s}) = Cardinality(Before(r)) - 1
      BY <1>1, <2>1, FS_RemoveElement
    <3>2. Cardinality(Before(s)) <= Cardinality(Before(r) \ {s})
      BY <2>1, <3>1, FS_Subset
    <3>3. QED BY <1>1, <3>1, <3>2
  <2>3. <<Cardinality(Before(s)), n>> \in OpToRel(<, Nat)
    <3> HIDE DEF Before
    <3>1. QED BY <1>1, <1>3, <2>2 DEF OpToRel
  <2>4. Cardinality(Before(s)) \in Counts
    OBVIOUS
  <2>5. QED BY <1>2, <2>3, <2>4
<1>5. QED
  BY <1>4

\* The one statement that reads the rules decides.
LEMMA ReadServed ==
  ASSUME IInv, NEW q \in Requests, EsamReadRules(q)
  PROVE  Service!Decide(q)
<1>1. TypeOK /\ req[q] \in ReqState
  BY DEF IInv, TypeOK
<1>2. Service!Is(q, "routed") /\ UNCHANGED <<chan, rule, events>>
  BY <1>1, WhereAsked, Phases DEF EsamReadRules
<1>3. /\ Asked[q].ch = req[q].ch
      /\ Asked[q].sig = req[q].sig
  BY AskedNow
<1> DEFINE first == FirstMatches(req[q].ch, req[q].sig)
           speaking == Service!Speaking(req[q].ch, req[q].sig)
<1>4. \A r : r \in first <=> r \in Rules /\ Service!IsFirst(r, req[q].ch, req[q].sig)
  BY DEF Service!IsFirst, Service!Speaking, FirstMatches, Eligible
<1>5. ASSUME NEW r \in first,
             req' = [req EXCEPT ![q] = [@ EXCEPT !.pc = "log", !.status = "ok",
                                                 !.rule = r, !.action = rule[r].action]]
      PROVE  Service!Decide(q)
  <2> DEFINE v == [req[q] EXCEPT !.pc = "log", !.status = "ok", !.rule = r,
                                 !.action = rule[r].action]
  <2>1. req' = [req EXCEPT ![q] = v]
    BY <1>5, Zenon
  <2> DEFINE s == [Asked[q] EXCEPT !.st = "decided", !.rule = r,
                                   !.action = rule[r].action, !.status = "ok"]
  <2>2. /\ v.pc = "log" /\ v.name = req[q].name /\ v.sig = req[q].sig
        /\ v.tier = req[q].tier /\ v.scope = req[q].scope /\ v.ch = req[q].ch
        /\ v.rule = r /\ v.action = rule[r].action /\ v.status = "ok"
    BY <1>1 DEF ReqState
  <2>3. s = [AskedFrom(req[q]) EXCEPT !.st = "decided", !.rule = r,
                                         !.action = rule[r].action, !.status = "ok"]
    BY AskedNow
  <2> HIDE DEF v, s
  <2>4. Phase(v.pc) = "decided"
    BY <2>2 DEF Phase
  <2>5. AskedFrom(v) = s
    BY <2>2, <2>3, <2>4 DEF AskedFrom
  <2>6. Asked' = [Asked EXCEPT ![q] = s]
    BY <1>1, <2>1, <2>5, OneAsked
  <2>7. QED
    BY <1>1, <1>2, <1>3, <1>4, <1>5, <2>1, <2>6, AskedNow DEF s, Service!Decide, Service!TablesStay
<1>6. ASSUME NEW x \in {"ok", "error"},
             req' = [req EXCEPT ![q] = [@ EXCEPT !.pc = "log", !.status = x]]
      PROVE  Service!Settle(q, "decided", x)
  <2> DEFINE v == [req[q] EXCEPT !.pc = "log", !.status = x]
  <2>1. req' = [req EXCEPT ![q] = v]
    BY <1>6, Zenon
  <2> DEFINE s == [Asked[q] EXCEPT !.st = "decided", !.status = x]
  <2>2. /\ v.pc = "log" /\ v.name = req[q].name /\ v.sig = req[q].sig
        /\ v.tier = req[q].tier /\ v.scope = req[q].scope /\ v.ch = req[q].ch
        /\ v.rule = req[q].rule /\ v.action = req[q].action /\ v.status = x
    BY <1>1 DEF ReqState
  <2>3. s = [AskedFrom(req[q]) EXCEPT !.st = "decided", !.status = x]
    BY AskedNow
  <2> HIDE DEF v, s
  <2>4. Phase(v.pc) = "decided"
    BY <2>2 DEF Phase
  <2>5. AskedFrom(v) = s
    BY <2>2, <2>3, <2>4 DEF AskedFrom
  <2>6. Asked' = [Asked EXCEPT ![q] = s]
    BY <1>1, <2>1, <2>5, OneAsked
  <2>7. QED
    BY <1>1, <1>2, <2>1, <2>6, AskedNow DEF s, Service!Settle, Service!TablesStay
<1>7. first = {} => speaking = {}
  <2>1. speaking \in SUBSET Rules /\ \A r \in speaking : rule[r].prio \in Int
    BY <1>1, StoredRows DEF Service!Speaking, StoredRule
  <2>2. speaking # {} => \E r \in speaking : Service!IsFirst(r, req[q].ch, req[q].sig)
    BY <2>1, SomeFirst DEF Service!IsFirst
  <2>3. QED BY <1>4, <2>1, <2>2
<1>8. CASE \E r \in first : req' = [req EXCEPT ![q] = [@ EXCEPT !.pc = "log", !.status = "ok",
                                              !.rule = r, !.action = rule[r].action]]
  BY <1>5, <1>8
<1>9. CASE first = {} /\ req' = [req EXCEPT ![q] = [@ EXCEPT !.pc = "log", !.status = "ok"]]
  BY <1>2, <1>3, <1>6, <1>7, <1>9 DEF Service!Decide
<1>10. CASE /\ "rules" \in DbFaults
            /\ req' = [req EXCEPT ![q] = [@ EXCEPT !.pc = "log", !.status = "error"]]
  BY <1>2, <1>6, <1>10 DEF Service!Decide
<1>11. QED
  BY <1>8, <1>9, <1>10, Zenon DEF EsamReadRules

\* The INSERT of the event is the answer; a client that leaves is lost.
LEMMA LogServed ==
  ASSUME IInv, NEW q \in Requests, EsamLog(q) \/ EsamDropped(q)
  PROVE  Service!Answer(q) \/ Service!Lose
<1>1. TypeOK /\ req[q] \in ReqState
  BY DEF IInv, TypeOK
<1>2. CASE EsamLog(q)
  <2> DEFINE v == [req[q] EXCEPT !.pc = "done"]
  <2>1. req' = [req EXCEPT ![q] = v] /\ req[q].pc = "log" /\ UNCHANGED <<chan, rule>>
    BY <1>2, Zenon DEF EsamLog
  <2>2. Service!Entry(q) = EventOf(q) /\ Service!Is(q, "decided")
    BY <1>1, <2>1, WhereAsked, Phases, AskedNow DEF Service!Entry, EventOf
  <2>3. events' = events \cup {EventOf(q)} \/ (events' = events /\ "log" \in DbFaults)
    BY <1>2, <2>1 DEF EsamLog, IInv, RequestsHaveRows, InFlight
  <2> DEFINE s == [Asked[q] EXCEPT !.st = "answered"]
  <2>4. /\ v.pc = "done" /\ v.name = req[q].name /\ v.sig = req[q].sig
        /\ v.tier = req[q].tier /\ v.scope = req[q].scope /\ v.ch = req[q].ch
        /\ v.rule = req[q].rule /\ v.action = req[q].action /\ v.status = req[q].status
    BY <1>1 DEF ReqState
  <2>5. s = [AskedFrom(req[q]) EXCEPT !.st = "answered"]
    BY AskedNow
  <2> HIDE DEF v, s
  <2>6. Phase(v.pc) = "answered"
    BY <2>4 DEF Phase
  <2>7. AskedFrom(v) = s
    BY <2>4, <2>5, <2>6 DEF AskedFrom
  <2>8. Asked' = [Asked EXCEPT ![q] = s]
    BY <1>1, <2>1, <2>7, OneAsked
  <2>9. QED
    BY <1>1, <2>1, <2>2, <2>3, <2>8, AskedNow DEF s, Service!Answer, Service!TablesStay
<1>3. CASE EsamDropped(q)
  <2> DEFINE v == [req[q] EXCEPT !.pc = "lost"]
  <2>1. req' = [req EXCEPT ![q] = v] /\ InFlight(q) /\ UNCHANGED <<chan, rule, events>>
    BY <1>3, Zenon DEF EsamDropped
  <2> DEFINE s == [Asked[q] EXCEPT !.st = "lost"]
  <2>2. /\ v.pc = "lost" /\ v.name = req[q].name /\ v.sig = req[q].sig
        /\ v.tier = req[q].tier /\ v.scope = req[q].scope /\ v.ch = req[q].ch
        /\ v.rule = req[q].rule /\ v.action = req[q].action /\ v.status = req[q].status
    BY <1>1 DEF ReqState
  <2>3. s = [AskedFrom(req[q]) EXCEPT !.st = "lost"]
    BY AskedNow
  <2> HIDE DEF v, s
  <2>4. Phase(v.pc) = "lost"
    BY <2>2 DEF Phase
  <2>5. AskedFrom(v) = s
    BY <2>2, <2>3, <2>4 DEF AskedFrom
  <2>6. Asked' = [Asked EXCEPT ![q] = s]
    BY <1>1, <2>1, <2>5, OneAsked
  <2>7. Asked'
          = [p \in Requests |-> IF p \in {q} THEN [Asked[p] EXCEPT !.st = "lost"] ELSE Asked[p]]
    <3>1. Asked = [p \in Requests |-> Asked[p]]
      BY DEF Asked
    <3>2. QED BY <2>6, <3>1 DEF s
  <2>8. QED
    BY <1>1, <2>1, <2>7, WhereAsked DEF Service!Lose, Service!TablesStay
<1>4. QED
  BY <1>2, <1>3

\* The start-up and the administration handlers change nothing but tables,
\* and in the way the service allows.
LEMMA TablesServed ==
  ASSUME IInv, IInv', Boot \/ ChannelAdmin \/ RuleAdmin
  PROVE  Service!Administer
<1> USE EsamServerAssumption
<1>1. UNCHANGED <<events, req>>
  BY DEF Boot, BootPurge, BootChannel, BootRule, ChannelAdmin, CreateChannel, UpdateChannel,
         DeleteChannel, OperatorSetsTier, RuleAdmin, UpdateRule, DeleteRule, CreateRuleRead,
         CreateRuleInsert, CreateRuleAppend, CreateRuleAbandon, ReorderCheck, ReorderCommit,
         InsertRule
<1>2. chan' \in [Channels -> Service!Chan] /\ rule' \in [Rules -> Service!Rule]
  <2>1. StoredChan \subseteq Service!Chan /\ NoChanRow \in Service!Chan
    BY DEF StoredChan, NoChanRow, Service!Chan
  <2>2. StoredRule \subseteq Service!Rule /\ NoRuleRow \in Service!Rule
    BY DEF StoredRule, NoRuleRow, Service!Rule
  <2>3. QED BY <2>1, <2>2 DEF IInv, TypeOK, ChanRow, RuleRow
<1>3. \A e \in events : e.rule # NoRule => rule'[e.rule].st # "none"
  BY <1>1 DEF IInv, EventsHaveRules
<1>4. ASSUME NEW q \in Requests, Service!InHand(q) PROVE RowsKept
  <2>1. server = "up"
    BY <1>4, WhereAsked DEF IInv, Progress
  <2>2. CASE BootPurge
    BY <2>1, <2>2 DEF BootPurge
  <2>3. CASE BootChannel \/ ChannelAdmin
    BY <2>3, ChannelStep DEF IInv
  <2>4. CASE BootRule \/ RuleAdmin
    BY <2>4, RuleStep DEF IInv
  <2>5. QED BY <2>2, <2>3, <2>4 DEF Boot
<1>5. QED
  BY <1>1, <1>2, <1>3, <1>4 DEF Service!Administer, RowsKept, Asked

\* A crash takes the requests in flight along.
LEMMA CrashServed ==
  ASSUME IInv, Crash
  PROVE  Service!Lose
<1> DEFINE Q == {q \in Requests : InFlight(q)}
<1>1. TypeOK /\ \A q \in Q : Service!InHand(q)
  BY WhereAsked DEF IInv
<1>2. ASSUME NEW q \in Requests
      PROVE  Asked'[q] = IF q \in Q THEN [Asked[q] EXCEPT !.st = "lost"] ELSE Asked[q]
  <2>1. CASE InFlight(q)
    <3> DEFINE v == [req[q] EXCEPT !.pc = "lost"]
               s == [Asked[q] EXCEPT !.st = "lost"]
    <3>1. /\ v.pc = "lost" /\ v.name = req[q].name /\ v.sig = req[q].sig
          /\ v.tier = req[q].tier /\ v.scope = req[q].scope /\ v.ch = req[q].ch
          /\ v.rule = req[q].rule /\ v.action = req[q].action /\ v.status = req[q].status
      BY <1>1 DEF TypeOK, ReqState
    <3>2. s = [AskedFrom(req[q]) EXCEPT !.st = "lost"]
      BY AskedNow
    <3>3. Asked'[q] = AskedFrom(v)
      BY <2>1 DEF Crash, Asked
    <3> HIDE DEF v, s
    <3>4. Phase(v.pc) = "lost"
      BY <3>1 DEF Phase
    <3>5. AskedFrom(v) = s
      BY <3>1, <3>2, <3>4 DEF AskedFrom
    <3>6. QED BY <2>1, <3>3, <3>5 DEF s
  <2>2. CASE ~InFlight(q)
    BY <2>2 DEF Crash, Asked
  <2>3. QED BY <2>1, <2>2
<1>3. Asked' = [q \in Requests |-> IF q \in Q THEN [Asked[q] EXCEPT !.st = "lost"] ELSE Asked[q]]
  BY <1>2 DEF Asked
<1>4. UNCHANGED <<chan, rule, events>> /\ Q \in SUBSET Requests
  BY DEF Crash
<1> HIDE DEF Q
<1>5. QED
  BY <1>1, <1>3, <1>4 DEF Service!Lose, Service!TablesStay

\* EsamServer implements AnswerService: whatever start-ups, crashes,
\* administrators and other requests do between the statements of
\* handle_esam_impl, a request is routed by one state of the channels, decided
\* by one state of the rules in the order of their priorities, and logged as
\* decided.
THEOREM ServesAtOnce == Spec => DecidesAtOnce
<1>1. Init => Service!Init
  <2> SUFFICES ASSUME Init PROVE Service!Init
    OBVIOUS
  <2>1. chan \in [Channels -> Service!Chan] /\ rule \in [Rules -> Service!Rule]
    BY EsamServerAssumption DEF Init, NoChanRow, NoRuleRow, Service!Chan, Service!Rule
  <2>2. ASSUME NEW q \in Requests
        PROVE  /\ Asked[q].st = "new" /\ Asked[q].name = NoName /\ Asked[q].ch = NoChannel
               /\ Asked[q].rule = NoRule /\ Asked[q].action = "noop" /\ Asked[q].status = "none"
    <3>1. /\ req[q].pc = "idle" /\ req[q].name = NoName /\ req[q].ch = NoChannel
          /\ req[q].rule = NoRule /\ req[q].action = "noop" /\ req[q].status = "none"
      BY DEF Init
    <3>2. Phase(req[q].pc) = "new"
      BY <3>1 DEF Phase
    <3>3. QED BY <3>1, <3>2, AskedNow
  <2>3. events = {}
    BY DEF Init
  <2>4. QED BY <2>1, <2>2, <2>3 DEF Service!Init, Service!Is
<1>2. IInv /\ IInv' /\ [Next]_vars => [Service!Next]_(Service!serviceVars)
  <2> SUFFICES ASSUME IInv, IInv', [Next]_vars PROVE [Service!Next]_(Service!serviceVars)
    OBVIOUS
  <2>1. CASE Boot \/ ChannelAdmin \/ RuleAdmin
    BY <2>1, TablesServed DEF Service!Next
  <2>2. CASE Crash
    BY <2>2, CrashServed DEF Service!Next
  <2>3. ASSUME NEW q \in Requests, Esam(q) PROVE Service!Next
    BY <2>3, ArrivalServed, LookupServed, ReadServed, LogServed DEF Esam, Service!Next
  <2>4. CASE UNCHANGED vars
    BY <2>4 DEF vars, Service!serviceVars, Asked
  <2>5. QED BY <2>1, <2>2, <2>3, <2>4 DEF Next
<1>3. QED
  BY <1>1, <1>2, Inductive, PTL DEF Spec, DecidesAtOnce, Service!Spec
=============================================================================
