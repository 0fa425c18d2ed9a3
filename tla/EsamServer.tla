----------------------------- MODULE EsamServer -----------------------------
(***************************************************************************)
(* The signal path of the POIS server: the tables channels, rules and      *)
(* esam_events, the ESAM handler that reads them, the administration       *)
(* handlers that change them, and the start-up that seeds them.            *)
(*                                                                         *)
(* Every handler runs as a tokio task on a pool of SQLite connections, so  *)
(* one SQL statement is atomic and anything may happen between two of      *)
(* them.  An action is therefore a handler's code from one statement to    *)
(* the next.  A row identifier names a row, it is not the number SQLite    *)
(* gave it: the identifier of a row removed by the start-up is free again, *)
(* since nothing refers to it any more (NoDanglingReferences).             *)
(*                                                                         *)
(* Who may call an administration handler is the subject of module         *)
(* Sharing; here every call comes from a caller that passed the check, and *)
(* a super-admin passes it for soft-deleted channels too.                  *)
(*                                                                         *)
(* The answer's cue is the subject of module Conditioning.  Where its      *)
(* computation panics, which is said there, the handler ends without a log *)
(* entry or an answer, just as when the client goes away (EsamDropped).    *)
(***************************************************************************)
EXTENDS Integers, FiniteSets, Sequences

CONSTANTS
    Channels,       \* identifiers of rows of table channels
    Rules,          \* identifiers of rows of table rules
    Requests,       \* ESAM requests, each handled at most once
    Admins,         \* administration requests that need several statements
    Names,          \* channel names
    Default,        \* the name "default"
    NoName,         \* no name given; also the "unknown" of the event log
    NoChannel, NoRule,
    Signals,        \* what a rule can tell apart in the facts of a request
    Actions,        \* rule actions a client may store
    Priorities,     \* priorities a client may send
    MaxPriority,    \* bound on stored priorities
    MaxReorder,     \* bound on the length of a reorder list
    Tiers,          \* SESAME tiers in use
    SesameOn,       \* SesameRuntime::is_enabled
    DbFaults,       \* statements of the ESAM handler that may fail
    MaxRestarts     \* bound on crashes

ASSUME EsamServerAssumption ==
    /\ Default \in Names
    /\ NoName \notin Names
    /\ NoChannel \notin Channels
    /\ NoRule \notin Rules
    /\ IsFiniteSet(Rules)
    /\ Signals # {}
    /\ "noop" \in Actions
    /\ Priorities \subseteq Int
    /\ MaxPriority \in Int
    /\ MaxReorder \in Nat
    /\ Tiers \subseteq 0..3
    /\ 0 \in Tiers
    /\ SesameOn \in BOOLEAN
    /\ DbFaults \subseteq {"lookup", "rules", "log"}
    /\ MaxRestarts \in Nat

VARIABLES
    chan,       \* table channels
    rule,       \* table rules
    events,     \* table esam_events
    req,        \* the ESAM requests
    adm,        \* the administration requests between two statements
    server,     \* where the process is in its life
    restarts    \* crashes so far

vars == <<chan, rule, events, req, adm, server, restarts>>

-----------------------------------------------------------------------------
(* Rows.  "none" is a row that is not there, "deleted" one whose deleted_at *)
(* is set.                                                                  *)

NoChanRow == [st |-> "none", name |-> NoName, enabled |-> FALSE,
              minTier |-> 0]

NoRuleRow == [st |-> "none", ch |-> NoChannel, prio |-> 0,
              enabled |-> FALSE, match |-> {}, action |-> "noop"]

StoredChan == [st : {"live", "deleted"}, name : Names, enabled : BOOLEAN,
               minTier : 0..3]

StoredRule == [st : {"live", "deleted"}, ch : Channels, prio : Int,
               enabled : BOOLEAN, match : SUBSET Signals, action : Actions]

ChanRow == StoredChan \cup {NoChanRow}
RuleRow == StoredRule \cup {NoRuleRow}

\* Answers: a SESAME verification error (logged with status 0), 200, 400, a
\* refusal by the SESAME policy of the channel (401 or 403), 404 and 500.
Status == {"none", "unverified", "ok", "bad", "refused", "missing", "error"}

EventRow == [req : Requests, name : Names \cup {NoName},
             rule : Rules \cup {NoRule}, action : Actions, status : Status]

(* A request: what arrived (name, sig, tier, scope), the channel row it     *)
(* resolved to, and the answer.  The fields goneRules and goneChans are     *)
(* history: the rows already soft-deleted when the request arrived.         *)
ReqState == [pc : {"idle", "lookup", "rules", "log", "done", "lost"},
             name : Names \cup {NoName}, sig : Signals, tier : 0..3,
             scope : Names \cup {NoName}, ch : Channels \cup {NoChannel},
             rule : Rules \cup {NoRule}, action : Actions, status : Status,
             goneRules : SUBSET Rules, goneChans : SUBSET Channels]

AdmState == [pc : {"idle", "create", "reorder"},
             ch : Channels \cup {NoChannel}, nextp : Int,
             first : Rules \cup {NoRule}]

AdmIdle == [pc |-> "idle", ch |-> NoChannel, nextp |-> 0, first |-> NoRule]

ServerState == {"down", "count", "rule", "up", "failed"}

TypeOK ==
    /\ chan \in [Channels -> ChanRow]
    /\ rule \in [Rules -> RuleRow]
    /\ events \in SUBSET EventRow
    /\ req \in [Requests -> ReqState]
    /\ adm \in [Admins -> AdmState]
    /\ server \in ServerState
    /\ restarts \in 0..MaxRestarts

(* A freshly migrated database and a process that has not started.          *)
Init ==
    /\ chan = [c \in Channels |-> NoChanRow]
    /\ rule = [r \in Rules |-> NoRuleRow]
    /\ events = {}
    /\ req = [q \in Requests |->
                [pc |-> "idle", name |-> NoName, sig |-> CHOOSE s \in Signals : TRUE,
                 tier |-> 0, scope |-> NoName, ch |-> NoChannel, rule |-> NoRule,
                 action |-> "noop", status |-> "none", goneRules |-> {}, goneChans |-> {}]]
    /\ adm = [a \in Admins |-> AdmIdle]
    /\ server = "down"
    /\ restarts = 0

-----------------------------------------------------------------------------
(* Start-up: seed_default_channel_and_rule, before any request is accepted. *)

Live(c) == chan[c].st = "live"

LiveNameTaken(n) == \E c \in Channels : Live(c) /\ chan[c].name = n

NameTaken(n) == \E c \in Channels : chan[c].st # "none" /\ chan[c].name = n

\* DELETE FROM channels WHERE name='default' AND deleted_at IS NOT NULL.
\* The rules of the row go with it (ON DELETE CASCADE); an event that refers
\* to one of them makes the statement, and with it the start-up, fail.
BootPurge ==
    LET P == {c \in Channels : chan[c].st = "deleted" /\ chan[c].name = Default}
        R == {r \in Rules : rule[r].st # "none" /\ rule[r].ch \in P}
        referenced == \E e \in events : e.rule \in R
    IN  /\ server \in {"down", "failed"}
        /\ \/ /\ referenced
              /\ server' = "failed"
              /\ UNCHANGED <<chan, rule>>
           \/ /\ ~referenced
              /\ server' = "count"
              /\ chan' = [c \in Channels |-> IF c \in P THEN NoChanRow ELSE chan[c]]
              /\ rule' = [r \in Rules |-> IF r \in R THEN NoRuleRow ELSE rule[r]]
        /\ UNCHANGED <<events, req, adm, restarts>>

\* SELECT COUNT(*) FROM channels WHERE name='default' AND deleted_at IS NULL.
HasAnyChannel == \E c \in Channels : Live(c)

HasDefault == \E c \in Channels : Live(c) /\ chan[c].name = Default

\* A live default channel, enabled or not, ends the seeding; else one is
\* inserted.
BootChannel ==
    /\ server = "count"
    /\ \/ /\ HasDefault
          /\ server' = "up"
          /\ UNCHANGED chan
       \/ /\ ~HasDefault
          /\ ~NameTaken(Default)
          /\ \E c \in Channels :
               /\ chan[c].st = "none"
               /\ chan' = [chan EXCEPT ![c] =
                             [st |-> "live", name |-> Default, enabled |-> TRUE,
                              minTier |-> 0]]
          /\ server' = "rule"
    /\ UNCHANGED <<rule, events, req, adm, restarts>>

\* The noop rule of the channel just inserted, unless it has rules.
BootRule ==
    /\ server = "rule"
    /\ \E c \in Channels :
         /\ Live(c) /\ chan[c].name = Default
         /\ \/ /\ \E r \in Rules : rule[r].st = "live" /\ rule[r].ch = c
               /\ UNCHANGED rule
            \/ /\ ~ \E r \in Rules : rule[r].st = "live" /\ rule[r].ch = c
               /\ \E r \in Rules :
                    /\ rule[r].st = "none"
                    /\ rule' = [rule EXCEPT ![r] =
                                  [st |-> "live", ch |-> c, prio |-> 0,
                                   enabled |-> TRUE, match |-> Signals,
                                   action |-> "noop"]]
    /\ server' = "up"
    /\ UNCHANGED <<chan, events, req, adm, restarts>>

\* The process dies; the database stays.  Requests in flight are never
\* answered.
InFlight(q) == req[q].pc \in {"lookup", "rules", "log"}

Crash ==
    /\ server \in {"count", "rule", "up"}
    /\ restarts < MaxRestarts
    /\ restarts' = restarts + 1
    /\ server' = "down"
    /\ req' = [q \in Requests |->
                 IF InFlight(q) THEN [req[q] EXCEPT !.pc = "lost"] ELSE req[q]]
    /\ adm' = [a \in Admins |-> AdmIdle]
    /\ UNCHANGED <<chan, rule, events>>

-----------------------------------------------------------------------------
(* The ESAM handler: handle_esam_impl.                                      *)

\* The name a request is routed by: the path or query, else a non-empty
\* acquisitionPointIdentity, else "default".
ChannelName(path, acq) ==
    CASE path # NoName -> path
      [] path = NoName /\ acq # NoName -> acq
      [] OTHER -> Default

GoneRules == {r \in Rules : rule[r].st = "deleted"}
GoneChans == {c \in Channels : chan[c].st = "deleted"}

\* SESAME verification refuses the request: logged under the path's channel.
EsamRejected(q) ==
    /\ server = "up"
    /\ req[q].pc = "idle"
    /\ SesameOn
    /\ \E path \in Names \cup {NoName} :
         req' = [req EXCEPT ![q] = [@ EXCEPT !.pc = "log", !.name = path, !.status = "unverified"]]
    /\ UNCHANGED <<chan, rule, events, adm, server, restarts>>

\* The XML does not parse or has no acquisitionSignalID.
EsamUnparseable(q) ==
    /\ server = "up"
    /\ req[q].pc = "idle"
    /\ req' = [req EXCEPT ![q] = [@ EXCEPT !.pc = "log", !.status = "bad"]]
    /\ UNCHANGED <<chan, rule, events, adm, server, restarts>>

\* A well-formed request, with the tier and the scope SESAME established.
EsamArrive(q) ==
    /\ server = "up"
    /\ req[q].pc = "idle"
    /\ \E path, acq, scope \in Names \cup {NoName}, tier \in Tiers, sig \in Signals :
         /\ ~SesameOn => tier = 0
         /\ tier < 2 => scope = NoName
         /\ req' = [req EXCEPT ![q] =
                      [@ EXCEPT !.pc = "lookup", !.name = ChannelName(path, acq),
                                !.sig = sig, !.tier = tier, !.scope = scope,
                                !.goneRules = GoneRules, !.goneChans = GoneChans]]
    /\ UNCHANGED <<chan, rule, events, adm, server, restarts>>

PresentAs(c, n) == chan[c].st # "none" /\ chan[c].name = n

Serving(c, n) == Live(c) /\ chan[c].enabled /\ chan[c].name = n

\* The policy of the channel: its own minimum tier, and the signed scope.
PolicyAdmits(q, c) ==
    SesameOn => /\ req[q].tier >= chan[c].minTier
                /\ req[q].scope \in {NoName, req[q].name}

\* SELECT ... FROM channels, then the policy; a failing statement reads as
\* "no such channel", and a refusal by the policy leaves no event.
EsamLookup(q) ==
    /\ req[q].pc = "lookup"
    /\ \/ \E c \in Channels :
            /\ Serving(c, req[q].name)
            /\ \/ /\ PolicyAdmits(q, c)
                  /\ req' = [req EXCEPT ![q] = [@ EXCEPT !.pc = "rules", !.ch = c]]
               \/ /\ ~PolicyAdmits(q, c)
                  /\ req' = [req EXCEPT ![q] = [@ EXCEPT !.pc = "done", !.status = "refused"]]
       \/ /\ \/ ~ \E c \in Channels : Serving(c, req[q].name)
             \/ "lookup" \in DbFaults
          /\ req' = [req EXCEPT ![q] = [@ EXCEPT !.pc = "log", !.status = "missing"]]
    /\ UNCHANGED <<chan, rule, events, adm, server, restarts>>

\* The rows of SELECT ... WHERE channel_id=? AND enabled=1 AND deleted_at IS NULL.
Eligible(c) ==
    {r \in Rules : rule[r].st = "live" /\ rule[r].enabled /\ rule[r].ch = c}

\* A mutant of the next definition: the SELECT without its ORDER BY.
AnyMatches(c, sig) == {r \in Eligible(c) : sig \in rule[r].match}

\* The rules that can be the first to match: ORDER BY priority leaves the
\* order of equal priorities open.
FirstMatches(c, sig) ==
    {r \in Eligible(c) :
       /\ sig \in rule[r].match
       /\ \A s \in Eligible(c) : sig \in rule[s].match => rule[r].prio <= rule[s].prio}

\* A mutant of the next action: no answer when no rule matches.
EsamReadRulesNoFallback(q) ==
    /\ req[q].pc = "rules"
    /\ \E r \in FirstMatches(req[q].ch, req[q].sig) :
         req' = [req EXCEPT ![q] =
                   [@ EXCEPT !.pc = "log", !.status = "ok",
                             !.rule = r, !.action = rule[r].action]]
    /\ UNCHANGED <<chan, rule, events, adm, server, restarts>>

\* One statement reads the rules; the decision is taken from the rows read.
EsamReadRules(q) ==
    /\ req[q].pc = "rules"
    /\ \/ \E r \in FirstMatches(req[q].ch, req[q].sig) :
            req' = [req EXCEPT ![q] =
                      [@ EXCEPT !.pc = "log", !.status = "ok",
                                !.rule = r, !.action = rule[r].action]]
       \/ /\ FirstMatches(req[q].ch, req[q].sig) = {}
          /\ req' = [req EXCEPT ![q] = [@ EXCEPT !.pc = "log", !.status = "ok"]]
       \/ /\ "rules" \in DbFaults
          /\ req' = [req EXCEPT ![q] = [@ EXCEPT !.pc = "log", !.status = "error"]]
    /\ UNCHANGED <<chan, rule, events, adm, server, restarts>>

EventOfCurrentRow(q) ==
    [req |-> q, name |-> req[q].name, rule |-> req[q].rule,
     action |-> IF req[q].rule = NoRule THEN "noop" ELSE rule[req[q].rule].action,
     status |-> req[q].status]

EventOf(q) == [req |-> q, name |-> req[q].name, rule |-> req[q].rule,
               action |-> req[q].action, status |-> req[q].status]

\* log_esam_event, then the answer; the result of the INSERT is ignored.
\* Its foreign key asks for the row of the matched rule.
EsamLog(q) ==
    /\ req[q].pc = "log"
    /\ \/ /\ req[q].rule # NoRule => rule[req[q].rule].st # "none"
          /\ events' = events \cup {EventOf(q)}
       \/ /\ \/ req[q].rule # NoRule /\ rule[req[q].rule].st = "none"
             \/ "log" \in DbFaults
          /\ UNCHANGED events
    /\ req' = [req EXCEPT ![q].pc = "done"]
    /\ UNCHANGED <<chan, rule, adm, server, restarts>>

\* The client closes the connection: the runtime drops the handler at the
\* statement it is waiting for.  A panic while the answer is made, once the
\* rules are read, ends it in the same way.
EsamDropped(q) ==
    /\ InFlight(q)
    /\ req' = [req EXCEPT ![q].pc = "lost"]
    /\ UNCHANGED <<chan, rule, events, adm, server, restarts>>

Esam(q) == EsamRejected(q) \/ EsamUnparseable(q) \/ EsamArrive(q)
           \/ EsamLookup(q) \/ EsamReadRules(q) \/ EsamLog(q) \/ EsamDropped(q)

-----------------------------------------------------------------------------
(* Channel administration.                                                  *)

CreateChannel ==
    /\ server = "up"
    /\ \E c \in Channels, n \in Names, en \in BOOLEAN :
         /\ chan[c].st = "none"
         /\ ~NameTaken(n)
         /\ chan' = [chan EXCEPT ![c] =
                       [st |-> "live", name |-> n, enabled |-> en,
                        minTier |-> 0]]
    /\ UNCHANGED <<rule, events, req, adm, server, restarts>>

\* A mutant of the next action: the name without its COALESCE.
UpdateChannelNullName ==
    /\ server = "up"
    /\ \E c \in Channels, n \in Names \cup {NoName}, en \in BOOLEAN :
         /\ Live(c)
         /\ n = chan[c].name \/ ~NameTaken(n)
         /\ chan' = [chan EXCEPT ![c] = [@ EXCEPT !.name = n, !.enabled = en]]
    /\ UNCHANGED <<rule, events, req, adm, server, restarts>>

\* The name is UNIQUE over all rows, soft-deleted ones included.
UpdateChannel ==
    /\ server = "up"
    /\ \E c \in Channels, n \in Names, en \in BOOLEAN :
         /\ Live(c)
         /\ n = chan[c].name \/ ~NameTaken(n)
         /\ chan' = [chan EXCEPT ![c] = [@ EXCEPT !.name = n, !.enabled = en]]
    /\ UNCHANGED <<rule, events, req, adm, server, restarts>>

DeleteChannel ==
    /\ server = "up"
    /\ \E c \in Channels :
         /\ Live(c)
         /\ chan' = [chan EXCEPT ![c] = [@ EXCEPT !.st = "deleted", !.enabled = FALSE]]
    /\ UNCHANGED <<rule, events, req, adm, server, restarts>>

\* No handler writes sesame_min_tier: an operator sets it in the database.
OperatorSetsTier ==
    /\ \E c \in Channels, t \in Tiers :
         /\ chan[c].st # "none"
         /\ chan' = [chan EXCEPT ![c].minTier = t]
    /\ UNCHANGED <<rule, events, req, adm, server, restarts>>

-----------------------------------------------------------------------------
(* Rule administration.                                                     *)

LiveRules(c) == {r \in Rules : rule[r].st = "live" /\ rule[r].ch = c}

\* create_rule's first statement, SELECT MAX(priority), and the priority an
\* appended rule will get.  Over no rows MAX is NULL, which the driver reads
\* as 0 or reports as an error.
NextPriorities(c) ==
    IF LiveRules(c) = {}
      THEN {0, 10}
      ELSE {p \in {rule[r].prio + 10 : r \in LiveRules(c)} :
              \A r \in LiveRules(c) : rule[r].prio + 10 <= p}

CreateRuleRead(a) ==
    /\ server = "up"
    /\ adm[a].pc = "idle"
    /\ \E c \in Channels :
         /\ chan[c].st # "none"
         /\ \E p \in NextPriorities(c) :
              adm' = [adm EXCEPT ![a] =
                        [pc |-> "create", ch |-> c, nextp |-> p, first |-> NoRule]]
    /\ UNCHANGED <<chan, rule, events, req, server, restarts>>

\* create_rule's INSERT, into a channel row that is still there (soft-deleted
\* or not), with the priority the client sent or, when that is negative, the
\* one computed from the rows read before.
InsertRule(a, prio) ==
    /\ adm[a].pc = "create"
    /\ chan[adm[a].ch].st # "none"
    /\ prio <= MaxPriority
    /\ \E r \in Rules, en \in BOOLEAN, m \in SUBSET Signals, act \in Actions :
         /\ rule[r].st = "none"
         /\ rule' = [rule EXCEPT ![r] =
                       [st |-> "live", ch |-> adm[a].ch, prio |-> prio,
                        enabled |-> en, match |-> m, action |-> act]]
    /\ adm' = [adm EXCEPT ![a] = AdmIdle]
    /\ UNCHANGED <<chan, events, req, server, restarts>>

CreateRuleInsert(a) == \E p \in Priorities : p >= 0 /\ InsertRule(a, p)

CreateRuleAppend(a) == InsertRule(a, adm[a].nextp)

\* The INSERT fails, or the client went away.
CreateRuleAbandon(a) ==
    /\ adm[a].pc = "create"
    /\ adm' = [adm EXCEPT ![a] = AdmIdle]
    /\ UNCHANGED <<chan, rule, events, req, server, restarts>>

\* update_rule rewrites every column; the look-up of the parent channel
\* before it only repeats the test for a live row.
UpdateRule ==
    /\ server = "up"
    /\ \E r \in Rules, p \in Priorities, en \in BOOLEAN, m \in SUBSET Signals, act \in Actions :
         /\ rule[r].st = "live"
         /\ rule' = [rule EXCEPT ![r] =
                       [@ EXCEPT !.prio = p, !.enabled = en,
                                 !.match = m, !.action = act]]
    /\ UNCHANGED <<chan, events, req, adm, server, restarts>>

DeleteRule ==
    /\ server = "up"
    /\ \E r \in Rules :
         /\ rule[r].st = "live"
         /\ rule' = [rule EXCEPT ![r] = [@ EXCEPT !.st = "deleted", !.enabled = FALSE]]
    /\ UNCHANGED <<chan, events, req, adm, server, restarts>>

\* reorder_rules looks only at the channel of the first rule of the list.
ReorderCheck(a) ==
    /\ server = "up"
    /\ adm[a].pc = "idle"
    /\ \E r \in Rules :
         /\ rule[r].st = "live"
         /\ adm' = [adm EXCEPT ![a] =
                      [pc |-> "reorder", ch |-> rule[r].ch, nextp |-> 0, first |-> r]]
    /\ UNCHANGED <<chan, rule, events, req, server, restarts>>

\* The lists a client can have sent: the first element was looked up above.
ReorderLists(r) ==
    {s \in UNION {[1..n -> Rules] : n \in 1..MaxReorder} : s[1] = r}

\* The last position of a rule in a list, whose UPDATE is the one that stays:
\* the number of positions followed, or occupied, by an occurrence.
LastPosition(s, r) == Cardinality({i \in DOMAIN s : \E j \in DOMAIN s : i <= j /\ s[j] = r})

\* The transaction: priorities 0, 10, 20, ... in list order, for every row
\* named, whatever its channel and soft-deleted or not.
ReorderCommit(a) ==
    /\ adm[a].pc = "reorder"
    /\ \E s \in ReorderLists(adm[a].first) :
         rule' = [r \in Rules |->
                    IF rule[r].st # "none" /\ \E i \in DOMAIN s : s[i] = r
                      THEN [rule[r] EXCEPT !.prio = 10 * (LastPosition(s, r) - 1)]
                      ELSE rule[r]]
    /\ adm' = [adm EXCEPT ![a] = AdmIdle]
    /\ UNCHANGED <<chan, events, req, server, restarts>>

-----------------------------------------------------------------------------
Boot == BootPurge \/ BootChannel \/ BootRule

ChannelAdmin == CreateChannel \/ UpdateChannel \/ DeleteChannel \/ OperatorSetsTier

RuleAdmin ==
    \/ UpdateRule \/ DeleteRule
    \/ \E a \in Admins : \/ CreateRuleRead(a) \/ CreateRuleInsert(a)
                         \/ CreateRuleAppend(a) \/ CreateRuleAbandon(a)
                         \/ ReorderCheck(a) \/ ReorderCommit(a)

Next ==
    \/ Boot \/ Crash
    \/ \E q \in Requests : Esam(q)
    \/ ChannelAdmin \/ RuleAdmin

Spec == Init /\ [][Next]_vars

\* The runtime keeps polling a started task, and the statements of a task
\* return: a request that was accepted and a start-up that began go on.
Fairness ==
    /\ WF_vars(Boot)
    /\ \A q \in Requests : WF_vars(EsamLookup(q) \/ EsamReadRules(q) \/ EsamLog(q))

FairSpec == Spec /\ Fairness

-----------------------------------------------------------------------------
(* What makes the signal path correct.                                      *)

RulesHaveChannels ==
    \A r \in Rules : rule[r].st # "none" => chan[rule[r].ch].st # "none"

EventsHaveRules ==
    \A e \in events : e.rule # NoRule => rule[e.rule].st # "none"

RequestsHaveRows ==
    \A q \in Requests : InFlight(q) =>
      /\ req[q].ch # NoChannel => chan[req[q].ch].st # "none"
      /\ req[q].rule # NoRule => rule[req[q].rule].st # "none"

NamesUnique ==
    \A c, d \in Channels :
      chan[c].st # "none" /\ chan[d].st # "none" /\ chan[c].name = chan[d].name => c = d

\* Referential integrity across hard deletion: whatever the interleaving of
\* soft deletes, crashes and seed_default_channel_and_rule's cascading
\* DELETE, no rule row belongs to a missing channel, no event and no request
\* in flight refers to a missing rule or channel row, and no two rows share
\* a name, on which the ESAM handler's look-up by name depends.
NoDanglingReferences ==
    /\ RulesHaveChannels
    /\ EventsHaveRules
    /\ RequestsHaveRows
    /\ NamesUnique

EventsTellAnswers ==
    \A e \in events : req[e.req].pc = "done" /\ e = EventOf(e.req)

AnswersAreLogged ==
    "log" \notin DbFaults =>
      \A q \in Requests : req[q].pc = "done" =>
        (req[q].status = "refused" <=> ~ \E e \in events : e.req = q)

\* The event log tells what was answered: an event carries the rule and the
\* action its request was answered with, whatever happened to the rule row
\* between the SELECT and the INSERT, no request is logged twice, and, unless
\* the INSERT fails, an answered request has an event exactly when it was not
\* refused by the channel's SESAME policy.
AuditTrail == EventsTellAnswers /\ AnswersAreLogged

\* A delete that was acknowledged holds: delete_rule and delete_channel
\* returned before the request came in, so handle_esam_impl answers it by no
\* rule and no channel deleted by then.
DeletedNeverServes ==
    \A q \in Requests : req[q].status = "ok" =>
      /\ req[q].rule \notin req[q].goneRules
      /\ req[q].ch \notin req[q].goneChans

\* Whenever the start-up completes, after any crash in the middle of an
\* earlier one, there is a live channel named "default".
BootServesDefault ==
    [][server # "up" /\ server' = "up" =>
         \E c \in Channels : chan'[c].st = "live" /\ chan'[c].name = Default]_vars

\* A request whose handler started is answered unless the process dies, the
\* client goes away or the cue of the answer panics: no combination of missing
\* rows, failing statements and concurrent changes leaves a caller waiting.
RequestsAnswered ==
    \A q \in Requests : InFlight(q) ~> req[q].pc \in {"done", "lost"}

\* What AnswerService calls the state of a request.
Phase(pc) ==
    CASE pc = "idle" -> "new"
      [] pc = "lookup" -> "asked"
      [] pc = "rules" -> "routed"
      [] pc = "log" -> "decided"
      [] pc = "done" -> "answered"
      [] pc = "lost" -> "lost"

AskedFrom(r) ==
    [st |-> Phase(r.pc), name |-> r.name, sig |-> r.sig, tier |-> r.tier, scope |-> r.scope,
     ch |-> r.ch, rule |-> r.rule, action |-> r.action, status |-> r.status]

Asked == [q \in Requests |-> AskedFrom(req[q])]

Service == INSTANCE AnswerService WITH
    chans <- chan, rules <- rule, asked <- Asked, log <- events

\* handle_esam_impl between its statements, the start-up, the administration
\* handlers and crashes make up an answer service: each request is decided by
\* one state of the rules of a channel that served its name when it was looked
\* up, by priority, and its event is that decision.
DecidesAtOnce == Service!Spec

-----------------------------------------------------------------------------
(* What documents and comments of the repository say, and the code does not *)
(* do.                                                                      *)

\* The hard delete is there so that nothing "block[s] re-creation after an
\* upgrade or accidental deletion" of the default channel: starting never
\* fails.
BootNeverFails == server # "failed"
=============================================================================
