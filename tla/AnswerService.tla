--------------------------- MODULE AnswerService ---------------------------
(***************************************************************************)
(* What the signal path promises to those who ask it and to those who read *)
(* its log, with no word about start-up, administration handlers or the    *)
(* statements they are made of.                                            *)
(*                                                                         *)
(* The tables of channels and rules are somebody else's: they may change at*)
(* any time, in any way, as long as no row disappears that the log or a    *)
(* request in flight may refer to and no deleted row comes back under a    *)
(* request.  Whatever they do, a request is routed by one state of the     *)
(* channels, decided by one later state of the rules, and its entry in the *)
(* log, if it gets one, is that decision.                                  *)
(***************************************************************************)
EXTENDS Integers

CONSTANTS
    Channels, Rules, Requests,
    Names, NoName, NoChannel, NoRule,
    Signals, Actions, Tiers,
    SesameOn,       \* requests are verified, and channels have a policy
    DbFaults        \* what may fail: "lookup", "rules", "log"

VARIABLES
    chans, rules,   \* the tables
    asked,          \* where each request is, and what is decided about it
    log

serviceVars == <<chans, rules, asked, log>>

Chan == [st : {"none", "live", "deleted"}, name : Names \cup {NoName},
         enabled : BOOLEAN, minTier : Int]

Rule == [st : {"none", "live", "deleted"}, ch : Channels \cup {NoChannel}, prio : Int,
         enabled : BOOLEAN, match : SUBSET Signals, action : Actions]

Is(q, st) == asked[q].st = st

InHand(q) == Is(q, "asked") \/ Is(q, "routed") \/ Is(q, "decided")

Init ==
    /\ chans \in [Channels -> Chan] /\ rules \in [Rules -> Rule]
    /\ \A q \in Requests :
         /\ Is(q, "new") /\ asked[q].name = NoName /\ asked[q].ch = NoChannel
         /\ asked[q].rule = NoRule /\ asked[q].action = "noop" /\ asked[q].status = "none"
    /\ log = {}

-----------------------------------------------------------------------------
TablesStay == UNCHANGED <<chans, rules>>

\* Request q is decided, or even answered, by no rule.
Settle(q, st, status) ==
    /\ asked' = [asked EXCEPT ![q] = [@ EXCEPT !.st = st, !.status = status]]
    /\ TablesStay /\ UNCHANGED log

Ask(q) ==
    /\ Is(q, "new")
    /\ \E name, scope \in Names \cup {NoName}, sig \in Signals, tier \in Tiers :
         asked' = [asked EXCEPT ![q] = [@ EXCEPT !.st = "asked", !.name = name, !.sig = sig,
                                                 !.tier = tier, !.scope = scope]]
    /\ TablesStay /\ UNCHANGED log

\* What cannot be verified or understood is decided as it comes in.
Reject(q) ==
    /\ Is(q, "new")
    /\ \/ Settle(q, "decided", "bad")
       \/ /\ SesameOn
          /\ \E name \in Names \cup {NoName} :
               asked' = [asked EXCEPT ![q] = [@ EXCEPT !.st = "decided", !.name = name,
                                                       !.status = "unverified"]]
          /\ TablesStay /\ UNCHANGED log

Serves(c, name) == chans[c].st = "live" /\ chans[c].enabled /\ chans[c].name = name

Admits(c, q) ==
    SesameOn => asked[q].tier >= chans[c].minTier /\ asked[q].scope \in {NoName, asked[q].name}

Route(q) ==
    /\ Is(q, "asked")
    /\ \E c \in Channels :
         /\ Serves(c, asked[q].name) /\ Admits(c, q)
         /\ asked' = [asked EXCEPT ![q] = [@ EXCEPT !.st = "routed", !.ch = c]]
    /\ TablesStay /\ UNCHANGED log

\* The policy of a channel turns a request away, and leaves no entry.
TurnAway(q) ==
    /\ Is(q, "asked")
    /\ \E c \in Channels : Serves(c, asked[q].name) /\ ~Admits(c, q)
    /\ Settle(q, "answered", "refused")

NotFound(q) ==
    /\ Is(q, "asked")
    /\ "lookup" \in DbFaults \/ ~ \E c \in Channels : Serves(c, asked[q].name)
    /\ Settle(q, "decided", "missing")

\* The rules of the channel that speak to a signal, and the first of them.
Speaking(c, sig) ==
    {r \in Rules : rules[r].st = "live" /\ rules[r].enabled /\ rules[r].ch = c
                   /\ sig \in rules[r].match}

IsFirst(r, c, sig) ==
    r \in Speaking(c, sig) /\ \A s \in Speaking(c, sig) : rules[r].prio <= rules[s].prio

\* The decision is taken from the rules as they are at one moment: the rule of
\* the smallest priority that speaks to the signal, or none if none does.
Decide(q) ==
    /\ Is(q, "routed")
    /\ \/ /\ \E r \in Rules :
               /\ IsFirst(r, asked[q].ch, asked[q].sig)
               /\ asked' = [asked EXCEPT ![q] = [@ EXCEPT !.st = "decided", !.rule = r,
                                             !.action = rules[r].action, !.status = "ok"]]
          /\ TablesStay /\ UNCHANGED log
       \/ Speaking(asked[q].ch, asked[q].sig) = {} /\ Settle(q, "decided", "ok")
       \/ "rules" \in DbFaults /\ Settle(q, "decided", "error")

Entry(q) == [req |-> q, name |-> asked[q].name, rule |-> asked[q].rule,
             action |-> asked[q].action, status |-> asked[q].status]

\* The answer is what was decided, and so is the entry, which is missing only
\* when it could not be written.
Answer(q) ==
    /\ Is(q, "decided")
    /\ asked' = [asked EXCEPT ![q].st = "answered"]
    /\ log' = log \cup {Entry(q)} \/ ("log" \in DbFaults /\ UNCHANGED log)
    /\ TablesStay

\* A client leaves, or the process dies and takes its requests along.
Lose ==
    /\ \E Q \in SUBSET Requests :
         /\ \A q \in Q : InHand(q)
         /\ asked' = [q \in Requests |->
                        IF q \in Q THEN [asked[q] EXCEPT !.st = "lost"] ELSE asked[q]]
    /\ TablesStay /\ UNCHANGED log

\* The tables change.
Administer ==
    /\ chans' \in [Channels -> Chan] /\ rules' \in [Rules -> Rule]
    /\ \A e \in log : e.rule # NoRule => rules'[e.rule].st # "none"
    /\ (\E q \in Requests : InHand(q)) =>
         /\ \A c \in Channels : /\ chans[c].st # "none" => chans'[c].st # "none"
                                /\ chans[c].st = "deleted" => chans'[c].st = "deleted"
         /\ \A r \in Rules : /\ rules[r].st # "none" => rules'[r].st # "none"
                             /\ rules[r].st = "deleted" => rules'[r].st = "deleted"
    /\ UNCHANGED <<asked, log>>

Next ==
    \/ \E q \in Requests : \/ Ask(q) \/ Reject(q) \/ Route(q) \/ TurnAway(q) \/ NotFound(q)
                           \/ Decide(q) \/ Answer(q)
    \/ Lose \/ Administer

Spec == Init /\ [][Next]_serviceVars
=============================================================================
