---------------------------- MODULE RuleMatching ----------------------------
(***************************************************************************)
(* Does a rule match a signal?  rule_matches goes through the conditions   *)
(* of the rule's two clauses; eval decides a condition by one of the facts *)
(* of the signal, by calling glob_match (module GlobMatch), by comparing   *)
(* names without regard to case, or by comparing times as texts.           *)
(*                                                                         *)
(* An optional value is a sequence of at most one element.                 *)
(***************************************************************************)
EXTENDS GlobMatch, FiniteSets

CONSTANTS
    Cases,      \* rules and signals: pairs of a set of match_json and a set of facts
    Tilde       \* '~', which is behind the seconds of all times

VARIABLES
    match, facts,   \* the arguments of rule_matches
    clause, here,   \* the condition under way
    calling,        \* glob_match is deciding it
    anyOk,          \* the verdict on anyOf
    result

ruleVars == <<match, facts, clause, here, calling, anyOk, result>>

(* A match has clauses anyOf and allOf, optional lists of conditions.  A    *)
(* condition is a function from some of the fields to what it asks of them, *)
(* and the facts of a signal are one from the fields it has.                *)
Fields == <<"acquisitionSignalID", "command", "type", "upid", "utc">>

IsGlob(f) == f \in {"acquisitionSignalID", "upid"}

(* A name is written in some case.  A time is the cell of its date, hour,   *)
(* minute and second, which are of fixed width, and the characters behind.  *)
SameName(a, b) == a.name = b.name

Z == 90

Dot == 46

Time(sec, digits) == <<sec>> \o IF digits = <<>> THEN <<Z>> ELSE <<Dot>> \o digits \o <<Z>>

\* <= on str.
Leq(a, b) ==
    \/ Len(a) <= Len(b) /\ \A j \in 1..Len(a) : a[j] = b[j]
    \/ \E n \in DOMAIN a \cap DOMAIN b :
         a[n] < b[n] /\ \A j \in 1..n - 1 : a[j] = b[j]

Bound(x, default) == IF x = <<>> THEN default ELSE x[1]

Within(t, win) == Leq(Bound(win.start, <<>>), t) /\ Leq(t, Bound(win.end, <<Tilde>>))

-----------------------------------------------------------------------------
(* What rules and signals may be: times are in UTC, as ISO 8601 writes them *)
(* and the comment on utcBetween has it; any number of digits is legal.     *)

FieldNames == {Fields[n] : n \in DOMAIN Fields}

IsTime(t) ==
    /\ t \in Seq(Nat) /\ (Len(t) = 2 \/ Len(t) >= 4)
    /\ t[1] < Tilde /\ t[2] = (IF Len(t) = 2 THEN Z ELSE Dot) /\ t[Len(t)] = Z
    /\ \A n \in 3..Len(t) - 1 : t[n] \in 48..57

\* No bound, or one left blank.
Open(b) == b \in {<<>>, <<<<>>>>}

IsBound(b) == Open(b) \/ (b = <<b[1]>> /\ IsTime(b[1]))

IsCondition(c) ==
    /\ DOMAIN c \subseteq FieldNames
    /\ \A f \in DOMAIN c : IsGlob(f) => c[f] \in Patterns
    /\ "utc" \in DOMAIN c => IsBound(c["utc"].start) /\ IsBound(c["utc"].end)

IsClause(cl) ==
    cl # <<>> =>
      /\ cl = <<cl[1]>> /\ cl[1] \in Seq({cl[1][n] : n \in DOMAIN cl[1]})
      /\ \A n \in DOMAIN cl[1] : IsCondition(cl[1][n])

IsFacts(s) ==
    /\ DOMAIN s \subseteq FieldNames
    /\ \A f \in DOMAIN s : IsGlob(f) => s[f] \in Texts
    /\ "utc" \in DOMAIN s => IsTime(s["utc"])

ASSUME RuleMatchingAssumption ==
    /\ Tilde \in Nat
    /\ <<<<>>>> \in Patterns /\ <<>> \in Texts
    /\ \A c \in Cases : \A m \in c[1] : IsClause(m.anyOf) /\ IsClause(m.allOf)
    /\ \A c \in Cases : \A s \in c[2] : IsFacts(s)

-----------------------------------------------------------------------------
(* Between two calls glob_match is at rest.                                 *)
Rest ==
    /\ parts' = <<<<>>>> /\ text' = <<>>
    /\ i' = 1 /\ pos' = 0 /\ verdict' = "open"

RuleInit ==
    /\ \E c \in Cases : match \in c[1] /\ facts \in c[2]
    /\ clause = "any" /\ here = 1 /\ calling = FALSE /\ anyOk = FALSE
    /\ result = "open"
    /\ parts = <<<<>>>> /\ text = <<>>
    /\ i = 1 /\ pos = 0 /\ verdict = "open"

Given == IF clause = "any" THEN match.anyOf ELSE match.allOf

Conditions == Bound(Given, <<>>)

\* The first field of the condition that the signal has decides it.
Deciding(c) == {n \in DOMAIN Fields : Fields[n] \in DOMAIN c \cap DOMAIN facts}

Field(c) == Fields[CHOOSE n \in Deciding(c) : \A l \in Deciding(c) : n <= l]

\* A clause is over; both are always gone through.  A mutant: a clause that
\* is not there is taken for satisfied.
EndsUnguarded(ok) ==
    /\ IF clause = "any"
         THEN clause' = "all" /\ anyOk' = ok /\ UNCHANGED result
         ELSE result' = (IF anyOk \/ ok THEN "yes" ELSE "no") /\ UNCHANGED <<clause, anyOk>>
    /\ here' = 1
    /\ UNCHANGED <<match, facts>>

Ends(ok) ==
    /\ IF clause = "any"
         THEN clause' = "all" /\ anyOk' = (ok /\ Given # <<>>) /\ UNCHANGED result
         ELSE /\ result' = IF anyOk \/ (ok /\ Given # <<>>) THEN "yes" ELSE "no"
              /\ UNCHANGED <<clause, anyOk>>
    /\ here' = 1
    /\ UNCHANGED <<match, facts>>

\* A condition is decided: any() stops at the first that holds, all() at
\* the first that does not.
Decided(holds) ==
    IF holds = (clause = "any") THEN Ends(holds)
    ELSE here' = here + 1 /\ UNCHANGED <<match, facts, clause, anyOk, result>>

Evaluating == result = "open" /\ ~calling /\ here \in DOMAIN Conditions

CatchAll ==
    /\ result = "open" /\ match.anyOf = <<>> /\ match.allOf = <<>>
    /\ result' = "yes"
    /\ UNCHANGED <<match, facts, clause, here, calling, anyOk, vars>>

\* The list is at its end: no condition held, or all did.
ListEnds ==
    /\ result = "open" /\ ~calling
    /\ match.anyOf # <<>> \/ match.allOf # <<>>
    /\ here \notin DOMAIN Conditions
    /\ Ends(clause = "all")
    /\ UNCHANGED <<calling, vars>>

CallGlob ==
    /\ Evaluating
    /\ LET c == Conditions[here] IN
       /\ Deciding(c) # {} /\ IsGlob(Field(c))
       /\ parts' = c[Field(c)] /\ text' = facts[Field(c)]
    /\ calling' = TRUE /\ i' = 1 /\ pos' = 0 /\ verdict' = "open"
    /\ UNCHANGED <<match, facts, clause, here, anyOk, result>>

GlobStep == calling /\ Next /\ UNCHANGED ruleVars

GlobReturns ==
    /\ calling /\ verdict # "open"
    /\ Decided(verdict = "yes")
    /\ calling' = FALSE /\ Rest

\* The comparisons of eval; no field of the condition that the signal has.
Compare ==
    /\ Evaluating
    /\ LET c == Conditions[here]
           f == Field(c)
       IN  \/ Deciding(c) = {} /\ Decided(FALSE)
           \/ Deciding(c) # {} /\ f \in {"command", "type"} /\ Decided(SameName(c[f], facts[f]))
           \/ Deciding(c) # {} /\ f = "utc" /\ Decided(Within(facts[f], c[f]))
    /\ UNCHANGED <<calling, vars>>

Answered == result # "open" /\ UNCHANGED <<ruleVars, vars>>

RuleNext == CatchAll \/ ListEnds \/ CallGlob \/ GlobStep \/ GlobReturns \/ Compare \/ Answered

RuleSpec == RuleInit /\ [][RuleNext]_<<ruleVars, vars>>

-----------------------------------------------------------------------------
(* What the documentation says of a rule, for conditions on one field each, *)
(* which is what the pages write.  Times are compared as times.             *)

Glob(p, t) == INSTANCE GlobMatch WITH parts <- p, text <- t

\* The n-th digit after the second; one that is not written is a zero.
Digit(t, n) == IF n + 3 <= Len(t) THEN t[n + 2] - 48 ELSE 0

Places(a, b) == 1..Len(a) + Len(b)

\* a is no later than b: its second is the smaller, or the seconds are one and
\* a's is the smaller fraction or the same.
NoLater(a, b) ==
    \/ a[1] < b[1]
    \/ /\ a[1] = b[1]
       /\ \/ \A n \in Places(a, b) : Digit(a, n) = Digit(b, n)
          \/ \E n \in Places(a, b) :
               Digit(a, n) < Digit(b, n) /\ \A l \in 1..n - 1 : Digit(a, l) = Digit(b, l)

Meets(c) ==
    \E f \in DOMAIN c \cap DOMAIN facts :
      CASE IsGlob(f) -> Glob(c[f], facts[f])!Placeable(1, 0)
        [] f = "utc" ->
             /\ Open(c[f].start) \/ NoLater(c[f].start[1], facts[f])
             /\ Open(c[f].end) \/ NoLater(facts[f], c[f].end[1])
        [] OTHER -> c[f].name = facts[f].name

Meaning ==
    \/ match.anyOf = <<>> /\ match.allOf = <<>>
    \/ match.anyOf # <<>> /\ \E n \in DOMAIN match.anyOf[1] : Meets(match.anyOf[1][n])
    \/ match.allOf # <<>> /\ \A n \in DOMAIN match.allOf[1] : Meets(match.allOf[1][n])

AllConditions ==
    {Bound(match.anyOf, <<>>)[n] : n \in DOMAIN Bound(match.anyOf, <<>>)}
      \cup {Bound(match.allOf, <<>>)[n] : n \in DOMAIN Bound(match.allOf, <<>>)}

\* Texts order times, but for the same second written with more digits in
\* one than in the other; and nothing comes before a blank end.
Sharp(c) ==
    "utc" \in DOMAIN c =>
      /\ c.utc.end # <<<<>>>>
      /\ \A b \in {c.utc.start, c.utc.end} :
           Open(b) \/ b[1][1] # facts.utc[1] \/ Len(b[1]) = Len(facts.utc)

\* A rule fires exactly on the signals its documentation says, though clauses
\* may be absent or empty, a signal may lack a fact, globs are matched in one
\* greedy pass and times are compared as texts: unless the end of a window is
\* blank, or the signal is in the very second of a bound and its time written
\* more or less finely.
RulesMean ==
    /\ result # "open"
    /\ \A c \in AllConditions : Cardinality(DOMAIN c) = 1 /\ Sharp(c)
    => (result = "yes" <=> Meaning)
=============================================================================
