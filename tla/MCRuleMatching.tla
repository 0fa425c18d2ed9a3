--------------------------- MODULE MCRuleMatching ---------------------------
(***************************************************************************)
(* Short patterns against all short texts: few parts of up to two bytes,   *)
(* which may overlap, or more parts of up to one.  And rules of up to two  *)
(* conditions in one clause and one in the other, windows with every form  *)
(* of a bound, signals with and without each fact.                         *)
(***************************************************************************)
EXTENDS RuleMatching, SequencesExt

CONSTANTS MaxWords, MaxBytes, MaxText

ShortPatterns ==
    {p \in BoundedSeq(BoundedSeq(Chars, 2), MaxWords)
           \cup BoundedSeq(BoundedSeq(Chars, 1), MaxBytes) : p # <<>>}

ShortTexts == {t \in BoundedSeq(Chars, MaxText) : TRUE}

-----------------------------------------------------------------------------
Condition(f, x) == [g \in {f} |-> x]

Name(n, case) == [name |-> n, case |-> case]

Facts(id, command, time) == [acquisitionSignalID |-> id, command |-> command, utc |-> time]

\* The descriptor adds its facts, or does not.
WithDescriptor(fs) ==
    {fs,
     [f \in DOMAIN fs \cup {"type"} |-> IF f = "type" THEN Name("0x3a", "lower") ELSE fs[f]],
     [f \in DOMAIN fs \cup {"type", "upid"} |->
        IF f = "type" THEN Name("0x34", "upper") ELSE IF f = "upid" THEN <<"a", "b">> ELSE fs[f]]}

Window(start, end) == Condition("utc", [start |-> start, end |-> end])

GlobMatches ==
    {[anyOf |-> <<>>, allOf |-> <<<<Condition("acquisitionSignalID", p)>>>>] : p \in ShortPatterns}

GlobSignals == {Facts(t, Name("time_signal", "lower"), Time(50, <<>>)) : t \in ShortTexts \ {<<>>}}

Times == {Time(sec, digits) : sec \in 50..52, digits \in {<<>>, <<53>>, <<53, 48>>, <<55, 53, 48, 49>>}}

Bounds == {<<>>, <<<<>>>>} \cup {<<t>> : t \in Times}

WindowMatches ==
    {[anyOf |-> <<<<Window(start, end)>>>>, allOf |-> <<>>] : start \in Bounds, end \in Bounds}

WindowSignals == {Facts(<<"a">>, Name("time_signal", "lower"), t) : t \in Times}

SomeConditions ==
    {Condition("acquisitionSignalID", <<<<"a">>, <<>>>>),
     Condition("command", Name("time_signal", "upper")), Condition("type", Name("0x34", "upper")),
     Condition("upid", <<<<>>, <<"b">>>>), Window(<<Time(50, <<>>)>>, <<Time(52, <<>>)>>),
     [f \in {"acquisitionSignalID", "command"} |->
        IF f = "command" THEN Name("time_signal", "lower") ELSE <<<<"b">>>>],
     [f \in {} |-> 0]}

Clauses(n) == {<<>>} \cup {<<cs>> : cs \in BoundedSeq(SomeConditions, n)}

ClauseMatches ==
    [anyOf : Clauses(1), allOf : Clauses(2)] \cup [anyOf : Clauses(2), allOf : Clauses(1)]

ClauseSignals ==
    UNION {WithDescriptor(Facts(t, Name(n, "lower"), Time(sec, <<53>>))) :
             t \in {<<"a", "b">>, <<"b">>}, n \in {"time_signal", "unknown"}, sec \in {51, 53}}

AllCases == {<<GlobMatches, GlobSignals>>, <<WindowMatches, WindowSignals>>,
             <<ClauseMatches, ClauseSignals>>}
=============================================================================
