------------------------------ MODULE GlobMatch ------------------------------
(***************************************************************************)
(* The matcher behind rule conditions on acquisitionSignalID and on the    *)
(* segmentation UPID: one pass over the parts of a pattern, taking for     *)
(* each the first place it fits and never going back.                      *)
(*                                                                         *)
(* A pattern is the list of its parts, what lies between its '*'s, which   *)
(* is what pat.split('*') returns; a pattern without '*' has one part.     *)
(* Texts and parts are sequences of the bytes of a str.                    *)
(***************************************************************************)
EXTENDS Naturals, Sequences

CONSTANTS
    Chars,      \* bytes
    Patterns,   \* the patterns rules have
    Texts       \* the texts requests carry

ASSUME GlobMatchAssumption ==
    /\ Patterns \subseteq Seq(Seq(Chars)) \ {<<>>}
    /\ Texts \subseteq Seq(Chars)

VARIABLES
    parts, text,    \* the arguments
    i,              \* the part the loop is at
    pos,            \* how much of text is consumed
    verdict         \* what is returned

vars == <<parts, text, i, pos, verdict>>

TypeOK ==
    /\ parts \in Patterns
    /\ text \in Texts
    /\ i \in 1..Len(parts) + 1
    /\ pos \in 0..Len(text)
    /\ verdict \in {"open", "yes", "no"}

Init ==
    /\ parts \in Patterns
    /\ text \in Texts
    /\ i = 1
    /\ pos = 0
    /\ verdict = "open"

-----------------------------------------------------------------------------
(* w stands in text after the first k bytes. *)
OccursAt(w, k) ==
    /\ k + Len(w) <= Len(text)
    /\ \A j \in 1..Len(w) : text[k + j] = w[j]

Return(v) == verdict' = v /\ UNCHANGED <<parts, text, i, pos>>

\* The loop goes on with the next part, n bytes of text consumed.
Advance(n) == i' = i + 1 /\ pos' = n /\ UNCHANGED <<parts, text, verdict>>

\* No '*': an equality test.
Literal ==
    /\ verdict = "open"
    /\ Len(parts) = 1
    /\ Return(IF parts[1] = text THEN "yes" ELSE "no")

Looping == verdict = "open" /\ Len(parts) > 1 /\ i <= Len(parts)

\* An empty part stands at an edge of the pattern or between adjacent '*'s.
Skip ==
    /\ Looping
    /\ parts[i] = <<>>
    /\ Advance(pos)

\* No leading '*': the first part is anchored at the start.
Anchored ==
    /\ Looping
    /\ parts[i] # <<>>
    /\ i = 1
    /\ IF OccursAt(parts[i], pos) THEN Advance(pos + Len(parts[i])) ELSE Return("no")

\* No trailing '*': the last part is anchored at the end of what is left.
Final ==
    /\ Looping
    /\ parts[i] # <<>>
    /\ i > 1
    /\ i = Len(parts)
    /\ Return(IF \E k \in pos..Len(text) : k + Len(parts[i]) = Len(text) /\ OccursAt(parts[i], k)
                THEN "yes" ELSE "no")

\* Places in what is left of text where the part stands.
Finds(w) == {k \in pos..Len(text) : OccursAt(w, k)}

\* Mutants of the next action: the last place, and a byte too many consumed.
InteriorLast ==
    /\ Looping
    /\ parts[i] # <<>>
    /\ i > 1
    /\ i < Len(parts)
    /\ \/ Finds(parts[i]) = {} /\ Return("no")
       \/ \E k \in Finds(parts[i]) :
            /\ \A l \in Finds(parts[i]) : l <= k
            /\ Advance(k + Len(parts[i]))

InteriorBeyond ==
    /\ Looping
    /\ parts[i] # <<>>
    /\ i > 1
    /\ i < Len(parts)
    /\ \/ Finds(parts[i]) = {} /\ Return("no")
       \/ \E k \in Finds(parts[i]) :
            /\ \A l \in Finds(parts[i]) : k <= l
            /\ Advance(k + Len(parts[i]) + 1)

\* str::find: the first place.
Interior ==
    /\ Looping
    /\ parts[i] # <<>>
    /\ i > 1
    /\ i < Len(parts)
    /\ \/ Finds(parts[i]) = {} /\ Return("no")
       \/ \E k \in Finds(parts[i]) :
            /\ \A l \in Finds(parts[i]) : k <= l
            /\ Advance(k + Len(parts[i]))

\* The loop ends behind a trailing '*'.
Exhausted ==
    /\ verdict = "open"
    /\ i > Len(parts)
    /\ Return("yes")

\* The function has returned.
Returned == verdict # "open" /\ UNCHANGED vars

Next == Literal \/ Skip \/ Anchored \/ Final \/ Interior \/ Exhausted \/ Returned

Spec == Init /\ [][Next]_vars

-----------------------------------------------------------------------------
(* What a glob means: the parts stand in the text in order, without         *)
(* overlap, the first at its start and the last at its end; a '*' is what   *)
(* lies between two of them.                                                *)

Placed(at, from, p) ==
    LET n == Len(parts) IN
    /\ \A j \in from..n : OccursAt(parts[j], at[j])
    /\ \A j \in from..n - 1 : at[j] + Len(parts[j]) <= at[j + 1]
    /\ from <= n => p <= at[from] /\ at[n] + Len(parts[n]) = Len(text)
    /\ from = 1 => at[1] = 0

\* The parts from one on can be placed in what is left of the text.
Placeable(from, p) ==
    \E at \in [from..Len(parts) -> 0..Len(text)] : Placed(at, from, p)

\* glob_match returns true exactly when the text matches the pattern, though
\* it commits to the first place of every part and never tries another: no
\* rule is skipped for want of backtracking and none fires by accident.
GreedyIsExact ==
    verdict # "open" => (verdict = "yes" <=> Placeable(1, 0))

\* Why: at every turn of the loop, what is committed loses no match.
GreedyIsSafe ==
    verdict = "open" => (Placeable(i, pos) <=> Placeable(1, 0))
=============================================================================
