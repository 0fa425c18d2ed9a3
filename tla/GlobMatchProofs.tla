--------------------------- MODULE GlobMatchProofs ---------------------------
(***************************************************************************)
(* The matcher is exact, for every pattern and every text.                 *)
(***************************************************************************)
EXTENDS GlobMatch, TLAPS

\* The loop starts at the start of the text, and runs only when there is a '*'.
LoopStart ==
    /\ i = 1 => pos = 0
    /\ verdict = "open" /\ i > 1 => Len(parts) > 1

IInv == TypeOK /\ LoopStart /\ GreedyIsSafe /\ GreedyIsExact

\* The types that arithmetic on positions needs.
LEMMA Typing ==
  ASSUME TypeOK
  PROVE  /\ text \in Seq(Chars) /\ Len(text) \in Nat
         /\ parts \in Seq(Seq(Chars)) /\ Len(parts) \in Nat \ {0}
         /\ \A j \in 1..Len(parts) : parts[j] \in Seq(Chars) /\ Len(parts[j]) \in Nat
         /\ pos \in 0..Len(text)
         /\ i \in 1..Len(parts) + 1
<1>1. text \in Seq(Chars) /\ parts \in Seq(Seq(Chars)) \ {<<>>}
  BY GlobMatchAssumption DEF TypeOK
<1>2. Len(parts) \in Nat \ {0} /\ \A j \in 1..Len(parts) : parts[j] \in Seq(Chars)
  BY <1>1
<1>3. QED
  BY <1>1, <1>2 DEF TypeOK

\* Greed is safe: when a part that is not the last one stands at k and, as
\* far as it may move, nowhere before, then what is left can be placed behind
\* it if and only if part and rest can be placed at all.
LEMMA Commit ==
  ASSUME TypeOK, i < Len(parts),
         NEW k \in pos..Len(text), OccursAt(parts[i], k), i = 1 => k = 0,
         \A l \in Finds(parts[i]) : (i = 1 => l = 0) => k <= l
  PROVE  Placeable(i, pos) <=> Placeable(i + 1, k + Len(parts[i]))
<1> DEFINE n == Len(parts)
           w == Len(parts[i])
<1>0. /\ n \in Nat /\ i \in 1..n /\ pos \in Nat /\ Len(text) \in Nat /\ k \in Nat
      /\ \A j \in 1..n : Len(parts[j]) \in Nat
  BY Typing
<1>1. ASSUME NEW at \in [i..n -> 0..Len(text)], Placed(at, i, pos)
      PROVE  Placeable(i + 1, k + w)
  <2> DEFINE b == [j \in i + 1..n |-> at[j]]
  <2>1. b \in [i + 1..n -> 0..Len(text)]
    BY <1>0
  <2>2. at[i] \in Finds(parts[i]) /\ (i = 1 => at[i] = 0)
    <3>1. OccursAt(parts[i], at[i]) /\ pos <= at[i] /\ (i = 1 => at[i] = 0)
      BY <1>0, <1>1 DEF Placed
    <3>2. QED
      BY <1>0, <1>1, <3>1 DEF Finds
  <2>3. k <= at[i] /\ at[i] + w <= at[i + 1]
    BY <1>0, <1>1, <2>2 DEF Placed
  <2>4. k + w <= b[i + 1]
    <3>1. at[i] \in Nat /\ at[i + 1] \in Nat /\ b[i + 1] = at[i + 1] /\ w \in Nat
      BY <1>0, <1>1
    <3>2. QED
      BY <1>0, <2>3, <3>1
  <2>5. \A j \in i + 1..n : OccursAt(parts[j], b[j])
    BY <1>0, <1>1 DEF Placed
  <2>6. \A j \in i + 1..n - 1 : b[j] + Len(parts[j]) <= b[j + 1]
    BY <1>0, <1>1 DEF Placed
  <2>7. b[n] + Len(parts[n]) = Len(text)
    BY <1>0, <1>1 DEF Placed
  <2> HIDE DEF b, w
  <2>8. Placed(b, i + 1, k + w)
    BY <1>0, <2>4, <2>5, <2>6, <2>7 DEF Placed
  <2>9. QED
    BY <2>1, <2>8 DEF Placeable
<1>2. ASSUME NEW b \in [i + 1..n -> 0..Len(text)], Placed(b, i + 1, k + w)
      PROVE  Placeable(i, pos)
  <2> DEFINE at == [j \in i..n |-> IF j = i THEN k ELSE b[j]]
  <2>1. at \in [i..n -> 0..Len(text)]
    BY <1>0
  <2>2. \A j \in i..n : OccursAt(parts[j], at[j])
    BY <1>0, <1>2 DEF Placed
  <2>3. \A j \in i..n - 1 : at[j] + Len(parts[j]) <= at[j + 1]
    <3> SUFFICES ASSUME NEW j \in i..n - 1
                 PROVE  at[j] + Len(parts[j]) <= at[j + 1]
      OBVIOUS
    <3>1. CASE j = i
      BY <1>0, <1>2, <3>1 DEF Placed
    <3>2. CASE j # i
      <4>1. j \in i + 1..n - 1 /\ at[j] = b[j] /\ at[j + 1] = b[j + 1]
        BY <1>0, <3>2
      <4>2. QED
        BY <4>1, <1>2 DEF Placed
    <3>3. QED
      BY <3>1, <3>2
  <2>4. at[n] = b[n] /\ at[i] = k /\ i <= n
    BY <1>0
  <2>5. b[n] + Len(parts[n]) = Len(text)
    BY <1>0, <1>2 DEF Placed
  <2> HIDE DEF at
  <2>6. Placed(at, i, pos)
    BY <1>0, <2>2, <2>3, <2>4, <2>5 DEF Placed
  <2>7. QED
    BY <2>1, <2>6 DEF Placeable
<1>3. QED
  BY <1>1, <1>2 DEF Placeable

\* When no place is left for a part, the rest cannot be placed.
LEMMA NoPlace ==
  ASSUME TypeOK, i <= Len(parts),
         \A l \in Finds(parts[i]) : ~(i = 1 => l = 0)
  PROVE  ~Placeable(i, pos)
<1>1. SUFFICES ASSUME NEW at \in [i..Len(parts) -> 0..Len(text)], Placed(at, i, pos)
               PROVE  FALSE
  BY DEF Placeable
<1>2. at[i] \in Finds(parts[i]) /\ (i = 1 => at[i] = 0)
  BY <1>1, Typing DEF Finds, Placed
<1>3. QED
  BY <1>2

\* The last part has one place to be.
LEMMA LastPart ==
  ASSUME TypeOK, i > 1, i = Len(parts)
  PROVE  Placeable(i, pos) <=>
           \E k \in pos..Len(text) : k + Len(parts[i]) = Len(text) /\ OccursAt(parts[i], k)
<1>1. ASSUME NEW at \in [i..Len(parts) -> 0..Len(text)], Placed(at, i, pos)
      PROVE  /\ at[i] \in pos..Len(text)
             /\ at[i] + Len(parts[i]) = Len(text) /\ OccursAt(parts[i], at[i])
  BY <1>1, Typing DEF Placed
<1>2. ASSUME NEW k \in pos..Len(text), k + Len(parts[i]) = Len(text), OccursAt(parts[i], k)
      PROVE  Placeable(i, pos)
  <2> DEFINE at == [j \in i..Len(parts) |-> k]
  <2>1. at \in [i..Len(parts) -> 0..Len(text)]
    BY Typing
  <2>2. Placed(at, i, pos)
    BY <1>2, Typing DEF Placed
  <2>3. QED
    BY <2>1, <2>2 DEF Placeable
<1>3. QED
  BY <1>1, <1>2 DEF Placeable

\* With every part placed, nothing is left to place.
LEMMA NothingLeft ==
  ASSUME TypeOK, i > Len(parts)
  PROVE  Placeable(i, pos)
<1> DEFINE at == [j \in i..Len(parts) |-> 0]
<1>1. at \in [i..Len(parts) -> 0..Len(text)]
  BY Typing
<1>2. Placed(at, i, pos)
  BY Typing DEF Placed
<1>3. QED
  BY <1>1, <1>2 DEF Placeable

\* A pattern without '*' matches itself.
LEMMA NoWildcard ==
  ASSUME TypeOK, Len(parts) = 1
  PROVE  Placeable(1, 0) <=> parts[1] = text
<1>0. parts[1] \in Seq(Chars) /\ text \in Seq(Chars) /\ Len(text) \in Nat
  BY Typing
<1>1. ASSUME NEW at \in [1..Len(parts) -> 0..Len(text)], Placed(at, 1, 0)
      PROVE  parts[1] = text
  <2>1. at[1] = 0 /\ Len(parts[1]) = Len(text)
    BY <1>0, <1>1 DEF Placed
  <2>2. \A j \in 1..Len(parts[1]) : text[j] = parts[1][j]
    BY <1>0, <1>1, <2>1 DEF Placed, OccursAt
  <2>3. QED
    BY <1>0, <2>1, <2>2
<1>2. ASSUME parts[1] = text
      PROVE  Placeable(1, 0)
  <2> DEFINE at == [j \in 1..Len(parts) |-> 0]
  <2>1. at \in [1..Len(parts) -> 0..Len(text)]
    BY <1>0
  <2>2. Placed(at, 1, 0)
    BY <1>0, <1>2 DEF Placed, OccursAt
  <2>3. QED
    BY <2>1, <2>2 DEF Placeable
<1>3. QED
  BY <1>1, <1>2 DEF Placeable
-----------------------------------------------------------------------------
\* A turn of the loop that goes on keeps the invariant when what is consumed
\* stays in the text and loses no match.
LEMMA AdvanceKeepsIInv ==
  ASSUME IInv, Looping, NEW m \in 0..Len(text), Advance(m),
         Placeable(i, pos) <=> Placeable(i + 1, m)
  PROVE  IInv'
<1>1. TypeOK' /\ LoopStart'
  BY Typing DEF IInv, TypeOK, LoopStart, Looping, Advance
<1>2. parts' = parts /\ text' = text /\ i' = i + 1 /\ pos' = m /\ verdict' = "open"
  BY DEF Advance, Looping
<1>3. Placeable(1, 0)' <=> Placeable(1, 0)
  <2>1. ASSUME NEW at PROVE Placed(at, 1, 0)' <=> Placed(at, 1, 0)
    BY <1>2 DEF Placed, OccursAt
  <2>2. QED
    BY <1>2, <2>1 DEF Placeable
<1>4. Placeable(i, pos)' <=> Placeable(i + 1, m)
  <2>1. ASSUME NEW at PROVE Placed(at, i, pos)' <=> Placed(at, i + 1, m)
    BY <1>2 DEF Placed, OccursAt
  <2>2. QED
    BY <1>2, <2>1 DEF Placeable
<1>5. Placeable(i, pos) <=> Placeable(1, 0)
  BY DEF IInv, GreedyIsSafe, Looping
<1>6. GreedyIsSafe' /\ GreedyIsExact'
  BY <1>2, <1>3, <1>4, <1>5 DEF GreedyIsSafe, GreedyIsExact
<1>7. QED
  BY <1>1, <1>6 DEF IInv

\* A return keeps the invariant when it says whether there is a match.
LEMMA ReturnKeepsIInv ==
  ASSUME IInv, NEW v \in {"yes", "no"}, Return(v), v = "yes" <=> Placeable(1, 0)
  PROVE  IInv'
<1>1. TypeOK' /\ LoopStart'
  BY DEF IInv, TypeOK, LoopStart, Return
<1>2. verdict' = v /\ parts' = parts /\ text' = text
  BY DEF Return
<1>3. Placeable(1, 0)' <=> Placeable(1, 0)
  <2>1. ASSUME NEW at PROVE Placed(at, 1, 0)' <=> Placed(at, 1, 0)
    BY <1>2 DEF Placed, OccursAt
  <2>2. QED
    BY <1>2, <2>1 DEF Placeable
<1>4. GreedyIsSafe' /\ GreedyIsExact'
  <2>1. v # "open"
    OBVIOUS
  <2>2. QED
    BY <1>2, <1>3, <2>1 DEF GreedyIsSafe, GreedyIsExact
<1>5. QED
  BY <1>1, <1>4 DEF IInv

LEMMA InitIInv == Init => IInv
<1> SUFFICES ASSUME Init PROVE IInv
  OBVIOUS
<1>1. parts \in Seq(Seq(Chars)) \ {<<>>} /\ text \in Seq(Chars)
  BY GlobMatchAssumption DEF Init
<1>2. Len(parts) \in Nat \ {0} /\ Len(text) \in Nat
  BY <1>1
<1>3. QED
  BY <1>2 DEF Init, IInv, TypeOK, LoopStart, GreedyIsSafe, GreedyIsExact

LEMMA NextKeepsIInv == IInv /\ [Next]_vars => IInv'
<1> SUFFICES ASSUME IInv, [Next]_vars PROVE IInv'
  OBVIOUS
<1>0. TypeOK
  BY DEF IInv
<1>1. CASE Literal
  <2>1. Placeable(1, 0) <=> parts[1] = text
    BY <1>0, <1>1, NoWildcard DEF Literal
  <2>2. QED
    BY <1>1, <2>1, ReturnKeepsIInv DEF Literal
<1>2. CASE Skip
  <2>1. Looping /\ parts[i] = <<>> /\ Advance(pos) /\ pos \in 0..Len(text)
    BY <1>0, <1>2, Typing DEF Skip
  <2>2. OccursAt(parts[i], pos) /\ Len(parts[i]) = 0
    BY <2>1, Typing, <1>0 DEF OccursAt
  <2>3. CASE i < Len(parts)
    <3>1. \A l \in Finds(parts[i]) : pos <= l
      BY <1>0, Typing DEF Finds
    <3>2. Placeable(i, pos) <=> Placeable(i + 1, pos + Len(parts[i]))
      BY <1>0, <2>1, <2>2, <2>3, <3>1, Typing, Commit DEF IInv, LoopStart
    <3>3. pos + Len(parts[i]) = pos
      BY <1>0, <2>2, Typing
    <3>4. QED
      BY <2>1, <3>2, <3>3, AdvanceKeepsIInv
  <2>4. CASE i = Len(parts)
    <3>1. i > 1 /\ Len(text) \in pos..Len(text) /\ Len(text) + 0 = Len(text)
      BY <1>0, <2>1, <2>4, Typing DEF Looping
    <3>2. OccursAt(parts[i], Len(text))
      BY <1>0, <2>1, <2>2, Typing DEF OccursAt
    <3>3. Placeable(i, pos)
      BY <1>0, <2>2, <2>4, <3>1, <3>2, LastPart
    <3> DEFINE at == [j \in i + 1..Len(parts) |-> 0]
    <3>4. at \in [i + 1..Len(parts) -> 0..Len(text)] /\ Placed(at, i + 1, pos)
      BY <1>0, <2>4, Typing DEF Placed
    <3>5. Placeable(i + 1, pos)
      BY <3>4 DEF Placeable
    <3>6. QED
      BY <2>1, <3>3, <3>5, AdvanceKeepsIInv
  <2>5. QED
    BY <1>0, <2>1, <2>3, <2>4, Typing DEF Looping
<1>3. CASE Anchored
  <2>1. Looping /\ i = 1 /\ pos = 0 /\ i < Len(parts) /\ Len(parts[i]) \in Nat
    BY <1>0, <1>3, Typing DEF Anchored, Looping, IInv, LoopStart
  <2>2. CASE OccursAt(parts[i], pos)
    <3>1. Advance(pos + Len(parts[i]))
      BY <1>3, <2>2 DEF Anchored
    <3>2. pos + Len(parts[i]) \in 0..Len(text) /\ pos \in pos..Len(text)
      BY <1>0, <2>1, <2>2, Typing DEF OccursAt
    <3>3. \A l \in Finds(parts[i]) : pos <= l
      BY <1>0, Typing DEF Finds
    <3>4. Placeable(i, pos) <=> Placeable(i + 1, pos + Len(parts[i]))
      BY <1>0, <2>1, <2>2, <3>2, <3>3, Commit
    <3>5. QED
      BY <2>1, <3>1, <3>2, <3>4, AdvanceKeepsIInv
  <2>3. CASE ~OccursAt(parts[i], pos)
    <3>1. Return("no")
      BY <1>3, <2>3 DEF Anchored
    <3>2. \A l \in Finds(parts[i]) : ~(i = 1 => l = 0)
      BY <2>1, <2>3 DEF Finds
    <3>3. ~Placeable(1, 0)
      BY <1>0, <2>1, <3>2, NoPlace
    <3>4. QED
      BY <3>1, <3>3, ReturnKeepsIInv
  <2>4. QED
    BY <2>2, <2>3
<1>4. CASE Final
  <2>1. verdict = "open" /\ i > 1 /\ i = Len(parts)
    BY <1>4 DEF Final, Looping
  <2>2. Placeable(i, pos) <=> Placeable(1, 0)
    BY <2>1 DEF IInv, GreedyIsSafe
  <2>3. QED
    BY <1>0, <1>4, <2>1, <2>2, LastPart, ReturnKeepsIInv DEF Final
<1>5. CASE Interior
  <2>1. Looping /\ i > 1 /\ i < Len(parts) /\ Len(parts[i]) \in Nat
    BY <1>0, <1>5, Typing DEF Interior
  <2>2. CASE Finds(parts[i]) = {} /\ Return("no")
    <3>1. (\A l \in Finds(parts[i]) : ~(i = 1 => l = 0)) /\ i <= Len(parts)
      BY <2>1, <2>2 DEF Looping
    <3>2. ~Placeable(i, pos)
      BY <1>0, <3>1, NoPlace
    <3>3. ~Placeable(1, 0)
      BY <2>1, <3>2 DEF IInv, GreedyIsSafe, Looping
    <3>4. QED
      BY <2>2, <3>3, ReturnKeepsIInv
  <2>3. ASSUME NEW k \in Finds(parts[i]),
               \A l \in Finds(parts[i]) : k <= l, Advance(k + Len(parts[i]))
        PROVE  IInv'
    <3>1. k \in pos..Len(text) /\ OccursAt(parts[i], k)
      BY DEF Finds
    <3>2. k + Len(parts[i]) \in 0..Len(text)
      BY <1>0, <2>1, <3>1, Typing DEF OccursAt
    <3>3. Placeable(i, pos) <=> Placeable(i + 1, k + Len(parts[i]))
      BY <1>0, <2>1, <2>3, <3>1, Commit
    <3>4. QED
      BY <2>1, <2>3, <3>2, <3>3, AdvanceKeepsIInv
  <2>4. QED
    BY <1>5, <2>2, <2>3 DEF Interior
<1>6. CASE Exhausted
  <2>1. Placeable(i, pos)
    BY <1>0, <1>6, NothingLeft DEF Exhausted
  <2>2. Placeable(1, 0)
    BY <1>6, <2>1 DEF Exhausted, IInv, GreedyIsSafe
  <2>3. QED
    BY <1>6, <2>2, ReturnKeepsIInv DEF Exhausted
<1>7. CASE UNCHANGED vars
  <2>1. /\ parts' = parts /\ text' = text /\ i' = i /\ pos' = pos
        /\ verdict' = verdict
    BY <1>7 DEF vars
  <2>2. (Placeable(1, 0)' <=> Placeable(1, 0)) /\ (Placeable(i, pos)' <=> Placeable(i, pos))
    <3>1. ASSUME NEW at
          PROVE  /\ Placed(at, 1, 0)' <=> Placed(at, 1, 0)
                 /\ Placed(at, i, pos)' <=> Placed(at, i, pos)
      BY <2>1 DEF Placed, OccursAt
    <3>2. QED
      BY <2>1, <3>1 DEF Placeable
  <2>3. TypeOK' /\ LoopStart'
    BY <2>1 DEF IInv, TypeOK, LoopStart
  <2>4. QED
    BY <2>1, <2>2, <2>3 DEF IInv, GreedyIsSafe, GreedyIsExact
<1>8. QED
  BY <1>1, <1>2, <1>3, <1>4, <1>5, <1>6, <1>7 DEF Next, Returned

\* glob_match says yes exactly to the texts the pattern describes, whatever
\* the pattern, the text and the alphabet.
THEOREM MatchIsExact == Spec => []GreedyIsExact
<1>1. IInv => GreedyIsExact
  BY DEF IInv
<1>2. QED
  BY InitIInv, NextKeepsIInv, <1>1, PTL DEF Spec

\* No slice text[pos..] of glob_match is out of bounds, and no part is read
\* behind the last one.
THEOREM NoPanic == Spec => []TypeOK
<1>1. IInv => TypeOK
  BY DEF IInv
<1>2. QED
  BY InitIInv, NextKeepsIInv, <1>1, PTL DEF Spec
=============================================================================
